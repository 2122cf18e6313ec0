CONSTANTS
  Nfo = {n1}
  Art = {a1, a2}
  Thread = {t1, t2}
  Poller = poller
  Nobody = nobody
  MaxFaults = 0
SPECIFICATION Spec
CHECK_DEADLOCK FALSE
SYMMETRY Symmetry
INVARIANT ArtIsRefreshed
