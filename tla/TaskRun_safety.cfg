CONSTANTS
  Nfo = {n1, n2}
  Art = {a1}
  Thread = {t1, t2}
  Poller = poller
  Nobody = nobody
  MaxFaults = 2
SPECIFICATION Spec
CHECK_DEADLOCK FALSE
SYMMETRY Symmetry
INVARIANTS RefreshedOnce RefreshNotMissed SettledWhenDrained
