SPECIFICATION SpecKeyed
CONSTANTS
  MaxJob = 2
  Path = {p1, p2, p3}
  Thread = {t1, t2}
  Nobody = Nobody
  MaxFaults = 3
  Batch = 2
  BatchJobs = 3
  BatchFaults = 1
SYMMETRY Symmetry
INVARIANTS FiredOnce DoneIsRefreshed OneWriter CurrentOrDue
CHECK_DEADLOCK FALSE
