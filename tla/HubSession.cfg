SPECIFICATION Spec
CONSTANTS
  c1 = c1
  c2 = c2
  c3 = c3
  k = k
  None = None
  Conns = {c1, c2, c3}
  Keys = {k}
  Threshold = 1
  MaxApplies = 1
  MaxJobs = 1
INVARIANT SessionAgrees
PROPERTY LostSessionCleared
CHECK_DEADLOCK FALSE
