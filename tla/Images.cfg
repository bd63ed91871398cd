SPECIFICATION Spec
CONSTANTS
  None = None
  Threads = {t1, t2, t3}
  Images = {i1}
  Cleanup = TRUE
  MaxRuns = 5
  MaxOdd = 2
INVARIANTS OthersStay NothingLeft
CHECK_DEADLOCK FALSE
