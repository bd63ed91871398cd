\* A create whose answer is lost, then a close.
SPECIFICATION Spec
CONSTANTS
  j1 = j1
  j2 = j2
  a1 = a1
  a2 = a2
  None = None
  Jobs = {j1}
  Addresses = {a1}
  Faults = {"lost_answer"}
  KeepRJobs = FALSE
  MaxCrashes = 0
INVARIANT ClosedMeansReleased
