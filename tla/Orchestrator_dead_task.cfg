\* An RJob call that raises something else than RJobDependencyError.
SPECIFICATION FairSpec
CONSTANTS
  j1 = j1
  j2 = j2
  a1 = a1
  a2 = a2
  None = None
  Jobs = {j1}
  Addresses = {a1}
  Faults = {"raise"}
  KeepRJobs = FALSE
  MaxCrashes = 0
\* a dead task is the point of this run
CHECK_DEADLOCK FALSE
PROPERTY CleanupDrains
