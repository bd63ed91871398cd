\* Two Jobs in one pass with keep_rjobs, an RJob platform that fails calls or
\* makes them raise what ends the task.
SPECIFICATION Spec
CONSTANTS
  j1 = j1
  j2 = j2
  a1 = a1
  a2 = a2
  None = None
  Jobs = {j1, j2}
  Addresses = {a1}
  Faults = {"dependency", "raise"}
  KeepRJobs = TRUE
  MaxCrashes = 0
\* a dead task is not restarted here
CHECK_DEADLOCK FALSE
SYMMETRY Symmetric
INVARIANTS
  NoOrphan
  TaskInv
PROPERTIES
  KeptUnlessClosed
