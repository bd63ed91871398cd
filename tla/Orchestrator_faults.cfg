\* One Job under fairness, two Gateway addresses, every fault but the one that ends the task,
\* two crashes; and the refinement of JobLifecycle.
SPECIFICATION FairSpec
CONSTANTS
  j1 = j1
  j2 = j2
  a1 = a1
  a2 = a2
  None = None
  Jobs = {j1}
  Addresses = {a1, a2}
  Faults = {"dependency", "lost_answer", "exit", "reap", "binding", "crash"}
  KeepRJobs = FALSE
  MaxCrashes = 2
INVARIANTS
  TypeOK
  RowConsistent
  PhaseMatchesStatus
  ReasonHasEvidence
  RecordedWorkloadsReleased
PROPERTIES
  SubmitOnce
  ControllerBehindGateway
  ControllerGoesFirst
  FollowsLifecycle
  ImplementsLifecycle
