\* Two clients, one after milestones, one after the list and the result of the session, for
\* which it polls as it is told to.
SPECIFICATION SessionFairSpec
CONSTANTS
  j1 = j1
  s1 = s1
  a1 = a1
  None = None
  Jobs = {j1}
  Sessions = {s1}
  Addresses = {a1}
  Faults = {}
  KeepRJobs = FALSE
  MaxCrashes = 0
  Artifact = TRUE
  Clients = {{"milestones"}, {"sessions", "result"}}
INVARIANTS
  SessionTypeOK
  IncompleteIsNeverSaid
  NotFoundIsFinal
PROPERTIES
  ResultsAdvance
  MilestonesAdvance
  ListedIsKnown
  PollingEnds
