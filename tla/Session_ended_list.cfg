\* The session list of a Job that failed.
SPECIFICATION SessionSpec
CONSTANTS
  j1 = j1
  s1 = s1
  a1 = a1
  None = None
  Jobs = {j1}
  Sessions = {s1}
  Addresses = {a1}
  Faults = {}
  KeepRJobs = FALSE
  MaxCrashes = 0
  Artifact = FALSE
  Clients = {{"sessions"}}
PROPERTY EndedListIsFinal
