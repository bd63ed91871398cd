\* The cleanup of a Job whose controller runs, without any fault.
SPECIFICATION Spec
CONSTANTS
  j1 = j1
  j2 = j2
  a1 = a1
  a2 = a2
  None = None
  Jobs = {j1}
  Addresses = {a1}
  Faults = {}
  KeepRJobs = FALSE
  MaxCrashes = 0
PROPERTY GatewayOutlivesController
