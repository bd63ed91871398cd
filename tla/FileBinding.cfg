\* Two Jobs, two versions, two faults.
SPECIFICATION Spec
CONSTANTS
  j1 = j1
  j2 = j2
  v1 = v1
  v2 = v2
  None = None
  Jobs = {j1, j2}
  Versions = {v1, v2}
  MaxFaults = 2
SYMMETRY Symmetric
INVARIANTS
  TypeOK
  PublishedIsComplete
  RecordedIsPublished
  StagingIsAccounted
PROPERTIES
  PublishedIsAdopted
