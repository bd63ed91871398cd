\* A crash after the publication, then an edit of the catalog.
SPECIFICATION Spec
CONSTANTS
  j1 = j1
  j2 = j2
  v1 = v1
  v2 = v2
  None = None
  Jobs = {j1}
  Versions = {v1}
  MaxFaults = 1
PROPERTY RecoveryReadsSnapshot
