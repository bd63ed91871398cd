\* One session of two model calls and four rows.
SPECIFICATION Spec
CONSTANTS
  MaxSteps = 2
  MaxRows = 4
INVARIANTS
  TypeOK
  KnownIsFound
  EndIsTrue
PROPERTIES
  NumbersAreStable
  SealedIsComplete
  ResultsAdvance
