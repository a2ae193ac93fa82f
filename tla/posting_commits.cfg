SPECIFICATION Spec
CONSTANTS
  Source = {o1, c1, c2}
  Official = {o1}
  NoJob = NoJob
  MaxTries = 2
  MaxObservations = 4
  MaxMarks = 1
SYMMETRY Symmetry
INVARIANTS TypeOK OutboxMatchesMarker
PROPERTIES ClosuresAreSourceLocal CommitsKeepHistory
CHECK_DEADLOCK FALSE
