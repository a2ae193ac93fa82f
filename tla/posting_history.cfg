SPECIFICATION Spec
CONSTANTS
  Source = {o1, c1}
  Official = {o1}
  NoJob = NoJob
  MaxTries = 2
  MaxObservations = 4
  MaxMarks = 1
PROPERTIES HistoryIsNeverErased
CHECK_DEADLOCK FALSE
