SPECIFICATION Spec
CONSTANTS
  Source = {o1, c1}
  Official = {o1}
  NoJob = NoJob
  MaxTries = 2
  MaxObservations = 6
  MaxMarks = 0
PROPERTIES RoleRemainsOpen
CHECK_DEADLOCK FALSE
