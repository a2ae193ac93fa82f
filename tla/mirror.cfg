SPECIFICATION LiveSpec
CONSTANTS
  a = a
  b = b
  Version = {a, b}
  Count <- TwoAndOne
  Name = {n1, n2}
  Operator = {o1}
  Cron = cron
  None = None
  MaxBuilds = 3
  MaxFaults = 1
INVARIANTS TypeOK MirrorIsWhole CurrentMirrorAgrees
PROPERTIES MirrorNeverGoesBack MirrorCatchesUp
CHECK_DEADLOCK FALSE
