SPECIFICATION LiveSpec
CONSTANTS
  User = {u1}
  Role = {j1}
  Sender = {s1}
  Drain = drain
  None = None
  MinimumRoles = 2
  MaxAttempts = 2
  MaxFaults = 3
INVARIANTS TypeOK RoleReachesDeviceOnce MarkedRolesHaveReceipts
PROPERTIES WaitingPushesRest PendingRolesAreMarked
