SPECIFICATION Spec
CONSTANTS
  User = {u1}
  Role = {j1, j2}
  Sender = {s1}
  Drain = drain
  None = None
  MinimumRoles = 3
  MaxAttempts = 2
  MaxFaults = 0
INVARIANT AcceptedRolesWereNamed
