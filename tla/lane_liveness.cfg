SPECIFICATION LiveSpec
CONSTANTS
  Id = {i1}
  Material = {a, b}
  Version = {v1, v2}
  Consumer = {c1}
  None = None
  MaxAttempts = 2
  MaxFaults = 2
  Revisit = FALSE
  SlowEffects = TRUE
INVARIANTS SettledAgreesWithCatalog LedgerMatchesBoard
PROPERTIES SilenceIsKept ListedRolesAreGraded UnlistedRolesClose
