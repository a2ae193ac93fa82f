SPECIFICATION Spec
CONSTANTS
  Id = {i1}
  Material = {a, b}
  Version = {v1}
  Consumer = {c1, c2}
  None = None
  MaxAttempts = 2
  MaxFaults = 3
  Revisit = TRUE
  SlowEffects = TRUE
SYMMETRY Symmetry
INVARIANTS TypeOK SettledAgreesWithCatalog MissedRolesClose AttemptBudget
PROPERTIES SilenceIsKept LaneKeepsItsPromise
