SPECIFICATION Spec
CONSTANTS
  Id = {i1}
  Material = {a, b}
  Version = {v1}
  Consumer = {c1}
  None = None
  MaxAttempts = 2
  MaxFaults = 3
  Revisit = TRUE
  SlowEffects = TRUE
SYMMETRY Symmetry
INVARIANTS ReturningBoardIsActive
