SPECIFICATION LiveSpec
CONSTANTS
  i1 = i1
  Sources = 2
  Id = {i1}
  SourceOf <- OneSource
  Key = {k1, k2}
  None = None
  SourceLimit = 2
  MaxCopies = 2
  MaxFaults = 1
INVARIANTS TypeOK FreshHandoffsAreCarried FreshHandoffsAreDisjoint
PROPERTIES DueRowsMove SweepReachesEverySource
