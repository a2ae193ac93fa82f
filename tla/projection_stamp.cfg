SPECIFICATION Spec
CONSTANTS
  first = first
  second = second
  card1 = card1
  card2 = card2
  both = both
  Version = {first, second}
  Card = {card1, card2}
  CardsOf <- OwnCards
  Process = {p1, p2, p3}
  None = None
  Retention = 1
  MaxRefreshes = 3
  MaxClock = 3
  MaxCrashes = 0
SYMMETRY AnyRefresh
INVARIANTS PublishedVersionIsWhole
CHECK_DEADLOCK FALSE
