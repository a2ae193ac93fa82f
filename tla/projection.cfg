SPECIFICATION Spec
CONSTANTS
  first = first
  second = second
  card1 = card1
  card2 = card2
  both = both
  Version = {first, second, both}
  Card = {card1, card2}
  CardsOf <- SharedCards
  Process = {p1, p2}
  None = None
  Retention = 1
  MaxRefreshes = 4
  MaxClock = 3
  MaxCrashes = 1
SYMMETRY AnyRefresh
INVARIANTS TypeOK PublishedVersionIsWhole RetainedVersionsAreWhole
CHECK_DEADLOCK FALSE
