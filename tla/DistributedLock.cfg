SPECIFICATION Spec
CONSTANTS
  h1 = h1
  h2 = h2
  h3 = h3
  NoRow = NoRow
  Holders = {h1, h2}
  TTL = 2
  MaxRetries = 1
  MaxTime = 4
  StoreMayFail = TRUE
SYMMETRY Symmetry
CHECK_DEADLOCK FALSE
INVARIANTS
  TypeOK
  LeaseIsExclusive
  LeaseIsCovered
PROPERTIES
  LiveRowIsItsHolders
  IsHeldIsTrue
