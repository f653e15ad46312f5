SPECIFICATION Spec
CONSTANTS
  MaxInt = 5
  Cap = 2
  Threshold = 2
  Hashes = {a, b}
  Other = other
  Open = open
  Templates = {"height_first"}
  MaxNames = 3
  MaxBegin = 2
CHECK_DEADLOCK FALSE
SYMMETRY Sym
INVARIANTS
  TypeOK
  FetchesTheRange
  FetchesOnlyTheRange
  FetchIsBounded
  WalkIsBounded
  EmptyRangeFails
