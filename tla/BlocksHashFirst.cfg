SPECIFICATION Spec
CONSTANTS
  MaxInt = 4
  Cap = 4
  Threshold = 2
  Hashes = {a, b}
  Other = other
  Open = open
  Templates = {"hash_first"}
  MaxNames = 3
  MaxBegin = 1
CHECK_DEADLOCK FALSE
SYMMETRY Sym
INVARIANT FetchesOnlyTheRange
