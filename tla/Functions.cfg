SPECIFICATION MCSpec
CONSTANTS
  Alphabet = {"0", "1", "a", "~", "-", ":"}
  MaxLength = 4
  MaxTotal = 6
  MaxParts = 4
  headerLines = 4
  None = None
  Letters <- MCLetters
  Code <- MCCode
  Symbols <- MCSymbols
  hourOrder <- MCHourOrder
  Fold <- MCFold
  AllKinds <- MCKinds
CHECK_DEADLOCK FALSE
INVARIANTS
  ComparesLikeDpkg
  PrefixIsLongest
  NewestIsFound
  RestoresIntoTarget
  FilterIsCreateInPlace
  MergeOverlays
  NamedFileIsRead
