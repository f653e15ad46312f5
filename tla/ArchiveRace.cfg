SPECIFICATION Spec
CONSTANTS
  r1 = r1
  r2 = r2
  Runs <- TwoRuns
  Dirs = {"."}
  WorkDir <- SameDir
  Nobody = nobody
  Writer = writer
  Dumps = {TRUE, FALSE}
  Modes = {"import"}
  MaxBegin = 2
  MaxOutage = 1
  MaxOperator = 1
CHECK_DEADLOCK FALSE
SYMMETRY Sym
INVARIANT TypeOK
PROPERTIES
  WholeDumpIsRestored
  ImplementsTarget
