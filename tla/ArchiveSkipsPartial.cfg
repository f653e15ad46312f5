SPECIFICATION FairSpec
CONSTANTS
  r1 = r1
  r2 = r2
  Runs <- OneRun
  Dirs = {r1, r2}
  WorkDir <- OwnDirs
  Nobody = nobody
  Writer = writer
  Dumps = {TRUE}
  Modes = {"skip"}
  MaxBegin = 2
  MaxOutage = 0
  MaxOperator = 0
CHECK_DEADLOCK FALSE
PROPERTY SkippedOverArchive
