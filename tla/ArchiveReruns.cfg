SPECIFICATION FairSpec
CONSTANTS
  r1 = r1
  r2 = r2
  Runs <- OneRun
  Dirs = {r1, r2}
  WorkDir <- OwnDirs
  Nobody = nobody
  Writer = writer
  Dumps = {TRUE, FALSE}
  Modes = {"import", "skip", "fail", "skip-pg"}
  MaxBegin = 3
  MaxOutage = 1
  MaxOperator = 2
CHECK_DEADLOCK FALSE
INVARIANTS
  ArchiveIsProtected
  NonEmptyIsLeftAlone
PROPERTIES
  InterruptedIsNotProvisioned
  ProvisionedIsRestored
  RunEnds
