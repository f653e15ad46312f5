SPECIFICATION Spec
CONSTANTS
  r1 = r1
  r2 = r2
  v1 = v1
  v2 = v2
  Runs = {r1, r2}
  Versions = {v1, v2}
  Partial = partial
  Corrupt = corrupt
  Torn = torn
  NoFile = noFile
  NoVersion = noVersion
  Artifacts <- EveryArtifact
  MaxPublish = 2
  MaxBegin = 2
  MaxCrash = 1
CHECK_DEADLOCK FALSE
SYMMETRY Sym
INVARIANTS
  TypeOK
  SuccessIsCurrent
  SuccessIsVouched
  NoTempLeft
PROPERTIES
  ImplementsGet
  OnlyWholeFilesAppear
  CancelledDoesNotCommit
