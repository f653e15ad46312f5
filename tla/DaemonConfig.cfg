SPECIFICATION Spec
CONSTANTS
  old = old
  bare = bare
  new = new
  rebuilt = rebuilt
  undigested = undigested
  Packages <- Builds
  VersionOf <- Numbers
  Carries <- ConfigFiles
  Undigested = {undigested}
  Layouts <- SomeLayouts
  None = none
  NoFile = noFile
  Partial = partial
  MaxPublish = 5
  MaxBegin = 2
CHECK_DEADLOCK FALSE
INVARIANTS
  TypeOK
  HighestUnlessMissed
PROPERTIES
  ProvisionedIsWhole
  OnlyVerifiedBytes
