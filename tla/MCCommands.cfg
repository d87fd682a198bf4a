SPECIFICATION SessionSpec
CONSTANTS
  fa = fa
  fb = fb
  da = da
  ta = ta
  tb = tb
  NC = 3
  SPC = 1
  EPS = 3
  RootSecs = 1
  FatCount = 1
  FatSecs = 1
  FileNames = {fa, fb}
  DirNames = {da}
  Split83 <- MCSame
  Tags = {ta, tb}
  Contexts = {tb}
  MaxSize = 2
  MaxDepth = 1
  MaxFaults = 1
  FileBuf = 1
  Volumes <- MCVolumes
CONSTRAINT MCUncut
VIEW MCView
INVARIANTS SuccessIsTrue FailureIsTrue CopyKeepsSource UsedSpaceIsTaken
