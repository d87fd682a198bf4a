SPECIFICATION Spec
CONSTANTS
  fa = fa
  fb = fb
  da = da
  ta = ta
  tb = tb
  NC = 2
  SPC = 2
  EPS = 2
  RootSecs = 1
  FatCount = 2
  FatSecs = 2
  FileNames = {fa, fb}
  DirNames = {}
  Split83 <- MCCut
  Tags = {ta}
  MaxSize = 3
  MaxDepth = 0
  MaxFaults = 1
VIEW MCWrite
INVARIANTS TypeOK ChainsOwned FilesIntact WriteReadsBack NoLostClusters  CopiesAgree
