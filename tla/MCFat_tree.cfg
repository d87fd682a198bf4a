SPECIFICATION Spec
CONSTANTS
  fa = fa
  fb = fb
  da = da
  ta = ta
  tb = tb
  NC = 2
  SPC = 1
  EPS = 3
  RootSecs = 1
  FatCount = 1
  FatSecs = 1
  FileNames = {fa}
  DirNames = {da}
  Split83 <- MCSame
  Tags = {ta, tb}
  MaxSize = 1
  MaxDepth = 2
  MaxFaults = 1
SYMMETRY MCSymmetry
VIEW MCDisk
INVARIANTS ChainsOwned FilesIntact NoLostClusters PathResolves
