SPECIFICATION Spec
CONSTANTS
  FatSecs = 18
  SectorSize = 512
  InitialFats <- MCShippedFats
PROPERTY TakesFreeFat16Cluster
