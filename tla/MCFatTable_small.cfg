SPECIFICATION Spec
CONSTANTS
  FatSecs = 1
  SectorSize = 9
  InitialFats <- MCSmallFats
INVARIANTS TypeOK LinksInTable
PROPERTY RefinesArray
