\* Any number of crashes, at every step of every handler.
CONSTANTS
  NumInodes = 4
  PerBlock = 2
  MaxDirBlocks = 3
  MaxOpen = 1
  LinkBound = 3
SPECIFICATION Spec
CONSTRAINT Untainted
INVARIANTS
  TypeOK
  DiskSurvivesCrash
  NamesSurviveCrash
