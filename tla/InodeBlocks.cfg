\* Two inodes with two direct pointers and an index of which one word is used, and
\* three blocks, so that they run out and are recycled.
CONSTANTS
  NumBlocks = 3
  Words = 3
  Patterns = {2, 3}
  Leftovers = {0}
  Faults = {}
  Inums = {i1, i2}
  NDir = 2
  NumLogical = 3
SPECIFICATION InodesSpec
SYMMETRY InumsSymmetry
CONSTRAINT Healthy
INVARIANTS
  InodesTypeOK
  NoBlockIsShared
  EveryBlockIsAccountedFor
  ReadsReturnWrites
PROPERTY
  ImplementsBlockPool
