\* Writes fail and the process dies, except inside an append.  Five blocks take two
\* index nodes, of which the second is not full.
CONSTANTS
  NumBlocks = 5
  Words = 3
  Patterns = {2, 5}
  Leftovers = {0}
  Faults = {"write", "crash"}
SPECIFICATION Spec
INVARIANTS
  TypeOK
  ListIsSound
  NoHeldBlockIsFree
PROPERTY
  ImplementsBlockPool
