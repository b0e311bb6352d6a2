\* The same inodes and blocks; an index block may be one that was not zero.
CONSTANTS
  NumBlocks = 3
  Words = 3
  Patterns = {2, 3}
  Leftovers = {0}
  Faults = {}
  Inums = {i1, i2}
  NDir = 2
  NumLogical = 3
SPECIFICATION InodesSpec
INVARIANT
  BlocksWereAllocated
