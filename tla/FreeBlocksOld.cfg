\* A disk file that was not made of zeroes; nothing fails.
CONSTANTS
  NumBlocks = 5
  Words = 3
  Patterns = {2}
  Leftovers = {0, 3}
  Faults = {}
SPECIFICATION Spec
INVARIANT
  OnlyFreeBlocksAreOffered
