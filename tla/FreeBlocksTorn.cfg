\* A free that stops half way.
CONSTANTS
  NumBlocks = 6
  Words = 3
  Patterns = {2}
  Leftovers = {0}
  Faults = {}
SPECIFICATION TornSpec
INVARIANT
  OnlyFreeBlocksAreOffered
