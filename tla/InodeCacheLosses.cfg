\* Crashes, and blocks that cannot be written.
CONSTANTS
  PerBlock = 2
  TableBlocks = 3
  Values = {v0, v1}
  Fresh = v0
  Zero = Zero
  Done = Done
  None = None
  Faults = {"crash", "write"}
SPECIFICATION Spec
INVARIANTS
  CleanCacheMatchesDisk
  ClosedDiskIsFormatted
PROPERTY
  ImplementsInodeStore
