\* Everything that may fail: crashes, an indeterminate dirty flag, blocks that cannot be read, blocks that cannot be written.
CONSTANTS
  PerBlock = 2
  TableBlocks = 3
  Values = {v0, v1}
  Fresh = v0
  Zero = Zero
  Done = Done
  None = None
  Faults = {"crash", "read", "write", "uninit"}
SPECIFICATION Spec
INVARIANT
  TypeOK
PROPERTY
  OnlyTheDirtyBlockIsWritten
