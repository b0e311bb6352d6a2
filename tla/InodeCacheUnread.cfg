\* Blocks that cannot be read.
CONSTANTS
  PerBlock = 2
  TableBlocks = 2
  Values = {v0, v1}
  Fresh = v0
  Zero = Zero
  Done = Done
  None = None
  Faults = {"read"}
SPECIFICATION Spec
INVARIANT
  ReadsReturnInodes
