\* A crash after a start with an indeterminate dirty flag.
CONSTANTS
  PerBlock = 2
  TableBlocks = 2
  Values = {v0, v1}
  Fresh = v0
  Zero = Zero
  Done = Done
  None = None
  Faults = {"uninit", "crash"}
SPECIFICATION Spec
INVARIANT
  ClosedDiskIsFormatted
