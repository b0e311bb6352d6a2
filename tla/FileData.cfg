\* All requests within the first six bytes.
CONSTANTS
  BlockSize = 2
  MaxBlocks = 2
  MaxEnd = 6
  Bytes = {0, 1}
  Unset = Unset
  Idle = Idle
  Done = Done
  Error = Error
  Overrun = Overrun
SPECIFICATION Spec
\* An overrun is the end of what can be said.
CHECK_DEADLOCK FALSE
INVARIANTS
  TypeOK
  ReadsStayInBuffer
PROPERTY
  ImplementsByteFile
