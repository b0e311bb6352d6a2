\* Three slabs of two descriptors.
CONSTANTS
  SlabSize = 2
  MaxSlabs = 3
  Inumbers = {i1, i2}
  NULL = NULL
SPECIFICATION Spec
\* The process ends with the pool.
CHECK_DEADLOCK FALSE
INVARIANTS
  TypeOK
  NumbersFindSlots
  FreeListSound
  GrowsOnlyWhenFull
PROPERTY
  ImplementsFdTable
