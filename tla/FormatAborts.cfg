\* The sizes that cannot be formatted: all small disks.
CONSTANTS
  Sizes <- AllSizes
  Words = 4
  PerBlock = 2
  TableShare = 8
  Old = Old
  MaxStops = 2
SPECIFICATION Spec
\* Nothing follows a mount, a refusal or a failed assertion.
CHECK_DEADLOCK FALSE
INVARIANT
  LargeEnoughDisksAreFormatted
