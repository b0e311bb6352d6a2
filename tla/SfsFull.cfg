\* Nothing fails; there are as many names as the table has files, and one more.
CONSTANTS
  NumInodes = 4
  MaxDirBlocks = 4
  Names = {a, b, c, d}
  NoName = NoName
  Fds = {f1, f2}
  MaxSize = 1
  LinkMod = 4
  LinkBound = 3
  Faults = {}
SPECIFICATION Spec
INVARIANT
  FullIsReported
