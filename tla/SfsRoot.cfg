\* Nothing fails.
CONSTANTS
  NumInodes = 4
  MaxDirBlocks = 2
  Names = {a, b, c}
  NoName = NoName
  Fds = {f1, f2}
  MaxSize = 1
  LinkMod = 4
  LinkBound = 3
  Faults = {}
SPECIFICATION Spec
INVARIANT
  RootHasOneLink
