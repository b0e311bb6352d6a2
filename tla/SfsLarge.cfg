\* Everything that may fail does: memory, disk blocks, and a SIGTERM while
\* handles are open.  Three files, for which the directory is too small.
CONSTANTS
  NumInodes = 4
  MaxDirBlocks = 2
  Names = {a, b, c}
  NoName = NoName
  Fds = {f1, f2}
  MaxSize = 1
  LinkMod = 4
  LinkBound = 3
  Faults = {"ENOMEM", "ENOSPC", "SIGTERM"}
SPECIFICATION Spec
SYMMETRY NamesAndFds
\* An assertion failure ends the process.
CHECK_DEADLOCK FALSE
INVARIANTS
  TypeOK
  LinksCoverReferences
  LinksExact
  FreeListExact
  EntriesDistinct
  StopsOnlyWhenFull
PROPERTY
  ImplementsFileSpace
