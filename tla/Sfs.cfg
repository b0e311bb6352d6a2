\* Everything that may fail does: memory, disk blocks, and a SIGTERM while
\* handles are open.  Two files and two directory blocks for three names; handles
\* are released in the end.
CONSTANTS
  NumInodes = 3
  MaxDirBlocks = 2
  Names = {a, b, c}
  NoName = NoName
  Fds = {f1, f2}
  MaxSize = 1
  LinkMod = 4
  LinkBound = 3
  Faults = {"ENOMEM", "ENOSPC", "SIGTERM"}
SPECIFICATION FairSpec
\* An assertion failure ends the process.
CHECK_DEADLOCK FALSE
INVARIANTS
  TypeOK
  LinksCoverReferences
  LinksExact
  FreeListExact
  EntriesDistinct
  StopsOnlyWhenFull
PROPERTIES
  ImplementsFileSpace
  UnlinkedFilesAreReclaimed
