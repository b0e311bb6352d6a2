----------------------------- MODULE InodeCache -----------------------------
(***************************************************************************)
(* The inode table of fs.c behind its write-back cache of one block        *)
(* (struct inode_cache), with the superblock in block 0 of the same disk.  *)
(*                                                                         *)
(* A call is one action: the callers hold the mutex of struct sfs_state,   *)
(* and the one block a call may write is written by one pwrite() before it *)
(* changes anything in memory, so a crash inside a call leaves the disk as *)
(* a crash before or after it does.  A content is one value; the position  *)
(* of an inode in its block is abstracted by indexing the cached data with *)
(* inode numbers.                                                          *)
(***************************************************************************)
EXTENDS Integers

CONSTANTS
  PerBlock,     \* inodes in a block, BLOCK_SIZE / sizeof(struct sfs_fs_inode)
  TableBlocks,  \* blocks of the inode table
  Values,       \* contents a caller writes
  Fresh,        \* the content format_fs() writes (a member of Values)
  Zero,         \* the content of a block that could not be read
  Done,         \* a write or a close returned 0
  None,         \* the call failed, or returns nothing of interest
  Faults        \* what may go wrong, see below

ASSUME LayoutAssumption ==
  /\ PerBlock \in Nat \ {0}
  /\ TableBlocks \in Nat \ {0}
ASSUME ValuesAssumption == Fresh \in Values
Contents == Values \cup {Zero}

ASSUME ZeroAssumption == Zero \notin Values
ASSUME ReplyAssumption == {Done, None} \cap Contents = {} /\ Done # None

\* "crash": the process dies; "read", "write": block_read() or block_write()
\* fails; "uninit": the cache starts with an indeterminate dirty flag, since
\* sfs_fs_open_disk() never sets it in the memory malloc() returned.
ASSUME FaultsAssumption == Faults \subseteq {"crash", "read", "write", "uninit"}

Inodes == 1..(PerBlock * TableBlocks)
Blocks == 1..TableBlocks
Replies == Contents \cup {Done, None}

\* Plausible bugs: inode numbers are taken to start at 0, or blocks are.
BlockOfNextInode(i) == i \div PerBlock + 1
BlockOfFromZero(i) == (i - 1) \div PerBlock

\* The superblock is the first block, inodes start at block index 1.
BlockOf(i) == (i - 1) \div PerBlock + 1

VARIABLES
  table,         \* table[i]: inode i on the disk
  superblock,    \* block 0 of the disk carries the signature
  mounted,       \* the filesystem is open
  block_number,  \* inode_cache.block_number, 0 when nothing is cached
  dirty,         \* inode_cache.dirty
  data,          \* inode_cache.data: the inodes of block block_number
  reply          \* what the last call returned: an inode, Done or None

cache == <<block_number, dirty, data>>
vars == <<table, superblock, mounted, cache, reply>>

TypeOK ==
  /\ table \in [Inodes -> Contents]
  /\ superblock \in BOOLEAN
  /\ mounted \in BOOLEAN
  /\ block_number \in 0..TableBlocks
  /\ dirty \in BOOLEAN
  /\ data \in [Inodes -> Contents]
  /\ reply \in Replies

NoData == [i \in Inodes |-> Zero]

\* A disk that format_fs() has written, not yet opened.
Init ==
  /\ table = [i \in Inodes |-> Fresh]
  /\ superblock = TRUE
  /\ mounted = FALSE
  /\ block_number = 0 /\ dirty = FALSE /\ data = NoData
  /\ reply = None

\* The table as the callers see it: the cached block hides the one on disk.
Logical == [i \in Inodes |-> IF BlockOf(i) = block_number THEN data[i] ELSE table[i]]

\* The indeterminate contents of the cache before its first use.
Uninitialised == IF "uninit" \in Faults THEN BOOLEAN ELSE {FALSE}

-----------------------------------------------------------------------------
(* Reading and writing the one cached block. *)

\* Plausible bug: the cache is given its new number before the old block is
\* written back, to the wrong place.
WriteBackMisplaced ==
  \/ ~dirty /\ UNCHANGED <<table, superblock>>
  \/ \E b \in Blocks : /\ dirty /\ b # block_number /\ superblock' = superblock
                       /\ table' = [i \in Inodes |-> IF BlockOf(i) = b THEN Fresh ELSE table[i]]

\* The dirty block goes to its place on the disk.  Before the first load that
\* place is block 0, and what is written there is not a superblock.
WriteBack ==
  \/ ~dirty /\ UNCHANGED <<table, superblock>>
  \/ dirty /\ table' = Logical /\ superblock' = IF block_number = 0 THEN FALSE ELSE superblock

\* Plausible bug: a block that could not be written is given up.
WriteBackFailsForgets ==
  /\ dirty /\ "write" \in Faults /\ UNCHANGED <<table, superblock>>
  /\ block_number' = 0 /\ dirty' = FALSE /\ data' = NoData

WriteBackFails == dirty /\ "write" \in Faults /\ UNCHANGED <<table, superblock, cache>>

\* What block_read() of block b puts into the cache.
Loaded(b) == [i \in Inodes |-> IF BlockOf(i) = b THEN table'[i] ELSE Zero]

-----------------------------------------------------------------------------
(* The operations. *)

\* sfs_fs_read_inode() of an inode in the cached block.
ReadHit(i) ==
  /\ block_number = BlockOf(i)
  /\ reply' = data[i]
  /\ UNCHANGED <<table, superblock, cache>>

\* ... and of any other.  When the block cannot be read the cache keeps its
\* number, clean, with zeroes for data.
ReadMiss(i) ==
  /\ block_number # BlockOf(i)
  /\ \/ /\ WriteBack
        /\ block_number' = BlockOf(i) /\ dirty' = FALSE
        /\ \/ data' = Loaded(BlockOf(i)) /\ reply' = data'[i]
           \/ "read" \in Faults /\ data' = NoData /\ reply' = None
     \/ WriteBackFails /\ reply' = None

ReadInode(i) == mounted /\ mounted' = mounted /\ (ReadHit(i) \/ ReadMiss(i))

WriteHit(i, v) ==
  /\ block_number = BlockOf(i)
  /\ data' = [data EXCEPT ![i] = v] /\ dirty' = TRUE /\ reply' = Done
  /\ UNCHANGED <<table, superblock, block_number>>

\* Plausible bug: the block is not marked dirty when it has just been loaded.
WriteMissClean(i, v) ==
  /\ block_number # BlockOf(i)
  /\ WriteBack
  /\ block_number' = BlockOf(i)
  /\ dirty' = FALSE /\ data' = [Loaded(BlockOf(i)) EXCEPT ![i] = v]
  /\ reply' = Done

\* The rest of the new block is read before the inode is stored in it.  When it
\* cannot be read the cache keeps its number and its dirty flag, with zeroes.
WriteMiss(i, v) ==
  /\ block_number # BlockOf(i)
  /\ \/ /\ WriteBack
        /\ block_number' = BlockOf(i)
        /\ \/ /\ dirty' = TRUE /\ data' = [Loaded(BlockOf(i)) EXCEPT ![i] = v]
              /\ reply' = Done
           \/ "read" \in Faults /\ dirty' = dirty /\ data' = NoData /\ reply' = None
     \/ WriteBackFails /\ reply' = None

\* sfs_fs_write_inode()
WriteInode(i, v) ==
  /\ mounted /\ mounted' = mounted
  /\ WriteHit(i, v) \/ WriteMiss(i, v)

\* write_superblock(), which inode and block allocation call.
WriteSuperblock ==
  /\ mounted
  /\ superblock' = TRUE \/ ("write" \in Faults /\ superblock' = superblock)
  /\ reply' = None
  /\ UNCHANGED <<table, mounted, cache>>

\* sfs_fs_open_disk(): a disk without the signature is formatted.
OpenDisk ==
  /\ ~mounted
  /\ mounted' = TRUE
  /\ \/ superblock /\ table' = table
     \/ ~superblock /\ table' = [i \in Inodes |-> Fresh]
  /\ superblock' = TRUE
  /\ block_number' = 0 /\ data' = NoData
  /\ dirty' \in Uninitialised
  /\ reply' = None

\* The cache dies with the process.
DropCache == /\ mounted' = FALSE
             /\ block_number' = 0 /\ dirty' = FALSE /\ data' = NoData

\* sfs_fs_close(): the dirty block, then the superblock.  If the first write
\* fails the second is not tried; if the second fails the call still returns 0.
Close ==
  /\ mounted
  /\ \/ superblock' = TRUE /\ table' = (IF dirty THEN Logical ELSE table) /\ reply' = Done
     \/ "write" \in Faults /\ WriteBack /\ reply' = Done
     \/ "write" \in Faults /\ dirty /\ UNCHANGED <<table, superblock>> /\ reply' = None
  /\ DropCache

Crash == /\ mounted /\ "crash" \in Faults
         /\ UNCHANGED <<table, superblock>>
         /\ DropCache /\ reply' = None

Next == \/ \E i \in Inodes : ReadInode(i) \/ \E v \in Values : WriteInode(i, v)
        \/ WriteSuperblock
        \/ OpenDisk
        \/ Close
        \/ Crash

Spec == Init /\ [][Next]_vars
-----------------------------------------------------------------------------
(* Properties. *)

\* A clean cached block is the block on the disk, so that dropping it without a
\* write, as sfs_fs_read_inode() does, loses nothing.
CleanCacheMatchesDisk ==
  ~dirty => \A i \in Inodes : BlockOf(i) = block_number => data[i] = table[i]

\* A read returns the last write, across evictions, failed calls, closes and opens (fs.h:
\* "reads inode |inumber| from |fs|", "writes inode |inumber| to |fs|", "flushes
\* buffers").  Only a crash, or a sfs_fs_close() that returns -1, loses writes, to the
\* inodes of one block, which go back to what was last written to the disk; a
\* write-back that fails in a read or a write (fs.c:320, 354) loses nothing.
Abstract == INSTANCE InodeStore WITH
  store <- Logical,
  saved <- table,
  running <- mounted,
  MayLose <- Faults \cap {"crash", "write"} # {}
ImplementsInodeStore == Abstract!Spec

\* Whatever fails, a block of the table changes on the disk only by writing back
\* the cached block, dirty, to its own place (the eviction in sfs_fs_read_inode()
\* and sfs_fs_write_inode() happens before the cache is given its new number), or
\* by formatting a disk that is being opened.
OnlyTheDirtyBlockIsWritten ==
  [][(mounted \/ superblock) =>
       \A i \in Inodes : table'[i] # table[i] => dirty /\ BlockOf(i) = block_number]_vars

\* fs.c:187, "mark unsetup field values": an empty cache is never taken for
\* block 0, so the disk of a filesystem that is not running has its signature.
ClosedDiskIsFormatted == ~mounted => superblock

\* fs.h:107, "reads inode |inumber| from |fs| ... returns 0 if OK, otherwise -1": what a
\* successful read returns was stored there by a write or by formatting.
ReadsReturnInodes == reply # Zero
=============================================================================
