-------------------------- MODULE InodeCacheProofs --------------------------
(***************************************************************************)
(* Proofs about InodeCache, for every size of the table and of a block.    *)
(***************************************************************************)
EXTENDS InodeCache, TLAPS

\* Every inode lies in a block of the table, never in the superblock.
LEMMA BlockOfType == \A i \in Inodes : BlockOf(i) \in Blocks
<1> SUFFICES ASSUME NEW i \in Inodes
             PROVE  BlockOf(i) \in Blocks
  OBVIOUS
<1> DEFINE q == (i - 1) \div PerBlock
<1>1. PerBlock \in Nat /\ PerBlock > 0 /\ TableBlocks \in Nat
  BY LayoutAssumption
<1>2. i \in Int /\ i >= 1 /\ i <= PerBlock * TableBlocks
  BY <1>1 DEF Inodes
<1>3. q \in Int /\ q >= 0 /\ PerBlock * q <= i - 1
  BY <1>1, <1>2
<1>4. q < TableBlocks
  <2> SUFFICES ASSUME q >= TableBlocks
               PROVE  FALSE
    BY <1>1, <1>3
  <2> HIDE DEF q
  <2>1. PerBlock * q >= PerBlock * TableBlocks
    BY <1>1, <1>3
  <2> QED BY <1>1, <1>2, <1>3, <2>1
<1> QED BY <1>1, <1>3, <1>4 DEF BlockOf, Blocks

\* Block number 0 stands for an empty cache.
LEMMA ZeroIsBlock == 0 \in 0..TableBlocks
BY LayoutAssumption

\* What a load puts into the cache, and what a write-back leaves on the disk, are
\* tables of inode contents.
LEMMA TableTypes ==
  ASSUME TypeOK
  PROVE  /\ Logical \in [Inodes -> Contents]
         /\ NoData \in [Inodes -> Contents]
         /\ WriteBack => table' \in [Inodes -> Contents] /\ superblock' \in BOOLEAN
         /\ \A b : table' \in [Inodes -> Contents] => Loaded(b) \in [Inodes -> Contents]
BY DEF TypeOK, Logical, NoData, WriteBack, Loaded, Contents

\* Type correctness of the disk, the cache and the replies of fs.c.
THEOREM TypeCorrect == Spec => []TypeOK
<1>1. Init => TypeOK
  <2>1. NoData \in [Inodes -> Contents] /\ [i \in Inodes |-> Fresh] \in [Inodes -> Contents]
    BY ValuesAssumption DEF NoData, Contents
  <2> QED BY <2>1, ZeroIsBlock, Zenon DEF Init, TypeOK, Replies
<1>2. TypeOK /\ [Next]_vars => TypeOK'
  <2> SUFFICES ASSUME TypeOK, [Next]_vars
               PROVE  TypeOK'
    OBVIOUS
  <2> USE TableTypes, BlockOfType
  <2>1. ASSUME NEW i \in Inodes, ReadInode(i)
        PROVE  TypeOK'
    <3>1. CASE ReadHit(i)
      BY <2>1, <3>1 DEF ReadInode, ReadHit, TypeOK, Replies, cache
    <3>2. CASE ReadMiss(i)
      <4>1. CASE WriteBackFails /\ reply' = None
        BY <2>1, <4>1 DEF ReadInode, WriteBackFails, TypeOK, Replies, cache
      <4>2. CASE WriteBack /\ block_number' = BlockOf(i) /\ dirty' = FALSE
        <5>1. table' \in [Inodes -> Contents] /\ superblock' \in BOOLEAN
          BY <4>2
        <5>2. block_number' \in 0..TableBlocks
          BY <4>2, LayoutAssumption DEF Blocks
        <5>3. data' \in [Inodes -> Contents] /\ reply' \in Replies
          BY <3>2, <4>2, <5>1 DEF ReadMiss, WriteBackFails, TypeOK, Replies, cache
        <5> QED BY <2>1, <4>2, <5>1, <5>2, <5>3 DEF ReadInode, TypeOK
      <4> QED BY <3>2, <4>1, <4>2 DEF ReadMiss
    <3> QED BY <2>1, <3>1, <3>2 DEF ReadInode
  <2>2. ASSUME NEW i \in Inodes, NEW v \in Values, WriteInode(i, v)
        PROVE  TypeOK'
    <3>1. CASE WriteHit(i, v)
      BY <2>2, <3>1 DEF WriteInode, WriteHit, TypeOK, Contents, Replies
    <3>2. CASE WriteMiss(i, v)
      <4>1. CASE WriteBackFails /\ reply' = None
        BY <2>2, <4>1 DEF WriteInode, WriteBackFails, TypeOK, Replies, cache
      <4>2. CASE WriteBack /\ block_number' = BlockOf(i) /\ ~(WriteBackFails /\ reply' = None)
        <5>1. table' \in [Inodes -> Contents] /\ superblock' \in BOOLEAN
          BY <4>2
        <5>2. block_number' \in 0..TableBlocks
          BY <4>2, LayoutAssumption DEF Blocks
        <5>3. data' \in [Inodes -> Contents] /\ dirty' \in BOOLEAN /\ reply' \in Replies
          <6>1. Loaded(BlockOf(i)) \in [Inodes -> Contents] /\ v \in Contents
            BY <5>1 DEF Contents
          <6> QED BY <3>2, <4>2, <6>1 DEF WriteMiss, TypeOK, Replies
        <5> QED BY <2>2, <4>2, <5>1, <5>2, <5>3 DEF WriteInode, TypeOK
      <4> QED BY <3>2, <4>1, <4>2 DEF WriteMiss
    <3> QED BY <2>2, <3>1, <3>2 DEF WriteInode
  <2>3. CASE WriteSuperblock
    BY <2>3 DEF WriteSuperblock, TypeOK, Replies, cache
  <2>4. CASE OpenDisk
    <3>1. [i \in Inodes |-> Fresh] \in [Inodes -> Contents]
      BY ValuesAssumption DEF Contents
    <3> QED BY <2>4, <3>1, ZeroIsBlock, Zenon DEF OpenDisk, TypeOK, Replies, Uninitialised
  <2>5. DropCache => /\ mounted' \in BOOLEAN /\ block_number' \in 0..TableBlocks
                     /\ dirty' \in BOOLEAN /\ data' \in [Inodes -> Contents]
    BY ZeroIsBlock, Zenon DEF DropCache
  <2>6. CASE Close
    <3>1. table' \in [Inodes -> Contents] /\ superblock' \in BOOLEAN /\ reply' \in Replies
      BY <2>6 DEF Close, TypeOK, Replies
    <3> QED BY <2>5, <2>6, <3>1 DEF Close, TypeOK
  <2>7. CASE Crash
    BY <2>5, <2>7 DEF Crash, TypeOK, Replies
  <2>8. CASE UNCHANGED vars
    BY <2>8 DEF vars, cache, TypeOK
  <2> QED BY <2>1, <2>2, <2>3, <2>4, <2>6, <2>7, <2>8 DEF Next
<1> QED BY <1>1, <1>2, PTL DEF Spec

\* Whatever fails, a block of the table is only ever overwritten by the dirty block
\* that the cache holds of it, or by formatting (the eviction order of
\* sfs_fs_read_inode() and sfs_fs_write_inode()).
THEOREM DirtyBlockOnly == Spec => OnlyTheDirtyBlockIsWritten
<1> DEFINE Kept == \A i \in Inodes : table'[i] # table[i] => dirty /\ BlockOf(i) = block_number
<1>1. [Next]_vars /\ (mounted \/ superblock) => Kept
  <2> SUFFICES ASSUME [Next]_vars, mounted \/ superblock
               PROVE  Kept
    OBVIOUS
  <2>1. ASSUME WriteBack \/ table' = table \/ (dirty /\ table' = Logical)
        PROVE  Kept
    BY <2>1 DEF WriteBack, Logical
  <2>2. ASSUME NEW i \in Inodes, ReadInode(i)
        PROVE  Kept
    BY <2>1, <2>2 DEF ReadInode, ReadHit, ReadMiss, WriteBackFails
  <2>3. ASSUME NEW i \in Inodes, NEW v \in Values, WriteInode(i, v)
        PROVE  Kept
    BY <2>1, <2>3 DEF WriteInode, WriteHit, WriteMiss, WriteBackFails
  <2>4. CASE WriteSuperblock
    BY <2>1, <2>4 DEF WriteSuperblock
  <2>5. CASE OpenDisk
    BY <2>1, <2>5 DEF OpenDisk
  <2>6. CASE Close
    BY <2>1, <2>6 DEF Close
  <2>7. CASE Crash
    BY <2>1, <2>7 DEF Crash
  <2>8. CASE UNCHANGED vars
    BY <2>1, <2>8 DEF vars
  <2> QED BY <2>2, <2>3, <2>4, <2>5, <2>6, <2>7, <2>8 DEF Next
<1> QED BY <1>1, PTL DEF Spec, OnlyTheDirtyBlockIsWritten

-----------------------------------------------------------------------------
(* The cache is transparent. *)

\* With blocks that can always be read, a clean cached block equals its disk block:
\* the load of sfs_fs_read_inode() and sfs_fs_write_inode() copies it, and every
\* store into the cache sets the dirty flag.
THEOREM CleanBlock == "read" \notin Faults /\ Spec => []CleanCacheMatchesDisk
<1> SUFFICES ASSUME "read" \notin Faults
             PROVE  Spec => []CleanCacheMatchesDisk
  OBVIOUS
<1>0. ASSUME block_number = 0
      PROVE  \A i \in Inodes : BlockOf(i) # block_number
  BY <1>0, BlockOfType DEF Blocks
<1>1. Init => CleanCacheMatchesDisk
  BY <1>0 DEF Init, CleanCacheMatchesDisk
<1>2. CleanCacheMatchesDisk /\ [Next]_vars => CleanCacheMatchesDisk'
  <2> SUFFICES ASSUME CleanCacheMatchesDisk, [Next]_vars
               PROVE  CleanCacheMatchesDisk'
    OBVIOUS
  <2>0. block_number' = 0 => \A i \in Inodes : BlockOf(i) # block_number'
    BY BlockOfType DEF Blocks
  <2>1. ASSUME NEW i \in Inodes, ReadInode(i)
        PROVE  CleanCacheMatchesDisk'
    <3>1. CASE ReadHit(i)
      BY <3>1 DEF ReadHit, cache, CleanCacheMatchesDisk
    <3>2. CASE ReadMiss(i)
      BY <3>2 DEF ReadMiss, Loaded, WriteBackFails, cache, CleanCacheMatchesDisk
    <3> QED BY <2>1, <3>1, <3>2 DEF ReadInode
  <2>2. ASSUME NEW i \in Inodes, NEW v \in Values, WriteInode(i, v)
        PROVE  CleanCacheMatchesDisk'
    BY <2>2 DEF WriteInode, WriteHit, WriteMiss, WriteBackFails, cache, CleanCacheMatchesDisk
  <2>3. CASE WriteSuperblock
    BY <2>3 DEF WriteSuperblock, cache, CleanCacheMatchesDisk
  <2>4. CASE OpenDisk
    BY <2>0, <2>4 DEF OpenDisk, CleanCacheMatchesDisk
  <2>5. CASE Close
    BY <2>0, <2>5 DEF Close, DropCache, CleanCacheMatchesDisk
  <2>6. CASE Crash
    BY <2>0, <2>6 DEF Crash, DropCache, CleanCacheMatchesDisk
  <2>7. CASE UNCHANGED vars
    BY <2>7 DEF vars, cache, CleanCacheMatchesDisk
  <2> QED BY <2>1, <2>2, <2>3, <2>4, <2>5, <2>6, <2>7 DEF Next
<1> QED BY <1>1, <1>2, PTL DEF Spec

\* The failures under which the cache keeps its promise: blocks can be read, and
\* an indeterminate dirty flag does not meet a crash or a failed write.
Benign == /\ "read" \notin Faults
          /\ "uninit" \in Faults => Faults \cap {"crash", "write"} = {}

\* What is on the disk and in the cache are inodes, and a disk that is not open
\* carries the signature, so that it is not formatted again.
Sane == /\ \A i \in Inodes : table[i] \in Values
        /\ \A i \in Inodes : BlockOf(i) = block_number => data[i] \in Values
        /\ ~mounted => superblock /\ block_number = 0
        /\ "uninit" \notin Faults => superblock /\ (dirty => block_number # 0)

\* The disk keeps its signature and its inodes while the failures are benign.
LEMMA SaneInvariant == Benign /\ Spec => []Sane
<1> SUFFICES ASSUME Benign
             PROVE  Spec => []Sane
  OBVIOUS
<1>0. \A i \in Inodes : BlockOf(i) # 0
  BY BlockOfType DEF Blocks
<1>1. Init => Sane
  BY <1>0, ValuesAssumption DEF Init, Sane
<1>2. Sane /\ [Next]_vars => Sane'
  <2> SUFFICES ASSUME Sane, [Next]_vars
               PROVE  Sane'
    OBVIOUS
  <2>1. \A i \in Inodes : Logical[i] \in Values
    BY DEF Logical, Sane
  <2>2. WriteBack => /\ \A i \in Inodes : table'[i] \in Values
                     /\ "uninit" \notin Faults => superblock'
    <3>1. WriteBack => \A i \in Inodes : table'[i] \in Values
      BY <2>1 DEF WriteBack, Sane
    <3>2. WriteBack /\ "uninit" \notin Faults => superblock'
      BY Zenon DEF WriteBack, Sane
    <3> QED BY <3>1, <3>2
  <2>3. ASSUME NEW i \in Inodes, ReadInode(i)
        PROVE  Sane'
    <3>1. CASE ReadHit(i)
      BY <2>3, <3>1 DEF ReadInode, ReadHit, cache, Sane
    <3>2. CASE ReadMiss(i)
      BY <1>0, <2>2, <2>3, <3>2 DEF ReadInode, ReadMiss, Loaded, WriteBackFails, cache, Sane, Benign
    <3> QED BY <2>3, <3>1, <3>2 DEF ReadInode
  <2>4. ASSUME NEW i \in Inodes, NEW v \in Values, WriteInode(i, v)
        PROVE  Sane'
    <3>1. CASE WriteHit(i, v)
      <4>1. \A j \in Inodes : BlockOf(j) = block_number' => data'[j] \in Values
        BY <3>1 DEF WriteHit, Sane
      <4> QED BY <1>0, <2>4, <3>1, <4>1 DEF WriteInode, WriteHit, Sane
    <3>2. CASE WriteMiss(i, v)
      <4>1. CASE WriteBackFails
        BY <2>4, <4>1 DEF WriteInode, WriteBackFails, cache, Sane
      <4>2. CASE /\ WriteBack /\ block_number' = BlockOf(i)
                 /\ dirty' = TRUE /\ data' = [Loaded(BlockOf(i)) EXCEPT ![i] = v]
        <5>1. \A j \in Inodes : BlockOf(j) = block_number' => data'[j] \in Values
          BY <2>2, <4>2 DEF Loaded
        <5> QED BY <1>0, <2>2, <2>4, <4>2, <5>1 DEF WriteInode, Sane
      <4> QED BY <3>2, <4>1, <4>2 DEF WriteMiss, Benign
    <3> QED BY <2>4, <3>1, <3>2 DEF WriteInode
  <2>5. CASE WriteSuperblock
    BY <2>5 DEF WriteSuperblock, cache, Sane
  <2>6. CASE OpenDisk
    BY <1>0, <2>6 DEF OpenDisk, Uninitialised, Sane
  <2>7. CASE Close
    BY <1>0, <2>1, <2>2, <2>7 DEF Close, DropCache, Sane, Benign
  <2>8. CASE Crash
    BY <1>0, <2>8 DEF Crash, DropCache, Sane, Benign
  <2>9. CASE UNCHANGED vars
    BY <2>9 DEF vars, cache, Sane
  <2> QED BY <2>3, <2>4, <2>5, <2>6, <2>7, <2>8, <2>9 DEF Next
<1> QED BY <1>1, <1>2, PTL DEF Spec

\* A load after a write-back does not change the table that callers see.
LEMMA LoadIsTransparent ==
  ASSUME CleanCacheMatchesDisk, WriteBack, NEW b,
         block_number' = b, data' = Loaded(b)
  PROVE  Logical' = Logical
<1>1. \A i \in Inodes : Logical'[i] = Logical[i]
  BY DEF CleanCacheMatchesDisk, WriteBack, Loaded, Logical
<1> QED BY <1>1 DEF Logical

\* Inodes that differ from the disk lie in the cached block.
LEMMA UnsavedInOneBlock ==
  \A i, j \in Inodes : Logical'[i] # table'[i] /\ Logical'[j] # table'[j] => BlockOf(i) = BlockOf(j)
BY DEF Logical

\* Refinement: sfs_fs_read_inode() returns what sfs_fs_write_inode() last stored,
\* across evictions, failing calls, sfs_fs_close() and sfs_fs_open_disk(); only a crash
\* or a failed sfs_fs_close() takes the table back, to what the disk has, and that is
\* in one block.
THEOREM CacheImplementsStore == Benign /\ Spec => ImplementsInodeStore
<1> SUFFICES ASSUME Benign
             PROVE  Spec => ImplementsInodeStore
  OBVIOUS
<1>0. \A i \in Inodes : BlockOf(i) # 0
  BY BlockOfType DEF Blocks
<1>1. Init => Abstract!Init
  BY <1>0 DEF Init, Abstract!Init, Logical
<1>2. ASSUME TypeOK, TypeOK', CleanCacheMatchesDisk, Sane, Sane', [Next]_vars
      PROVE  [Abstract!Next]_(Abstract!vars)
  <2> USE <1>2
  <2>1. ASSUME mounted, mounted' = mounted, table' \in {table, Logical}
        PROVE  Abstract!Call
    BY <2>1, UnsavedInOneBlock DEF Abstract!Call
  <2>2. WriteBack => table' \in {table, Logical}
    BY DEF WriteBack
  <2>3. ASSUME Abstract!Call, Logical' = Logical, reply' = None
        PROVE  Abstract!Next
    BY <2>3 DEF Abstract!Next, Abstract!Other
  <2>4. ASSUME UNCHANGED <<table, cache>>
        PROVE  Logical' = Logical
    BY <2>4 DEF Logical, cache
  <2>5. ASSUME mounted, mounted' = mounted, WriteBackFails, reply' = None
        PROVE  Abstract!Next
    BY <2>1, <2>3, <2>4, <2>5 DEF WriteBackFails
  <2>6. ASSUME NEW i \in Inodes, ReadInode(i)
        PROVE  Abstract!Next
    <3>1. ASSUME Abstract!Call, Logical' = Logical, reply' = Logical[i]
          PROVE  Abstract!Next
      BY <3>1 DEF Abstract!Next, Abstract!Read
    <3>2. mounted /\ mounted' = mounted
      BY <2>6 DEF ReadInode
    <3>3. CASE ReadHit(i)
      <4>1. Abstract!Call
        BY <2>1, <3>2, <3>3 DEF ReadHit
      <4> QED BY <2>4, <3>1, <3>3, <4>1 DEF ReadHit, Logical
    <3>4. CASE WriteBackFails /\ reply' = None
      BY <2>5, <3>2, <3>4
    <3>5. CASE /\ WriteBack /\ block_number' = BlockOf(i)
               /\ data' = Loaded(BlockOf(i)) /\ reply' = data'[i]
      <4>1. Logical' = Logical
        BY <3>5, LoadIsTransparent
      <4>2. reply' = Logical'[i]
        BY <3>5 DEF Logical
      <4>3. Abstract!Call
        BY <2>1, <2>2, <3>2, <3>5
      <4> QED BY <3>1, <4>1, <4>2, <4>3
    <3> QED BY <2>6, <3>3, <3>4, <3>5 DEF ReadInode, ReadMiss, Benign
  <2>7. ASSUME NEW i \in Inodes, NEW v \in Values, WriteInode(i, v)
        PROVE  Abstract!Next
    <3>1. ASSUME Abstract!Call, Logical' = [Logical EXCEPT ![i] = v], reply' = Done
          PROVE  Abstract!Next
      BY <3>1 DEF Abstract!Next, Abstract!Write
    <3>2. mounted /\ mounted' = mounted
      BY <2>7 DEF WriteInode
    <3>3. CASE WriteHit(i, v)
      <4>1. \A j \in Inodes : Logical'[j] = [Logical EXCEPT ![i] = v][j]
        BY <3>3 DEF WriteHit, Logical, TypeOK
      <4>2. Logical' = [Logical EXCEPT ![i] = v]
        BY <4>1 DEF Logical
      <4>3. Abstract!Call
        BY <2>1, <3>2, <3>3 DEF WriteHit
      <4> QED BY <3>1, <3>3, <4>2, <4>3 DEF WriteHit
    <3>4. CASE WriteBackFails /\ reply' = None
      BY <2>5, <3>2, <3>4
    <3>5. CASE /\ WriteBack /\ block_number' = BlockOf(i)
               /\ data' = [Loaded(BlockOf(i)) EXCEPT ![i] = v] /\ reply' = Done
      <4>1. \A j \in Inodes : Logical'[j] = [Logical EXCEPT ![i] = v][j]
        BY <3>5 DEF WriteBack, CleanCacheMatchesDisk, Loaded, Logical
      <4>2. Logical' = [Logical EXCEPT ![i] = v]
        BY <4>1 DEF Logical
      <4>3. Abstract!Call
        BY <2>1, <2>2, <3>2, <3>5
      <4> QED BY <3>1, <3>5, <4>2, <4>3
    <3> QED BY <2>7, <3>3, <3>4, <3>5 DEF WriteInode, WriteMiss, Benign
  <2>8. CASE WriteSuperblock
    <3>1. mounted /\ mounted' = mounted /\ table' = table /\ reply' = None
      BY <2>8 DEF WriteSuperblock
    <3>2. Logical' = Logical
      BY <2>4, <2>8 DEF WriteSuperblock
    <3> QED BY <2>1, <2>3, <3>1, <3>2
  <2>9. CASE OpenDisk
    <3>1. \A i \in Inodes : Logical'[i] = Logical[i]
      BY <1>0, <2>9 DEF OpenDisk, Sane, Logical
    <3>2. Logical' = Logical
      BY <3>1 DEF Logical
    <3>3. table' = table
      BY <2>9 DEF OpenDisk, Sane
    <3> QED BY <2>9, <3>2, <3>3 DEF OpenDisk, Abstract!Next, Abstract!Open
  <2>10. ASSUME DropCache
         PROVE  Logical' = table'
    <3>1. \A i \in Inodes : Logical'[i] = table'[i]
      BY <1>0, <2>10 DEF DropCache, Logical
    <3> QED BY <3>1 DEF Logical, TypeOK
  <2>11. ASSUME mounted, DropCache, table' = table, reply' = None,
                Faults \cap {"crash", "write"} # {}
         PROVE  Abstract!Next
    BY <2>10, <2>11 DEF DropCache, Abstract!Next, Abstract!Lose
  <2>12. CASE Close
    <3>1. CASE table' = (IF dirty THEN Logical ELSE table) /\ reply' = Done
      <4>1. table' = Logical
        <5>1. CASE dirty
          BY <3>1, <5>1
        <5>2. CASE ~dirty
          <6>1. \A i \in Inodes : Logical[i] = table[i]
            BY <5>2 DEF CleanCacheMatchesDisk, Logical
          <6>2. Logical = table
            BY <6>1 DEF Logical, TypeOK
          <6> QED BY <3>1, <5>2, <6>2
        <5> QED BY <5>1, <5>2
      <4> QED BY <2>10, <2>12, <3>1, <4>1 DEF Close, DropCache, Abstract!Next, Abstract!Close
    <3>2. CASE WriteBack /\ reply' = Done
      <4>1. table' = IF dirty THEN Logical ELSE table
        BY <3>2 DEF WriteBack
      <4> QED BY <3>1, <3>2, <4>1
    <3>3. CASE "write" \in Faults /\ UNCHANGED <<table, superblock>> /\ reply' = None
      BY <2>11, <2>12, <3>3 DEF Close
    <3> QED BY <2>12, <3>1, <3>2, <3>3 DEF Close
  <2>13. CASE Crash
    BY <2>11, <2>13 DEF Crash
  <2>14. CASE UNCHANGED vars
    BY <2>4, <2>14 DEF vars, Abstract!vars
  <2> QED BY <2>6, <2>7, <2>8, <2>9, <2>12, <2>13, <2>14 DEF Next
<1>3. Benign => "read" \notin Faults
  BY DEF Benign
<1> QED
  BY <1>1, <1>2, <1>3, TypeCorrect, CleanBlock, SaneInvariant, PTL
  DEF Spec, ImplementsInodeStore, Abstract!Spec

\* While the failures are benign, the superblock of a disk that is not open is
\* intact, and sfs_fs_open_disk() never formats a filesystem that exists.
THEOREM NeverFormattedAgain == Benign /\ Spec => []ClosedDiskIsFormatted
<1>1. Sane => ClosedDiskIsFormatted
  BY DEF Sane, ClosedDiskIsFormatted
<1> QED BY <1>1, SaneInvariant, PTL
=============================================================================
