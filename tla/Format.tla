------------------------------- MODULE Format -------------------------------
(***************************************************************************)
(* Opening a disk that may have to be formatted: format_fs() of fs.c, one  *)
(* step for each turn of its loops, on disks of every size in a range.     *)
(*                                                                         *)
(* The process may stop at any step: it dies, or a block_write() fails,    *)
(* which makes sfs_fs_open_disk() give up.  Then the disk is opened again. *)
(* Times, modes and owners of inodes are left out.                         *)
(***************************************************************************)
EXTENDS Integers, FiniteSets

CONSTANTS
  Sizes,       \* the disk sizes to look at, in blocks
  Words,       \* words in a block, BLOCK_SIZE / sizeof(uint64_t)
  PerBlock,    \* inodes in a block
  TableShare,  \* one block in so many goes to the inode table (16)
  Old,         \* what a block held before
  MaxStops     \* bound on the number of times the process stops

\* sfs_fs_open_disk() cannot read the superblock of a disk without a block.
ASSUME SizesAssumption == Sizes \subseteq Nat \ {0}
ASSUME LayoutAssumption ==
  /\ Words \in Nat /\ Words >= 2
  /\ PerBlock \in Nat \ {0}
  /\ TableShare \in Nat /\ TableShare >= 2
  /\ MaxStops \in Nat
\* Old stands for contents without the signature, which formatting does not write.
ASSUME OldAssumption ==
  /\ Old \notin [signature : {TRUE}, blocks : Nat, inodes : Nat,
                 free_blocks_head : Nat, free_inode_head : Nat]
  /\ \A b \in Sizes : Old \notin [0..(Words - 1) -> 0..b]

VARIABLES
  blocks,               \* the size of the disk
  disk,                 \* disk[b]: the contents of block b
  pc,                   \* what the process is doing
  i,                    \* the variable of the two loops
  next_free,            \* the next inode of the free list
  cur_index_block,      \* the index node that is being filled
  cur_index_block_pos,  \* its next word
  free_index,           \* its words so far (tmp_block)
  stops                 \* how often the process has stopped

locals == <<i, next_free, cur_index_block, cur_index_block_pos, free_index>>
vars == <<blocks, disk, pc, locals, stops>>

EmptyNode == [w \in 0..(Words - 1) |-> 0]

\* A disk of any size and contents, and no process.
Init ==
  /\ blocks \in Sizes
  /\ disk = [b \in 0..(blocks - 1) |-> Old]
  /\ pc = "off"
  /\ i = 0 /\ next_free = 0 /\ cur_index_block = 0 /\ cur_index_block_pos = 0
  /\ free_index = EmptyNode
  /\ stops = 0

-----------------------------------------------------------------------------
(* The layout. *)

inode_table_blocks == IF (blocks - 1) \div TableShare = 0 THEN 1
                      ELSE (blocks - 1) \div TableShare
free_blocks_head == 2 + inode_table_blocks
free_blocks == blocks - free_blocks_head

\* Plausible bug: the division is rounded up.
FirstFreeBlockRounded ==
  free_blocks_head + free_blocks - ((free_blocks * (Words - 1) + Words - 1) \div Words)

first_free_block ==
  free_blocks_head + free_blocks - ((free_blocks * (Words - 1)) \div Words)

Superblock == [signature |-> TRUE, blocks |-> blocks,
               inodes |-> inode_table_blocks * PerBlock,
               free_blocks_head |-> free_blocks_head, free_inode_head |-> 2]

\* The size of the disk, rounded down to blocks, is all that format_fs() checks.
TooSmall == blocks < 3

-----------------------------------------------------------------------------
(* The steps. *)

\* Plausible bug: the superblock is written first.
OpenDiskSignsFirst ==
  /\ pc = "off"
  /\ \/ disk[0] = Superblock /\ pc' = "mounted" /\ disk' = disk
     \/ disk[0] # Superblock /\ TooSmall /\ pc' = "refused" /\ disk' = disk
     \/ /\ disk[0] # Superblock /\ ~TooSmall /\ pc' = "inodes"
        /\ disk' = [disk EXCEPT ![0] = Superblock]
  /\ i' = 1 /\ next_free' = 3
  /\ UNCHANGED <<blocks, cur_index_block, cur_index_block_pos, free_index, stops>>

\* sfs_fs_open_disk() and the beginning of format_fs().
OpenDisk ==
  /\ pc = "off"
  /\ \/ disk[0] = Superblock /\ pc' = "mounted"
     \/ disk[0] # Superblock /\ TooSmall /\ pc' = "refused"
     \/ disk[0] # Superblock /\ ~TooSmall /\ pc' = "inodes"
  /\ i' = 1 /\ next_free' = 3
  /\ UNCHANGED <<blocks, disk, cur_index_block, cur_index_block_pos, free_index, stops>>

\* The inodes of the i-th block of the table.  Every inode but the root is free and
\* leads to the next one.
InodeBlock == [j \in 0..(PerBlock - 1) |->
  IF i = 1 /\ j = 0 THEN [inumber |-> 1, links |-> 1, size |-> 0]
  ELSE LET n == next_free + (IF i = 1 THEN j - 1 ELSE j)
       IN  [inumber |-> n - 1, links |-> 0, size |-> n]]

WriteInodes ==
  /\ pc = "inodes"
  /\ i <= inode_table_blocks
  /\ disk' = [disk EXCEPT ![i] = InodeBlock]
  /\ next_free' = next_free + (IF i = 1 THEN PerBlock - 1 ELSE PerBlock)
  /\ i' = i + 1
  /\ UNCHANGED <<blocks, pc, cur_index_block, cur_index_block_pos, free_index, stops>>

BeginIndex ==
  /\ pc = "inodes"
  /\ i > inode_table_blocks
  /\ pc' = "index"
  /\ i' = first_free_block
  /\ cur_index_block' = free_blocks_head /\ cur_index_block_pos' = 0
  /\ UNCHANGED <<blocks, disk, next_free, free_index, stops>>

\* A full node is left behind at the next block, not before.
Advanced == IF cur_index_block_pos = Words
            THEN [node |-> cur_index_block + 1, pos |-> 0]
            ELSE [node |-> cur_index_block, pos |-> cur_index_block_pos]

\* The node n with block b at position p; word 0 leads to the next node.
Named(n, p, b) ==
  IF p = 0 THEN [free_index EXCEPT ![0] = IF n < first_free_block - 1 THEN n + 1 ELSE 0,
                                   ![1] = b]
  ELSE [free_index EXCEPT ![p] = b]

\* Plausible bug: the loop leaves out every other block.
NameBlockSkips ==
  LET n == Advanced.node
      p == Advanced.pos
      q == IF p = 0 THEN 2 ELSE p + 1
  IN
  /\ pc = "index" /\ i < blocks
  /\ cur_index_block' = n /\ cur_index_block_pos' = q
  /\ free_index' = Named(n, p, i)
  /\ disk' = IF q = Words THEN [disk EXCEPT ![n] = free_index'] ELSE disk
  /\ i' = i + 2
  /\ UNCHANGED <<blocks, pc, next_free, stops>>

\* One turn of the loop: block i is named in the index; the node is written when it
\* is full.
NameBlock ==
  LET n == Advanced.node
      p == Advanced.pos
      q == IF p = 0 THEN 2 ELSE p + 1
  IN
  /\ pc = "index" /\ i < blocks
  /\ cur_index_block' = n /\ cur_index_block_pos' = q
  /\ free_index' = Named(n, p, i)
  /\ disk' = IF q = Words THEN [disk EXCEPT ![n] = free_index'] ELSE disk
  /\ i' = i + 1
  /\ UNCHANGED <<blocks, pc, next_free, stops>>

\* The assertion behind the loop: every node was begun.
AssertionFails ==
  /\ pc = "index"
  /\ i >= blocks /\ cur_index_block # first_free_block - 1
  /\ pc' = "aborted"
  /\ UNCHANGED <<blocks, disk, locals, stops>>

\* The superblock, with the signature, is the last block to be written.
WriteSuperblock ==
  /\ pc = "index"
  /\ i >= blocks /\ cur_index_block = first_free_block - 1
  /\ disk' = [disk EXCEPT ![0] = Superblock]
  /\ pc' = "mounted"
  /\ UNCHANGED <<blocks, locals, stops>>

\* The process dies, or fails to write a block and gives up.
Stop ==
  /\ pc # "off" /\ stops < MaxStops
  /\ pc' = "off"
  /\ stops' = stops + 1
  /\ UNCHANGED <<blocks, disk, locals>>

Format == WriteInodes \/ BeginIndex \/ NameBlock \/ AssertionFails \/ WriteSuperblock

Next == OpenDisk \/ Format \/ Stop

\* format_fs() runs on until it ends; nobody has to open the disk.
Spec == Init /\ [][Next]_vars /\ WF_vars(Format)
-----------------------------------------------------------------------------
(* Properties. *)

TypeOK ==
  /\ blocks \in Sizes
  /\ DOMAIN disk = 0..(blocks - 1)
  /\ pc \in {"off", "inodes", "index", "mounted", "refused", "aborted"}
  /\ i \in 0..blocks
  /\ cur_index_block_pos \in 0..Words
  /\ free_index \in [0..(Words - 1) -> 0..blocks]
  /\ stops \in 0..MaxStops

\* The inode table that the other functions of fs.c expect: inode n in its place, all
\* but the root on one list that ends behind the table.
TableIsRight ==
  \A b \in 1..inode_table_blocks :
     disk[b] = [j \in 0..(PerBlock - 1) |->
       LET n == (b - 1) * PerBlock + j + 1
       IN  IF n = 1 THEN [inumber |-> 1, links |-> 1, size |-> 0]
           ELSE [inumber |-> n, links |-> 0, size |-> n + 1]]

\* The index: as many nodes as it takes to name the other blocks, and the slots
\* of all nodes, in order, name the blocks behind them, in order.  The last node
\* has not been written unless it is full.
IndexNodes == free_blocks_head..(first_free_block - 1)
SlotOf(b) == LET s == b - first_free_block
             IN  [node |-> free_blocks_head + s \div (Words - 1),
                  word |-> 1 + (s % (Words - 1))]
FilledNode(n) == first_free_block + (n - free_blocks_head + 1) * (Words - 1) <= blocks
IndexIsRight ==
  /\ \A n \in IndexNodes : FilledNode(n) =>
       /\ disk[n] # Old
       /\ disk[n][0] = IF n + 1 \in IndexNodes THEN n + 1 ELSE 0
  /\ \A b \in first_free_block..(blocks - 1) :
       LET s == SlotOf(b) IN FilledNode(s.node) => disk[s.node][s.word] = b
  /\ \A n \in IndexNodes : ~FilledNode(n) => n = first_free_block - 1 /\ disk[n] = Old

\* A disk with the signature is completely formatted, wherever and however often
\* formatting was interrupted before: nobody mounts half a filesystem.
SignatureMeansFormatted == disk[0] # Old => TableIsRight /\ IndexIsRight

\* The sizes for which the index has a node that no block makes it begin: no free
\* block at all, or one more than full nodes describe.
Unformattable == \/ free_blocks = 0
                 \/ free_blocks # 1 /\ free_blocks % Words = 1

\* fs.c:167, assert(cur_index_block == first_free_block - 1): it stops format_fs() on
\* the disks of those sizes and on no other; a disk of three blocks, which passes the
\* check for too small disks, is one of them.  fs.c:140, inside the loop, never fails:
\* no node is written over the blocks that the index names.
AssertionsFailOnlyForBadSizes ==
  /\ pc = "index" /\ i < blocks => Advanced.node < first_free_block
  /\ pc = "aborted" => Unformattable
  /\ pc = "mounted" => ~Unformattable

\* Formatting that has begun comes to its end: the filesystem is mounted, unless the
\* process is stopped or the size is bad.
FormattingEnds ==
  pc = "inodes" ~> pc \in {"mounted", "off"} \/ Unformattable

\* The blocks that the list of a new filesystem offers: its nodes, and what the nodes
\* that were written name.
Offered == IndexNodes \cup
           {b \in first_free_block..(blocks - 1) :
              \E n \in IndexNodes : disk[n] # Old /\ \E w \in 1..(Words - 1) : disk[n][w] = b}

\* "this assertion makes sure we don't somehow leak blocks" (fs.c:166): when it has
\* held and the filesystem is mounted, every block behind the inode table is offered.
\* The block between the table and the index never is, nor are the blocks of a last
\* node that is not full and so not written (fs.c:157).
NoBlockIsLeaked ==
  pc = "mounted" => (inode_table_blocks + 1)..(blocks - 1) \subseteq Offered

\* assert(cur_index_block == first_free_block - 1) (fs.c:167) holds for every disk that
\* is not "too small to use as filesystem" (fs.c:62).  It fails for those of
\* Unformattable.
LargeEnoughDisksAreFormatted == pc # "aborted"
=============================================================================
