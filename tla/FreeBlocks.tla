----------------------------- MODULE FreeBlocks -----------------------------
(***************************************************************************)
(* The list of free blocks of fs.c.  The superblock points to an index     *)
(* node; word 0 of a node points to the next node, and each of its other   *)
(* words is 0 or the number of a free block.  Nodes are free blocks too.   *)
(*                                                                         *)
(* A call is one action, under the mutex of struct sfs_state.  It ends     *)
(* early where one of its writes fails, or where the process dies: an      *)
(* action has one disjunct for each prefix of its writes that a failure    *)
(* may leave.  Blocks are numbered from free_blocks_head of a new disk.    *)
(***************************************************************************)
EXTENDS Integers, FiniteSets

CONSTANTS
  NumBlocks,  \* superblock.blocks - free_blocks_head after formatting
  Words,      \* words in a block, BLOCK_SIZE / sizeof(uint64_t)
  Patterns,   \* words that the owner of a block may fill it with
  Leftovers,  \* words of the disk file before it is formatted
  Faults      \* what may go wrong: "write" fails, or the process may "crash"

ASSUME LayoutAssumption == NumBlocks \in Nat \ {0} /\ Words \in Nat /\ Words >= 2
\* Otherwise the last assertion of format_fs() fails, and there is no filesystem.
ASSUME FormatAssumption == NumBlocks % Words # 1 \/ NumBlocks = 1
ASSUME PatternsAssumption == Patterns \subseteq 0..NumBlocks
ASSUME LeftoversAssumption == Leftovers \subseteq 0..NumBlocks
ASSUME FaultsAssumption == Faults \subseteq {"write", "crash"}

Blocks == 1..NumBlocks
Slots == 1..(Words - 1)
Fill(x) == [w \in 0..(Words - 1) |-> x]
ZeroBlock == Fill(0)

VARIABLES
  disk,      \* disk[b]: the words of block b
  head,      \* superblock.free_blocks_head in memory
  sb_head,   \* ... and on the disk
  held       \* the blocks allocated and not freed

vars == <<disk, head, sb_head, held>>

TypeOK ==
  /\ disk \in [Blocks -> [0..(Words - 1) -> 0..NumBlocks]]
  /\ head \in 0..NumBlocks
  /\ sb_head \in 0..NumBlocks
  /\ held \subseteq Blocks

\* The index that format_fs() writes: FirstFree - 1 nodes, then the blocks they
\* name.  A node is written when it is full; the last one, if the blocks do not
\* fill it, keeps what the disk file had there, and so do the free blocks.
FirstFree == 1 + NumBlocks - (NumBlocks * (Words - 1)) \div Words
IndexNode(n) == [w \in 0..(Words - 1) |->
                   IF w # 0 THEN FirstFree + (n - 1) * (Words - 1) + w - 1
                   ELSE IF n < FirstFree - 1 THEN n + 1 ELSE 0]

\* Plausible bug: the last node is written although it is not full.
FullAlways(n) == TRUE

\* The blocks there are fill every slot of the n-th node.
Full(n) == FirstFree + n * (Words - 1) - 1 <= NumBlocks

Init ==
  /\ \E old \in [Blocks -> Leftovers] :
        disk = [b \in Blocks |-> IF b < FirstFree /\ Full(b) THEN IndexNode(b) ELSE Fill(old[b])]
  /\ head = 1 /\ sb_head = 1
  /\ held = {}

-----------------------------------------------------------------------------
(* The list. *)

\* The k-th node from node h on, 0 behind the end.
Node(h) == LET node[k \in 0..NumBlocks] ==
                 IF k = 0 THEN h
                 ELSE IF node[k - 1] = 0 THEN 0 ELSE disk[node[k - 1]][0]
           IN  node
Nodes(h) == {Node(h)[k] : k \in 0..NumBlocks} \ {0}

UsedSlots(n) == {w \in Slots : disk[n][w] # 0}
EmptySlots(n) == Slots \ UsedSlots(n)
First(w, S) == w \in S /\ \A v \in S : w <= v

-----------------------------------------------------------------------------
(* The operations. *)

\* Plausible bug: the slot of the block is not zeroed.
TakeSlotKept(w) == /\ held' = held \cup {disk[head][w]}
                   /\ UNCHANGED <<disk, head, sb_head>>

\* A block named in the head node is taken out of it.
TakeSlot(w) == /\ held' = held \cup {disk[head][w]}
               /\ disk' = [disk EXCEPT ![head][w] = 0]
               /\ UNCHANGED <<head, sb_head>>

\* Plausible bug: the superblock is only written when the filesystem is closed.
TakeNodeUnsaved == /\ UsedSlots(head) = {}
                   /\ head' = disk[head][0]
                   /\ held' = held \cup {head}
                   /\ UNCHANGED <<disk, sb_head>>

\* The head node names no block: it is the block.  If the superblock cannot be
\* written the caller gets nothing, and the node is no longer in the list.
TakeNode == /\ UsedSlots(head) = {}
            /\ head' = disk[head][0]
            /\ \/ sb_head' = head' /\ held' = held \cup {head}
               \/ "write" \in Faults /\ UNCHANGED <<sb_head, held>>
            /\ disk' = disk

\* sfs_fs_allocate_block()
AllocateBlock == /\ head # 0
                 /\ \/ \E w \in Slots : First(w, UsedSlots(head)) /\ TakeSlot(w)
                    \/ TakeNode

\* The list is empty: b, zeroed, becomes its only node.  A process that dies
\* before the superblock is written finds the old head when it comes back, and b
\* is not free.
FreeFirst(b) ==
  /\ head = 0
  /\ disk' = [disk EXCEPT ![b] = ZeroBlock]
  /\ \/ head' = b /\ sb_head' = b /\ held' = held \ {b}
     \/ "write" \in Faults /\ head' = b /\ sb_head' = sb_head /\ held' = held \ {b}
     \/ "crash" \in Faults /\ head' = sb_head /\ UNCHANGED <<sb_head, held>>

\* Plausible bug: the slot is not tested, and what it named is overwritten.
FreeIntoSlotOverwrites(b) ==
  /\ head # 0
  /\ disk' = [disk EXCEPT ![head][1] = b]
  /\ held' = held \ {b}
  /\ UNCHANGED <<head, sb_head>>

\* b goes into the first empty slot of the first node that has one.
FreeIntoSlot(b) ==
  /\ \E k \in 0..NumBlocks, w \in Slots :
        LET n == Node(head)[k] IN
        /\ n # 0
        /\ First(w, EmptySlots(n))
        /\ \A j \in 0..(k - 1) : EmptySlots(Node(head)[j]) = {}
        /\ disk' = [disk EXCEPT ![n][w] = b]
  /\ held' = held \ {b}
  /\ UNCHANGED <<head, sb_head>>

\* The last node of a list without an empty slot.
LastNode(n) == /\ n \in Nodes(head) /\ disk[n][0] = 0
               /\ \A m \in Nodes(head) : EmptySlots(m) = {}

\* Plausible bug: the new last node is not zeroed.
FreeAppendUnzeroed(b) == \E n \in Blocks : /\ LastNode(n)
                                          /\ disk' = [disk EXCEPT ![n][0] = b]
                                          /\ held' = held \ {b}
                                          /\ UNCHANGED <<head, sb_head>>

\* b becomes the last node: it is linked first, and zeroed then.
FreeAppend(b) ==
  /\ \E n \in Blocks : /\ LastNode(n)
                       /\ disk' = [disk EXCEPT ![n][0] = b, ![b] = ZeroBlock]
  /\ held' = held \ {b}
  /\ UNCHANGED <<head, sb_head>>

\* sfs_fs_free_block().  If its first write fails nothing changes: b stays in held,
\* whether its caller tries again or not.
FreeBlock(b) == FreeFirst(b) \/ FreeIntoSlot(b) \/ FreeAppend(b)

\* A file writes its block: the words of a block in use are anything.
WriteBlock(b) == /\ \E x \in Patterns : disk' = [disk EXCEPT ![b] = Fill(x)]
                 /\ UNCHANGED <<head, sb_head, held>>

\* write_superblock() in the inode functions and in sfs_fs_close().
WriteSuperblock == sb_head # head /\ sb_head' = head /\ UNCHANGED <<disk, head, held>>

\* The process dies between two calls, and the disk is opened again.
Crash == /\ "crash" \in Faults
         /\ head' = sb_head
         /\ UNCHANGED <<disk, sb_head, held>>

Next == \/ AllocateBlock
        \/ \E b \in held : FreeBlock(b) \/ WriteBlock(b)
        \/ WriteSuperblock
        \/ Crash

Spec == Init /\ [][Next]_vars

\* sfs_fs_free_block() stopped, by a crash or an I/O error, between the two writes
\* that append b to the list.
TornAppend(b) ==
  /\ b \in held
  /\ held' = held \ {b}
  /\ head # 0
  /\ \E n \in Blocks : LastNode(n) /\ disk' = [disk EXCEPT ![n][0] = b]
  /\ UNCHANGED <<head, sb_head>>

TornSpec == Init /\ [][Next \/ \E b \in Blocks : TornAppend(b)]_vars
-----------------------------------------------------------------------------
(* Properties. *)

\* The blocks that the list starting at h offers.
Offered(h) == Nodes(h) \cup UNION {{disk[n][w] : w \in UsedSlots(n)} : n \in Nodes(h)}

\* No block of the list is in use, neither in the list that the running process
\* follows nor in the one that it would find after a crash, whatever writes of
\* sfs_fs_allocate_block and sfs_fs_free_block fail (but see TornAppend).
NoHeldBlockIsFree == held \cap (Offered(head) \cup Offered(sb_head)) = {}

\* The list is well formed: it ends, and names no block twice.
ListIsSound ==
  /\ Node(head)[NumBlocks] = 0
  /\ \A n \in Nodes(head), w \in Slots :
        disk[n][w] \notin Nodes(head)
  /\ \A m, n \in Nodes(head), v, w \in Slots :
        disk[m][v] # 0 /\ disk[m][v] = disk[n][w] => m = n /\ v = w

\* The list implements a pool: allocation takes one block from it and freeing gives
\* one back, in memory and on the disk at once; a block that formatting put there is
\* lost only by an allocation that could not write the superblock, or when the process
\* dies before a superblock that could not be written has been.
Abstract == INSTANCE BlockPool WITH
  pool <- Offered(head),
  stored <- Offered(sb_head),
  Initial <- {b \in Blocks : b < FirstFree \/ b <= FirstFree + (Words - 1) * (NumBlocks \div Words) - 1},
  MayFail <- "write" \in Faults,
  MayCrash <- "crash" \in Faults
ImplementsBlockPool == Abstract!Spec

\* fs.h:161, sfs_fs_allocate_block() "finds a free block": the list offers no block
\* that is in use, even after a free that failed half way, and whatever the disk file
\* held before it was formatted.
OnlyFreeBlocksAreOffered == held \cap Offered(head) = {}
=============================================================================
