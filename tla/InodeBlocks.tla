---------------------------- MODULE InodeBlocks -----------------------------
(***************************************************************************)
(* The blocks of an inode (fs.c): direct pointers, one indirect block of   *)
(* pointers, allocation on the first write, and what deallocation gives    *)
(* back.  The blocks come from the list of module FreeBlocks, whose state  *)
(* and actions this module extends; no write fails here (Faults is empty). *)
(*                                                                         *)
(* A call is a sequence of steps, one for each disk write; nothing else    *)
(* runs during a call (the mutex), but the process may die between two     *)
(* steps.  Inodes are written to the cache and saved later, all at once    *)
(* (the inodes of the instance lie in one block of the table); index and   *)
(* data blocks and the superblock are written through.                     *)
(***************************************************************************)
EXTENDS FreeBlocks

CONSTANTS
  Inums,       \* the inodes of files
  NDir,        \* SFS_NDIR_BLOCKS, the direct pointers of an inode
  NumLogical   \* bound on the logical blocks of a file

ASSUME LogicalAssumption ==
  /\ NDir \in Nat \ {0}
  /\ NumLogical \in 1..(NDir + Words)
ASSUME InumsAssumption == IsFiniteSet(Inums)

VARIABLES
  ptr,      \* ptr[i]: the block_pointers of inode i, the indirect one at NDir
  live,     \* the inodes that are not on the free list
  saved,    \* ptr and live as they are in the table on the disk
  call,     \* the call in progress
  written,  \* history: written[i][k], what the last write of block k of i put there
  lost,     \* history: the blocks that no inode will give back
  doomed,   \* history: an inode was deallocated and is still live in the saved table
  stale,    \* history: a block that was not zero became an index block
  tainted   \* history: the process died while an inode was doomed

inodesVars == <<vars, ptr, live, saved, call, written, lost, doomed, stale, tainted>>

Logical == 0..(NumLogical - 1)
NoPointers == [k \in 0..NDir |-> 0]
Nothing == [k \in Logical |-> ZeroBlock]
Idle == [op |-> "idle"]

InodesTypeOK ==
  /\ TypeOK
  /\ ptr \in [Inums -> [0..NDir -> 0..NumBlocks]]
  /\ live \subseteq Inums
  /\ saved \in [ptr : [Inums -> [0..NDir -> 0..NumBlocks]], live : SUBSET Inums]
  /\ call \in {Idle}
       \cup [op : {"write"}, i : Inums, k : Logical, x : Patterns]
       \cup [op : {"link"}, i : Inums, k : Logical, x : Patterns,
             index : [0..(Words - 1) -> 0..NumBlocks]]
       \cup [op : {"free"}, i : Inums, k : 0..NDir]
  /\ written \in [Inums -> [Logical -> [0..(Words - 1) -> 0..NumBlocks]]]
  /\ lost \subseteq Blocks
  /\ {doomed, stale, tainted} \subseteq BOOLEAN

InodesInit ==
  /\ Init
  /\ ptr = [i \in Inums |-> NoPointers]
  /\ live = {}
  /\ saved = [ptr |-> ptr, live |-> live]
  /\ call = Idle
  /\ written = [i \in Inums |-> Nothing]
  /\ lost = {}
  /\ doomed = FALSE /\ stale = FALSE /\ tainted = FALSE

history == <<written, lost, doomed, stale, tainted>>

-----------------------------------------------------------------------------
(* Pointers. *)

\* The pointer in word k of the indirect block that a pointer block p names, 0 if
\* there is none (read_from_indirect() without creation).
Indirect(p, k) == IF p[NDir] = 0 THEN 0 ELSE disk[p[NDir]][k - NDir]

\* The block that holds logical block k of an inode with the pointers p, 0 in a hole.
BlockNumber(p, k) == IF k < NDir THEN p[k] ELSE Indirect(p, k)

\* What sfs_fs_inode_block_read() returns.
BlockRead(i, k) == IF BlockNumber(ptr[i], k) = 0 THEN ZeroBlock
                   ELSE disk[BlockNumber(ptr[i], k)]

\* The block that sfs_fs_allocate_block() is about to return.
Allocated == IF UsedSlots(head) = {} THEN head
             ELSE disk[head][CHOOSE w \in Slots : First(w, UsedSlots(head))]

-----------------------------------------------------------------------------
(* sfs_fs_inode_block_write(). *)

\* The call begins, or goes on with the block it has allocated.
Writing(i, k, x) == \/ call = Idle /\ i \in live
                    \/ call = [op |-> "write", i |-> i, k |-> k, x |-> x]

Continue(i, k, x) == call' = [op |-> "write", i |-> i, k |-> k, x |-> x]

\* A hole below NDir: the new block goes into the inode.
AllocateDirect(i, k, x) ==
  /\ Writing(i, k, x) /\ k < NDir
  /\ ptr[i][k] = 0
  /\ AllocateBlock
  /\ ptr' = [ptr EXCEPT ![i][k] = Allocated]
  /\ Continue(i, k, x)
  /\ UNCHANGED <<live, saved, history>>

\* The first block at or behind NDir: a block for the index, used as it is.
AllocateIndex(i, k, x) ==
  /\ Writing(i, k, x) /\ k >= NDir
  /\ ptr[i][NDir] = 0
  /\ AllocateBlock
  /\ ptr' = [ptr EXCEPT ![i][NDir] = Allocated]
  /\ stale' = (stale \/ disk[Allocated] # ZeroBlock)
  /\ Continue(i, k, x)
  /\ UNCHANGED <<live, saved, written, lost, doomed, tainted>>

\* A hole in the index: read_from_indirect() has read the index, and takes a block.
AllocateLink(i, k, x) ==
  /\ Writing(i, k, x) /\ k >= NDir
  /\ ptr[i][NDir] # 0 /\ Indirect(ptr[i], k) = 0
  /\ AllocateBlock
  /\ call' = [op |-> "link", i |-> i, k |-> k, x |-> x,
              index |-> [disk[ptr[i][NDir]] EXCEPT ![k - NDir] = Allocated]]
  /\ UNCHANGED <<ptr, live, saved, history>>

\* ... and writes the index back.
WriteIndex ==
  /\ call.op = "link"
  /\ disk' = [disk EXCEPT ![ptr[call.i][NDir]] = call.index]
  /\ Continue(call.i, call.k, call.x)
  /\ UNCHANGED <<head, sb_head, held, ptr, live, saved, history>>

\* A block is needed and there is none: the call fails.
NoSpace(i, k, x) ==
  /\ Writing(i, k, x)
  /\ BlockNumber(ptr[i], k) = 0 /\ head = 0
  /\ call' = Idle
  /\ UNCHANGED <<vars, ptr, live, saved, history>>

\* Plausible bug: the data go to the index block.
WriteDataToIndex(i, k, x) ==
  /\ Writing(i, k, x) /\ BlockNumber(ptr[i], k) \in Blocks
  /\ disk' = [disk EXCEPT ![IF k < NDir THEN ptr[i][k] ELSE ptr[i][NDir]] = Fill(x)]
  /\ written' = [written EXCEPT ![i][k] = Fill(x)]
  /\ call' = Idle
  /\ UNCHANGED <<head, sb_head, held, ptr, live, saved, lost, doomed, stale, tainted>>

\* The block is there, and in the range of blocks: the data.  (By InodesTypeOK a
\* pointer that is not 0 is in the range, so the call does not fail at that test.)
WriteData(i, k, x) ==
  /\ Writing(i, k, x) /\ BlockNumber(ptr[i], k) \in Blocks
  /\ disk' = [disk EXCEPT ![BlockNumber(ptr[i], k)] = Fill(x)]
  /\ written' = [written EXCEPT ![i][k] = Fill(x)]
  /\ call' = Idle
  /\ UNCHANGED <<head, sb_head, held, ptr, live, saved, lost, doomed, stale, tainted>>

-----------------------------------------------------------------------------
(* Allocation and deallocation of the inode. *)

\* sfs_create() takes i from the free list and zeroes its pointers.
CreateInode(i) ==
  /\ call = Idle /\ i \notin live
  /\ live' = live \cup {i}
  /\ ptr' = [ptr EXCEPT ![i] = NoPointers]
  /\ UNCHANGED <<vars, saved, call, history>>

\* The indirect block of an inode with the pointers p, and the blocks it names.
IndirectBlocks(p) == ({p[NDir]} \cup {Indirect(p, k) : k \in NDir..(NumLogical - 1)}) \ {0}

\* sfs_fs_inode_deallocate(): the inode is free before its blocks are.  Nobody will
\* free its indirect blocks.
BeginDeallocate(i) ==
  /\ call = Idle /\ i \in live
  /\ live' = live \ {i}
  /\ call' = [op |-> "free", i |-> i, k |-> 0]
  /\ lost' = lost \cup IndirectBlocks(ptr[i])
  /\ doomed' = (doomed \/ i \in saved.live)
  /\ written' = [written EXCEPT ![i] = Nothing]
  /\ UNCHANGED <<vars, ptr, saved, stale, tainted>>

\* Plausible bug: the loop ends at the first hole.
FreePointersToHole ==
  /\ call.op = "free"
  /\ \/ /\ call.k < NDir /\ ptr[call.i][call.k] # 0
        /\ FreeBlock(ptr[call.i][call.k])
        /\ call' = [call EXCEPT !.k = @ + 1] /\ ptr' = ptr
     \/ /\ call.k = NDir \/ ptr[call.i][call.k] = 0
        /\ call' = Idle /\ ptr' = [ptr EXCEPT ![call.i] = NoPointers]
        /\ UNCHANGED vars
  /\ UNCHANGED <<live, saved, history>>

\* Plausible bug: the loop runs to SFS_NDIR_BLOCKS inclusively.
FreePointersOneMore ==
  /\ call.op = "free"
  /\ \/ /\ call.k <= NDir /\ ptr[call.i][call.k] # 0
        /\ FreeBlock(ptr[call.i][call.k])
        /\ call' = [call EXCEPT !.k = @ + 1] /\ ptr' = ptr
     \/ /\ call.k <= NDir /\ ptr[call.i][call.k] = 0
        /\ call' = [call EXCEPT !.k = @ + 1] /\ UNCHANGED <<vars, ptr>>
     \/ /\ call.k > NDir
        /\ call' = Idle /\ ptr' = [ptr EXCEPT ![call.i] = NoPointers]
        /\ UNCHANGED vars
  /\ UNCHANGED <<live, saved, history>>

\* The loop over the direct pointers.  They stay in the free inode, where nobody
\* reads them before sfs_create() zeroes them: the model forgets them at the end.
FreePointers ==
  /\ call.op = "free"
  /\ \/ /\ call.k < NDir /\ ptr[call.i][call.k] # 0
        /\ FreeBlock(ptr[call.i][call.k])
        /\ call' = [call EXCEPT !.k = @ + 1] /\ ptr' = ptr
     \/ /\ call.k < NDir /\ ptr[call.i][call.k] = 0
        /\ call' = [call EXCEPT !.k = @ + 1] /\ UNCHANGED <<vars, ptr>>
     \/ /\ call.k = NDir
        /\ call' = Idle /\ ptr' = [ptr EXCEPT ![call.i] = NoPointers]
        /\ UNCHANGED vars
  /\ UNCHANGED <<live, saved, history>>

-----------------------------------------------------------------------------
(* The cache and the process. *)

\* The cached block of the table is written: evicted by an inode of another block, or
\* by sfs_fs_close().
SaveInodes ==
  /\ call = Idle
  /\ saved' = [ptr |-> ptr, live |-> live]
  /\ saved' # saved
  /\ doomed' = FALSE
  /\ UNCHANGED <<vars, ptr, live, call, written, lost, stale, tainted>>

\* The blocks that inodes in L with the pointers P refer to.
BlocksOf(P, L) ==
  (UNION {{P[i][k] : k \in 0..NDir} \cup IndirectBlocks(P[i]) : i \in L}) \ {0}

\* The process dies, and the disk is opened again.  Of the block that was being
\* written, if it can be reached, the old contents are what is left.
InodesCrash ==
  /\ ptr' = saved.ptr /\ live' = saved.live
  /\ call' = Idle
  /\ written' = [i \in Inums |-> [k \in Logical |->
       IF i \notin saved.live \/ BlockNumber(saved.ptr[i], k) = 0 THEN ZeroBlock
       ELSE IF call.op = "write" /\ call.i = i /\ call.k = k
       THEN disk[BlockNumber(saved.ptr[i], k)]
       ELSE written[i][k]]]
  /\ lost' = held \ BlocksOf(saved.ptr, saved.live)
  /\ tainted' = (tainted \/ doomed) /\ doomed' = FALSE
  /\ UNCHANGED <<vars, saved, stale>>

InodesNext ==
  \/ \E i \in Inums : CreateInode(i) \/ BeginDeallocate(i)
  \/ \E i \in Inums, k \in Logical, x \in Patterns :
       \/ AllocateDirect(i, k, x) \/ AllocateIndex(i, k, x) \/ AllocateLink(i, k, x)
       \/ NoSpace(i, k, x) \/ WriteData(i, k, x)
  \/ WriteIndex
  \/ FreePointers
  \/ SaveInodes
  \/ InodesCrash

InodesSpec == InodesInit /\ [][InodesNext]_inodesVars
-----------------------------------------------------------------------------
(* Properties. *)

\* The two known ways to corrupt a file have not been taken: an index block that was
\* not zeroed, and a crash before a deallocation was saved.
Healthy == ~stale /\ ~tainted

\* The blocks of inode i: logical block k at k, the indirect block at NumLogical.
Owned(i) == [k \in 0..NumLogical |-> IF k = NumLogical THEN ptr[i][NDir]
                                     ELSE BlockNumber(ptr[i], k)]

\* The blocks that the call in progress has taken and not stored, or has yet to free.
InFlight == IF call.op = "link" THEN {call.index[call.k - NDir]}
            ELSE IF call.op = "free" THEN {ptr[call.i][k] : k \in call.k..(NDir - 1)} \ {0}
            ELSE {}

\* No block belongs to two files, to two places of a file, or to a file and the free
\* list, in spite of recycled inodes and blocks and of crashes inside calls.
NoBlockIsShared ==
  Healthy =>
    /\ \A i, j \in live, k, l \in 0..NumLogical :
         Owned(i)[k] # 0 /\ Owned(i)[k] = Owned(j)[l] => i = j /\ k = l
    /\ BlocksOf(ptr, live) \cap (Offered(head) \cup lost \cup InFlight) = {}

\* Every block in use belongs to a file, or is one that a crash cut off, or is one of
\* the indirect blocks of a deallocated file, which the code forgets and should not
\* (see DeallocationFreesBlocks): nothing else leaks blocks.
EveryBlockIsAccountedFor ==
  Healthy => held = BlocksOf(ptr, live) \cup lost \cup InFlight

\* A block of a file reads as the last write left it, and as zeroes when it was never
\* written, whichever blocks and inodes it got and had.
ReadsReturnWrites ==
  Healthy =>
    \A i \in live, k \in Logical :
       (call.op \in {"write", "link"} => <<call.i, call.k>> # <<i, k>>)
         => BlockRead(i, k) = written[i][k]

\* fs.h:100, "deallocates |inode| and its blocks": when sfs_fs_inode_deallocate() has
\* come to the end of its loop, no block of the inode is in use.
DeallocationFreesBlocks ==
  Healthy /\ call.op = "free" /\ call.k = NDir => BlocksOf(ptr, {call.i}) \cap held = {}

\* fs.h:143, "if the logical block does not exits, one will be allocated": between
\* calls, the blocks of a file are allocated ones, also behind an index block.
BlocksWereAllocated == call = Idle /\ ~tainted => BlocksOf(ptr, live) \subseteq held
=============================================================================
