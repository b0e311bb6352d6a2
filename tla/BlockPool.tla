----------------------------- MODULE BlockPool ------------------------------
(***************************************************************************)
(* What sfs_fs_allocate_block() and sfs_fs_free_block() promise: a pool of *)
(* free blocks, with no list and no disk under it, and a stored pool that  *)
(* a new process starts from.  A block is never in the pool and in use at  *)
(* once.  Allocation takes one block and freeing gives one back, stored    *)
(* at once unless a write fails; only an allocation that fails, or a crash *)
(* after a failed write, loses blocks.                                     *)
(***************************************************************************)
CONSTANTS
  Blocks,    \* block numbers
  Initial,   \* the pool that formatting leaves
  MayFail,   \* a write may fail
  MayCrash   \* the process may die

VARIABLES
  pool,      \* the free blocks
  stored,    \* the free blocks as a new process finds them
  held       \* the blocks in use

vars == <<pool, stored, held>>

Init == pool = Initial /\ stored = Initial /\ held = {}

Allocate(b) ==
  /\ held' = held \cup {b}
  /\ b \in pool /\ pool' = pool \ {b}
  /\ stored' = pool' \/ (MayFail /\ stored' \in {stored, stored \ {b}})

\* The caller gets nothing and the block is gone, unless a crash brings back the
\* stored pool.
AllocateFails(b) ==
  /\ MayFail
  /\ b \in pool
  /\ pool' = pool \ {b}
  /\ UNCHANGED <<stored, held>>

\* A free that fails does nothing, or only fails to store the pool.
Free(b) ==
  /\ b \in held
  /\ held' = held \ {b} /\ pool' = pool \cup {b}
  /\ stored' = pool' \/ (MayFail /\ stored' \in {stored, stored \cup {b}})

Store == UNCHANGED <<held, pool>> /\ stored' = pool

Crash == MayCrash /\ pool' = stored /\ UNCHANGED <<stored, held>>

Next == \/ Store
        \/ Crash
        \/ \E b \in Blocks : Allocate(b) \/ AllocateFails(b) \/ Free(b)

Spec == Init /\ [][Next]_vars
=============================================================================
