----------------------------- MODULE InodeStore -----------------------------
(***************************************************************************)
(* What the inode half of fs.h promises to its callers: a table in memory  *)
(* from which a read returns what was last written, and that a close and a *)
(* new open preserve.  Behind it the table is saved now and then, always   *)
(* but for the inodes of a single block.  Only a crash or a close that     *)
(* reports failure loses anything: then the table is the saved one.        *)
(***************************************************************************)
CONSTANTS
  Inodes,      \* inode numbers
  BlockOf(_),  \* the block of the table that holds an inode
  Values,      \* what a caller may store in an inode
  Fresh,       \* what formatting stores in every inode
  Done,        \* the answer of a write or a close that succeeded
  None,        \* no answer
  MayLose      \* the process may die, or the disk fail

VARIABLES
  store,       \* store[i]: the content of inode i
  saved,       \* saved[i]: the content that outlives the process
  running,     \* the table is open
  reply        \* what the last call answered

vars == <<store, saved, running, reply>>

Init == /\ store = [i \in Inodes |-> Fresh] /\ saved = store
        /\ running = FALSE /\ reply = None

\* While the table is open, a call may save what was there before it.  The inodes
\* that are not saved lie in one block.
Call == /\ running /\ running' = running
        /\ saved' \in {saved, store}
        /\ \A i, j \in Inodes :
              store'[i] # saved'[i] /\ store'[j] # saved'[j] => BlockOf(i) = BlockOf(j)

Read(i) == Call /\ store' = store /\ reply' = store[i]

Write(i, v) == Call /\ store' = [store EXCEPT ![i] = v] /\ reply' = Done

\* A call that failed, or the saving of other data.
Other == Call /\ store' = store /\ reply' = None

Open == /\ ~running /\ running' = TRUE
        /\ reply' = None
        /\ UNCHANGED <<store, saved>>

\* A close that succeeds saves everything.
Close == /\ running /\ running' = FALSE
         /\ store' = store /\ saved' = store
         /\ reply' = Done

\* The end of a process that could not save: what was not saved is what it was
\* when it was last saved, and nobody is told that all is well.
Lose == /\ MayLose
        /\ running /\ running' = FALSE
        /\ store' = saved /\ saved' = saved
        /\ reply' = None

Next == \/ \E i \in Inodes : Read(i) \/ \E v \in Values : Write(i, v)
        \/ Other \/ Open \/ Close \/ Lose

Spec == Init /\ [][Next]_vars
=============================================================================
