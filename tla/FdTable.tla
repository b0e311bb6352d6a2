------------------------------ MODULE FdTable -------------------------------
(***************************************************************************)
(* What filedescriptor.h promises: a table from descriptor numbers to the  *)
(* data of the open ones.  An open descriptor keeps its data until it is   *)
(* freed, and no number is given out twice.                                *)
(***************************************************************************)
CONSTANTS
  Fds,       \* descriptor numbers
  Inumbers,  \* what a descriptor may stand for
  None       \* the number is not in use

VARIABLE opened   \* opened[fd]: the inode behind fd, or None

Init == opened = [fd \in Fds |-> None]

Allocate(i) == \E fd \in Fds : /\ opened[fd] = None
                               /\ opened' = [opened EXCEPT ![fd] = i]

Free(fd) == opened[fd] # None /\ opened' = [opened EXCEPT ![fd] = None]

\* The pool is destroyed, and another one made.
Reset == opened' = [fd \in Fds |-> None]

Next == (\E i \in Inumbers : Allocate(i)) \/ (\E fd \in Fds : Free(fd)) \/ Reset

Spec == Init /\ [][Next]_opened
=============================================================================
