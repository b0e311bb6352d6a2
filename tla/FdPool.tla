------------------------------- MODULE FdPool -------------------------------
(***************************************************************************)
(* The slab allocator of filedescriptor.c.  A slot is a union: the word    *)
(* that holds the inode number of an open descriptor holds the pointer to  *)
(* the next free slot when the descriptor is free.  A pointer to a slot is *)
(* <<slab, index>>, slabs counted along their list.                        *)
(*                                                                         *)
(* The calls are made by the handlers of sfs.c under their mutex, so each  *)
(* is one action, with the assignment to fd->inumber that follows it.      *)
(***************************************************************************)
EXTENDS Integers

CONSTANTS
  SlabSize,   \* slots in a slab (4088)
  MaxSlabs,   \* bound on the slabs that malloc() gives
  Inumbers,   \* inode numbers
  NULL        \* the null pointer

ASSUME SlabAssumption == SlabSize \in Nat \ {0} /\ MaxSlabs \in Nat \ {0}
ASSUME NullAssumption == /\ NULL \notin Inumbers
                         /\ NULL \notin (0..(MaxSlabs - 1)) \X (0..(SlabSize - 1))

Slots == (0..(MaxSlabs - 1)) \X (0..(SlabSize - 1))
Fds == 0..(MaxSlabs * SlabSize - 1)

VARIABLES
  live,      \* the pool exists
  slabs,     \* the number of slabs in memory
  fd,        \* fd[s]: the descriptor number of slot s
  word,      \* word[s]: sfs_fd.inumber of slot s, or node.next in the same place
  freelist,  \* pool->freelist
  open       \* the descriptors that the kernel holds

vars == <<live, slabs, fd, word, freelist, open>>

Pointers == Slots \cup {NULL}
InMemory == {s \in Slots : s[1] < slabs}

TypeOK ==
  /\ live \in BOOLEAN
  /\ slabs \in 0..MaxSlabs
  /\ fd \in [Slots -> Fds]
  /\ word \in [Slots -> Pointers \cup Inumbers]
  /\ freelist \in Pointers
  /\ open \subseteq Fds

-----------------------------------------------------------------------------
\* Where descriptor n is: sfs_filedescriptor_get_from_fd(pool, n).
GetFromFd(n) == IF n \div SlabSize < slabs THEN <<n \div SlabSize, n % SlabSize>> ELSE NULL

\* The slots of slab k as malloc'ed and threaded; the last one ends the list.
Successor(s) == IF s[2] + 1 < SlabSize THEN <<s[1], s[2] + 1>> ELSE NULL
Threaded(k, g) == [s \in Slots |-> IF s[1] = k THEN Successor(s) ELSE g[s]]

\* Plausible bugs: every slab numbers its descriptors from 0, or the first one
\* numbers them from 1.
NumberedFromZero(k, g) == [s \in Slots |-> IF s[1] = k THEN s[2] ELSE g[s]]
NumberedFromOne(k, g) == [s \in Slots |-> IF s[1] = k THEN k * SlabSize + s[2] + 1 ELSE g[s]]

Numbered(k, g) == [s \in Slots |-> IF s[1] = k THEN k * SlabSize + s[2] ELSE g[s]]

\* The pool of sfs_filedescriptor_pool_init(): one slab.
Init ==
  /\ live = TRUE
  /\ slabs = 1
  /\ fd = Numbered(0, [s \in Slots |-> 0])
  /\ word = Threaded(0, [s \in Slots |-> NULL])
  /\ freelist = <<0, 0>>
  /\ open = {}

\* Plausible bug: the list is not advanced before the slot is overwritten.
TakeTwice(s, i, g) ==
  /\ freelist' = s
  /\ word' = [g EXCEPT ![s] = i]
  /\ open' = open \cup {fd'[s]}

\* Slot s, the head of the list threaded through g, becomes a descriptor.
Take(s, i, g) ==
  /\ freelist' = g[s]
  /\ word' = [g EXCEPT ![s] = i]
  /\ open' = open \cup {fd'[s]}

\* sfs_filedescriptor_allocate(), and fd->inumber = i.  An empty list gets the
\* slots of a new slab at the end of the list of slabs.
Allocate(i) ==
  /\ live
  /\ \/ /\ freelist # NULL
        /\ UNCHANGED <<slabs, fd>>
        /\ Take(freelist, i, word)
     \/ /\ freelist = NULL
        /\ slabs < MaxSlabs
        /\ slabs' = slabs + 1
        /\ fd' = Numbered(slabs, fd)
        /\ Take(<<slabs, 0>>, i, Threaded(slabs, word))
  /\ live' = live

\* Plausible bug: the freed slot does not point to the rest of the list.
FreeLosesList(n) ==
  LET s == GetFromFd(n) IN
  /\ live /\ n \in open
  /\ word' = [word EXCEPT ![s] = NULL]
  /\ freelist' = s
  /\ open' = open \ {n}
  /\ UNCHANGED <<live, slabs, fd>>

\* sfs_filedescriptor_free() of the descriptor the kernel releases.
Free(n) ==
  LET s == GetFromFd(n) IN
  /\ live /\ n \in open
  /\ word' = [word EXCEPT ![s] = freelist]
  /\ freelist' = s
  /\ open' = open \ {n}
  /\ UNCHANGED <<live, slabs, fd>>

\* sfs_filedescriptor_pool_deinit(): every slab but the last is freed, and then
\* the process ends.
Deinit ==
  /\ live
  /\ live' = FALSE
  /\ slabs' = 1
  /\ open' = {}
  /\ UNCHANGED <<fd, word, freelist>>

Next == \/ \E i \in Inumbers : Allocate(i)
        \/ \E n \in Fds : Free(n)
        \/ Deinit

Spec == Init /\ [][Next]_vars
-----------------------------------------------------------------------------
(* Properties. *)

\* A slot's number is the one under which sfs_filedescriptor_get_from_fd() finds
\* it, so that fi->fh leads back to the descriptor that open returned.
NumbersFindSlots == live => \A s \in InMemory : GetFromFd(fd[s]) = s

IsFree(s) == s \in InMemory /\ fd[s] \notin open

\* The free list holds free slots only, and holds all of them: it starts at one
\* unless none is left, a free slot leads to another or to the end, and no slot
\* has two predecessors.  An inode number is never followed as a pointer.
FreeListSound ==
  live =>
    /\ freelist # NULL => IsFree(freelist)
    /\ \A s \in Slots : IsFree(s) =>
          /\ word[s] # NULL => IsFree(word[s]) /\ word[s] # freelist
          /\ s = freelist \/ \E t \in Slots : IsFree(t) /\ word[t] = s
    /\ \A s, t \in Slots : IsFree(s) /\ IsFree(t) /\ word[s] = word[t] /\ word[s] # NULL => s = t

\* The list ends only where no slot is left: sfs_filedescriptor_allocate() asks for
\* another slab when every slot of the ones it has is an open descriptor.
GrowsOnlyWhenFull == live /\ freelist = NULL => \A s \in InMemory : fd[s] \in open

\* The pool implements a table of open descriptors: a descriptor number is not
\* given out twice, and get_from_fd finds the inode number stored at open.
Abstract == INSTANCE FdTable WITH
  None <- NULL,
  opened <- [n \in Fds |-> IF n \in open THEN word[GetFromFd(n)] ELSE NULL]
ImplementsFdTable == Abstract!Spec
=============================================================================
