--------------------------- MODULE DurableProofs ----------------------------
(***************************************************************************)
(* Proofs about Durable, for any number of inodes, of inodes in a block of *)
(* the table and of blocks of the directory, with any number of crashes.   *)
(***************************************************************************)
EXTENDS Durable, ThreadedLists, SequenceTheorems

-----------------------------------------------------------------------------
(* Operations and sequences of them. *)

Inode == [links : Nat, size : Nat]

Ops == {Read(i) : i \in Inodes}
       \cup {Write(i, l, s) : i \in Inodes, l \in Nat, s \in Nat}
       \cup {SetHead(i) : i \in 0..(NumInodes + 1)}
       \cup {Entry(k, i) : k \in Slots, i \in {0} \cup Files}
       \cup {Opened(i) : i \in Files} \cup {Released(i) : i \in Files}
       \cup {Read(NumInodes + 1), Abort}

\* What the assumption on the sizes says of the root, the files and the inodes.
LEMMA SizeFacts ==
  /\ NumInodes \in Nat /\ NumInodes >= 2 /\ PerBlock \in Nat /\ PerBlock > 0
  /\ MaxDirBlocks \in Nat /\ MaxOpen \in Nat /\ MaxOpen >= 1
  /\ Root \in Inodes /\ Root \notin Files /\ Files \subseteq Inodes /\ Inodes \subseteq Nat
  /\ 0 \notin Files /\ NumInodes + 1 \notin Files /\ Files \subseteq 0..(NumInodes + 1)
  /\ \A i \in Inodes : i = Root \/ i \in Files
BY SizesAssumption DEF Root, Inodes, Files

\* The elementary operations with arguments of their types are operations,
LEMMA OpTypes ==
  /\ \A i \in Inodes : Read(i) \in Ops
  /\ \A i \in Inodes, l, s \in Nat : Write(i, l, s) \in Ops
  /\ \A i \in 0..(NumInodes + 1) : SetHead(i) \in Ops
  /\ \A k \in Slots, i \in {0} \cup Files : Entry(k, i) \in Ops
  /\ \A i \in Files : Opened(i) \in Ops /\ Released(i) \in Ops
  /\ Read(NumInodes + 1) \in Ops /\ Abort \in Ops
BY DEF Ops

\* and the fields they have.
LEMMA OpFields ==
  /\ \A i : Read(i).op = "read" /\ Read(i).i = i
  /\ \A i, l, s : /\ Write(i, l, s).op = "write" /\ Write(i, l, s).i = i
                  /\ Write(i, l, s).inode = [links |-> l, size |-> s]
  /\ \A i : SetHead(i).op = "head" /\ SetHead(i).i = i
  /\ \A k, i : Entry(k, i).op = "entry" /\ Entry(k, i).k = k /\ Entry(k, i).i = i
  /\ \A i : Opened(i).op = "opened" /\ Opened(i).i = i
  /\ \A i : Released(i).op = "released" /\ Released(i).i = i
  /\ Abort.op = "abort"
BY DEF Read, Write, SetHead, Entry, Opened, Released, Abort

\* The first operation, and the rest.
LEMMA FirstOp ==
  ASSUME NEW a \in Ops, NEW U \in Seq(Ops)
  PROVE  /\ <<a>> \o U \in Seq(Ops) /\ <<a>> \o U # <<>>
         /\ Head(<<a>> \o U) = a /\ Tail(<<a>> \o U) = U
<1>1. <<a>> \in Seq(Ops) /\ Len(<<a>>) = 1
  OBVIOUS
<1>2. /\ <<a>> \o U \in Seq(Ops) /\ Len(<<a>> \o U) = 1 + Len(U)
      /\ \A m \in 1..(1 + Len(U)) : (<<a>> \o U)[m] = IF m <= 1 THEN <<a>>[m] ELSE U[m - 1]
  BY <1>1, ConcatProperties
<1>3. Len(U) \in Nat
  OBVIOUS
<1>4. <<a>> \o U # <<>>
  BY <1>2, <1>3
<1>5. Head(<<a>> \o U) = a
  BY <1>2, <1>3
<1>6. Tail(<<a>> \o U) = U
  <2> DEFINE t == Tail(<<a>> \o U)
  <2>1. t \in Seq(Ops) /\ Len(t) = Len(U) /\ \A m \in 1..Len(t) : t[m] = (<<a>> \o U)[m + 1]
    BY <1>2, <1>3, <1>4, HeadTailProperties
  <2>2. \A m \in 1..Len(U) : t[m] = U[m]
    BY <1>2, <1>3, <2>1
  <2> QED
    BY <2>1, <2>2
<1> QED
  BY <1>2, <1>4, <1>5, <1>6

\* A tuple is its first operation and the tuple of the others.
LEMMA Tuples ==
  ASSUME NEW a \in Ops, NEW b \in Ops, NEW c \in Ops, NEW d \in Ops
  PROVE  /\ <<a>> = <<a>> \o <<>>
         /\ <<a, b>> = <<a>> \o <<b>>
         /\ <<a, b, c>> = <<a>> \o <<b, c>>
         /\ <<a, b, c, d>> = <<a>> \o <<b, c, d>>
         /\ <<a>> \in Seq(Ops) /\ <<a, b>> \in Seq(Ops) /\ <<a, b, c>> \in Seq(Ops) /\ <<a, b, c, d>> \in Seq(Ops)
<1>1. <<a>> \in Seq(Ops) /\ <<b>> \in Seq(Ops) /\ <<>> \in Seq(Ops)
  OBVIOUS
<1>2. <<a, b>> \in Seq(Ops) /\ <<b, c>> \in Seq(Ops)
  OBVIOUS
<1>3. <<a, b, c>> \in Seq(Ops) /\ <<b, c, d>> \in Seq(Ops)
  OBVIOUS
<1>4. <<a, b, c, d>> \in Seq(Ops)
  OBVIOUS
<1>5. <<a>> = <<a>> \o <<>>
  BY <1>1, ConcatEmptySeq
<1>6. <<a, b>> = <<a>> \o <<b>>
  <2> DEFINE t == <<a>> \o <<b>>
  <2>1. /\ t \in Seq(Ops) /\ Len(t) = 1 + 1
        /\ \A m \in 1..(1 + 1) : t[m] = IF m <= 1 THEN <<a>>[m] ELSE <<b>>[m - 1]
    BY <1>1, ConcatProperties
  <2>2. t[1] = a /\ t[2] = b /\ Len(t) = 2
    BY <2>1
  <2>3. t = [m \in 1..2 |-> IF m = 1 THEN a ELSE b]
    <3> HIDE DEF t
    <3> QED
      BY <2>1, <2>2
  <2>4. <<a, b>> = [m \in 1..2 |-> IF m = 1 THEN a ELSE b]
    OBVIOUS
  <2> QED
    BY <2>3, <2>4
<1>7. <<a, b, c>> = <<a>> \o <<b, c>>
  BY <1>1, <1>2, <1>3
<1>8. <<a, b, c, d>> = <<a>> \o <<b, c, d>>
  BY <1>1, <1>3, <1>4
<1> QED
  BY <1>1, <1>2, <1>3, <1>4, <1>5, <1>6, <1>7, <1>8

-----------------------------------------------------------------------------
(* The operations, whatever the cache does: an operation on an inode changes this inode  *)
(* only, and the table on the disk is what it was or what the inodes were.               *)

\* Every inode lies in a block of the table, or the one behind it,
LEMMA BlockNumbers == \A i \in 1..(NumInodes + 1) : BlockOf(i) \in 0..BlockOf(NumInodes + 1)
<1> SUFFICES ASSUME NEW i \in 1..(NumInodes + 1)
             PROVE  BlockOf(i) \in 0..BlockOf(NumInodes + 1)
  OBVIOUS
<1> DEFINE p == (i - 1) \div PerBlock
           q == ((NumInodes + 1) - 1) \div PerBlock
<1>1. NumInodes \in Int /\ PerBlock \in Nat /\ PerBlock > 0 /\ i \in Int /\ 1 <= i /\ i <= NumInodes + 1
  BY SizeFacts
<1>2. p \in Int /\ p >= 0 /\ PerBlock * p <= i - 1
  BY <1>1
<1>3. q \in Int /\ q >= 0 /\ NumInodes < PerBlock * (q + 1)
  <2>1. (NumInodes + 1) - 1 = NumInodes /\ NumInodes >= 0
    BY SizeFacts
  <2> QED
    BY <1>1, <2>1
<1>4. p <= q
  <2> SUFFICES ASSUME p >= q + 1
               PROVE  FALSE
    BY <1>2, <1>3
  <2> HIDE DEF p, q
  <2>1. PerBlock * p >= PerBlock * (q + 1)
    BY <1>1, <1>2, <1>3
  <2> QED
    BY <1>1, <1>2, <1>3, <2>1
<1> QED
  BY <1>2, <1>3, <1>4 DEF BlockOf

LEMMA InodeNumbers == /\ \A i \in Inodes : i \in 1..(NumInodes + 1)
                      /\ NumInodes + 1 \in 1..(NumInodes + 1)
BY SizeFacts DEF Inodes

\* and 0, for nothing cached, is less than their numbers.
LEMMA BlockZero == 0 \in 0..BlockOf(NumInodes + 1)
<1>1. BlockOf(NumInodes + 1) \in 0..BlockOf(NumInodes + 1)
  BY InodeNumbers, BlockNumbers
<1>2. BlockOf(NumInodes + 1) \in Int
  BY SizeFacts DEF BlockOf
<1> QED
  BY <1>1, <1>2

Coherent == \A j \in Inodes : inodes[j] # table[j] => dirty /\ BlockOf(j) = cached

CacheAfter(i) ==
  /\ table' \in [Inodes -> Inode] /\ table' \in {table, inodes}
  /\ cached # BlockOf(i) => table' = inodes
  /\ cached' \in 0..BlockOf(NumInodes + 1) /\ dirty' \in BOOLEAN
  /\ Coherent'

\* Before inode i is read or written another dirty block is written back: the disk stays or
\* gets what was cached, and nothing cached is forgotten.
LEMMA CacheStep ==
  ASSUME TypeOK, NEW i, Cache(i)
  PROVE  /\ table' \in [Inodes -> Inode] /\ table' \in {table, inodes}
         /\ cached # BlockOf(i) => table' = inodes
         /\ (IF cached = BlockOf(i) THEN inodes ELSE table') = inodes
         /\ \A j \in Inodes : inodes[j] # table'[j] => dirty /\ BlockOf(j) = BlockOf(i) /\ cached = BlockOf(i)
<1>1. table \in [Inodes -> Inode] /\ inodes \in [Inodes -> Inode] /\ Coherent
  BY DEF TypeOK, Inode, Coherent
<1>2. CASE cached # BlockOf(i) /\ dirty
  <2>1. table' = inodes
    BY <1>2 DEF Cache
  <2> QED
    BY <1>1, <1>2, <2>1
<1>3. CASE cached # BlockOf(i) /\ ~dirty
  <2>1. table' = table
    BY <1>3 DEF Cache
  <2>2. inodes = table
    BY <1>1, <1>3 DEF Coherent
  <2> QED
    BY <1>1, <1>3, <2>1, <2>2
<1>4. CASE cached = BlockOf(i)
  <2>1. table' = table
    BY <1>4 DEF Cache
  <2> QED
    BY <1>1, <1>4, <2>1 DEF Coherent
<1> QED
  BY <1>2, <1>3, <1>4

\* sfs_fs_read_inode() changes no inode.
LEMMA ReadStep ==
  ASSUME TypeOK, NEW i \in 1..(NumInodes + 1), NEW o, o.i = i, DoRead(o)
  PROVE  inodes' = inodes /\ CacheAfter(i) /\ UNCHANGED <<head, dirent, open>>
<1>1. Cache(i) /\ cached' = BlockOf(i) /\ dirty' = (dirty /\ cached = BlockOf(i))
      /\ inodes' = (IF cached = BlockOf(i) THEN inodes ELSE table') /\ UNCHANGED <<head, dirent, open>>
  BY DEF DoRead
<1>2. inodes' = inodes
  BY <1>1, CacheStep
<1>3. dirty' \in BOOLEAN
  BY <1>1, Zenon
<1>4. ASSUME NEW j \in Inodes, inodes'[j] # table'[j]
      PROVE  dirty' /\ BlockOf(j) = cached'
  <2>1. dirty /\ BlockOf(j) = BlockOf(i) /\ cached = BlockOf(i)
    BY <1>1, <1>2, <1>4, CacheStep
  <2> QED
    BY <1>1, <2>1, Zenon
<1>5. Coherent'
  BY <1>4 DEF Coherent
<1> QED
  BY <1>1, <1>2, <1>3, <1>5, CacheStep, BlockNumbers DEF CacheAfter

\* sfs_fs_write_inode() changes the inode it writes and no other.
LEMMA WriteStep ==
  ASSUME TypeOK, NEW i \in Inodes, NEW v \in Inode, NEW o, o.i = i, o.inode = v, DoWrite(o)
  PROVE  /\ inodes' = [inodes EXCEPT ![i] = v] /\ inodes' \in [Inodes -> Inode]
         /\ CacheAfter(i) /\ UNCHANGED <<head, dirent, open>>
<1>1. /\ Cache(i) /\ cached' = BlockOf(i) /\ dirty' = TRUE
      /\ inodes' = [IF cached = BlockOf(i) THEN inodes ELSE table' EXCEPT ![i] = v]
      /\ UNCHANGED <<head, dirent, open>>
  BY DEF DoWrite
<1>2. inodes' = [inodes EXCEPT ![i] = v]
  BY <1>1, CacheStep
<1>3. inodes' \in [Inodes -> Inode] /\ \A j \in Inodes : j # i => inodes'[j] = inodes[j]
  BY <1>2 DEF TypeOK, Inode
<1>4. ASSUME NEW j \in Inodes, inodes'[j] # table'[j]
      PROVE  dirty' /\ BlockOf(j) = cached'
  <2>1. BlockOf(j) = BlockOf(i)
    BY <1>1, <1>3, <1>4, CacheStep
  <2> QED
    BY <1>1, <2>1
<1>5. Coherent'
  BY <1>4 DEF Coherent
<1> QED
  BY <1>1, <1>2, <1>3, <1>5, CacheStep, InodeNumbers, BlockNumbers DEF CacheAfter

\* The step of a handler does its first operation.
LEMMA FirstStep ==
  ASSUME Step, NEW a \in Ops, Head(todo) = a
  PROVE  /\ a.op = "read" => DoRead(a)
         /\ a.op = "write" => DoWrite(a)
         /\ a.op = "head" => DoHead(a)
         /\ a.op = "entry" => DoEntry(a)
         /\ a.op = "opened" => DoFd(a, 1)
         /\ a.op = "released" => DoFd(a, -1)
         /\ todo' = Tail(todo) /\ tainted' = tainted
BY DEF Step

\* What the first operation does, one after the other, and that it keeps the types.
LEMMA Does ==
  ASSUME TypeOK, Step
  PROVE  /\ todo' = Tail(todo) /\ tainted' = tainted
         /\ Head(todo) # Abort
         /\ \A i \in Inodes \cup {NumInodes + 1} : Head(todo) = Read(i) =>
               inodes' = inodes /\ CacheAfter(i) /\ UNCHANGED <<head, dirent, open>> /\ TypeOK'
         /\ \A i \in Inodes, l, s \in Nat : Head(todo) = Write(i, l, s) =>
               /\ inodes' = [inodes EXCEPT ![i] = [links |-> l, size |-> s]]
               /\ CacheAfter(i) /\ UNCHANGED <<head, dirent, open>> /\ TypeOK'
         /\ \A i \in 0..(NumInodes + 1) : Head(todo) = SetHead(i) =>
               head' = i /\ UNCHANGED <<table, inodes, dirent, open>> /\ TypeOK'
         /\ \A k \in Slots, i \in {0} \cup Files : Head(todo) = Entry(k, i) =>
               dirent' = [dirent EXCEPT ![k] = i] /\ UNCHANGED <<table, inodes, head, open>> /\ TypeOK'
         /\ \A i \in Files : Head(todo) = Opened(i) /\ open[i] < MaxOpen =>
               open' = [open EXCEPT ![i] = @ + 1] /\ UNCHANGED <<table, inodes, head, dirent>> /\ TypeOK'
         /\ \A i \in Files : Head(todo) = Released(i) /\ open[i] > 0 =>
               open' = [open EXCEPT ![i] = @ - 1] /\ UNCHANGED <<table, inodes, head, dirent>> /\ TypeOK'
<1>1. todo' = Tail(todo) /\ tainted' = tainted
  BY DEF Step
<1>2. tainted' \in BOOLEAN
  BY <1>1, Zenon DEF TypeOK
<1>9. Head(todo) # Abort
  BY OpFields DEF Step
<1>3. ASSUME NEW i \in Inodes \cup {NumInodes + 1}, Head(todo) = Read(i)
      PROVE  inodes' = inodes /\ CacheAfter(i) /\ UNCHANGED <<head, dirent, open>> /\ TypeOK'
  <2>1. DoRead(Read(i)) /\ Read(i).i = i /\ i \in 1..(NumInodes + 1)
    BY <1>3, FirstStep, OpTypes, OpFields, InodeNumbers
  <2>2. inodes' = inodes /\ CacheAfter(i) /\ UNCHANGED <<head, dirent, open>>
    BY <2>1, ReadStep
  <2> QED
    BY <1>2, <2>2 DEF TypeOK, CacheAfter, Coherent, Inode
<1>4. ASSUME NEW i \in Inodes, NEW l \in Nat, NEW s \in Nat, Head(todo) = Write(i, l, s)
      PROVE  /\ inodes' = [inodes EXCEPT ![i] = [links |-> l, size |-> s]]
             /\ CacheAfter(i) /\ UNCHANGED <<head, dirent, open>> /\ TypeOK'
  <2> DEFINE v == [links |-> l, size |-> s]
  <2>0. /\ Write(i, l, s) \in Ops /\ Write(i, l, s).op = "write"
        /\ Write(i, l, s).i = i /\ Write(i, l, s).inode = v
    BY OpTypes, OpFields
  <2>1. DoWrite(Write(i, l, s))
    BY <1>4, <2>0, FirstStep
  <2>2. v \in Inode
    BY DEF Inode
  <2> HIDE DEF v
  <2>3. /\ inodes' = [inodes EXCEPT ![i] = v] /\ inodes' \in [Inodes -> Inode]
        /\ CacheAfter(i) /\ UNCHANGED <<head, dirent, open>>
    BY <2>0, <2>1, <2>2, WriteStep
  <2>4. TypeOK'
    BY <1>2, <2>3 DEF TypeOK, CacheAfter, Coherent, Inode
  <2> QED
    BY <2>3, <2>4 DEF v
<1>5. ASSUME NEW i \in 0..(NumInodes + 1), Head(todo) = SetHead(i)
      PROVE  head' = i /\ UNCHANGED <<table, inodes, dirent, open>> /\ TypeOK'
  <2>1. DoHead(SetHead(i)) /\ SetHead(i).i = i
    BY <1>5, FirstStep, OpTypes, OpFields
  <2> QED
    BY <1>2, <2>1 DEF DoHead, TypeOK
<1>6. ASSUME NEW k \in Slots, NEW i \in {0} \cup Files, Head(todo) = Entry(k, i)
      PROVE  dirent' = [dirent EXCEPT ![k] = i] /\ UNCHANGED <<table, inodes, head, open>> /\ TypeOK'
  <2>1. DoEntry(Entry(k, i)) /\ Entry(k, i).i = i /\ Entry(k, i).k = k
    BY <1>6, FirstStep, OpTypes, OpFields
  <2> QED
    BY <1>2, <2>1 DEF DoEntry, TypeOK
<1>7. ASSUME NEW i \in Files, Head(todo) = Opened(i), open[i] < MaxOpen
      PROVE  open' = [open EXCEPT ![i] = @ + 1] /\ UNCHANGED <<table, inodes, head, dirent>> /\ TypeOK'
  <2>1. DoFd(Opened(i), 1) /\ Opened(i).i = i
    BY <1>7, FirstStep, OpTypes, OpFields
  <2>2. open' = [open EXCEPT ![i] = @ + 1] /\ UNCHANGED <<table, inodes, head, dirent, cached, dirty>>
    BY <2>1 DEF DoFd
  <2>3. open' \in [Files -> 0..MaxOpen]
    BY <1>7, <2>2, SizeFacts DEF TypeOK
  <2> QED
    BY <1>2, <2>2, <2>3 DEF TypeOK
<1>8. ASSUME NEW i \in Files, Head(todo) = Released(i), open[i] > 0
      PROVE  open' = [open EXCEPT ![i] = @ - 1] /\ UNCHANGED <<table, inodes, head, dirent>> /\ TypeOK'
  <2>1. DoFd(Released(i), -1) /\ Released(i).i = i
    BY <1>8, FirstStep, OpTypes, OpFields
  <2>2. open' = [open EXCEPT ![i] = @ - 1] /\ UNCHANGED <<table, inodes, head, dirent, cached, dirty>>
    BY <2>1 DEF DoFd, TypeOK
  <2>3. open' \in [Files -> 0..MaxOpen]
    BY <1>8, <2>2, SizeFacts DEF TypeOK
  <2> QED
    BY <1>2, <2>2, <2>3 DEF TypeOK
<1> QED
  BY <1>1, <1>3, <1>4, <1>5, <1>6, <1>7, <1>8, <1>9

-----------------------------------------------------------------------------
(* The invariant.  Of the inodes only what a read would return counts, wherever it is. *)

\* The numbers at which the free list ends, and the list.
End == {0, NumInodes + 1}
Sizes == [i \in Inodes |-> inodes[i].size]
FreeOK(F) == /\ F \in SUBSET Files
             /\ Listed(F, Sizes, head, End)
             /\ \A i \in F : Links(i) = 0

\* No two entries name the same inode.
Apart == \A k, j \in Entries : dirent[k] = dirent[j] => k = j

\* The directory on the disk is not longer than the one in the cache.
RootOK == table[Root].size <= RootSize /\ RootSize <= MaxDirBlocks

\* The links of file i cover its entry, its descriptors and n more.
Named(i) == \E k \in Entries : dirent[k] = i
Covered(i, n) == open[i] + n <= Links(i) /\ (Named(i) => open[i] + n + 1 <= Links(i))
Unused(i) == open[i] = 0 /\ ~Named(i)

\* An operation that changes no link and no free inode, or is not done.
Harmless(o) ==
  \/ \E i \in Inodes : o = Read(i)
  \/ \E i \in Files, s \in Nat : Links(i) > 0 /\ o = Write(i, Links(i), s)
  \/ o = WriteRoot(RootSize)
  \/ o = Read(NumInodes + 1) \/ o = Abort

\* The sequence s is T behind harmless operations.
Behind(s, T) == \E P \in Seq(Ops) : s = P \o T /\ \A m \in 1..Len(P) : Harmless(P[m])

\* ... behind a write of the root at most.
Touch(U, V) == V \in Seq(Ops) /\ (U = V \/ U = <<WriteRoot(RootSize)>> \o V)

\* What is left to do for file i: an entry for the new inode,
LinkIn(i, V) ==
  \/ \E k \in Holes : V = <<Entry(k, i), WriteRoot(RootSize), Write(i, 2, 0), Opened(i)>>
  \/ RootSize \in Slots /\ V = <<Entry(RootSize, i), WriteRoot(RootSize + 1), Write(i, 2, 0), Opened(i)>>
\* or none, when the creation fails,
LinkOrFail(i, V) == LinkIn(i, V) \/ V = <<>>
\* or the end of an entry or a descriptor.
Forget(i, V) == \/ \E k \in Entries : dirent[k] = i /\ V = <<Entry(k, 0)>>
                \/ open[i] > 0 /\ V = <<Released(i)>>

Opening(i, T) == T = <<Opened(i)>> /\ Covered(i, 1) /\ open[i] < MaxOpen
Counting(i, T) == /\ T = <<Write(i, Links(i) + 1, 0), Opened(i)>>
                  /\ Covered(i, 0) /\ Links(i) > 0 /\ open[i] < MaxOpen
Growing(i, T) == /\ T = <<WriteRoot(RootSize + 1), Write(i, 2, 0), Opened(i)>>
                 /\ RootSize \in Slots /\ dirent[RootSize] = i
                 /\ Links(i) = 1 /\ Unused(i)
Entering(i, T) == LinkIn(i, T) /\ Links(i) = 1 /\ Unused(i)
Storing(i, T, F) == \E U, V \in Seq(Ops) :
  /\ T = <<Write(i, 1, 0)>> \o U /\ Touch(U, V) /\ LinkOrFail(i, V)
  /\ Links(i) = 0 /\ Unused(i) /\ i \notin F
Taking(i, T) == \E U, V \in Seq(Ops) :
  /\ T = <<SetHead(inodes[i].size)>> \o (<<Write(i, 1, 0)>> \o U) /\ Touch(U, V) /\ LinkOrFail(i, V)
  /\ Unused(i) /\ head = i
\* The list has ended behind the table, and will at 0, whatever file i is.
Ending(i, T) == T = <<SetHead(0), Abort>> /\ head = NumInodes + 1 /\ Covered(i, 0)
Forgetting(i, T) == Forget(i, T) /\ Covered(i, -1)
Pushing(i, T, F) == \E U, V \in Seq(Ops) :
  /\ T = <<SetHead(i)>> \o U /\ Touch(U, V) /\ Forget(i, V)
  /\ Covered(i, -1) /\ Links(i) = 0 /\ inodes[i].size = head /\ i \notin F
Freeing(i, T) == \E U, V \in Seq(Ops) :
  /\ T = <<Write(i, 0, head)>> \o (<<SetHead(i)>> \o U) /\ Touch(U, V) /\ Forget(i, V)
  /\ Covered(i, 0) /\ Links(i) = 1
Dropping(i, T) == \E U, V \in Seq(Ops) :
  /\ T = <<Write(i, Links(i) - 1, 0)>> \o U /\ Touch(U, V) /\ Forget(i, V)
  /\ Covered(i, 0) /\ Links(i) > 1

Rest(i, T, F) ==
  \/ Opening(i, T) \/ Counting(i, T) \/ Growing(i, T) \/ Entering(i, T)
  \/ Storing(i, T, F) \/ Taking(i, T) \/ Ending(i, T)
  \/ Forgetting(i, T) \/ Pushing(i, T, F) \/ Freeing(i, T) \/ Dropping(i, T)

\* Every file is covered, but the one that the handler still has to deal with.
TodoOK(F) == \E T \in Seq(Ops) :
  /\ Behind(todo, T)
  /\ \/ T = <<>> /\ \A j \in Files : Covered(j, 0)
     \/ \E i \in Files : Rest(i, T, F) /\ \A j \in Files \ {i} : Covered(j, 0)

\* An entry that the directory on the disk does not reach yet names an inode in the block
\* of the root, or one that will be written.
Pending(i) == \E m \in 1..Len(todo) : todo[m].op = "write" /\ todo[m].i = i
NamesOK == \A k \in Entries \ DiskEntries : BlockOf(dirent[k]) = BlockOf(Root) \/ Pending(dirent[k])

Sound == Apart /\ RootOK /\ NamesOK /\ \E F : FreeOK(F) /\ TodoOK(F)

\* The inductive invariant.
DInv == todo \in Seq(Ops) /\ TypeOK /\ Sound

-----------------------------------------------------------------------------
(* Sequences with harmless operations in front. *)

\* Nothing is left to do behind nothing,
LEMMA BehindNil ==
  ASSUME NEW T \in Seq(Ops), Behind(<<>>, T)
  PROVE  T = <<>>
<1>1. PICK P \in Seq(Ops) : <<>> = P \o T
  BY DEF Behind
<1> QED
  BY <1>1, ConcatEqualIffEmpty

\* a sequence is what it leaves to do,
LEMMA BehindSelf ==
  ASSUME NEW T \in Seq(Ops)
  PROVE  Behind(T, T)
<1>1. <<>> \in Seq(Ops) /\ T = <<>> \o T /\ \A m \in 1..Len(<<>>) : Harmless(<<>>[m])
  BY ConcatEmptySeq
<1> QED
  BY <1>1 DEF Behind

\* a harmless operation in front changes nothing in that,
LEMMA BehindCons ==
  ASSUME NEW s \in Seq(Ops), NEW T \in Seq(Ops), Behind(s, T), NEW a \in Ops, Harmless(a)
  PROVE  Behind(<<a>> \o s, T)
<1>1. PICK P \in Seq(Ops) : s = P \o T /\ \A m \in 1..Len(P) : Harmless(P[m])
  BY DEF Behind
<1> DEFINE Q == <<a>> \o P
<1>2. <<a>> \in Seq(Ops) /\ Len(<<a>>) = 1 /\ <<a>>[1] = a
  OBVIOUS
<1>3. /\ Q \in Seq(Ops) /\ Len(Q) = 1 + Len(P)
      /\ \A m \in 1..(1 + Len(P)) : Q[m] = IF m <= 1 THEN <<a>>[m] ELSE P[m - 1]
  BY <1>2, ConcatProperties
<1>4. <<a>> \o s = Q \o T
  BY <1>1, <1>2, ConcatAssociative
<1>5. ASSUME NEW m \in 1..Len(Q)
      PROVE  Harmless(Q[m])
  <2>1. Len(P) \in Nat /\ m \in 1..(1 + Len(P))
    BY <1>3
  <2>2. CASE m <= 1
    <3>1. m = 1 /\ Q[m] = a
      BY <1>2, <1>3, <2>1, <2>2
    <3> QED
      BY <3>1
  <2>3. CASE m > 1
    <3>1. m - 1 \in 1..Len(P) /\ Q[m] = P[m - 1]
      BY <1>3, <2>1, <2>3
    <3> QED
      BY <1>1, <3>1
  <2> QED
    BY <2>1, <2>2, <2>3
<1> HIDE DEF Q
<1> QED
  BY <1>3, <1>4, <1>5 DEF Behind

\* and the first operation is harmless, or it is the first of what is left.
LEMMA BehindStep ==
  ASSUME NEW s \in Seq(Ops), s # <<>>, NEW T \in Seq(Ops), Behind(s, T)
  PROVE  s = T \/ (Harmless(Head(s)) /\ Behind(Tail(s), T))
<1>1. PICK P \in Seq(Ops) : s = P \o T /\ \A m \in 1..Len(P) : Harmless(P[m])
  BY DEF Behind
<1>2. CASE P = <<>>
  BY <1>1, <1>2, ConcatEmptySeq
<1>3. CASE P # <<>>
  <2> DEFINE Q == Tail(P)
  <2>1. /\ Q \in Seq(Ops) /\ Len(Q) = Len(P) - 1 /\ Len(P) \in Nat /\ Len(P) >= 1
        /\ \A m \in 1..Len(Q) : Q[m] = P[m + 1]
    BY <1>3, HeadTailProperties, EmptySeq
  <2>2. P = <<P[1]>> \o Q /\ P[1] \in Ops
    <3>1. P[1] \in Ops
      BY <2>1
    <3>2. <<P[1]>> \in Seq(Ops) /\ Len(<<P[1]>>) = 1 /\ <<P[1]>>[1] = P[1]
      BY <3>1
    <3> DEFINE R == <<P[1]>> \o Q
    <3>3. /\ R \in Seq(Ops) /\ Len(R) = 1 + Len(Q)
          /\ \A m \in 1..(1 + Len(Q)) : R[m] = IF m <= 1 THEN <<P[1]>>[m] ELSE Q[m - 1]
      BY <2>1, <3>2, ConcatProperties
    <3>4. \A m \in 1..Len(P) : R[m] = P[m]
      BY <2>1, <3>2, <3>3
    <3> HIDE DEF R, Q
    <3>5. P = R
      BY <2>1, <3>3, <3>4
    <3> QED
      BY <3>1, <3>5 DEF R
  <2>3. s = <<P[1]>> \o (Q \o T)
    <3>1. <<P[1]>> \in Seq(Ops)
      BY <2>2
    <3> QED
      BY <1>1, <2>1, <2>2, <3>1, ConcatAssociative
  <2>4. Q \o T \in Seq(Ops)
    BY <2>1, ConcatProperties
  <2>5. Head(s) = P[1] /\ Tail(s) = Q \o T
    BY <2>2, <2>3, <2>4, FirstOp
  <2>6. Harmless(P[1]) /\ \A m \in 1..Len(Q) : Harmless(Q[m])
    <3>1. 1 \in 1..Len(P) /\ \A m \in 1..Len(Q) : m + 1 \in 1..Len(P)
      BY <2>1
    <3> QED
      BY <1>1, <2>1, <3>1
  <2> HIDE DEF Q
  <2> QED
    BY <2>1, <2>5, <2>6 DEF Behind
<1> QED
  BY <1>2, <1>3

-----------------------------------------------------------------------------
(* What the invariant says of the disk. *)

\* The function that follows the list on the disk.
IsDiskList(c) == c = [n \in 0..NumInodes |->
                        IF n = 0 THEN head
                        ELSE IF c[n - 1] \in Files THEN table[c[n - 1]].size ELSE 0]

\* The recursive function DiskList exists: the listing of the free inodes defines it.
LEMMA DiskListExists ==
  ASSUME NEW F \in SUBSET Files, NEW next, Listed(F, next, head, End),
         \A x \in F : next[x] = table[x].size
  PROVE  \E c : IsDiskList(c)
<1>0. PICK n \in Nat : \E s : Listing(n, s, F, next, head, End)
  BY DEF Listed
<1>1. PICK s : Listing(n, s, F, next, head, End)
  BY <1>0
<1> DEFINE c == [j \in 0..NumInodes |-> IF j <= n THEN s[j + 1] ELSE 0]
<1>2. ASSUME NEW j \in 0..NumInodes
      PROVE  c[j] = IF j = 0 THEN head
                    ELSE IF c[j - 1] \in Files THEN table[c[j - 1]].size ELSE 0
  <2>1. CASE j = 0
    BY <1>1, <2>1 DEF Listing
  <2>2. CASE j # 0 /\ j <= n
    <3>1. j - 1 \in 0..NumInodes /\ j - 1 <= n /\ (j - 1) + 1 = j /\ j \in 1..n
      BY <2>2, SizeFacts
    <3>2. c[j - 1] = s[j] /\ s[j] \in F /\ next[s[j]] = s[j + 1]
      BY <1>1, <3>1 DEF Listing
    <3> QED
      BY <2>2, <3>2
  <2>3. CASE j # 0 /\ j = n + 1
    <3>1. j - 1 \in 0..NumInodes /\ j - 1 <= n /\ (j - 1) + 1 = n + 1
      BY <2>3, SizeFacts
    <3>2. c[j - 1] \in End
      BY <1>1, <3>1 DEF Listing
    <3>3. c[j - 1] \notin Files
      BY <3>2, SizeFacts DEF End
    <3> QED
      BY <2>3, <3>3
  <2>4. CASE j # 0 /\ j > n + 1
    <3>1. j - 1 \in 0..NumInodes /\ ~(j - 1 <= n)
      BY <2>4, SizeFacts
    <3>2. c[j - 1] = 0
      BY <3>1
    <3> QED
      BY <2>4, <3>2, SizeFacts
  <2> QED
    BY <2>1, <2>2, <2>3, <2>4, SizeFacts
<1>3. IsDiskList(c)
  BY <1>2 DEF IsDiskList
<1> QED
  BY <1>3

\* It ends, and has no files but those of the list.
LEMMA DiskListEnds ==
  ASSUME NEW F \in SUBSET Files, NEW next, Listed(F, next, head, End),
         \A x \in F : next[x] = table[x].size, NEW c, IsDiskList(c)
  PROVE  /\ c[NumInodes] \notin Files
         /\ \A n \in 0..NumInodes : c[n] \in Files => c[n] \in F
<1>0. PICK n \in Nat : \E s : Listing(n, s, F, next, head, End)
  BY DEF Listed
<1>1. PICK s : Listing(n, s, F, next, head, End)
  BY <1>0
<1>2. n <= NumInodes /\ NumInodes \in Nat /\ 0 \in End /\ End \cap Files = {}
  <2>1. F \subseteq 1..NumInodes
    BY DEF Files
  <2>2. End \cap Files = {}
    BY SizeFacts DEF End
  <2> QED
    BY <1>1, <2>1, <2>2, ListLength, SizeFacts DEF End
<1>3. Follows(c, NumInodes, F, next, head, End)
  <2>1. /\ c[0] = head
        /\ \A j \in 1..NumInodes : c[j] = IF c[j - 1] \in Files THEN table[c[j - 1]].size ELSE 0
    <3>1. \A j \in 0..NumInodes : c[j] = IF j = 0 THEN head
                                       ELSE IF c[j - 1] \in Files THEN table[c[j - 1]].size ELSE 0
      BY Zenon DEF IsDiskList
    <3>2. 0 \in 0..NumInodes /\ \A j \in 1..NumInodes : j \in 0..NumInodes /\ j # 0
      BY <1>2
    <3> QED
      BY <3>1, <3>2
  <2>2. \A j \in 1..NumInodes : c[j - 1] \in F => c[j] = next[c[j - 1]]
    BY <2>1
  <2>3. \A j \in 1..NumInodes : c[j - 1] \in End => c[j] \in End
    BY <1>2, <2>1
  <2> QED
    BY <1>2, <2>1, <2>2, <2>3 DEF Follows
<1>4. \A j \in 0..NumInodes : (j <= n => c[j] = s[j + 1]) /\ (j > n => c[j] \in End)
  BY <1>1, <1>3, ListWalk
<1>5. ASSUME NEW j \in 0..NumInodes, c[j] \in Files
      PROVE  c[j] \in F
  <2>1. j <= n /\ c[j] = s[j + 1] /\ j + 1 \in 1..(n + 1)
    BY <1>2, <1>4, <1>5
  <2>2. s[j + 1] \in F \cup End
    BY <1>1, <2>1 DEF Listing
  <2> QED
    BY <1>2, <1>5, <2>1, <2>2
<1>6. c[NumInodes] \notin Files
  <2>1. CASE n = NumInodes
    BY <1>1, <1>2, <1>4, <2>1 DEF Listing
  <2>2. CASE n < NumInodes
    BY <1>2, <1>4, <2>2
  <2> QED
    BY <1>2, <2>1, <2>2
<1> QED
  BY <1>5, <1>6

\* Outside the two windows, what is saved of a free inode is what is cached.
LEMMA SavedFree ==
  ASSUME TypeOK, ~Exposed, NEW i \in Files
  PROVE  /\ Links(i) = 0 => table[i] = inodes[i]
         /\ Links(i) = 0 <=> table[i].links = 0
BY SizeFacts DEF Exposed, Unsaved, Links, TypeOK

\* Entries on the disk are entries.
LEMMA DiskEntriesAre ==
  ASSUME TypeOK, RootOK
  PROVE  DiskEntries \subseteq Entries /\ \A k \in Entries : dirent[k] \in Files
BY SizeFacts DEF TypeOK, RootOK, DiskEntries, Entries, RootSize, Slots

\* The invariant implies that a crash outside the windows leaves a good disk,
LEMMA SoundDisk ==
  ASSUME TypeOK, Sound
  PROVE  DiskSurvivesCrash
<1> SUFFICES ASSUME ~Exposed
             PROVE  /\ DiskList[NumInodes] \notin Files
                    /\ \A n \in DOMAIN DiskList : DiskList[n] \in Files => table[DiskList[n]].links = 0
                    /\ \A k \in DiskEntries : table[dirent[k]].links > 0
                    /\ \A k, j \in DiskEntries : dirent[k] = dirent[j] => k = j
  BY DEF DiskSurvivesCrash
<1>1. PICK F : FreeOK(F)
  BY DEF Sound
<1>2. /\ F \in SUBSET Files /\ Listed(F, Sizes, head, End)
      /\ \A x \in F : Sizes[x] = table[x].size /\ table[x].links = 0
  BY <1>1, SavedFree, SizeFacts DEF FreeOK, Sizes
<1> DEFINE c == CHOOSE c : IsDiskList(c)
<1>3. IsDiskList(c)
  BY <1>2, DiskListExists
<1>4. DiskList = c
  BY DEF DiskList, IsDiskList
<1>5. DOMAIN c = 0..NumInodes
  BY <1>3 DEF IsDiskList
<1> HIDE DEF c
<1>6. c[NumInodes] \notin Files /\ \A n \in 0..NumInodes : c[n] \in Files => c[n] \in F
  BY <1>2, <1>3, DiskListEnds
<1>7. \A k \in DiskEntries : k \in Entries /\ dirent[k] \in Files
  BY DiskEntriesAre DEF Sound
<1>8. \A k \in DiskEntries : table[dirent[k]].links > 0
  <2> SUFFICES ASSUME NEW k \in DiskEntries
               PROVE  table[dirent[k]].links > 0
    OBVIOUS
  <2>1. Links(dirent[k]) # 0
    BY <1>7 DEF Exposed, HalfUnlinked
  <2>2. table[dirent[k]].links # 0 /\ table[dirent[k]].links \in Nat
    BY <1>7, <2>1, SavedFree, SizeFacts DEF TypeOK
  <2> QED
    BY <2>2
<1>9. \A k, j \in DiskEntries : dirent[k] = dirent[j] => k = j
  BY <1>7 DEF Sound, Apart
<1> QED
  BY <1>2, <1>4, <1>5, <1>6, <1>8, <1>9

\* and that between two handlers it takes back names in the block of the root only.
LEMMA SoundNames ==
  ASSUME TypeOK, Sound
  PROVE  NamesSurviveCrash
<1> SUFFICES ASSUME todo = <<>>, NEW k \in Entries \ DiskEntries
             PROVE  BlockOf(dirent[k]) = BlockOf(Root) /\ cached = BlockOf(Root) /\ dirty
  BY DEF NamesSurviveCrash
<1>1. ~Pending(dirent[k])
  BY DEF Pending
<1>2. BlockOf(dirent[k]) = BlockOf(Root)
  BY <1>1 DEF Sound, NamesOK
<1>3. inodes[Root] # table[Root]
  BY DEF Entries, DiskEntries, RootSize
<1> QED
  BY <1>2, <1>3, SizeFacts DEF TypeOK

-----------------------------------------------------------------------------
(* What a step does to the directory and the names in it. *)

TableStep ==
  /\ table' \in {table, inodes}
  /\ \A i : Head(todo).op = "write" /\ Head(todo).i = i /\ cached # BlockOf(i) => table' = inodes

\* The table on the disk stays or gets what was cached, the latter if an inode of another
\* block is written.
LEMMA DoesTable ==
  ASSUME TypeOK, Step, todo \in Seq(Ops)
  PROVE  TableStep
<1>1. PICK a \in Ops : a = Head(todo)
  BY HeadTailProperties DEF Step
<1>2. ASSUME NEW i \in Inodes \cup {NumInodes + 1}, a = Read(i)
      PROVE  TableStep
  <2>1. CacheAfter(i)
    BY <1>1, <1>2, Does
  <2> QED
    BY <1>1, <1>2, <2>1, OpFields DEF TableStep, CacheAfter
<1>3. ASSUME NEW i \in Inodes, NEW l \in Nat, NEW s \in Nat, a = Write(i, l, s)
      PROVE  TableStep
  <2>1. CacheAfter(i)
    BY <1>1, <1>3, Does
  <2>2. a.i = i
    BY <1>3, OpFields
  <2> QED
    BY <1>1, <2>1, <2>2 DEF TableStep, CacheAfter
<1>4. ASSUME a.op \in {"head", "entry", "opened", "released"}
      PROVE  TableStep
  <2>1. table' = table
    BY <1>1, <1>4, FirstStep DEF DoHead, DoEntry, DoFd
  <2> QED
    BY <1>1, <1>4, <2>1 DEF TableStep
<1>5. a # Abort
  BY <1>1, Does
<1> QED
  BY <1>2, <1>3, <1>4, <1>5, OpFields DEF Ops

\* Inode i will be written later.
StillPending(i) == \E m \in 1..Len(todo') : todo'[m].op = "write" /\ todo'[m].i = i

\* The directory on the disk stays behind the one in the cache, and new entries name inodes
\* that will be written: when they are, the size of the root is written back first.
LEMMA DirStep ==
  ASSUME TypeOK, TypeOK', RootOK, NamesOK, todo \in Seq(Ops), todo # <<>>, todo' = Tail(todo), TableStep,
         RootSize' >= RootSize, RootSize' <= MaxDirBlocks,
         \A k \in Entries' : (k \in Entries /\ dirent'[k] = dirent[k]) \/ StillPending(dirent'[k])
  PROVE  RootOK' /\ NamesOK'
<1>1. /\ table[Root].size \in Nat /\ RootSize \in Nat /\ table'[Root].size \in Nat /\ RootSize' \in Nat
      /\ table'[Root].size \in {table[Root].size, RootSize}
  BY SizeFacts DEF TypeOK, RootSize, TableStep
<1>2. RootOK'
  BY <1>1 DEF RootOK
<1>3. ASSUME NEW k \in Entries' \ DiskEntries', ~StillPending(dirent'[k]), BlockOf(dirent'[k]) # BlockOf(Root)
      PROVE  FALSE
  <2>1. k \in Entries /\ dirent'[k] = dirent[k]
    BY <1>3
  <2>2. k \in Slots /\ k \in Nat /\ dirent[k] # 0 /\ k < RootSize
    BY <2>1, SizeFacts DEF Entries, Slots
  <2>3. ~(k < table'[Root].size)
    BY <1>3, <2>1, <2>2 DEF DiskEntries
  <2>4. ~(k < table[Root].size)
    BY <1>1, <2>2, <2>3 DEF RootOK
  <2>5. k \in Entries \ DiskEntries
    BY <2>1, <2>4 DEF DiskEntries
  <2>6. PICK m \in 1..Len(todo) : todo[m].op = "write" /\ todo[m].i = dirent[k]
    BY <1>3, <2>1, <2>5 DEF NamesOK, Pending
  <2>7. m = 1
    <3> SUFFICES ASSUME m # 1
                 PROVE  FALSE
      OBVIOUS
    <3>1. /\ Len(Tail(todo)) = Len(todo) - 1 /\ Len(todo) \in Nat
          /\ \A n \in 1..Len(Tail(todo)) : Tail(todo)[n] = todo[n + 1]
      BY HeadTailProperties
    <3>2. m - 1 \in 1..Len(Tail(todo)) /\ (m - 1) + 1 = m
      BY <3>1
    <3>3. Tail(todo)[m - 1] = todo[m]
      BY <3>1, <3>2
    <3> QED
      BY <1>3, <2>1, <2>6, <3>2, <3>3 DEF StillPending
  <2>8. Head(todo) = todo[1]
    OBVIOUS
  <2>9. inodes[Root] # table[Root]
    BY <2>2, <2>4 DEF RootSize
  <2>10. cached = BlockOf(Root)
    BY <2>9, SizeFacts DEF TypeOK
  <2>11. table' = inodes
    BY <1>3, <2>1, <2>6, <2>7, <2>8, <2>10 DEF TableStep
  <2> QED
    BY <2>2, <2>3, <2>11 DEF RootSize
<1>4. NamesOK'
  BY <1>3 DEF NamesOK, Pending, StillPending
<1> QED
  BY <1>2, <1>4

-----------------------------------------------------------------------------
(* Harmless steps. *)

SameView ==
  /\ \A j \in Inodes : inodes'[j].links = inodes[j].links
  /\ \A j \in Inodes : inodes[j].links = 0 => inodes'[j] = inodes[j]
  /\ inodes'[Root] = inodes[Root]
  /\ head' = head /\ dirent' = dirent /\ open' = open

\* A view that stays the same has the same directory,
LEMMA SameFacts ==
  ASSUME SameView
  PROVE  /\ \A j \in Inodes : Links(j)' = Links(j)
         /\ RootSize' = RootSize /\ Entries' = Entries /\ Holes' = Holes
         /\ \A n : WriteRoot(n)' = WriteRoot(n)
<1>1. inodes'[Root] = inodes[Root] /\ dirent' = dirent
  BY DEF SameView
<1>2. RootSize' = RootSize /\ Links(Root)' = Links(Root)
  BY <1>1 DEF RootSize, Links
<1>3. Entries' = Entries /\ Holes' = Holes
  BY <1>1, <1>2 DEF Entries, Holes
<1>4. \A j \in Inodes : Links(j)' = Links(j)
  BY DEF SameView, Links
<1>5. \A n : WriteRoot(n)' = WriteRoot(n)
  BY <1>1 DEF WriteRoot, Write, Links
<1> QED
  BY <1>2, <1>3, <1>4, <1>5

\* the same files covered by their links,
LEMMA SameCovered ==
  ASSUME SameView, NEW i \in Files, NEW n
  PROVE  (Named(i)' <=> Named(i)) /\ (Covered(i, n) => Covered(i, n)') /\ (Unused(i) => Unused(i)')
<1>1. Links(i)' = Links(i) /\ Entries' = Entries /\ dirent' = dirent /\ open' = open
  BY SameFacts, SizeFacts DEF SameView
<1> QED
  BY <1>1 DEF Named, Covered, Unused

\* the same harmless operations,
LEMMA SameBehind ==
  ASSUME SameView, NEW s, NEW T, Behind(s, T)
  PROVE  Behind(s, T)'
<1>1. ASSUME NEW o, Harmless(o)
      PROVE  Harmless(o)'
  <2>1. CASE \E i \in Inodes : o = Read(i)
    BY <2>1 DEF Harmless
  <2>2. CASE \E i \in Files, n \in Nat : Links(i) > 0 /\ o = Write(i, Links(i), n)
    BY <2>2, SameFacts, SizeFacts DEF Harmless
  <2>3. CASE o = WriteRoot(RootSize)
    BY <2>3, SameFacts DEF Harmless
  <2>4. CASE o = Read(NumInodes + 1) \/ o = Abort
    BY <2>4 DEF Harmless
  <2> QED
    BY <1>1, <2>1, <2>2, <2>3, <2>4 DEF Harmless
<1> QED
  BY <1>1 DEF Behind

\* the same free list,
LEMMA SameFree ==
  ASSUME SameView, NEW F, FreeOK(F)
  PROVE  FreeOK(F)'
<1>1. F \in SUBSET Files /\ Listed(F, Sizes, head, End) /\ \A j \in F : Links(j) = 0
  BY DEF FreeOK
<1>2. \A j \in F : Sizes'[j] = Sizes[j] /\ Links(j)' = 0
  BY <1>1, SameFacts, SizeFacts DEF SameView, Sizes, Links
<1>3. Listed(F, Sizes', head, End)
  BY <1>1, <1>2, ListFrame
<1> QED
  BY <1>1, <1>2, <1>3 DEF FreeOK, SameView

\* and the same things left to do.
LEMMA SameRest ==
  ASSUME TypeOK, SameView, NEW F, FreeOK(F), NEW i \in Files, NEW T, Rest(i, T, F)
  PROVE  Rest(i, T, F)'
<1>1. /\ Links(i)' = Links(i) /\ RootSize' = RootSize /\ Entries' = Entries /\ Holes' = Holes
      /\ head' = head /\ dirent' = dirent /\ open' = open
      /\ \A n : WriteRoot(n)' = WriteRoot(n)
  BY SameFacts, SizeFacts DEF SameView
<1>2. Links(i) = 0 => inodes'[i] = inodes[i]
  BY SizeFacts DEF SameView, Links
<1>3. ASSUME NEW V
      PROVE  /\ LinkIn(i, V) => LinkIn(i, V)'
             /\ LinkOrFail(i, V) => LinkOrFail(i, V)'
             /\ Forget(i, V) => Forget(i, V)'
             /\ \A U : Touch(U, V) => Touch(U, V)'
  BY <1>1 DEF LinkIn, LinkOrFail, Forget, Touch
<1>4. Opening(i, T) => Opening(i, T)'
  BY <1>1, SameCovered DEF Opening
<1>5. Counting(i, T) => Counting(i, T)'
  BY <1>1, SameCovered DEF Counting
<1>6. Growing(i, T) => Growing(i, T)'
  BY <1>1, SameCovered DEF Growing
<1>7. Entering(i, T) => Entering(i, T)'
  BY <1>1, <1>3, SameCovered DEF Entering
<1>8. Storing(i, T, F) => Storing(i, T, F)'
  BY <1>1, <1>3, SameCovered DEF Storing
<1>9. Taking(i, T) => Taking(i, T)'
  <2>1. head = i => Links(i) = 0
    <3>1. i \notin End
      BY SizeFacts DEF End
    <3> QED
      BY <3>1, ListHead DEF FreeOK
  <2> QED
    BY <1>1, <1>2, <1>3, <2>1, SameCovered DEF Taking
<1>10. Forgetting(i, T) => Forgetting(i, T)'
  BY <1>1, <1>3, SameCovered DEF Forgetting
<1>11. Pushing(i, T, F) => Pushing(i, T, F)'
  BY <1>1, <1>2, <1>3, SameCovered DEF Pushing
<1>12. Freeing(i, T) => Freeing(i, T)'
  BY <1>1, <1>3, SameCovered DEF Freeing
<1>13. Dropping(i, T) => Dropping(i, T)'
  BY <1>1, <1>3, SameCovered DEF Dropping
<1>14. Ending(i, T) => Ending(i, T)'
  BY <1>1, SameCovered DEF Ending
<1> QED
  BY <1>4, <1>5, <1>6, <1>7, <1>8, <1>9, <1>10, <1>11, <1>12, <1>13, <1>14 DEF Rest

\* A harmless operation leaves the view as it is.
LEMMA HarmlessStep ==
  ASSUME TypeOK, Step, Harmless(Head(todo))
  PROVE  TypeOK' /\ SameView
<1>0. inodes \in [Inodes -> Inode]
  BY DEF TypeOK, Inode
<1>1. CASE \E i \in Inodes \cup {NumInodes + 1} : Head(todo) = Read(i)
  BY <1>1, Does DEF SameView
<1>2. ASSUME NEW i \in Files, NEW s \in Nat, Links(i) > 0, Head(todo) = Write(i, Links(i), s)
      PROVE  TypeOK' /\ SameView
  <2>1. i \in Inodes /\ i # Root /\ Links(i) \in Nat /\ Links(i) = inodes[i].links /\ Root \in Inodes
    BY <1>0, SizeFacts DEF Links, Inode
  <2>2. TypeOK' /\ UNCHANGED <<head, dirent, open>>
        /\ inodes' = [inodes EXCEPT ![i] = [links |-> Links(i), size |-> s]]
    BY <1>2, <2>1, Does
  <2>3. inodes'[i].links = inodes[i].links /\ \A j \in Inodes : j # i => inodes'[j] = inodes[j]
    BY <1>0, <2>1, <2>2
  <2> QED
    BY <1>2, <2>1, <2>2, <2>3 DEF SameView
<1>3. CASE Head(todo) = WriteRoot(RootSize)
  <2> DEFINE v == [links |-> inodes[Root].links, size |-> inodes[Root].size]
  <2>1. Root \in Inodes /\ inodes[Root].links \in Nat /\ inodes[Root].size \in Nat /\ inodes[Root] = v
    BY <1>0, SizeFacts DEF Inode
  <2>2. Head(todo) = Write(Root, inodes[Root].links, inodes[Root].size)
    BY <1>3 DEF WriteRoot, Links, RootSize
  <2>3. TypeOK' /\ UNCHANGED <<head, dirent, open>> /\ inodes' = [inodes EXCEPT ![Root] = v]
    BY <2>1, <2>2, Does
  <2>4. inodes' = inodes
    BY <1>0, <2>1, <2>3
  <2> QED
    BY <2>3, <2>4 DEF SameView
<1>4. Head(todo) # Abort
  BY Does
<1> QED
  BY <1>1, <1>2, <1>3, <1>4 DEF Harmless

-----------------------------------------------------------------------------
(* The steps of a handler that matter. *)

\* The state before the first operation of what is left to do for file i.
Before(i, F) ==
  /\ TypeOK /\ Apart /\ RootOK /\ NamesOK /\ FreeOK(F) /\ i \in Files
  /\ todo \in Seq(Ops) /\ Step /\ \A j \in Files \ {i} : Covered(j, 0)

\* ... and behind it, without the free list and what is left.
Kept(i) == TypeOK' /\ Apart' /\ RootOK' /\ NamesOK' /\ \A j \in Files \ {i} : Covered(j, 0)'

\* The invariant behind a step that leaves something to do for file i,
LEMMA MoreToDo ==
  ASSUME NEW i \in Files, Kept(i), NEW F, FreeOK(F)', NEW T \in Seq(Ops), Behind(todo, T)', Rest(i, T, F)'
  PROVE  TypeOK' /\ Sound'
<1>1. TodoOK(F)'
  BY DEF TodoOK, Kept
<1> QED
  BY <1>1 DEF Sound, Kept

\* behind one that leaves only harmless operations,
LEMMA HarmlessLeft ==
  ASSUME NEW i \in Files, Kept(i), NEW F, FreeOK(F)', Behind(todo, <<>>)', Covered(i, 0)'
  PROVE  TypeOK' /\ Sound'
<1>1. <<>> \in Seq(Ops) /\ \A j \in Files : Covered(j, 0)'
  BY DEF Kept
<1>2. TodoOK(F)'
  BY <1>1 DEF TodoOK
<1> QED
  BY <1>2 DEF Sound, Kept

\* and behind the last step of a handler.
LEMMA AllDone ==
  ASSUME NEW i \in Files, Kept(i), NEW F, FreeOK(F)', todo' = <<>>, Covered(i, 0)'
  PROVE  TypeOK' /\ Sound'
<1>1. <<>> \in Seq(Ops)
  OBVIOUS
<1>2. <<>> = <<>> \o <<>> /\ \A m \in 1..Len(<<>>) : Harmless(<<>>[m])'
  BY <1>1, ConcatEmptySeq
<1>3. Behind(todo, <<>>)'
  BY <1>1, <1>2 DEF Behind
<1> QED
  BY <1>3, HarmlessLeft

\* What is left is done next, or after a write of the root.
LEMMA TouchBehind ==
  ASSUME TypeOK, RootOK, NEW U, NEW V, Touch(U, V), inodes'[Root] = inodes[Root]
  PROVE  V \in Seq(Ops) /\ U \in Seq(Ops) /\ Behind(U, V)'
<1>1. V \in Seq(Ops) /\ (U = V \/ U = <<WriteRoot(RootSize)>> \o V)
  BY DEF Touch
<1>2. PICK w \in Ops : w = WriteRoot(RootSize)
  BY OpTypes, SizeFacts DEF WriteRoot, Links, RootSize, TypeOK
<1>3. Harmless(w)'
  <2>1. WriteRoot(RootSize)' = WriteRoot(RootSize)
    BY DEF WriteRoot, Links, RootSize, Write
  <2> QED
    BY <1>2, <2>1 DEF Harmless
<1>4. Behind(V, V)'
  <2>1. <<>> \in Seq(Ops) /\ V = <<>> \o V /\ \A m \in 1..Len(<<>>) : Harmless(<<>>[m])'
    BY <1>1, ConcatEmptySeq
  <2> QED
    BY <2>1 DEF Behind
<1>5. CASE U = V
  BY <1>1, <1>4, <1>5
<1>6. CASE U = <<WriteRoot(RootSize)>> \o V
  <2> DEFINE P == <<w>>
  <2>1. P \in Seq(Ops) /\ Len(P) = 1 /\ P[1] = w
    OBVIOUS
  <2>2. \A m \in 1..Len(P) : Harmless(P[m])'
    <3>1. \A m \in 1..Len(P) : P[m] = w
      BY <2>1
    <3> QED
      BY <1>3, <3>1
  <2>3. U = P \o V /\ U \in Seq(Ops)
    BY <1>1, <1>2, <1>6, FirstOp
  <2> HIDE DEF P
  <2> QED
    BY <1>1, <2>1, <2>2, <2>3 DEF Behind
<1> QED
  BY <1>1, <1>5, <1>6

\* A file whose links, descriptors and entry stay is covered as before.
LEMMA CoverFrame ==
  ASSUME NEW j \in Files, NEW n, Covered(j, n), Links(j)' = Links(j), open'[j] = open[j], Named(j)' => Named(j)
  PROVE  Covered(j, n)'
BY DEF Covered

\* An inode of a file is written that is not on the free list.
LEMMA FileWrite ==
  ASSUME NEW i, NEW F, Before(i, F), i \notin F, NEW l \in Nat, NEW s \in Nat, Head(todo) = Write(i, l, s)
  PROVE  /\ Kept(i) /\ FreeOK(F)' /\ todo' = Tail(todo)
         /\ Links(i)' = l /\ inodes'[i].size = s /\ inodes'[Root] = inodes[Root]
         /\ RootSize' = RootSize /\ Entries' = Entries /\ Holes' = Holes /\ Named(i)' = Named(i)
         /\ \A n : WriteRoot(n)' = WriteRoot(n)
         /\ head' = head /\ dirent' = dirent /\ open' = open
<1>1. /\ TypeOK /\ Apart /\ RootOK /\ NamesOK /\ FreeOK(F) /\ i \in Files /\ i \in Inodes /\ i # Root
      /\ todo \in Seq(Ops) /\ Step /\ todo # <<>> /\ (\A j \in Files \ {i} : Covered(j, 0))
      /\ inodes \in [Inodes -> Inode] /\ Root \in Inodes
  BY SizeFacts DEF Before, Step, TypeOK, Inode
<1>2. /\ todo' = Tail(todo) /\ TypeOK' /\ head' = head /\ dirent' = dirent /\ open' = open
      /\ inodes' = [inodes EXCEPT ![i] = [links |-> l, size |-> s]]
  BY <1>1, Does
<1>3. /\ inodes'[i].links = l /\ inodes'[i].size = s
      /\ \A j \in Inodes : j # i => inodes'[j] = inodes[j]
  BY <1>1, <1>2
<1>4. inodes'[Root] = inodes[Root]
  BY <1>1, <1>3
<1>5. RootSize' = RootSize /\ Links(Root)' = Links(Root)
  BY <1>4 DEF RootSize, Links
<1>6. Entries' = Entries /\ Holes' = Holes
  BY <1>2, <1>5 DEF Entries, Holes
<1>7. \A j : Named(j)' = Named(j)
  BY <1>2, <1>6 DEF Named
<1>8. \A n : WriteRoot(n)' = WriteRoot(n)
  BY <1>5 DEF WriteRoot, Write
<1>9. Apart'
  BY <1>1, <1>2, <1>6 DEF Apart
<1>10. RootOK' /\ NamesOK'
  <2>1. RootSize' >= RootSize /\ RootSize' <= MaxDirBlocks
    <3>1. RootSize \in Nat /\ RootSize <= MaxDirBlocks
      BY <1>1, SizeFacts DEF RootOK, RootSize, TypeOK
    <3> QED
      BY <1>5, <3>1, SizeFacts
  <2>2. TableStep
    BY <1>1, DoesTable
  <2>3. \A k \in Entries' : k \in Entries /\ dirent'[k] = dirent[k]
    BY <1>2, <1>6
  <2> QED
    BY <1>1, <1>2, <2>1, <2>2, <2>3, DirStep
<1>11. FreeOK(F)'
  <2>1. F \in SUBSET Files /\ Listed(F, Sizes, head, End) /\ \A j \in F : Links(j) = 0
    BY <1>1 DEF FreeOK
  <2>2. \A j \in F : Sizes'[j] = Sizes[j] /\ Links(j)' = 0
    BY <1>3, <2>1, SizeFacts DEF Sizes, Links
  <2>3. Listed(F, Sizes', head, End)
    BY <2>1, <2>2, ListFrame
  <2> QED
    BY <1>2, <2>1, <2>2, <2>3 DEF FreeOK
<1>12. ASSUME NEW j \in Files \ {i}
       PROVE  Covered(j, 0)'
  <2>1. Links(j)' = Links(j)
    BY <1>3, SizeFacts DEF Links
  <2> QED
    BY <1>1, <1>2, <1>7, <2>1, CoverFrame
<1> QED
  BY <1>1, <1>2, <1>3, <1>4, <1>5, <1>6, <1>7, <1>8, <1>9, <1>10, <1>11, <1>12 DEF Kept, Links

\* A step that touches no inode and no entry.
LEMMA FrameStep ==
  ASSUME NEW i, NEW F, Before(i, F), TypeOK', inodes' = inodes, dirent' = dirent,
         \A j \in Files \ {i} : open'[j] = open[j]
  PROVE  /\ Kept(i) /\ todo' = Tail(todo)
         /\ RootSize' = RootSize /\ Entries' = Entries /\ Holes' = Holes
         /\ (\A j : Named(j)' = Named(j)) /\ (\A j : Links(j)' = Links(j))
         /\ (\A n : WriteRoot(n)' = WriteRoot(n))
         /\ (head' = head => FreeOK(F)')
<1>1. /\ TypeOK /\ Apart /\ RootOK /\ NamesOK /\ FreeOK(F) /\ i \in Files
      /\ todo \in Seq(Ops) /\ Step /\ todo # <<>> /\ (\A j \in Files \ {i} : Covered(j, 0))
  BY DEF Before, Step
<1>2. todo' = Tail(todo)
  BY <1>1, Does
<1>3. /\ RootSize' = RootSize /\ Entries' = Entries /\ Holes' = Holes
      /\ (\A n : WriteRoot(n)' = WriteRoot(n)) /\ \A j : Links(j)' = Links(j)
  BY DEF RootSize, Links, Entries, Holes, WriteRoot, Write
<1>4. \A j : Named(j)' = Named(j)
  BY <1>3 DEF Named
<1>5. Apart'
  BY <1>1, <1>3 DEF Apart
<1>6. RootOK' /\ NamesOK'
  <2>1. RootSize' >= RootSize /\ RootSize' <= MaxDirBlocks
    <3>1. RootSize \in Nat /\ RootSize <= MaxDirBlocks
      BY <1>1, SizeFacts DEF RootOK, RootSize, TypeOK
    <3> QED
      BY <1>3, <3>1, SizeFacts
  <2>2. TableStep
    BY <1>1, DoesTable
  <2>3. \A k \in Entries' : k \in Entries /\ dirent'[k] = dirent[k]
    BY <1>3
  <2> QED
    BY <1>1, <1>2, <2>1, <2>2, <2>3, DirStep
<1>7. \A j \in Files \ {i} : Covered(j, 0)'
  BY <1>1, <1>3, <1>4, CoverFrame
<1>8. head' = head => FreeOK(F)'
  BY <1>1, <1>3 DEF FreeOK, Sizes
<1> QED
  BY <1>2, <1>3, <1>4, <1>5, <1>6, <1>7, <1>8 DEF Kept

\* The head of the free list is written.
LEMMA HeadWrite ==
  ASSUME NEW i, NEW F, Before(i, F), NEW h \in 0..(NumInodes + 1), Head(todo) = SetHead(h)
  PROVE  /\ Kept(i) /\ todo' = Tail(todo) /\ head' = h
         /\ inodes' = inodes /\ dirent' = dirent /\ open' = open /\ Named(i)' = Named(i)
         /\ RootSize' = RootSize /\ Entries' = Entries /\ Holes' = Holes
         /\ (\A n : WriteRoot(n)' = WriteRoot(n)) /\ Links(i)' = Links(i)
<1>1. TypeOK /\ Step
  BY DEF Before
<1>2. TypeOK' /\ head' = h /\ inodes' = inodes /\ dirent' = dirent /\ open' = open
  BY <1>1, Does
<1> QED
  BY <1>2, FrameStep

\* The first operation of a tuple, and the others.
LEMMA HeadTails ==
  ASSUME NEW a \in Ops, NEW b \in Ops, NEW c \in Ops, NEW d \in Ops
  PROVE  /\ Head(<<a>>) = a /\ Tail(<<a>>) = <<>>
         /\ Head(<<a, b>>) = a /\ Tail(<<a, b>>) = <<b>>
         /\ Head(<<a, b, c>>) = a /\ Tail(<<a, b, c>>) = <<b, c>>
         /\ Head(<<a, b, c, d>>) = a /\ Tail(<<a, b, c, d>>) = <<b, c, d>>
<1>1. <<>> \in Seq(Ops) /\ <<b>> \in Seq(Ops) /\ <<b, c>> \in Seq(Ops) /\ <<b, c, d>> \in Seq(Ops)
  OBVIOUS
<1>2. Head(<<a>>) = a /\ Tail(<<a>>) = <<>>
  BY <1>1, Tuples, FirstOp
<1>3. Head(<<a, b>>) = a /\ Tail(<<a, b>>) = <<b>>
  BY <1>1, Tuples, FirstOp
<1>4. Head(<<a, b, c>>) = a /\ Tail(<<a, b, c>>) = <<b, c>>
  BY <1>1, Tuples, FirstOp
<1>5. Head(<<a, b, c, d>>) = a /\ Tail(<<a, b, c, d>>) = <<b, c, d>>
  BY <1>1, Tuples, FirstOp
<1> QED
  BY <1>2, <1>3, <1>4, <1>5

\* What is left to do next.
LEMMA NextIs ==
  ASSUME NEW T \in Seq(Ops), todo' = T
  PROVE  Behind(todo, T)'
<1>1. <<>> \in Seq(Ops) /\ T = <<>> \o T /\ \A m \in 1..Len(<<>>) : Harmless(<<>>[m])'
  BY ConcatEmptySeq
<1> QED
  BY <1>1 DEF Behind

\* The descriptor is allocated: sfs_open() and sfs_create() end.
LEMMA StepOpening ==
  ASSUME NEW i, NEW F, Before(i, F), Opening(i, todo)
  PROVE  TypeOK' /\ Sound'
<1>1. TypeOK /\ Step /\ i \in Files /\ i \in Inodes
  BY SizeFacts DEF Before
<1>2. Head(todo) = Opened(i) /\ Tail(todo) = <<>> /\ open[i] < MaxOpen /\ Covered(i, 1)
  BY <1>1, OpTypes, HeadTails DEF Opening
<1>3. open' = [open EXCEPT ![i] = @ + 1] /\ UNCHANGED <<table, inodes, head, dirent>> /\ TypeOK'
  BY <1>1, <1>2, Does
<1>4. open'[i] = open[i] + 1 /\ open[i] \in Nat /\ \A j \in Files \ {i} : open'[j] = open[j]
  BY <1>1, <1>3, SizeFacts DEF TypeOK
<1>5. Kept(i) /\ todo' = <<>> /\ FreeOK(F)' /\ Named(i)' = Named(i) /\ Links(i)' = Links(i)
  BY <1>2, <1>3, <1>4, FrameStep
<1>6. Links(i) \in Nat
  BY <1>1 DEF TypeOK, Links
<1>7. Covered(i, 0)'
  BY <1>2, <1>4, <1>5, <1>6 DEF Covered
<1> QED
  BY <1>1, <1>5, <1>7, AllDone

\* A file with links is not on the free list.
LEMMA NotFree ==
  ASSUME NEW i, NEW F, Before(i, F), Links(i) # 0
  PROVE  i \notin F
BY DEF Before, FreeOK

\* The link of the descriptor is counted (sfs_open(), sfs_create()).
LEMMA StepCounting ==
  ASSUME NEW i, NEW F, Before(i, F), Counting(i, todo)
  PROVE  TypeOK' /\ Sound'
<1>1. TypeOK /\ Step /\ i \in Files /\ i \in Inodes
  BY SizeFacts DEF Before
<1>2. Links(i) \in Nat /\ Links(i) > 0 /\ Links(i) + 1 \in Nat /\ open[i] \in Nat /\ Covered(i, 0) /\ open[i] < MaxOpen
  BY <1>1 DEF TypeOK, Links, Counting
<1>3. Head(todo) = Write(i, Links(i) + 1, 0) /\ Tail(todo) = <<Opened(i)>>
  BY <1>1, <1>2, OpTypes, HeadTails DEF Counting
<1>4. i \notin F
  BY <1>2, NotFree
<1>5. /\ Kept(i) /\ FreeOK(F)' /\ todo' = <<Opened(i)>>
      /\ Links(i)' = Links(i) + 1 /\ Named(i)' = Named(i) /\ open' = open
  BY <1>2, <1>3, <1>4, FileWrite
<1>6. Opening(i, <<Opened(i)>>)'
  <2>1. Covered(i, 1)'
    BY <1>2, <1>5 DEF Covered
  <2> QED
    BY <1>2, <1>5, <2>1 DEF Opening
<1>7. <<Opened(i)>> \in Seq(Ops)
  BY <1>1, OpTypes
<1>8. Behind(todo, <<Opened(i)>>)'
  BY <1>5, <1>7, NextIs
<1>9. Rest(i, <<Opened(i)>>, F)'
  BY <1>6 DEF Rest
<1> QED
  BY <1>1, <1>5, <1>7, <1>8, <1>9, MoreToDo

\* A new entry k names file i, which has none yet.
LEMMA NewEntry ==
  ASSUME NEW i, NEW F, Before(i, F), Unused(i), TypeOK', head' = head, open' = open,
         \A j \in Files : inodes'[j] = inodes[j],
         RootSize' >= RootSize, RootSize' <= MaxDirBlocks,
         NEW k, k \in Slots, Entries' = Entries \cup {k}, dirent'[k] = i,
         \A m \in Entries : dirent'[m] = dirent[m], StillPending(i)
  PROVE  Kept(i) /\ FreeOK(F)' /\ (Links(i) = 1 => Covered(i, 0)') /\ Links(i)' = Links(i)
<1>1. /\ TypeOK /\ Apart /\ RootOK /\ NamesOK /\ FreeOK(F) /\ i \in Files
      /\ todo \in Seq(Ops) /\ Step /\ todo # <<>> /\ (\A j \in Files \ {i} : Covered(j, 0))
  BY DEF Before, Step
<1>2. todo' = Tail(todo)
  BY <1>1, Does
<1>3. \A j \in Files : Links(j)' = Links(j)
  BY DEF Links
<1>4. open[i] = 0 /\ \A m \in Entries : dirent[m] # i
  BY DEF Unused, Named
<1>5. Apart'
  BY <1>1, <1>4 DEF Apart
<1>6. RootOK' /\ NamesOK'
  <2>1. TableStep
    BY <1>1, DoesTable
  <2>2. \A m \in Entries' : (m \in Entries /\ dirent'[m] = dirent[m]) \/ StillPending(dirent'[m])
    OBVIOUS
  <2> QED
    BY <1>1, <1>2, <2>1, <2>2, DirStep
<1>7. ASSUME NEW j \in Files \ {i}
      PROVE  Covered(j, 0)'
  <2>1. Named(j)' => Named(j)
    BY DEF Named
  <2> QED
    BY <1>1, <1>3, <2>1, CoverFrame
<1>8. FreeOK(F)'
  <2>1. F \in SUBSET Files /\ Listed(F, Sizes, head, End) /\ \A j \in F : Links(j) = 0
    BY <1>1 DEF FreeOK
  <2>2. \A j \in F : Sizes'[j] = Sizes[j] /\ Links(j)' = 0
    BY <1>3, <2>1, SizeFacts DEF Sizes
  <2>3. Listed(F, Sizes', head, End)
    BY <2>1, <2>2, ListFrame
  <2> QED
    BY <2>1, <2>2, <2>3 DEF FreeOK
<1>9. Links(i) = 1 => Covered(i, 0)'
  BY <1>1, <1>3, <1>4 DEF Covered
<1> QED
  BY <1>1, <1>3, <1>5, <1>6, <1>7, <1>8, <1>9 DEF Kept

\* The link of the new entry is counted next, or after a write of the root.
LEMMA CountNext ==
  ASSUME NEW i \in Files, NEW F, Kept(i), FreeOK(F)', Covered(i, 0)', Links(i)' = 1, open'[i] = 0,
         Behind(todo, <<Write(i, 2, 0), Opened(i)>>)'
  PROVE  TypeOK' /\ Sound'
<1> DEFINE T == <<Write(i, 2, 0), Opened(i)>>
<1>1. T \in Seq(Ops)
  <2>1. Write(i, 2, 0) \in Ops /\ Opened(i) \in Ops
    BY OpTypes, SizeFacts
  <2> QED
    BY <2>1
<1>2. Counting(i, T)'
  BY SizeFacts DEF Counting
<1>3. Rest(i, T, F)'
  BY <1>2 DEF Rest
<1> HIDE DEF T
<1>4. Behind(todo, T)'
  BY DEF T
<1> QED
  BY <1>1, <1>3, <1>4, MoreToDo

\* The directory grows by the block of the new entry (sfs_dir_link()).
LEMMA StepGrowing ==
  ASSUME NEW i, NEW F, Before(i, F), Growing(i, todo)
  PROVE  TypeOK' /\ Sound'
<1>1. /\ TypeOK /\ Step /\ i \in Files /\ i \in Inodes /\ RootSize \in Slots /\ dirent[RootSize] = i
      /\ Links(i) = 1 /\ Unused(i) /\ inodes \in [Inodes -> Inode] /\ Root \in Inodes /\ Root \notin Files
      /\ Files \subseteq Inodes
  BY SizeFacts DEF Before, Growing, TypeOK, Inode
<1> DEFINE T == <<Write(i, 2, 0), Opened(i)>>
<1>2. Links(Root) \in Nat /\ RootSize \in Nat /\ RootSize + 1 \in Nat /\ RootSize + 1 <= MaxDirBlocks
  BY <1>1, SizeFacts DEF Links, RootSize, Inode, Slots
<1>3. Write(Root, Links(Root), RootSize + 1) \in Ops /\ Write(i, 2, 0) \in Ops /\ Opened(i) \in Ops
  BY <1>1, <1>2, OpTypes
<1>4. Head(todo) = Write(Root, Links(Root), RootSize + 1) /\ Tail(todo) = T
  BY <1>3, HeadTails DEF Growing, WriteRoot
<1>5. /\ inodes' = [inodes EXCEPT ![Root] = [links |-> Links(Root), size |-> RootSize + 1]]
      /\ UNCHANGED <<head, dirent, open>> /\ TypeOK' /\ todo' = T
  <2>1. todo' = Tail(todo)
    BY <1>1, Does
  <2>2. PICK n : n = RootSize + 1
    OBVIOUS
  <2>3. n \in Nat /\ Head(todo) = Write(Root, Links(Root), n)
    BY <1>2, <1>4, <2>2
  <2>4. /\ inodes' = [inodes EXCEPT ![Root] = [links |-> Links(Root), size |-> n]]
        /\ UNCHANGED <<head, dirent, open>> /\ TypeOK'
    BY <1>1, <1>2, <2>3, Does
  <2> QED
    BY <1>4, <2>1, <2>2, <2>4
<1>6. inodes'[Root].size = RootSize + 1 /\ \A j \in Files : inodes'[j] = inodes[j]
  BY <1>1, <1>5
<1>7. RootSize' = RootSize + 1
  BY <1>6 DEF RootSize
<1>8. RootSize' >= RootSize /\ RootSize' <= MaxDirBlocks
  BY <1>2, <1>7
<1>9. PICK k : k = RootSize
  OBVIOUS
<1>10. Entries' = Entries \cup {k} /\ k \in Slots /\ dirent'[k] = i /\ \A m \in Entries : dirent'[m] = dirent[m]
  <2>1. i # 0
    BY <1>1, SizeFacts
  <2>2. \A m \in Slots : m \in Int
    BY DEF Slots
  <2>3. \A m \in Slots : m < RootSize' <=> m < RootSize \/ m = k
    BY <1>2, <1>7, <1>9, <2>2
  <2> QED
    BY <1>1, <1>5, <1>9, <2>1, <2>3 DEF Entries
<1>11. T \in Seq(Ops) /\ Len(T) = 2 /\ T[1] = Write(i, 2, 0)
  BY <1>3
<1>12. StillPending(i)
  BY <1>5, <1>11, OpFields DEF StillPending
<1>13. Kept(i) /\ FreeOK(F)' /\ Covered(i, 0)' /\ Links(i)' = 1
  BY <1>1, <1>5, <1>6, <1>8, <1>10, <1>12, NewEntry
<1>14. Behind(todo, T)'
  BY <1>5, <1>11, NextIs
<1> QED
  BY <1>1, <1>5, <1>13, <1>14, CountNext DEF Unused

\* The new entry is written into a hole,
LEMMA StepEnteringHole ==
  ASSUME NEW i, NEW F, Before(i, F), Links(i) = 1, Unused(i), NEW k \in Holes,
         todo = <<Entry(k, i), WriteRoot(RootSize), Write(i, 2, 0), Opened(i)>>
  PROVE  TypeOK' /\ Sound'
<1>1. /\ TypeOK /\ RootOK /\ Step /\ i \in Files /\ i \in Inodes /\ inodes \in [Inodes -> Inode] /\ Root \in Inodes
      /\ k \in Slots /\ k < RootSize /\ dirent[k] = 0 /\ i # 0 /\ dirent \in [Slots -> {0} \cup Files]
  BY SizeFacts DEF Before, TypeOK, Inode, Holes
<1> DEFINE T == <<Write(i, 2, 0), Opened(i)>>
<1>2. PICK w : w = WriteRoot(RootSize)
  OBVIOUS
<1>3. Entry(k, i) \in Ops /\ w \in Ops /\ Write(i, 2, 0) \in Ops /\ Opened(i) \in Ops
  <2>1. Links(Root) \in Nat /\ RootSize \in Nat
    BY <1>1 DEF Links, RootSize, Inode
  <2>2. w \in Ops
    BY <1>1, <1>2, <2>1, OpTypes DEF WriteRoot
  <2>3. k \in Slots /\ i \in {0} \cup Files
    BY <1>1
  <2>4. Entry(k, i) \in Ops
    BY <2>3, OpTypes
  <2>5. i \in Files /\ i \in Inodes
    BY <1>1
  <2>6. Write(i, 2, 0) \in Ops /\ Opened(i) \in Ops
    BY <2>5, OpTypes
  <2> QED
    BY <2>2, <2>4, <2>6
<1>4. todo = <<Entry(k, i), w, Write(i, 2, 0), Opened(i)>>
  BY <1>2
<1>5. Head(todo) = Entry(k, i) /\ Tail(todo) = <<w, Write(i, 2, 0), Opened(i)>>
  BY <1>3, <1>4, HeadTails
<1>6. /\ dirent' = [dirent EXCEPT ![k] = i] /\ UNCHANGED <<table, inodes, head, open>> /\ TypeOK'
      /\ todo' = <<w, Write(i, 2, 0), Opened(i)>>
  BY <1>1, <1>5, Does
<1>7. RootSize' = RootSize /\ RootSize \in Nat /\ RootSize <= MaxDirBlocks
  BY <1>1, <1>6 DEF RootSize, RootOK, Inode
<1>8. RootSize' >= RootSize /\ RootSize' <= MaxDirBlocks
  BY <1>7, SizeFacts
<1>9. Entries' = Entries \cup {k} /\ dirent'[k] = i /\ \A m \in Entries : dirent'[m] = dirent[m]
  BY <1>1, <1>6, <1>7 DEF Entries
<1>10. StillPending(i)
  <2>1. Len(todo') = 3 /\ todo'[2] = Write(i, 2, 0)
    BY <1>3, <1>6
  <2> QED
    BY <2>1, OpFields DEF StillPending
<1>11. Kept(i) /\ FreeOK(F)' /\ Covered(i, 0)' /\ Links(i)' = 1
  BY <1>1, <1>6, <1>8, <1>9, <1>10, NewEntry
<1>12. Behind(todo, T)'
  <2>1. T \in Seq(Ops)
    BY <1>3
  <2>2. PICK U : U = <<w>> \o T
    OBVIOUS
  <2>3. todo' = U
    BY <1>3, <1>6, <2>2, Tuples
  <2>4. Touch(U, T)
    BY <1>2, <2>1, <2>2 DEF Touch
  <2>5. Behind(U, T)'
    BY <1>1, <1>6, <2>4, TouchBehind
  <2> QED
    BY <2>3, <2>5 DEF Behind
<1> QED
  BY <1>1, <1>6, <1>11, <1>12, CountNext DEF Unused

\* or into a block behind the last one, where it is not an entry yet.
LEMMA StepEnteringBlock ==
  ASSUME NEW i, NEW F, Before(i, F), Links(i) = 1, Unused(i), RootSize \in Slots,
         todo = <<Entry(RootSize, i), WriteRoot(RootSize + 1), Write(i, 2, 0), Opened(i)>>
  PROVE  TypeOK' /\ Sound'
<1>1. /\ TypeOK /\ Apart /\ RootOK /\ NamesOK /\ FreeOK(F) /\ i \in Files /\ i \in Inodes
      /\ todo \in Seq(Ops) /\ Step /\ todo # <<>> /\ (\A j \in Files \ {i} : Covered(j, 0))
      /\ inodes \in [Inodes -> Inode] /\ Root \in Inodes /\ dirent \in [Slots -> {0} \cup Files]
  BY SizeFacts DEF Before, Step, TypeOK, Inode
<1>2. PICK k, w : k = RootSize /\ w = WriteRoot(RootSize + 1)
  OBVIOUS
<1>3. Entry(k, i) \in Ops /\ w \in Ops /\ Write(i, 2, 0) \in Ops /\ Opened(i) \in Ops
  <2>1. Links(Root) \in Nat /\ RootSize + 1 \in Nat
    BY <1>1 DEF Links, RootSize, Inode
  <2>2. w \in Ops
    BY <1>1, <1>2, <2>1, OpTypes DEF WriteRoot
  <2>3. k \in Slots /\ i \in {0} \cup Files
    BY <1>1, <1>2
  <2>4. Entry(k, i) \in Ops
    BY <2>3, OpTypes
  <2>5. i \in Files /\ i \in Inodes
    BY <1>1
  <2>6. Write(i, 2, 0) \in Ops /\ Opened(i) \in Ops
    BY <2>5, OpTypes
  <2> QED
    BY <2>2, <2>4, <2>6
<1> DEFINE T == <<w, Write(i, 2, 0), Opened(i)>>
<1>4. T \in Seq(Ops)
  BY <1>3
<1>5. Head(todo) = Entry(k, i) /\ Tail(todo) = T
  BY <1>2, <1>3, HeadTails
<1>6. /\ dirent' = [dirent EXCEPT ![k] = i] /\ UNCHANGED <<table, inodes, head, open>> /\ TypeOK'
      /\ todo' = T
  <2>1. k \in Slots /\ i \in {0} \cup Files
    BY <1>1, <1>2
  <2> QED
    BY <1>1, <1>5, <2>1, Does
<1>7. /\ RootSize' = RootSize /\ RootSize \in Nat /\ RootSize <= MaxDirBlocks
      /\ WriteRoot(RootSize + 1)' = w /\ Links(i)' = 1
  BY <1>1, <1>2, <1>6 DEF RootSize, RootOK, Inode, WriteRoot, Links, Write
<1>8. Entries' = Entries /\ \A m \in Entries : dirent'[m] = dirent[m]
  <2>1. \A m \in Slots : m < RootSize => m # k
    BY <1>2, <1>7 DEF Slots
  <2>2. \A m \in Slots : m < RootSize => dirent'[m] = dirent[m]
    BY <1>1, <1>6, <2>1
  <2> QED
    BY <1>7, <2>2 DEF Entries
<1>9. \A j : Named(j)' = Named(j)
  BY <1>8 DEF Named
<1>10. Apart'
  BY <1>1, <1>8 DEF Apart
<1>11. RootOK' /\ NamesOK'
  <2>1. RootSize' >= RootSize /\ RootSize' <= MaxDirBlocks
    BY <1>7, SizeFacts
  <2>2. TableStep
    BY <1>1, DoesTable
  <2>3. \A m \in Entries' : m \in Entries /\ dirent'[m] = dirent[m]
    BY <1>8
  <2>4. todo' = Tail(todo)
    BY <1>5, <1>6
  <2> QED
    BY <1>1, <1>6, <2>1, <2>2, <2>3, <2>4, DirStep
<1>12. \A j \in Files : Links(j)' = Links(j)
  BY <1>6 DEF Links
<1>13. \A j \in Files \ {i} : Covered(j, 0)'
  BY <1>1, <1>6, <1>9, <1>12, CoverFrame
<1>14. FreeOK(F)'
  BY <1>1, <1>6 DEF FreeOK, Sizes, Links
<1>15. Growing(i, T)'
  <2>1. RootSize' = k /\ k \in Slots /\ dirent'[k] = i
    BY <1>1, <1>2, <1>6, <1>7
  <2>2. Unused(i)'
    BY <1>6, <1>9 DEF Unused
  <2> QED
    BY <1>7, <2>1, <2>2 DEF Growing
<1>16. Rest(i, T, F)'
  BY <1>15 DEF Rest
<1>17. Behind(todo, T)'
  BY <1>4, <1>6, NextIs
<1>18. Kept(i)
  BY <1>6, <1>10, <1>11, <1>13 DEF Kept
<1> HIDE DEF T
<1> QED
  BY <1>1, <1>4, <1>14, <1>16, <1>17, <1>18, MoreToDo

\* The new inode is written with one link (sfs_fs_inode_allocate()).
LEMMA StepStoring ==
  ASSUME NEW i, NEW F, Before(i, F), Storing(i, todo, F)
  PROVE  TypeOK' /\ Sound'
<1>1. TypeOK /\ RootOK /\ Step /\ i \in Files /\ i \in Inodes
  BY SizeFacts DEF Before
<1>2. PICK U, V \in Seq(Ops) : /\ todo = <<Write(i, 1, 0)>> \o U /\ Touch(U, V) /\ LinkOrFail(i, V)
                               /\ Links(i) = 0 /\ Unused(i) /\ i \notin F
  BY DEF Storing
<1>3. Head(todo) = Write(i, 1, 0) /\ Tail(todo) = U
  BY <1>1, <1>2, OpTypes, FirstOp
<1>4. /\ Kept(i) /\ FreeOK(F)' /\ todo' = U
      /\ Links(i)' = 1 /\ inodes'[Root] = inodes[Root]
      /\ RootSize' = RootSize /\ Holes' = Holes /\ Named(i)' = Named(i)
      /\ (\A n : WriteRoot(n)' = WriteRoot(n)) /\ open' = open
  <2>1. i \notin F /\ 0 \in Nat /\ 1 \in Nat /\ Head(todo) = Write(i, 1, 0)
    BY <1>2, <1>3
  <2>2. PICK l \in Nat : l = 1
    OBVIOUS
  <2> QED
    BY <1>3, <2>1, <2>2, FileWrite
<1>5. Behind(todo, V)'
  <2>1. Behind(U, V)'
    BY <1>1, <1>2, <1>4, TouchBehind
  <2> QED
    BY <1>4, <2>1 DEF Behind
<1>6. CASE LinkIn(i, V)
  <2>1. LinkIn(i, V)'
    BY <1>4, <1>6 DEF LinkIn
  <2>2. Entering(i, V)'
    BY <1>2, <1>4, <2>1 DEF Entering, Unused
  <2>3. Rest(i, V, F)'
    BY <2>2 DEF Rest
  <2> QED
    BY <1>1, <1>2, <1>4, <1>5, <2>3, MoreToDo
<1>7. CASE V = <<>>
  <2>1. Covered(i, 0)'
    BY <1>2, <1>4 DEF Covered, Unused
  <2> QED
    BY <1>1, <1>4, <1>5, <1>7, <2>1, HarmlessLeft
<1> QED
  BY <1>2, <1>6, <1>7 DEF LinkOrFail

\* The new inode is taken from the free list, whose head is saved at once.
LEMMA StepTaking ==
  ASSUME NEW i, NEW F, Before(i, F), Taking(i, todo)
  PROVE  TypeOK' /\ Sound'
<1>1. TypeOK /\ RootOK /\ Step /\ i \in Files /\ i \in Inodes /\ FreeOK(F)
  BY SizeFacts DEF Before
<1>2. PICK U, V \in Seq(Ops) :
        /\ todo = <<SetHead(inodes[i].size)>> \o (<<Write(i, 1, 0)>> \o U) /\ Touch(U, V) /\ LinkOrFail(i, V)
        /\ Unused(i) /\ head = i
  BY DEF Taking
<1>3. PICK h : h = inodes[i].size
  OBVIOUS
<1>4. i \in F /\ i \notin End /\ h \in 0..(NumInodes + 1)
  <2>1. i \notin End
    BY <1>1, SizeFacts DEF End
  <2>2. F \in SUBSET Files /\ Listed(F, Sizes, head, End) /\ Sizes[i] = h
    BY <1>1, <1>3 DEF FreeOK, Sizes
  <2>3. i \in F /\ Sizes[i] \in F \cup End
    BY <1>2, <2>1, <2>2, ListHead
  <2>4. h \in Files \/ h = 0 \/ h = NumInodes + 1
    BY <2>2, <2>3 DEF End
  <2>5. h \in 0..(NumInodes + 1)
    BY <2>4, SizesAssumption DEF Files
  <2> QED
    BY <2>1, <2>3, <2>5
<1> DEFINE T == <<Write(i, 1, 0)>> \o U
<1>5. T \in Seq(Ops)
  BY <1>1, OpTypes, FirstOp
<1>6. Head(todo) = SetHead(h) /\ Tail(todo) = T
  <2>1. SetHead(h) \in Ops
    BY <1>4, OpTypes
  <2> HIDE DEF T
  <2>2. todo = <<SetHead(h)>> \o T
    BY <1>2, <1>3 DEF T
  <2> QED
    BY <1>5, <2>1, <2>2, FirstOp
<1>7. /\ Kept(i) /\ todo' = T /\ head' = h
      /\ inodes' = inodes /\ dirent' = dirent /\ open' = open /\ Named(i)' = Named(i)
      /\ RootSize' = RootSize /\ Holes' = Holes
      /\ (\A n : WriteRoot(n)' = WriteRoot(n)) /\ Links(i)' = Links(i)
  <2> HIDE DEF T
  <2> QED
    BY <1>4, <1>6, HeadWrite
<1>8. FreeOK(F \ {i})'
  <2>1. F \in SUBSET Files /\ Listed(F, Sizes, i, End) /\ (\A j \in F : Links(j) = 0) /\ Sizes[i] = h
    BY <1>1, <1>2, <1>3 DEF FreeOK, Sizes
  <2>2. Listed(F \ {i}, Sizes, h, End)
    BY <1>4, <2>1, ListPop
  <2>3. Sizes' = Sizes /\ \A j \in F : Links(j)' = Links(j)
    BY <1>7 DEF Sizes, Links
  <2> QED
    BY <1>7, <2>1, <2>2, <2>3 DEF FreeOK
<1>9. LinkOrFail(i, V)' /\ Touch(U, V)'
  BY <1>2, <1>7 DEF LinkIn, LinkOrFail, Touch
<1>10. Links(i)' = 0 /\ Unused(i)'
  BY <1>1, <1>2, <1>4, <1>7 DEF FreeOK, Unused
<1>11. Storing(i, T, F \ {i})'
  BY <1>9, <1>10 DEF Storing
<1>12. Rest(i, T, F \ {i})'
  BY <1>11 DEF Rest
<1> HIDE DEF T
<1>13. Behind(todo, T)'
  BY <1>5, <1>7, NextIs
<1> QED
  BY <1>1, <1>5, <1>7, <1>8, <1>12, <1>13, MoreToDo

\* The list, which had led behind the table, ends.
LEMMA StepEnding ==
  ASSUME NEW i, NEW F, Before(i, F), Ending(i, todo)
  PROVE  TypeOK' /\ Sound'
<1>1. /\ i \in Files /\ FreeOK(F) /\ todo = <<SetHead(0), Abort>> /\ head = NumInodes + 1 /\ Covered(i, 0)
      /\ 0 \in 0..(NumInodes + 1)
  BY SizeFacts DEF Before, Ending
<1>2. SetHead(0) \in Ops /\ Abort \in Ops
  BY <1>1, OpTypes
<1>3. Head(todo) = SetHead(0) /\ Tail(todo) = <<Abort>>
  BY <1>1, <1>2, HeadTails
<1>4. /\ Kept(i) /\ todo' = <<Abort>> /\ head' = 0
      /\ inodes' = inodes /\ open' = open /\ Named(i)' = Named(i) /\ Links(i)' = Links(i)
  BY <1>1, <1>3, HeadWrite
<1>5. FreeOK(F)'
  <2>1. F = {}
    BY <1>1, ListEmpty DEF FreeOK, End
  <2>2. Listed({}, Sizes', 0, End)
    BY ListNil DEF End
  <2> QED
    BY <1>4, <2>1, <2>2 DEF FreeOK
<1>6. Covered(i, 0)'
  BY <1>1, <1>4 DEF Covered
<1>7. Behind(todo, <<>>)'
  <2>1. <<Abort>> \in Seq(Ops) /\ <<>> \in Seq(Ops) /\ <<Abort>> = <<Abort>> \o <<>>
    BY <1>2, Tuples
  <2>2. \A m \in 1..Len(<<Abort>>) : <<Abort>>[m] = Abort
    OBVIOUS
  <2>3. Harmless(Abort)'
    BY DEF Harmless
  <2> QED
    BY <1>4, <2>1, <2>2, <2>3 DEF Behind
<1> QED
  BY <1>1, <1>4, <1>5, <1>6, <1>7, HarmlessLeft

\* The entry goes.
LEMMA StepForgettingEntry ==
  ASSUME NEW i, NEW F, Before(i, F), Covered(i, -1), NEW k \in Entries, dirent[k] = i, todo = <<Entry(k, 0)>>
  PROVE  TypeOK' /\ Sound'
<1>1. /\ TypeOK /\ Apart /\ RootOK /\ NamesOK /\ FreeOK(F) /\ i \in Files /\ i \in Inodes
      /\ todo \in Seq(Ops) /\ Step /\ todo # <<>> /\ (\A j \in Files \ {i} : Covered(j, 0))
      /\ inodes \in [Inodes -> Inode] /\ Root \in Inodes /\ dirent \in [Slots -> {0} \cup Files]
      /\ k \in Slots
  BY SizeFacts DEF Before, Step, TypeOK, Inode, Entries
<1>2. 0 \in {0} \cup Files /\ Entry(k, 0) \in Ops
  BY <1>1, OpTypes
<1>3. Head(todo) = Entry(k, 0) /\ Tail(todo) = <<>>
  BY <1>2, HeadTails
<1>4. /\ dirent' = [dirent EXCEPT ![k] = 0] /\ UNCHANGED <<table, inodes, head, open>> /\ TypeOK'
      /\ todo' = Tail(todo)
  BY <1>1, <1>2, <1>3, Does
<1>5. /\ RootSize' = RootSize /\ RootSize \in Nat /\ RootSize <= MaxDirBlocks
      /\ \A j \in Files : Links(j)' = Links(j)
  BY <1>1, <1>4 DEF RootSize, RootOK, Inode, Links
<1>6. Entries' = Entries \ {k} /\ \A m \in Entries' : dirent'[m] = dirent[m]
  BY <1>1, <1>4, <1>5 DEF Entries
<1>7. Apart'
  BY <1>1, <1>6 DEF Apart
<1>8. RootOK' /\ NamesOK'
  <2>1. RootSize' >= RootSize /\ RootSize' <= MaxDirBlocks
    BY <1>5, SizeFacts
  <2>2. TableStep
    BY <1>1, DoesTable
  <2>3. \A m \in Entries' : m \in Entries /\ dirent'[m] = dirent[m]
    BY <1>6
  <2> QED
    BY <1>1, <1>4, <2>1, <2>2, <2>3, DirStep
<1>9. ASSUME NEW j \in Files \ {i}
      PROVE  Covered(j, 0)'
  <2>1. Named(j)' => Named(j)
    BY <1>6 DEF Named
  <2> QED
    BY <1>1, <1>4, <1>5, <2>1, CoverFrame
<1>10. FreeOK(F)'
  BY <1>1, <1>4 DEF FreeOK, Sizes, Links
<1>11. Kept(i)
  BY <1>4, <1>7, <1>8, <1>9 DEF Kept
<1>12. Covered(i, 0)'
  <2>1. ~Named(i)'
    BY <1>1, <1>6 DEF Named, Apart
  <2>2. open[i] - 1 + 1 <= Links(i) /\ open[i] \in Nat /\ Links(i) \in Nat
    BY <1>1 DEF Covered, Named, TypeOK, Links
  <2>3. open'[i] = open[i] /\ Links(i)' = Links(i)
    BY <1>1, <1>4, <1>5
  <2> QED
    BY <2>1, <2>2, <2>3 DEF Covered
<1> QED
  BY <1>1, <1>3, <1>4, <1>10, <1>11, <1>12, AllDone

\* The descriptor goes.
LEMMA StepForgettingFd ==
  ASSUME NEW i, NEW F, Before(i, F), Covered(i, -1), open[i] > 0, todo = <<Released(i)>>
  PROVE  TypeOK' /\ Sound'
<1>1. TypeOK /\ Step /\ i \in Files /\ i \in Inodes
  BY SizeFacts DEF Before
<1>2. Head(todo) = Released(i) /\ Tail(todo) = <<>>
  BY <1>1, OpTypes, HeadTails
<1>3. open' = [open EXCEPT ![i] = @ - 1] /\ UNCHANGED <<table, inodes, head, dirent>> /\ TypeOK'
  BY <1>1, <1>2, Does
<1>4. open'[i] = open[i] - 1 /\ open[i] \in Nat /\ \A j \in Files \ {i} : open'[j] = open[j]
  BY <1>1, <1>3, SizeFacts DEF TypeOK
<1>5. Kept(i) /\ todo' = <<>> /\ FreeOK(F)' /\ Named(i)' = Named(i) /\ Links(i)' = Links(i)
  BY <1>2, <1>3, <1>4, FrameStep
<1>6. Links(i) \in Nat
  BY <1>1 DEF TypeOK, Links
<1>7. Covered(i, 0)'
  BY <1>4, <1>5, <1>6 DEF Covered
<1> QED
  BY <1>1, <1>5, <1>7, AllDone

\* The entry or the descriptor goes, and the handler ends.
LEMMA StepForgetting ==
  ASSUME NEW i, NEW F, Before(i, F), Forgetting(i, todo)
  PROVE  TypeOK' /\ Sound'
BY StepForgettingEntry, StepForgettingFd DEF Forgetting, Forget

\* What has to go goes next, or after a write of the root.
LEMMA ForgetNext ==
  ASSUME NEW i, NEW F, Before(i, F), NEW G, NEW U \in Seq(Ops), NEW V \in Seq(Ops), Touch(U, V), Forget(i, V),
         inodes'[Root] = inodes[Root], Entries' = Entries, dirent' = dirent, open' = open,
         todo' = U, Kept(i), FreeOK(G)', Covered(i, -1)'
  PROVE  TypeOK' /\ Sound'
<1>1. TypeOK /\ RootOK /\ i \in Files
  BY DEF Before
<1>2. Forgetting(i, V)'
  BY DEF Forgetting, Forget
<1>3. Behind(todo, V)'
  <2>1. Behind(U, V)'
    BY <1>1, TouchBehind
  <2> QED
    BY <2>1 DEF Behind
<1>4. Rest(i, V, G)'
  BY <1>2 DEF Rest
<1> QED
  BY <1>1, <1>3, <1>4, MoreToDo

\* The freed inode becomes the head of the free list (sfs_fs_inode_deallocate()).
LEMMA StepPushing ==
  ASSUME NEW i, NEW F, Before(i, F), Pushing(i, todo, F)
  PROVE  TypeOK' /\ Sound'
<1>1. TypeOK /\ RootOK /\ Step /\ i \in Files /\ i \in Inodes /\ FreeOK(F) /\ i \in 0..(NumInodes + 1) /\ i \notin End
  BY SizeFacts DEF Before, End
<1>2. PICK U, V \in Seq(Ops) :
        /\ todo = <<SetHead(i)>> \o U /\ Touch(U, V) /\ Forget(i, V)
        /\ Covered(i, -1) /\ Links(i) = 0 /\ inodes[i].size = head /\ i \notin F
  BY DEF Pushing
<1>3. Head(todo) = SetHead(i) /\ Tail(todo) = U
  BY <1>1, <1>2, OpTypes, FirstOp
<1>4. /\ Kept(i) /\ todo' = U /\ head' = i
      /\ inodes' = inodes /\ dirent' = dirent /\ open' = open /\ Named(i)' = Named(i)
      /\ Entries' = Entries /\ Links(i)' = Links(i)
  BY <1>1, <1>3, HeadWrite
<1>5. FreeOK(F \cup {i})'
  <2>1. F \in SUBSET Files /\ Listed(F, Sizes, head, End) /\ (\A j \in F : Links(j) = 0) /\ Sizes[i] = head
    BY <1>1, <1>2 DEF FreeOK, Sizes
  <2>2. Listed(F \cup {i}, Sizes, i, End)
    BY <1>1, <1>2, <2>1, ListPush
  <2>3. Sizes' = Sizes /\ \A j \in Files : Links(j)' = Links(j)
    BY <1>4 DEF Sizes, Links
  <2> QED
    BY <1>1, <1>2, <1>4, <2>1, <2>2, <2>3 DEF FreeOK
<1>6. Covered(i, -1)'
  BY <1>2, <1>4 DEF Covered
<1> QED
  BY <1>2, <1>4, <1>5, <1>6, ForgetNext

\* The inode with the last link is written as a free one.
LEMMA StepFreeing ==
  ASSUME NEW i, NEW F, Before(i, F), Freeing(i, todo)
  PROVE  TypeOK' /\ Sound'
<1>1. TypeOK /\ RootOK /\ Step /\ i \in Files /\ i \in Inodes /\ head \in Nat /\ head \in 0..(NumInodes + 1) /\ open[i] \in Nat
  BY SizeFacts DEF Before, TypeOK
<1>2. PICK U, V \in Seq(Ops) :
        /\ todo = <<Write(i, 0, head)>> \o (<<SetHead(i)>> \o U) /\ Touch(U, V) /\ Forget(i, V)
        /\ Covered(i, 0) /\ Links(i) = 1
  BY DEF Freeing
<1> DEFINE T == <<SetHead(i)>> \o U
<1>3. T \in Seq(Ops)
  BY <1>1, OpTypes, FirstOp, SizeFacts
<1>4. i \notin F
  BY <1>2, NotFree
<1> HIDE DEF T
<1>5. Head(todo) = Write(i, 0, head) /\ Tail(todo) = T
  <2>1. todo = <<Write(i, 0, head)>> \o T /\ Write(i, 0, head) \in Ops
    BY <1>1, <1>2, OpTypes DEF T
  <2> QED
    BY <1>3, <2>1, FirstOp
<1>6. /\ Kept(i) /\ FreeOK(F)' /\ todo' = T
      /\ Links(i)' = 0 /\ inodes'[i].size = head /\ inodes'[Root] = inodes[Root]
      /\ RootSize' = RootSize /\ Entries' = Entries /\ Named(i)' = Named(i)
      /\ (\A n : WriteRoot(n)' = WriteRoot(n))
      /\ head' = head /\ dirent' = dirent /\ open' = open
  <2>1. PICK l \in Nat : l = 0
    OBVIOUS
  <2> QED
    BY <1>1, <1>4, <1>5, <2>1, FileWrite
<1>7. Touch(U, V)' /\ Forget(i, V)'
  BY <1>2, <1>6 DEF Touch, Forget
<1>8. Covered(i, -1)'
  BY <1>1, <1>2, <1>6 DEF Covered
<1>9. Pushing(i, T, F)'
  BY <1>4, <1>6, <1>7, <1>8 DEF Pushing, T
<1>10. Rest(i, T, F)'
  BY <1>9 DEF Rest
<1>11. Behind(todo, T)'
  BY <1>3, <1>6, NextIs
<1> QED
  BY <1>1, <1>3, <1>6, <1>10, <1>11, MoreToDo

\* One link of several is dropped.
LEMMA StepDropping ==
  ASSUME NEW i, NEW F, Before(i, F), Dropping(i, todo)
  PROVE  TypeOK' /\ Sound'
<1>1. TypeOK /\ RootOK /\ Step /\ i \in Files /\ i \in Inodes /\ Links(i) \in Nat /\ open[i] \in Nat
  BY SizeFacts DEF Before, TypeOK, Links
<1>2. PICK U, V \in Seq(Ops) :
        /\ todo = <<Write(i, Links(i) - 1, 0)>> \o U /\ Touch(U, V) /\ Forget(i, V)
        /\ Covered(i, 0) /\ Links(i) > 1
  BY DEF Dropping
<1>3. PICK l \in Nat : l = Links(i) - 1
  BY <1>1, <1>2
<1>4. i \notin F
  BY <1>2, NotFree
<1>5. Head(todo) = Write(i, l, 0) /\ Tail(todo) = U
  BY <1>1, <1>2, <1>3, OpTypes, FirstOp
<1>6. /\ Kept(i) /\ FreeOK(F)' /\ todo' = U
      /\ Links(i)' = l /\ inodes'[Root] = inodes[Root]
      /\ Entries' = Entries /\ Named(i)' = Named(i) /\ dirent' = dirent /\ open' = open
  BY <1>4, <1>5, FileWrite
<1>7. Covered(i, -1)'
  BY <1>1, <1>2, <1>3, <1>6 DEF Covered
<1> QED
  BY <1>2, <1>6, <1>7, ForgetNext

\* Every step of a handler keeps the invariant.
LEMMA StepSound ==
  ASSUME DInv, Step
  PROVE  DInv'
<1>1. todo \in Seq(Ops) /\ todo # <<>> /\ TypeOK /\ Apart /\ RootOK /\ NamesOK /\ todo' = Tail(todo)
  BY DEF DInv, Sound, Step
<1>2. Tail(todo) \in Seq(Ops)
  BY <1>1, HeadTailProperties
<1>3. PICK F : FreeOK(F) /\ TodoOK(F)
  BY DEF DInv, Sound
<1>4. PICK T \in Seq(Ops) :
        /\ Behind(todo, T)
        /\ \/ T = <<>> /\ \A j \in Files : Covered(j, 0)
           \/ \E i \in Files : Rest(i, T, F) /\ \A j \in Files \ {i} : Covered(j, 0)
  BY <1>3 DEF TodoOK
<1>5. CASE todo = T
  <2>1. PICK i \in Files : Rest(i, todo, F) /\ \A j \in Files \ {i} : Covered(j, 0)
    BY <1>1, <1>4, <1>5
  <2>2. Before(i, F)
    BY <1>1, <1>3, <2>1 DEF Before
  <2>3. TypeOK' /\ Sound'
    <3>1. \/ Opening(i, todo) \/ Counting(i, todo) \/ Growing(i, todo)
          \/ Storing(i, todo, F) \/ Taking(i, todo) \/ Ending(i, todo)
          \/ Forgetting(i, todo) \/ Pushing(i, todo, F) \/ Freeing(i, todo) \/ Dropping(i, todo)
          \/ Entering(i, todo)
      BY <2>1 DEF Rest
    <3>2. CASE Entering(i, todo)
      BY <2>2, <3>2, StepEnteringHole, StepEnteringBlock DEF Entering, LinkIn
    <3> QED
      BY <2>2, <3>1, <3>2, StepOpening, StepCounting, StepGrowing, StepStoring, StepTaking,
         StepEnding, StepForgetting, StepPushing, StepFreeing, StepDropping
  <2> QED
    BY <1>1, <1>2, <2>3 DEF DInv
<1>6. CASE Harmless(Head(todo)) /\ Behind(Tail(todo), T)
  <2>1. TypeOK' /\ SameView
    BY <1>1, <1>6, HarmlessStep
  <2>2. RootSize' = RootSize /\ Entries' = Entries /\ dirent' = dirent
    BY <2>1, SameFacts DEF SameView
  <2>3. Apart'
    BY <1>1, <2>2 DEF Apart
  <2>4. RootOK' /\ NamesOK'
    <3>1. RootSize' >= RootSize /\ RootSize' <= MaxDirBlocks
      <4>1. RootSize \in Nat /\ RootSize <= MaxDirBlocks
        BY <1>1, SizeFacts DEF RootOK, RootSize, TypeOK
      <4> QED
        BY <2>2, <4>1, SizeFacts
    <3>2. TableStep
      BY <1>1, DoesTable
    <3>3. \A k \in Entries' : k \in Entries /\ dirent'[k] = dirent[k]
      BY <2>2
    <3> QED
      BY <1>1, <2>1, <3>1, <3>2, <3>3, DirStep
  <2>5. FreeOK(F)'
    BY <1>3, <2>1, SameFree
  <2>6. Behind(todo, T)'
    <3>1. PICK s : s = Tail(todo)
      OBVIOUS
    <3>2. Behind(s, T)'
      BY <1>6, <2>1, <3>1, SameBehind
    <3> QED
      BY <1>1, <3>1, <3>2 DEF Behind
  <2>7. \A j \in Files : Covered(j, 0) => Covered(j, 0)'
    BY <2>1, SameCovered
  <2>8. \A i \in Files : Rest(i, T, F) => Rest(i, T, F)'
    BY <1>1, <1>3, <2>1, SameRest
  <2>9. TodoOK(F)'
    <3>1. CASE T = <<>> /\ \A j \in Files : Covered(j, 0)
      BY <2>6, <2>7, <3>1 DEF TodoOK
    <3>2. CASE \E i \in Files : Rest(i, T, F) /\ \A j \in Files \ {i} : Covered(j, 0)
      BY <2>6, <2>7, <2>8, <3>2 DEF TodoOK
    <3> QED
      BY <1>4, <3>1, <3>2
  <2> QED
    BY <1>1, <1>2, <2>1, <2>3, <2>4, <2>5, <2>9 DEF DInv, Sound
<1> QED
  BY <1>1, <1>4, <1>5, <1>6, BehindStep

-----------------------------------------------------------------------------
(* Between two handlers, and the beginning of one. *)

\* A sequence with a first operation is not empty,
LEMMA NotNil ==
  ASSUME NEW a, NEW U \in Seq(Ops)
  PROVE  <<a>> \o U # <<>>
<1> DEFINE S == Ops \cup {a}
<1>1. <<a>> \in Seq(S) /\ Len(<<a>>) = 1
  OBVIOUS
<1>2. U \in Seq(S)
  OBVIOUS
<1>3. Len(<<a>> \o U) = 1 + Len(U) /\ Len(U) \in Nat
  BY <1>1, <1>2, ConcatProperties
<1> QED
  BY <1>3

\* and so something is left to do wherever the invariant says so.
LEMMA RestNotNil ==
  ASSUME NEW i \in Files, NEW F, NEW T, Rest(i, T, F)
  PROVE  T # <<>>
<1>0. \A a, b, c, d : <<a>> # <<>> /\ <<a, b>> # <<>> /\ <<a, b, c>> # <<>> /\ <<a, b, c, d>> # <<>>
  OBVIOUS
<1>1. \A V : LinkIn(i, V) \/ Forget(i, V) => V # <<>>
  BY <1>0, Zenon DEF LinkIn, Forget
<1>2. Opening(i, T) \/ Counting(i, T) \/ Growing(i, T) \/ Entering(i, T) \/ Forgetting(i, T) => T # <<>>
  BY <1>1 DEF Opening, Counting, Growing, Entering, Forgetting
<1>3. Storing(i, T, F) \/ Pushing(i, T, F) \/ Dropping(i, T) => T # <<>>
  BY NotNil DEF Storing, Pushing, Dropping
<1>4. Taking(i, T) \/ Freeing(i, T) => T # <<>>
  <2>1. \A U \in Seq(Ops) : <<Write(i, 1, 0)>> \o U \in Seq(Ops) /\ <<SetHead(i)>> \o U \in Seq(Ops)
    BY SizeFacts, OpTypes, FirstOp
  <2> QED
    BY <2>1, NotNil DEF Taking, Freeing
<1>5. Ending(i, T) => T # <<>>
  BY <1>0 DEF Ending
<1> QED
  BY <1>2, <1>3, <1>4, <1>5 DEF Rest

\* Between two handlers every file is covered, and no write is pending.
LEMMA Idle ==
  ASSUME DInv, todo = <<>>
  PROVE  /\ TypeOK /\ Apart /\ RootOK /\ (\E F : FreeOK(F)) /\ \A j \in Files : Covered(j, 0)
         /\ \A k \in Entries \ DiskEntries : BlockOf(dirent[k]) = BlockOf(Root)
<1>1. TypeOK /\ Apart /\ RootOK /\ NamesOK
  BY DEF DInv, Sound
<1>2. PICK F : FreeOK(F) /\ TodoOK(F)
  BY DEF DInv, Sound
<1>3. PICK T \in Seq(Ops) :
        /\ Behind(todo, T)
        /\ \/ T = <<>> /\ \A j \in Files : Covered(j, 0)
           \/ \E i \in Files : Rest(i, T, F) /\ \A j \in Files \ {i} : Covered(j, 0)
  BY <1>2 DEF TodoOK
<1>4. T = <<>>
  BY <1>3, BehindNil
<1>5. \A j \in Files : Covered(j, 0)
  BY <1>3, <1>4, RestNotNil
<1>6. \A k \in Entries \ DiskEntries : BlockOf(dirent[k]) = BlockOf(Root)
  BY <1>1 DEF NamesOK, Pending
<1> QED
  BY <1>1, <1>2, <1>5, <1>6

\* A handler begins: it keeps the invariant if what it will do is one of the cases of Rest
\* behind harmless operations.
LEMMA BeginSound ==
  ASSUME DInv, NEW ops \in Seq(Ops), Begin(ops), NEW T \in Seq(Ops), Behind(ops, T),
         T = <<>> \/ \E i \in Files : \A F : FreeOK(F) => Rest(i, T, F)
  PROVE  DInv'
<1>1. /\ todo = <<>> /\ todo' = ops
      /\ UNCHANGED <<table, head, dirent, inodes, cached, dirty, open, tainted>>
  BY DEF Begin
<1>2. /\ TypeOK /\ Apart /\ RootOK /\ (\A j \in Files : Covered(j, 0))
      /\ \A k \in Entries \ DiskEntries : BlockOf(dirent[k]) = BlockOf(Root)
  BY <1>1, Idle
<1>3. PICK F : FreeOK(F)
  BY <1>1, Idle
<1>4. TypeOK'
  BY <1>1, <1>2 DEF TypeOK
<1>5. SameView
  BY <1>1 DEF SameView
<1>6. RootSize' = RootSize /\ Entries' = Entries /\ DiskEntries' = DiskEntries
  BY <1>1 DEF RootSize, Entries, DiskEntries
<1>7. Apart' /\ RootOK' /\ NamesOK'
  BY <1>1, <1>2, <1>6 DEF Apart, RootOK, NamesOK
<1>8. FreeOK(F)'
  BY <1>3, <1>5, SameFree
<1>9. Behind(todo, T)'
  <2>1. Behind(ops, T)'
    BY <1>5, SameBehind
  <2> QED
    BY <1>1, <2>1 DEF Behind
<1>10. \A j \in Files : Covered(j, 0)'
  BY <1>2, <1>5, SameCovered
<1>11. TodoOK(F)'
  <2>1. CASE T = <<>>
    BY <1>9, <1>10, <2>1 DEF TodoOK
  <2>2. CASE \E i \in Files : \A G : FreeOK(G) => Rest(i, T, G)
    <3>1. PICK i \in Files : Rest(i, T, F)
      BY <1>3, <2>2
    <3>2. Rest(i, T, F)'
      BY <1>2, <1>3, <1>5, <3>1, SameRest
    <3> QED
      BY <1>9, <1>10, <3>2 DEF TodoOK
  <2> QED
    BY <2>1, <2>2
<1> QED
  BY <1>1, <1>4, <1>7, <1>8, <1>11 DEF DInv, Sound

\* The directory is looked through first.
LEMMA LookupBehind ==
  ASSUME TypeOK, NEW s \in Seq(Ops), NEW T \in Seq(Ops), Behind(s, T)
  PROVE  Lookup \in Seq(Ops) /\ Lookup \o s \in Seq(Ops) /\ Behind(Lookup \o s, T)
<1>1. Root \in Inodes /\ Links(Root) \in Nat /\ RootSize \in Nat
  BY SizeFacts DEF TypeOK, Links, RootSize
<1>2. PICK r, w \in Ops : r = Read(Root) /\ w = WriteRoot(RootSize)
  BY <1>1, OpTypes DEF WriteRoot
<1>3. Harmless(r) /\ Harmless(w)
  BY <1>1, <1>2 DEF Harmless
<1>4. <<r>> \in Seq(Ops) /\ <<w>> \in Seq(Ops) /\ <<>> \in Seq(Ops)
  OBVIOUS
<1>5. CASE RootSize > 0
  <2>1. Lookup = <<r>> \o <<w>>
    BY <1>2, <1>5 DEF Lookup
  <2>2. Lookup \in Seq(Ops)
    BY <1>4, <2>1, ConcatProperties
  <2>3. Lookup \o s = <<r>> \o (<<w>> \o s)
    BY <1>4, <2>1, ConcatAssociative
  <2>4. <<w>> \o s \in Seq(Ops) /\ Behind(<<w>> \o s, T)
    BY <1>3, FirstOp, BehindCons
  <2>5. <<r>> \o (<<w>> \o s) \in Seq(Ops) /\ Behind(<<r>> \o (<<w>> \o s), T)
    BY <1>3, <2>4, FirstOp, BehindCons
  <2> QED
    BY <2>2, <2>3, <2>5
<1>6. CASE ~(RootSize > 0)
  <2>1. Lookup = <<r>>
    BY <1>2, <1>4, <1>6, ConcatEmptySeq DEF Lookup
  <2>2. <<r>> \o s \in Seq(Ops) /\ Behind(<<r>> \o s, T)
    BY <1>3, FirstOp, BehindCons
  <2> QED
    BY <1>4, <2>1, <2>2
<1> QED
  BY <1>5, <1>6

\* Nothing is nothing behind nothing.
LEMMA NilBehind == <<>> \in Seq(Ops) /\ Behind(<<>>, <<>>)
<1>1. <<>> \in Seq(Ops)
  OBVIOUS
<1> QED
  BY <1>1, BehindSelf

\* A call that does not find its name begins.
LEMMA BeginMiss ==
  ASSUME DInv, Miss
  PROVE  DInv'
<1>1. TypeOK
  BY DEF DInv
<1>2. Lookup \in Seq(Ops) /\ Behind(Lookup \o <<>>, <<>>) /\ Lookup \o <<>> = Lookup
  BY <1>1, NilBehind, LookupBehind, ConcatEmptySeq
<1>3. PICK ops \in Seq(Ops) : ops = Lookup
  BY <1>2
<1> QED
  BY <1>2, <1>3, NilBehind, BeginSound DEF Miss

\* The inode of an entry is that of a file that has a link.
LEMMA EntryLinks ==
  ASSUME DInv, todo = <<>>, NEW k \in Entries
  PROVE  /\ dirent[k] \in Files /\ dirent[k] \in Inodes /\ k \in Slots
         /\ Links(dirent[k]) \in Nat /\ Links(dirent[k]) > 0
         /\ Covered(dirent[k], 0)
<1>1. TypeOK /\ RootOK /\ \A j \in Files : Covered(j, 0)
  BY Idle
<1>2. dirent[k] \in Files /\ dirent[k] \in Inodes /\ k \in Slots
  BY <1>1, DiskEntriesAre, SizeFacts DEF Entries
<1>3. Named(dirent[k])
  BY DEF Named
<1>4. open[dirent[k]] \in Nat /\ Links(dirent[k]) \in Nat
  BY <1>1, <1>2 DEF TypeOK, Links
<1> QED
  BY <1>1, <1>2, <1>3, <1>4 DEF Covered

\* sfs_getattr() begins.
LEMMA BeginGetAttr ==
  ASSUME DInv, NEW k \in Entries, GetAttr(k)
  PROVE  DInv'
<1>1. TypeOK /\ todo = <<>> /\ Begin(Lookup \o <<Read(dirent[k])>>)
  BY DEF DInv, GetAttr, Begin
<1>2. PICK r \in Ops : r = Read(dirent[k])
  BY <1>1, EntryLinks, OpTypes
<1>3. Harmless(r)
  BY <1>1, <1>2, EntryLinks DEF Harmless
<1>4. <<r>> \in Seq(Ops) /\ Behind(<<r>>, <<>>)
  <2>1. <<r>> = <<r>> \o <<>>
    BY Tuples
  <2>2. <<r>> \in Seq(Ops)
    OBVIOUS
  <2>3. Behind(<<r>> \o <<>>, <<>>)
    BY <1>3, NilBehind, BehindCons
  <2> QED
    BY <2>1, <2>2, <2>3
<1>5. PICK ops \in Seq(Ops) : ops = Lookup \o <<r>> /\ Behind(ops, <<>>)
  BY <1>1, <1>4, NilBehind, LookupBehind
<1> QED
  BY <1>1, <1>2, <1>5, NilBehind, BeginSound

\* sfs_open() begins.
LEMMA BeginOpen ==
  ASSUME DInv, NEW k \in Entries, Open(k)
  PROVE  DInv'
<1>0. PICK i : i = dirent[k]
  OBVIOUS
<1>1. /\ TypeOK /\ todo = <<>> /\ open[i] < MaxOpen
      /\ Begin(Lookup \o <<Read(i), Write(i, Links(i) + 1, 0), Opened(i)>>)
  BY <1>0 DEF DInv, Open, Begin
<1>2. /\ i \in Files /\ i \in Inodes /\ Links(i) \in Nat /\ Links(i) > 0
      /\ Links(i) + 1 \in Nat /\ Covered(i, 0)
  BY <1>0, <1>1, EntryLinks
<1>3. PICK r, a, b \in Ops : r = Read(i) /\ a = Write(i, Links(i) + 1, 0) /\ b = Opened(i)
  BY <1>2, OpTypes
<1>4. Harmless(r)
  BY <1>2, <1>3 DEF Harmless
<1>5. <<a, b>> \in Seq(Ops) /\ <<r, a, b>> = <<r>> \o <<a, b>> /\ <<r, a, b>> \in Seq(Ops)
  BY Tuples
<1>6. Behind(<<r, a, b>>, <<a, b>>)
  BY <1>4, <1>5, BehindSelf, BehindCons
<1>7. PICK ops \in Seq(Ops) : ops = Lookup \o <<r, a, b>> /\ Behind(ops, <<a, b>>)
  BY <1>1, <1>5, <1>6, LookupBehind
<1>8. Counting(i, <<a, b>>)
  BY <1>1, <1>2, <1>3 DEF Counting
<1>9. \A F : FreeOK(F) => Rest(i, <<a, b>>, F)
  BY <1>8 DEF Rest
<1>10. Begin(ops)
  BY <1>1, <1>3, <1>7
<1> QED
  BY <1>2, <1>5, <1>7, <1>9, <1>10, BeginSound

\* A file that has a descriptor has a link.
LEMMA OpenLinks ==
  ASSUME DInv, todo = <<>>, NEW i \in Files, open[i] > 0
  PROVE  i \in Inodes /\ Links(i) \in Nat /\ Links(i) > 0 /\ Covered(i, 0)
<1>1. TypeOK /\ \A j \in Files : Covered(j, 0)
  BY Idle
<1>2. i \in Inodes /\ open[i] \in Nat /\ Links(i) \in Nat
  BY <1>1, SizeFacts DEF TypeOK, Links
<1> QED
  BY <1>1, <1>2 DEF Covered

\* sfs_read() or sfs_write() begins.
LEMMA BeginAccess ==
  ASSUME DInv, NEW i \in Files, Access(i)
  PROVE  DInv'
<1>1. TypeOK /\ todo = <<>> /\ open[i] > 0 /\ Begin(<<Read(i), Write(i, Links(i), 0)>>)
  BY DEF DInv, Access, Begin
<1>2. i \in Inodes /\ Links(i) \in Nat /\ Links(i) > 0
  BY <1>1, OpenLinks
<1>3. PICK r, w \in Ops : r = Read(i) /\ w = Write(i, Links(i), 0)
  BY <1>2, OpTypes
<1>4. Harmless(r) /\ Harmless(w)
  BY <1>2, <1>3 DEF Harmless
<1>5. <<w>> \o <<>> = <<w>> /\ <<w>> \in Seq(Ops) /\ <<r, w>> = <<r>> \o <<w>> /\ <<r, w>> \in Seq(Ops)
  BY Tuples
<1>6. Behind(<<w>>, <<>>)
  <2>1. Behind(<<w>> \o <<>>, <<>>)
    BY <1>4, NilBehind, BehindCons
  <2> QED
    BY <1>5, <2>1
<1>7. Behind(<<r, w>>, <<>>)
  <2>1. Behind(<<r>> \o <<w>>, <<>>)
    BY <1>4, <1>5, <1>6, NilBehind, BehindCons
  <2> QED
    BY <1>5, <2>1
<1>8. Begin(<<r, w>>)
  BY <1>1, <1>3
<1> QED
  BY <1>5, <1>7, <1>8, NilBehind, BeginSound

\* sfs_readdir() begins.
LEMMA BeginReadDir ==
  ASSUME DInv, ReadDir
  PROVE  DInv'
<1> DEFINE E(n) == IF n % 2 = 0 /\ dirent[n \div 2 - 1] # 0 THEN Read(dirent[n \div 2 - 1]) ELSE WriteRoot(RootSize)
<1>1. TypeOK /\ RootOK /\ todo = <<>> /\ Begin(<<Read(Root)>> \o [n \in 1..(2 * RootSize) |-> E(n)])
  BY DEF DInv, Sound, ReadDir, Begin
<1>2. Root \in Inodes /\ Links(Root) \in Nat /\ RootSize \in Nat /\ RootSize <= MaxDirBlocks /\ MaxDirBlocks \in Nat
  BY <1>1, SizeFacts DEF TypeOK, Links, RootSize, RootOK
<1>3. WriteRoot(RootSize) \in Ops /\ Harmless(WriteRoot(RootSize))
  BY <1>2, OpTypes DEF WriteRoot, Harmless
<1>4. ASSUME NEW n \in 1..(2 * RootSize)
      PROVE  E(n) \in Ops /\ Harmless(E(n))
  <2>1. CASE n % 2 = 0 /\ dirent[n \div 2 - 1] # 0
    <3>1. n \div 2 - 1 \in Slots
      <4>1. n \div 2 \in 1..RootSize
        BY <1>2, <1>4, <2>1
      <4> QED
        BY <1>2, <4>1 DEF Slots
    <3>2. PICK j : j = dirent[n \div 2 - 1]
      OBVIOUS
    <3>3. j \in Inodes
      BY <1>1, <2>1, <3>1, <3>2, SizeFacts DEF TypeOK
    <3>4. Read(j) \in Ops /\ Harmless(Read(j))
      BY <3>3, OpTypes DEF Harmless
    <3> QED
      BY <2>1, <3>2, <3>4
  <2>2. CASE ~(n % 2 = 0 /\ dirent[n \div 2 - 1] # 0)
    BY <1>3, <2>2
  <2> QED
    BY <2>1, <2>2
<1> HIDE DEF E
<1>5. PICK Q : Q = [n \in 1..(2 * RootSize) |-> E(n)]
  OBVIOUS
<1>6. Q \in Seq(Ops) /\ Len(Q) = 2 * RootSize
  <2>1. 2 * RootSize \in Nat
    BY <1>2
  <2> QED
    BY <1>4, <1>5, <2>1, IsASeq
<1>7. \A m \in 1..Len(Q) : Harmless(Q[m])
  BY <1>4, <1>5, <1>6
<1>8. Behind(Q, <<>>)
  <2>1. Q = Q \o <<>>
    BY <1>6, ConcatEmptySeq
  <2> QED
    BY <1>6, <1>7, <2>1 DEF Behind
<1>9. PICK r \in Ops : r = Read(Root)
  BY <1>2, OpTypes
<1>10. Harmless(r)
  BY <1>2, <1>9 DEF Harmless
<1>11. PICK ops \in Seq(Ops) : ops = <<r>> \o Q /\ Behind(ops, <<>>)
  BY <1>6, <1>8, <1>10, NilBehind, FirstOp, BehindCons
<1>12. Begin(ops)
  BY <1>1, <1>5, <1>9, <1>11
<1> QED
  BY <1>11, <1>12, NilBehind, BeginSound

\* The end of a link: what is left after the inode was read.
LEMMA DropRest ==
  ASSUME DInv, todo = <<>>, NEW i \in Files, Covered(i, 0), Links(i) \in Nat, Links(i) > 0,
         NEW U \in Seq(Ops), NEW V \in Seq(Ops), Touch(U, V), Forget(i, V)
  PROVE  /\ Drop(i) \in Seq(Ops) /\ Drop(i) \o U \in Seq(Ops)
         /\ \A F : FreeOK(F) => Rest(i, Drop(i) \o U, F)
<1>1. i \in Inodes /\ head \in Nat /\ i \in 0..(NumInodes + 1)
  BY SizeFacts DEF DInv, TypeOK
<1>2. CASE Links(i) = 1
  <2>1. PICK a, b \in Ops : a = Write(i, 0, head) /\ b = SetHead(i)
    BY <1>1, OpTypes
  <2>2. Drop(i) = <<a, b>>
    BY <1>2, <2>1 DEF Drop
  <2>3. <<a>> \in Seq(Ops) /\ <<b>> \in Seq(Ops) /\ <<a, b>> = <<a>> \o <<b>> /\ <<a, b>> \in Seq(Ops)
    BY Tuples
  <2>4. <<a, b>> \o U = <<a>> \o (<<b>> \o U)
    BY <2>3, ConcatAssociative
  <2>5. <<a, b>> \o U \in Seq(Ops)
    BY <2>3, ConcatProperties
  <2>6. Freeing(i, Drop(i) \o U)
    BY <1>2, <2>1, <2>2, <2>4 DEF Freeing
  <2> QED
    BY <2>2, <2>3, <2>5, <2>6 DEF Rest
<1>3. CASE Links(i) # 1
  <2>1. PICK l \in Nat : l = Links(i) - 1
    OBVIOUS
  <2>2. PICK a \in Ops : a = Write(i, l, 0)
    BY <1>1, OpTypes
  <2>3. Drop(i) = <<a>>
    BY <1>3, <2>1, <2>2 DEF Drop
  <2>4. <<a>> \in Seq(Ops) /\ <<a>> \o U \in Seq(Ops)
    BY FirstOp
  <2>5. Links(i) > 1
    BY <1>3
  <2>6. Dropping(i, Drop(i) \o U)
    BY <2>1, <2>2, <2>3, <2>5 DEF Dropping
  <2> QED
    BY <2>3, <2>4, <2>6 DEF Rest
<1> QED
  BY <1>2, <1>3

\* sfs_unlink() begins.
LEMMA BeginUnlink ==
  ASSUME DInv, NEW k \in Entries, Unlink(k)
  PROVE  DInv'
<1>0. PICK i : i = dirent[k]
  OBVIOUS
<1>1. TypeOK /\ todo = <<>> /\ Begin(Lookup \o <<Read(i)>> \o Drop(i) \o <<WriteRoot(RootSize), Entry(k, 0)>>)
  BY <1>0 DEF DInv, Unlink, Begin
<1>2. /\ i \in Files /\ i \in Inodes /\ Links(i) \in Nat /\ Links(i) > 0 /\ Covered(i, 0) /\ k \in Slots
      /\ Root \in Inodes /\ Links(Root) \in Nat /\ RootSize \in Nat
  BY <1>0, <1>1, EntryLinks, SizeFacts DEF TypeOK, Links, RootSize
<1>3. PICK r, w, e \in Ops : r = Read(i) /\ w = WriteRoot(RootSize) /\ e = Entry(k, 0)
  <2>1. 0 \in {0} \cup Files
    OBVIOUS
  <2> QED
    BY <1>2, <2>1, OpTypes DEF WriteRoot
<1> DEFINE U == <<w, e>>
           V == <<e>>
<1>4. U \in Seq(Ops) /\ V \in Seq(Ops) /\ U = <<w>> \o V
  BY Tuples
<1>5. Touch(U, V) /\ Forget(i, V)
  BY <1>0, <1>3, <1>4 DEF Touch, Forget
<1> HIDE DEF U, V
<1>6. PICK D, T \in Seq(Ops) : D = Drop(i) /\ T = D \o U /\ \A F : FreeOK(F) => Rest(i, T, F)
  BY <1>1, <1>2, <1>4, <1>5, DropRest
<1>7. <<r>> \in Seq(Ops) /\ <<r>> \o T \in Seq(Ops) /\ Behind(<<r>> \o T, T)
  <2>1. Harmless(r)
    BY <1>2, <1>3 DEF Harmless
  <2> QED
    BY <2>1, FirstOp, BehindSelf, BehindCons
<1>8. PICK L, ops \in Seq(Ops) : L = Lookup /\ ops = L \o (<<r>> \o T) /\ Behind(ops, T)
  BY <1>1, <1>7, LookupBehind
<1>9. ops = ((L \o <<r>>) \o D) \o U
  <2>1. L \o <<r>> \in Seq(Ops)
    BY <1>7, ConcatProperties
  <2>2. ((L \o <<r>>) \o D) \o U = (L \o <<r>>) \o T
    BY <1>4, <1>6, <2>1, ConcatAssociative
  <2>3. (L \o <<r>>) \o T = L \o (<<r>> \o T)
    BY <1>7, ConcatAssociative
  <2> QED
    BY <1>8, <2>2, <2>3
<1>10. Begin(ops)
  BY <1>1, <1>3, <1>6, <1>8, <1>9 DEF U
<1> QED
  BY <1>2, <1>6, <1>8, <1>10, BeginSound

\* sfs_release() begins.
LEMMA BeginRelease ==
  ASSUME DInv, NEW i \in Files, Release(i)
  PROVE  DInv'
<1>1. TypeOK /\ todo = <<>> /\ open[i] > 0 /\ Begin(<<Read(i)>> \o Drop(i) \o <<Released(i)>>)
  BY DEF DInv, Release, Begin
<1>2. i \in Inodes /\ Links(i) \in Nat /\ Links(i) > 0 /\ Covered(i, 0)
  BY <1>1, OpenLinks
<1>3. PICK r, e \in Ops : r = Read(i) /\ e = Released(i)
  BY <1>2, OpTypes
<1> DEFINE V == <<e>>
<1>4. V \in Seq(Ops)
  OBVIOUS
<1>5. Touch(V, V) /\ Forget(i, V)
  BY <1>1, <1>3, <1>4 DEF Touch, Forget
<1> HIDE DEF V
<1>6. PICK D, T \in Seq(Ops) : D = Drop(i) /\ T = D \o V /\ \A F : FreeOK(F) => Rest(i, T, F)
  BY <1>1, <1>2, <1>4, <1>5, DropRest
<1>7. <<r>> \in Seq(Ops) /\ <<r>> \o T \in Seq(Ops) /\ Behind(<<r>> \o T, T)
  <2>1. Harmless(r)
    BY <1>2, <1>3 DEF Harmless
  <2> QED
    BY <2>1, FirstOp, BehindSelf, BehindCons
<1>8. (<<r>> \o D) \o V = <<r>> \o T
  BY <1>4, <1>6, <1>7, ConcatAssociative
<1>9. Begin(<<r>> \o T)
  BY <1>1, <1>3, <1>6, <1>8 DEF V
<1> QED
  BY <1>6, <1>7, <1>9, BeginSound

\* Sequences one behind the other.
LEMMA Regroup ==
  ASSUME NEW A \in Seq(Ops), NEW B \in Seq(Ops), NEW U \in Seq(Ops), NEW AB, AB = A \o B, NEW BU, BU = B \o U
  PROVE  AB \o U = A \o BU
BY ConcatAssociative

\* Concatenation is associative.
LEMMA Associative == \A p, q, s \in Seq(Ops) : (p \o q) \o s = p \o (q \o s)
BY ConcatAssociative

\* A tuple of two operations in front,
LEMMA Regroup2 ==
  ASSUME NEW a \in Ops, NEW b \in Ops, NEW U \in Seq(Ops)
  PROVE  <<a, b>> \o U = <<a>> \o (<<b>> \o U)
<1>1. PICK A : A = <<a>>
  OBVIOUS
<1>2. PICK B : B = <<b>>
  OBVIOUS
<1>3. A \in Seq(Ops) /\ B \in Seq(Ops)
  BY <1>1, <1>2
<1>4. <<a, b>> = A \o B
  BY <1>1, <1>2, Tuples
<1>5. <<a, b>> \o U = A \o (B \o U)
  BY <1>3, <1>4, Regroup
<1> QED
  BY <1>1, <1>2, <1>5, Zenon

\* of three,
LEMMA Regroup3 ==
  ASSUME NEW a \in Ops, NEW b \in Ops, NEW c \in Ops, NEW U \in Seq(Ops)
  PROVE  <<a, b, c>> \o U = <<a>> \o (<<b, c>> \o U)
<1>1. PICK A : A = <<a>>
  OBVIOUS
<1>2. PICK B : B = <<b, c>>
  OBVIOUS
<1>3. A \in Seq(Ops) /\ B \in Seq(Ops)
  BY <1>1, <1>2
<1>4. PICK C : C = <<a, b, c>>
  OBVIOUS
<1>5. C = A \o B
  BY <1>1, <1>2, <1>4, Tuples
<1>6. C \o U = A \o (B \o U)
  BY <1>3, <1>5, Regroup
<1> QED
  BY <1>1, <1>2, <1>4, <1>6, Zenon

\* and two of two.
LEMMA Joined ==
  ASSUME NEW a \in Ops, NEW b \in Ops, NEW c \in Ops, NEW d \in Ops
  PROVE  <<a, b>> \o <<c, d>> = <<a, b, c, d>>
<1>1. PICK U : U = <<c, d>>
  OBVIOUS
<1>2. U \in Seq(Ops)
  BY <1>1
<1>3. <<a, b>> \o U = <<a>> \o (<<b>> \o U)
  BY <1>2, Regroup2
<1>4. <<b, c, d>> = <<b>> \o <<c, d>>
  BY Tuples
<1>5. <<a, b, c, d>> = <<a>> \o <<b, c, d>>
  BY Tuples
<1> QED
  BY <1>1, <1>3, <1>4, <1>5, Zenon

\* The first hole is one.
LEMMA FirstHole ==
  ASSUME Holes # {}
  PROVE  (CHOOSE k \in Holes : \A j \in Holes : k <= j) \in Holes
<1>1. Holes \subseteq Nat
  BY SizeFacts DEF Holes, Slots
<1> DEFINE R == {p \in Nat \X Nat : p[1] < p[2]}
<1>2. IsWellFoundedOn(R, Nat)
  BY NatLessThanWellFounded DEF OpToRel
<1>3. PICK x \in Holes : \A y \in Holes : <<y, x>> \notin R
  <2> HIDE DEF R
  <2> QED
    BY <1>1, <1>2, WFMin
<1>4. \A y \in Holes : x <= y
  <2> SUFFICES ASSUME NEW y \in Holes, y < x
               PROVE  FALSE
    BY <1>1
  <2>1. <<y, x>> \in Nat \X Nat
    BY <1>1
  <2>2. <<y, x>> \in R
    BY <2>1
  <2> QED
    BY <1>3, <2>2
<1> QED
  BY <1>4

\* The head of the free list is in no entry and has no descriptor.
LEMMA HeadUnused ==
  ASSUME DInv, todo = <<>>, head \in Files
  PROVE  Unused(head) /\ inodes[head].size \in 0..(NumInodes + 1)
<1>1. TypeOK /\ \A j \in Files : Covered(j, 0)
  BY Idle
<1>2. PICK F : FreeOK(F)
  BY Idle
<1>3. head \notin End /\ F \in SUBSET Files /\ Listed(F, Sizes, head, End) /\ \A j \in F : Links(j) = 0
  BY <1>2, SizeFacts DEF FreeOK, End
<1>4. head \in F /\ Sizes[head] \in F \cup End
  BY <1>3, ListHead
<1>5. inodes[head].size \in Files \/ inodes[head].size = 0 \/ inodes[head].size = NumInodes + 1
  BY <1>3, <1>4, SizeFacts DEF Sizes, End
<1>6. inodes[head].size \in 0..(NumInodes + 1)
  BY <1>5, SizesAssumption DEF Files
<1>7. open[head] \in Nat /\ Links(head) = 0
  BY <1>1, <1>3, <1>4 DEF TypeOK
<1>8. Unused(head)
  BY <1>1, <1>7 DEF Covered, Unused
<1> QED
  BY <1>6, <1>8

\* A creation begins, whatever comes after the inode was written.
LEMMA BeginTaking ==
  ASSUME DInv, todo = <<>>, NEW i \in Files, head = i, NEW U \in Seq(Ops), NEW V \in Seq(Ops),
         Touch(U, V), LinkOrFail(i, V), Begin(Allocate(i) \o U)
  PROVE  DInv'
<1>1. TypeOK /\ i \in Inodes /\ Unused(i) /\ inodes[i].size \in 0..(NumInodes + 1)
  BY HeadUnused, SizeFacts DEF DInv
<1>2. PICK r, h, a \in Ops : r = Read(i) /\ h = SetHead(inodes[i].size) /\ a = Write(i, 1, 0)
  BY <1>1, OpTypes
<1> DEFINE A == <<a>> \o U
           T == <<h>> \o A
<1>4. A \in Seq(Ops)
  BY FirstOp
<1>5. Taking(i, T)
  <2>1. T = <<SetHead(inodes[i].size)>> \o (<<Write(i, 1, 0)>> \o U)
    BY <1>2
  <2> QED
    BY <1>1, <2>1 DEF Taking
<1> HIDE DEF A
<1>6. T \in Seq(Ops)
  BY <1>4, FirstOp
<1> HIDE DEF T
<1>7. <<r>> \o T \in Seq(Ops) /\ Behind(<<r>> \o T, T)
  <2>1. Harmless(r)
    BY <1>1, <1>2 DEF Harmless
  <2> QED
    BY <1>6, <2>1, FirstOp, BehindSelf, BehindCons
<1>8. PICK L, ops \in Seq(Ops) : L = Lookup /\ ops = L \o (<<r>> \o T) /\ Behind(ops, T)
  BY <1>1, <1>6, <1>7, LookupBehind
<1>9. ops = (L \o <<r, h, a>>) \o U
  <2>1. <<r, h, a>> \in Seq(Ops)
    BY Tuples
  <2>2. <<h, a>> \o U = T
    BY Regroup2 DEF T, A
  <2>3. <<r, h, a>> \o U = <<r>> \o T
    BY <2>2, Regroup3
  <2>4. (L \o <<r, h, a>>) \o U = L \o (<<r, h, a>> \o U)
    BY <2>1, ConcatAssociative
  <2> QED
    BY <1>8, <2>3, <2>4
<1>10. Begin(ops)
  BY <1>2, <1>8, <1>9 DEF Allocate
<1>11. \A F : FreeOK(F) => Rest(i, T, F)
  BY <1>5 DEF Rest
<1> QED
  BY <1>6, <1>8, <1>10, <1>11, BeginSound

\* What a creation begins with is a sequence of operations.
LEMMA AllocateType ==
  ASSUME DInv, todo = <<>>, NEW i \in Files, head = i
  PROVE  Allocate(i) \in Seq(Ops)
<1>1. TypeOK /\ i \in Inodes /\ inodes[i].size \in 0..(NumInodes + 1)
  BY HeadUnused, SizeFacts DEF DInv
<1>2. PICK r, h, a \in Ops : r = Read(i) /\ h = SetHead(inodes[i].size) /\ a = Write(i, 1, 0)
  BY <1>1, OpTypes
<1>3. <<r, h, a>> \in Seq(Ops) /\ Lookup \in Seq(Ops)
  BY <1>1, NilBehind, LookupBehind, Tuples
<1>4. Lookup \o <<r, h, a>> \in Seq(Ops)
  BY <1>3, ConcatProperties
<1> QED
  BY <1>2, <1>4 DEF Allocate

\* The write of the root that a new block of the directory may need.
LEMMA PointerTouch ==
  ASSUME TypeOK, NEW p \in Pointer, NEW V \in Seq(Ops)
  PROVE  p \in Seq(Ops) /\ p \o V \in Seq(Ops) /\ Touch(p \o V, V)
<1>1. PICK w \in Ops : w = WriteRoot(RootSize)
  BY OpTypes, SizeFacts DEF TypeOK, WriteRoot, Links, RootSize
<1>2. CASE p = <<>>
  BY <1>2, ConcatEmptySeq DEF Touch
<1>3. CASE p = <<w>>
  BY <1>1, <1>3, FirstOp DEF Touch
<1> QED
  BY <1>1, <1>2, <1>3 DEF Pointer

\* sfs_create() begins.
LEMMA BeginCreate ==
  ASSUME DInv, Create
  PROVE  DInv'
<1>0. PICK i : i = head
  OBVIOUS
<1> DEFINE k == CHOOSE k \in Holes : \A j \in Holes : k <= j
<1>1. TypeOK /\ todo = <<>> /\ i \in Files
  BY <1>0 DEF DInv, Create, Begin
<1>2. i \in Inodes /\ Root \in Inodes /\ Links(Root) \in Nat /\ RootSize \in Nat /\ RootSize + 1 \in Nat
  BY <1>1, SizeFacts DEF TypeOK, Links, RootSize
<1>3. PICK a, b \in Ops : a = Write(i, 2, 0) /\ b = Opened(i)
  BY <1>1, <1>2, OpTypes
<1>4. PICK w, v \in Ops : w = WriteRoot(RootSize) /\ v = WriteRoot(RootSize + 1)
  BY <1>2, OpTypes DEF WriteRoot
<1>5. PICK A \in Seq(Ops) : A = Allocate(i)
  BY <1>0, <1>1, AllocateType
<1>6. CASE Holes # {} /\ Begin((A \o <<Entry(k, i), w>>) \o <<a, b>>)
  <2>1. PICK m \in Holes : m = k
    BY <1>6, FirstHole
  <2>2. PICK e \in Ops : e = Entry(m, i)
    <3>1. m \in Slots /\ i \in {0} \cup Files
      BY <1>1, <2>1 DEF Holes
    <3> QED
      BY <3>1, OpTypes
  <2> HIDE DEF k
  <2>3. PICK E, Y : E = <<e, w>> /\ Y = <<a, b>>
    OBVIOUS
  <2>4. <<e, w>> \in Seq(Ops) /\ <<a, b>> \in Seq(Ops) /\ <<e, w, a, b>> \in Seq(Ops)
    BY Tuples
  <2>5. PICK U \in Seq(Ops) : U = <<e, w, a, b>>
    BY <2>4
  <2>6. LinkIn(i, <<e, w, a, b>>)
    BY <1>3, <1>4, <2>1, <2>2 DEF LinkIn
  <2>7. (A \o E) \o Y = A \o U
    <3>1. E \in Seq(Ops) /\ Y \in Seq(Ops)
      BY <2>3, <2>4
    <3>2. U = E \o Y
      BY <2>3, <2>5, Joined, Zenon
    <3> QED
      BY <3>1, <3>2, Regroup
  <2>8. Begin(Allocate(i) \o U)
    BY <1>5, <1>6, <2>1, <2>2, <2>3, <2>7, Zenon
  <2>9. Begin(Allocate(i) \o U) /\ Touch(U, U) /\ LinkOrFail(i, U)
    BY <2>5, <2>6, <2>8 DEF Touch, LinkOrFail
  <2> QED
    BY <1>0, <1>1, <2>9, BeginTaking
<1>7. ASSUME Holes = {}, RootSize \in Slots, NEW p \in Pointer,
             Begin(((A \o p) \o <<Entry(RootSize, i), v>>) \o <<a, b>>)
      PROVE  DInv'
  <2>2. PICK e \in Ops : e = Entry(RootSize, i)
    <3>1. RootSize \in Slots /\ i \in {0} \cup Files
      BY <1>1, <1>7
    <3> QED
      BY <3>1, OpTypes
  <2>3. PICK E, Y : E = <<e, v>> /\ Y = <<a, b>>
    OBVIOUS
  <2>4. <<e, v>> \in Seq(Ops) /\ <<a, b>> \in Seq(Ops) /\ <<e, v, a, b>> \in Seq(Ops)
    BY Tuples
  <2>6. LinkIn(i, <<e, v, a, b>>)
    BY <1>3, <1>4, <1>7, <2>2 DEF LinkIn
  <2>7. PICK V \in Seq(Ops) : V = <<e, v, a, b>>
    BY <2>4
  <2>8. p \in Seq(Ops) /\ p \o V \in Seq(Ops) /\ Touch(p \o V, V)
    BY <1>1, PointerTouch
  <2>9. PICK M \in Seq(Ops) : M = A \o p
    BY <2>8, ConcatProperties
  <2>10. (M \o E) \o Y = M \o V
    <3>1. E \in Seq(Ops) /\ Y \in Seq(Ops)
      BY <2>3, <2>4
    <3>2. V = E \o Y
      BY <2>3, <2>7, Joined, Zenon
    <3> QED
      BY <3>1, <3>2, Regroup
  <2>11. M \o V = A \o (p \o V)
    BY <2>8, <2>9, Associative, Zenon
  <2>12. PICK U \in Seq(Ops) : U = p \o V
    BY <2>8
  <2>13. Begin(Allocate(i) \o U)
    BY <1>5, <1>7, <2>2, <2>3, <2>9, <2>10, <2>11, <2>12, Zenon
  <2>14. Touch(U, V) /\ LinkOrFail(i, V)
    BY <2>6, <2>7, <2>8, <2>12 DEF LinkOrFail
  <2> QED
    BY <1>0, <1>1, <2>13, <2>14, BeginTaking
<1>8. \/ Holes # {} /\ Begin((A \o <<Entry(k, i), w>>) \o <<a, b>>)
      \/ /\ Holes = {} /\ RootSize \in Slots
         /\ \E p \in Pointer : Begin(((A \o p) \o <<Entry(RootSize, i), v>>) \o <<a, b>>)
  BY <1>0, <1>3, <1>4, <1>5, Zenon DEF Create
<1> QED
  BY <1>6, <1>7, <1>8, Zenon

\* sfs_create() begins, and sfs_dir_link() will fail.
LEMMA BeginCreateFails ==
  ASSUME DInv, CreateFails
  PROVE  DInv'
<1>1. PICK p \in Pointer : Begin(Allocate(head) \o p)
  BY DEF CreateFails
<1>2. PICK i \in Files : i = head
  BY DEF CreateFails
<1>3. TypeOK /\ todo = <<>>
  BY <1>1 DEF DInv, Begin
<1>. <<>> \in Seq(Ops)
  OBVIOUS
<1>4. PICK N \in Seq(Ops) : N = <<>>
  OBVIOUS
<1>5. p \in Seq(Ops) /\ Touch(p \o N, N)
  BY <1>3, PointerTouch
<1>6. p \o N = p
  BY <1>4, <1>5, ConcatEmptySeq
<1>7. Touch(p, N) /\ LinkOrFail(i, N) /\ Begin(Allocate(i) \o p)
  BY <1>1, <1>2, <1>4, <1>5, <1>6 DEF LinkOrFail
<1> QED
  BY <1>2, <1>3, <1>5, <1>7, BeginTaking

\* sfs_create() begins, and the free list has led behind the table.
LEMMA BeginCreateBehindTable ==
  ASSUME DInv, CreateBehindTable
  PROVE  DInv'
<1>1. TypeOK /\ todo = <<>> /\ head = NumInodes + 1
  BY DEF DInv, CreateBehindTable, Begin
<1>2. PICK r, h, a \in Ops : r = Read(NumInodes + 1) /\ h = SetHead(0) /\ a = Abort
  BY OpTypes, SizeFacts
<1>3. PICK i \in Files : TRUE
  BY SizesAssumption DEF Files
<1>4. PICK T \in Seq(Ops) : T = <<h, a>> /\ <<r, h, a>> = <<r>> \o T
  BY Tuples
<1>5. Harmless(r)
  BY <1>2 DEF Harmless
<1>6. <<r>> \o T \in Seq(Ops) /\ Behind(<<r>> \o T, T)
  BY <1>5, FirstOp, BehindSelf, BehindCons
<1>7. PICK ops \in Seq(Ops) : ops = Lookup \o (<<r>> \o T) /\ Behind(ops, T)
  BY <1>1, <1>6, LookupBehind
<1>8. Begin(ops)
  BY <1>1, <1>2, <1>4, <1>7 DEF CreateBehindTable
<1>9. Ending(i, T)
  BY <1>1, <1>2, <1>4, Idle DEF Ending
<1>10. \A F : FreeOK(F) => Rest(i, T, F)
  BY <1>9 DEF Rest
<1> QED
  BY <1>7, <1>8, <1>10, BeginSound

-----------------------------------------------------------------------------
(* Mounting again. *)

\* A disk on which an entry names an inode that is in use, and where the free list is as before.
LEMMA MountSound ==
  ASSUME DInv, Mount, table' \in [Inodes -> Inode], tainted' \in BOOLEAN,
         table'[Root].size <= RootSize, NEW F, FreeOK(F),
         \A i \in F : table'[i] = inodes[i],
         \A k \in DiskEntries' : table'[dirent[k]].links > 0
  PROVE  DInv'
<1>1. TypeOK /\ Apart /\ RootOK
  BY DEF DInv, Sound
<1>2. /\ inodes' = table' /\ cached' = 0 /\ dirty' = FALSE /\ open' = [i \in Files |-> 0]
      /\ todo' = <<>> /\ head' = head /\ dirent' = dirent
  BY DEF Mount
<1>3. TypeOK'
  <2>1. open' \in [Files -> 0..MaxOpen]
    BY <1>2, SizeFacts
  <2>2. 0 \in 0..BlockOf(NumInodes + 1)
    BY BlockZero
  <2> QED
    BY <1>1, <1>2, <2>1, <2>2 DEF TypeOK, Inode
<1>4. RootSize' = table'[Root].size /\ RootSize' \in Nat /\ RootSize \in Nat /\ RootSize <= MaxDirBlocks
  BY <1>1, <1>2, SizeFacts DEF RootSize, RootOK, TypeOK, Inode
<1>5. Entries' = DiskEntries' /\ Entries' \subseteq Entries
  BY <1>2, <1>4, SizeFacts DEF Entries, DiskEntries, Slots
<1>6. Apart' /\ NamesOK'
  BY <1>1, <1>2, <1>5 DEF Apart, NamesOK
<1>7. RootOK'
  BY <1>4, SizeFacts DEF RootOK
<1>8. FreeOK(F)'
  <2>1. F \in SUBSET Files /\ Listed(F, Sizes, head, End) /\ \A j \in F : Links(j) = 0
    BY DEF FreeOK
  <2>2. \A j \in F : Sizes'[j] = Sizes[j] /\ Links(j)' = 0
    BY <1>2, <2>1, SizeFacts DEF Sizes, Links
  <2>3. Listed(F, Sizes', head, End)
    BY <2>1, <2>2, ListFrame
  <2> QED
    BY <1>2, <2>1, <2>2, <2>3 DEF FreeOK
<1>9. ASSUME NEW j \in Files
      PROVE  Covered(j, 0)'
  <2>1. open'[j] = 0 /\ Links(j)' = table'[j].links /\ Links(j)' \in Nat
    BY <1>2, SizeFacts DEF Links, Inode
  <2>2. Named(j)' => Links(j)' > 0
    BY <1>2, <1>5, <2>1 DEF Named
  <2> QED
    BY <2>1, <2>2 DEF Covered
<1>10. <<>> \in Seq(Ops)
  OBVIOUS
<1>11. Behind(todo, <<>>)'
  BY <1>2, <1>10, NextIs
<1>12. TodoOK(F)'
  BY <1>9, <1>10, <1>11 DEF TodoOK
<1> QED
  BY <1>2, <1>3, <1>6, <1>7, <1>8, <1>10, <1>12 DEF DInv, Sound

\* sfs_fs_close() writes the dirty block back, and the next mount finds what was cached.
LEMMA CloseSound ==
  ASSUME DInv, Close
  PROVE  DInv'
<1>1. todo = <<>> /\ Mount /\ table' = (IF dirty THEN inodes ELSE table) /\ tainted' = tainted
  BY DEF Close
<1>2. TypeOK /\ RootOK
  BY DEF DInv, Sound
<1>3. PICK F : FreeOK(F)
  BY DEF DInv, Sound
<1>4. inodes \in [Inodes -> Inode] /\ table \in [Inodes -> Inode] /\ Coherent
  BY <1>2 DEF TypeOK, Inode, Coherent
<1>5. table' = inodes
  <2>1. CASE dirty
    BY <1>1, <2>1
  <2>2. CASE ~dirty
    <3>1. inodes = table
      BY <1>4, <2>2 DEF Coherent
    <3> QED
      BY <1>1, <2>2, <3>1
  <2> QED
    BY <2>1, <2>2
<1>6. tainted' \in BOOLEAN
  BY <1>1, <1>2, Zenon DEF TypeOK
<1>7. table'[Root].size <= RootSize
  BY <1>4, <1>5, SizeFacts DEF RootSize, Inode
<1>8. dirent' = dirent
  BY <1>1 DEF Mount
<1>9. DiskEntries' = Entries
  BY <1>5, <1>8 DEF DiskEntries, Entries, RootSize
<1>10. \A k \in DiskEntries' : table'[dirent[k]].links > 0
  BY <1>1, <1>5, <1>9, EntryLinks DEF Links
<1> QED
  BY <1>1, <1>3, <1>4, <1>5, <1>6, <1>7, <1>10, MountSound

\* A crash outside the windows loses nothing that the invariant speaks of.
LEMMA CrashSound ==
  ASSUME DInv, Crash, ~Exposed
  PROVE  DInv'
<1>1. Mount /\ table' = table /\ tainted' = (tainted \/ Exposed)
  BY DEF Crash
<1>2. TypeOK /\ RootOK /\ table \in [Inodes -> Inode]
  BY DEF DInv, Sound, TypeOK, Inode
<1>3. PICK F : FreeOK(F)
  BY DEF DInv, Sound
<1>4. tainted' \in BOOLEAN
  BY <1>1, Zenon
<1>5. \A i \in F : table[i] = inodes[i]
  BY <1>2, <1>3, SavedFree DEF FreeOK
<1>6. dirent' = dirent
  BY <1>1 DEF Mount
<1>7. DiskEntries' = DiskEntries
  BY <1>1, <1>6 DEF DiskEntries
<1>8. ASSUME NEW k \in DiskEntries
      PROVE  table[dirent[k]].links > 0
  <2>1. k \in Entries /\ dirent[k] \in Files
    BY <1>2, DiskEntriesAre
  <2>2. Links(dirent[k]) # 0
    BY <2>1 DEF Exposed, HalfUnlinked
  <2>3. table[dirent[k]].links # 0 /\ table[dirent[k]].links \in Nat
    BY <1>2, <2>1, <2>2, SavedFree, SizeFacts DEF Inode
  <2> QED
    BY <2>3
<1> QED
  BY <1>1, <1>2, <1>3, <1>4, <1>5, <1>7, <1>8, MountSound DEF RootOK

\* A formatted disk, just mounted, is sound.
LEMMA InitSound ==
  ASSUME Init
  PROVE  DInv
<1>1. /\ table \in [Inodes -> Inode] /\ inodes = table
      /\ table[Root] = [links |-> 1, size |-> 0]
      /\ \A i \in Files : table[i] = [links |-> 0, size |-> i + 1]
  <2>1. \A i \in Inodes : i + 1 \in Nat
    BY SizeFacts
  <2> QED
    BY <2>1, SizeFacts DEF Init, Inode
<1>0. ASSUME NEW i \in Files
      PROVE  inodes[i].links = 0 /\ inodes[i].size = i + 1 /\ Links(i) = 0
  <2>1. inodes[i] = [links |-> 0, size |-> i + 1]
    BY <1>1
  <2> QED
    BY <2>1 DEF Links
<1>2. head = 2 /\ dirent = [k \in Slots |-> 0] /\ open = [i \in Files |-> 0] /\ todo = <<>> /\ cached = 0
      /\ dirty = FALSE /\ tainted = FALSE
  BY DEF Init
<1>3. TypeOK
  <2>1. open \in [Files -> 0..MaxOpen] /\ head \in 0..(NumInodes + 1)
    BY <1>2, SizeFacts
  <2>2. 0 \in 0..BlockOf(NumInodes + 1)
    BY BlockZero
  <2> QED
    BY <1>1, <1>2, <2>1, <2>2 DEF TypeOK, Inode
<1>4. RootSize = 0 /\ Entries = {}
  <2>1. RootSize = 0
    BY <1>1 DEF RootSize
  <2> QED
    BY <1>2, <2>1 DEF Entries
<1>5. Apart /\ RootOK /\ NamesOK
  BY <1>1, <1>4, SizeFacts DEF Apart, RootOK, NamesOK
<1>6. FreeOK(Files)
  <2> DEFINE n == NumInodes - 1
             s == [k \in 1..(n + 1) |-> k + 1]
  <2>1. n \in Nat /\ n + 1 = NumInodes
    BY SizeFacts
  <2>2. \A k \in 1..n : s[k] \in Files /\ s[k] = k + 1 /\ s[k + 1] = k + 2
    BY SizesAssumption, <2>1 DEF Files
  <2>3. \A k \in 1..n : Sizes[s[k]] = s[k + 1]
    <3> SUFFICES ASSUME NEW k \in 1..n
                 PROVE  Sizes[s[k]] = s[k + 1]
      OBVIOUS
    <3>1. k \in Int /\ k + 2 = (k + 1) + 1
      BY <2>1
    <3>2. s[k] \in Files /\ s[k] = k + 1 /\ s[k + 1] = k + 2
      <4> HIDE DEF s, n
      <4> QED
        BY <2>2
    <3> HIDE DEF s
    <3>3. PICK x \in Files : x = k + 1 /\ x = s[k] /\ s[k + 1] = x + 1
      BY <3>1, <3>2
    <3>4. inodes[x].size = x + 1 /\ x \in Inodes
      BY <1>0, SizeFacts
    <3>5. Sizes[x] = x + 1
      BY <3>4 DEF Sizes
    <3> QED
      BY <3>3, <3>5
  <2>4. s[1] = 2 /\ s[n + 1] = NumInodes + 1
    BY SizesAssumption
  <2>5. s \in [1..(n + 1) -> Files \cup End]
    BY SizesAssumption DEF Files, End
  <2>6. \A x \in Files : x - 1 \in 1..n /\ s[x - 1] = x
    BY SizesAssumption DEF Files
  <2>7. \A k, l \in 1..n : s[k] = s[l] => k = l
    <3> HIDE DEF s
    <3>1. \A k \in 1..n : k \in Int /\ s[k] = k + 1
      BY <2>1, <2>2
    <3> HIDE DEF n
    <3> QED
      BY <3>1
  <2>8. Files \cap End = {}
    BY SizeFacts DEF End
  <2> HIDE DEF n, s
  <2>9. Listing(n, s, Files, Sizes, head, End)
    BY <1>2, <2>1, <2>2, <2>3, <2>4, <2>5, <2>6, <2>7, <2>8 DEF Listing, End
  <2>10. Listed(Files, Sizes, head, End)
    BY <2>1, <2>9 DEF Listed
  <2> QED
    BY <1>0, <2>10 DEF FreeOK
<1>7. \A j \in Files : Covered(j, 0)
  BY <1>0, <1>2, <1>4 DEF Covered, Named
<1>8. TodoOK(Files)
  BY <1>2, <1>7, NilBehind DEF TodoOK
<1>9. todo \in Seq(Ops)
  BY <1>2, NilBehind
<1> QED
  BY <1>3, <1>5, <1>6, <1>8, <1>9 DEF DInv, Sound

\* Nothing changes if nothing happens.
LEMMA StutterSound ==
  ASSUME DInv, UNCHANGED vars
  PROVE  DInv'
<1>1. /\ table' = table /\ head' = head /\ dirent' = dirent /\ inodes' = inodes /\ cached' = cached
      /\ dirty' = dirty /\ open' = open /\ todo' = todo /\ tainted' = tainted
  BY DEF vars
<1>2. todo \in Seq(Ops) /\ TypeOK /\ Apart /\ RootOK /\ NamesOK
  BY DEF DInv, Sound
<1>3. TypeOK' /\ SameView
  BY <1>1, <1>2 DEF TypeOK, SameView
<1>4. RootSize' = RootSize /\ Entries' = Entries /\ DiskEntries' = DiskEntries
  BY <1>1 DEF RootSize, Entries, DiskEntries
<1>5. Apart' /\ RootOK' /\ NamesOK'
  BY <1>1, <1>2, <1>4 DEF Apart, RootOK, NamesOK, Pending
<1>6. PICK F : FreeOK(F) /\ TodoOK(F)
  BY DEF DInv, Sound
<1>7. FreeOK(F)'
  BY <1>3, <1>6, SameFree
<1>8. PICK T \in Seq(Ops) :
        /\ Behind(todo, T)
        /\ \/ T = <<>> /\ \A j \in Files : Covered(j, 0)
           \/ \E i \in Files : Rest(i, T, F) /\ \A j \in Files \ {i} : Covered(j, 0)
  BY <1>6 DEF TodoOK
<1>9. Behind(todo, T)'
  <2>1. PICK s : s = todo
    OBVIOUS
  <2>2. Behind(s, T)'
    BY <1>3, <1>8, <2>1, SameBehind
  <2> QED
    BY <1>1, <2>1, <2>2 DEF Behind
<1>10. \A j \in Files : Covered(j, 0) => Covered(j, 0)'
  BY <1>3, SameCovered
<1>11. \A i \in Files : Rest(i, T, F) => Rest(i, T, F)'
  BY <1>2, <1>3, <1>6, SameRest
<1>12. TodoOK(F)'
  <2>1. CASE T = <<>> /\ \A j \in Files : Covered(j, 0)
    BY <1>9, <1>10, <2>1 DEF TodoOK
  <2>2. CASE \E i \in Files : Rest(i, T, F) /\ \A j \in Files \ {i} : Covered(j, 0)
    BY <1>9, <1>10, <1>11, <2>2 DEF TodoOK
  <2> QED
    BY <1>8, <2>1, <2>2
<1> QED
  BY <1>1, <1>2, <1>3, <1>5, <1>7, <1>12 DEF DInv, Sound

-----------------------------------------------------------------------------
(* The theorems. *)

\* Until a crash has done harm, the invariant holds.
UntaintedInv == ~tainted => DInv

\* Every step keeps the invariant until a crash does harm.
LEMMA Inductive ==
  ASSUME UntaintedInv, [Next]_vars
  PROVE  UntaintedInv'
<1> SUFFICES ASSUME ~tainted'
             PROVE  DInv'
  BY Zenon DEF UntaintedInv
<1>1. CASE Handler
  <2>1. tainted' = tainted
    BY <1>1 DEF Handler, Create, CreateFails, CreateBehindTable, Miss, ReadDir, Open, Unlink, GetAttr, Release, Access, Begin
  <2>2. DInv
    BY <2>1, Zenon DEF UntaintedInv
  <2> QED
    BY <1>1, <2>2, BeginCreate, BeginCreateFails, BeginCreateBehindTable, BeginMiss, BeginReadDir, BeginOpen, BeginUnlink, BeginGetAttr,
       BeginRelease, BeginAccess DEF Handler
<1>2. CASE Step
  <2>1. tainted' = tainted
    BY <1>2 DEF Step
  <2>2. DInv
    BY <2>1, Zenon DEF UntaintedInv
  <2> QED
    BY <1>2, <2>2, StepSound
<1>3. CASE Close
  <2>1. tainted' = tainted
    BY <1>3 DEF Close
  <2>2. DInv
    BY <2>1, Zenon DEF UntaintedInv
  <2> QED
    BY <1>3, <2>2, CloseSound
<1>4. CASE Crash
  <2>1. tainted' = (tainted \/ Exposed)
    BY <1>4 DEF Crash
  <2>2. DInv /\ ~Exposed
    BY <2>1, Zenon DEF UntaintedInv
  <2> QED
    BY <1>4, <2>2, CrashSound
<1>5. CASE UNCHANGED vars
  <2>1. tainted' = tainted
    BY <1>5 DEF vars
  <2>2. DInv
    BY <2>1, Zenon DEF UntaintedInv
  <2> QED
    BY <1>5, <2>2, StutterSound
<1> QED
  BY <1>1, <1>2, <1>3, <1>4, <1>5 DEF Next

\* The invariant holds of every behaviour of the handlers and any number of crashes, until a
\* crash comes in one of the two windows.
THEOREM Invariance == Spec => []UntaintedInv
<1>1. Init => UntaintedInv
  BY InitSound DEF UntaintedInv
<1>2. UntaintedInv /\ [Next]_vars => UntaintedInv'
  BY Inductive
<1> QED
  BY <1>1, <1>2, PTL DEF Spec

\* Until a crash has done harm every variable has its type, and what the cache does not hold
\* dirty is on the disk.
THEOREM DurableTypes == Spec => [](Untainted => TypeOK)
<1>1. UntaintedInv => (Untainted => TypeOK)
  BY DEF UntaintedInv, Untainted, DInv
<1> QED
  BY <1>1, Invariance, PTL

\* At every step of every handler, outside the two windows, a crash leaves a free list that
\* ends and has free inodes only, and entries that name different inodes in use.
THEOREM CrashLeavesSoundDisk == Spec => []DiskSurvivesCrash
<1>1. UntaintedInv => DiskSurvivesCrash
  BY SoundDisk DEF UntaintedInv, DInv, DiskSurvivesCrash
<1> QED
  BY <1>1, Invariance, PTL

\* A crash between two handlers takes a name back only if its inode is in the block of the
\* root, and this block is dirty in the cache.
THEOREM CrashLeavesNames == Spec => []NamesSurviveCrash
<1>1. UntaintedInv => NamesSurviveCrash
  BY SoundNames DEF UntaintedInv, DInv, NamesSurviveCrash
<1> QED
  BY <1>1, Invariance, PTL
=============================================================================
