---------------------------- MODULE FdPoolProofs ----------------------------
(***************************************************************************)
(* Proofs about FdPool for slabs of any size: the type invariant, that a   *)
(* number leads back to its slot, that the free list holds the free slots  *)
(* and no other, and that the pool implements a table of descriptors.      *)
(***************************************************************************)
EXTENDS FdPool, ThreadedLists, TLAPS

\* The number of a slot, and the slot of a number.
LEMMA SlotNumbers ==
  ASSUME NEW k \in 0..(MaxSlabs - 1), NEW j \in 0..(SlabSize - 1)
  PROVE  /\ k * SlabSize + j \in Fds
         /\ (k * SlabSize + j) \div SlabSize = k
         /\ (k * SlabSize + j) % SlabSize = j
BY SlabAssumption DEF Fds

LEMMA NumberedSlots ==
  ASSUME NEW n \in Fds
  PROVE  /\ n \div SlabSize \in 0..(MaxSlabs - 1) /\ n % SlabSize \in 0..(SlabSize - 1)
         /\ (n \div SlabSize) * SlabSize + (n % SlabSize) = n
BY SlabAssumption DEF Fds

\* The free slots, in the form in which ThreadedLists speaks of them.
FreeSlots == {s \in InMemory : fd[s] \notin open}

NumbersExact == \A s \in InMemory : fd[s] = s[1] * SlabSize + s[2]
OpenInMemory == \A n \in open : n \div SlabSize < slabs
OpenHasInumber == \A n \in open : word[GetFromFd(n)] \in Inumbers
FreeListed == Listed(FreeSlots, word, freelist, {NULL})

\* The inductive invariant: while the pool lives the slots are numbered in order,
\* the open descriptors are slots that hold inode numbers, and the list runs through
\* the others.  Nothing is open once it is gone.
IInv == /\ TypeOK
        /\ live => /\ NumbersExact
                   /\ OpenInMemory
                   /\ OpenHasInumber
                   /\ FreeListed
        /\ ~live => open = {}

\* The slots of slab k, as threaded: a list of their own.
LEMMA SlabListed ==
  ASSUME NEW k \in 0..(MaxSlabs - 1), NEW g
  PROVE  Listed({s \in Slots : s[1] = k}, Threaded(k, g), <<k, 0>>, {NULL})
<1> DEFINE F == {s \in Slots : s[1] = k}
           t == [j \in 1..(SlabSize + 1) |-> IF j <= SlabSize THEN <<k, j - 1>> ELSE NULL]
<1>1. SlabSize \in Nat /\ SlabSize >= 1
  BY SlabAssumption
<1>2. \A j \in 1..SlabSize : /\ t[j] = <<k, j - 1>> /\ j \in 1..(SlabSize + 1)
                             /\ j + 1 \in 1..(SlabSize + 1) /\ j - 1 \in 0..(SlabSize - 1)
  <2>1. \A j \in 1..SlabSize : /\ j \in 1..(SlabSize + 1) /\ j <= SlabSize
                               /\ j + 1 \in 1..(SlabSize + 1) /\ j - 1 \in 0..(SlabSize - 1)
    BY <1>1
  <2> QED
    BY <2>1, Zenon
<1>3. t[SlabSize + 1] = NULL /\ SlabSize + 1 \in 1..(SlabSize + 1)
  BY <1>1
<1> HIDE DEF t
<1>4. ASSUME NEW j \in 1..SlabSize
      PROVE  t[j] \in F /\ Threaded(k, g)[t[j]] = t[j + 1]
  <2>1. t[j] \in Slots /\ t[j][1] = k /\ t[j][2] = j - 1
    <3>1. t[j] = <<k, j - 1>> /\ j - 1 \in 0..(SlabSize - 1)
      BY <1>2
    <3>2. <<k, j - 1>> \in Slots
      BY <3>1 DEF Slots
    <3> QED
      BY <3>1, <3>2
  <2>2. Threaded(k, g)[t[j]] = IF j < SlabSize THEN <<k, j>> ELSE NULL
    <3>1. Threaded(k, g)[t[j]] = Successor(t[j])
      BY <2>1 DEF Threaded
    <3>2. t[j][2] + 1 = j
      BY <2>1
    <3> QED
      BY <2>1, <3>1, <3>2, Zenon DEF Successor
  <2>3. t[j + 1] = IF j < SlabSize THEN <<k, j>> ELSE NULL
    <3>1. CASE j < SlabSize
      <4>1. j + 1 \in 1..SlabSize /\ (j + 1) - 1 = j
        BY <1>1, <3>1
      <4> QED
        BY <1>2, <3>1, <4>1
    <3>2. CASE j = SlabSize
      BY <1>3, <3>2
    <3> QED
      BY <1>1, <3>1, <3>2
  <2> QED
    BY <2>1, <2>2, <2>3
<1>5. \A s \in F : \E j \in 1..SlabSize : t[j] = s
  <2> SUFFICES ASSUME NEW s \in F
               PROVE  \E j \in 1..SlabSize : t[j] = s
    OBVIOUS
  <2>1. s = <<k, s[2]>> /\ s[2] \in 0..(SlabSize - 1)
    BY DEF Slots
  <2>2. s[2] + 1 \in 1..SlabSize /\ (s[2] + 1) - 1 = s[2]
    BY <1>1, <2>1
  <2>3. t[s[2] + 1] = <<k, s[2]>>
    BY <1>2, <2>2
  <2> QED
    BY <2>1, <2>2, <2>3
<1>6. F \cap {NULL} = {}
  BY NullAssumption DEF Slots
<1>7. t \in [1..(SlabSize + 1) -> F \cup {NULL}]
  <2>1. \A j \in 1..(SlabSize + 1) : j \in 1..SlabSize \/ j = SlabSize + 1
    BY <1>1
  <2>2. \A j \in 1..(SlabSize + 1) : t[j] \in F \cup {NULL}
    BY <1>3, <1>4, <2>1
  <2>3. t = [j \in 1..(SlabSize + 1) |-> t[j]]
    BY DEF t
  <2> QED
    BY <2>2, <2>3
<1>8. \A j, l \in 1..SlabSize : t[j] = t[l] => j = l
  <2> SUFFICES ASSUME NEW j \in 1..SlabSize, NEW l \in 1..SlabSize, t[j] = t[l]
               PROVE  j = l
    OBVIOUS
  <2>1. <<k, j - 1>> = <<k, l - 1>>
    BY <1>2
  <2> QED
    BY <2>1
<1>9. Listing(SlabSize, t, F, Threaded(k, g), <<k, 0>>, {NULL})
  <2>1. 1 \in 1..SlabSize /\ 1 - 1 = 0
    BY <1>1
  <2>2. t[1] = <<k, 0>>
    BY <1>2, <2>1
  <2> HIDE DEF F
  <2> QED
    BY <1>1, <1>2, <1>3, <1>4, <1>5, <1>6, <1>7, <1>8, <2>2 DEF Listing
<1> QED
  BY <1>1, <1>9 DEF Listed

-----------------------------------------------------------------------------
\* Under the invariant a number leads to its slot and back.
Found ==
  /\ \A s \in InMemory : GetFromFd(fd[s]) = s
  /\ \A n \in Fds : n \div SlabSize < slabs => GetFromFd(n) \in InMemory /\ fd[GetFromFd(n)] = n
  /\ \A s, u \in InMemory : fd[s] = fd[u] => s = u

LEMMA SlotsFound == TypeOK /\ NumbersExact => Found
<1> SUFFICES ASSUME TypeOK, NumbersExact
             PROVE  Found
  OBVIOUS
<1>1. ASSUME NEW s \in InMemory
      PROVE  GetFromFd(fd[s]) = s
  <2>1. /\ s = <<s[1], s[2]>> /\ s[1] < slabs
        /\ s[1] \in 0..(MaxSlabs - 1) /\ s[2] \in 0..(SlabSize - 1)
    BY DEF InMemory, Slots
  <2>2. fd[s] = s[1] * SlabSize + s[2]
    BY DEF NumbersExact
  <2>3. fd[s] \div SlabSize = s[1] /\ fd[s] % SlabSize = s[2]
    BY <2>1, <2>2, SlotNumbers
  <2> QED
    BY <2>1, <2>3 DEF GetFromFd
<1>2. ASSUME NEW n \in Fds, n \div SlabSize < slabs
      PROVE  GetFromFd(n) \in InMemory /\ fd[GetFromFd(n)] = n
  <2>1. GetFromFd(n) = <<n \div SlabSize, n % SlabSize>>
    BY <1>2 DEF GetFromFd
  <2>2. GetFromFd(n) \in InMemory
    BY <1>2, <2>1, NumberedSlots DEF InMemory, Slots
  <2>3. fd[GetFromFd(n)] = (n \div SlabSize) * SlabSize + (n % SlabSize)
    BY <2>1, <2>2 DEF NumbersExact
  <2> QED
    BY <2>2, <2>3, NumberedSlots
<1> QED
  BY <1>1, <1>2 DEF Found

LEMMA SlotsFoundNext == TypeOK' /\ NumbersExact' => Found'
BY SlotsFound, PTL

LEMMA InvInit == Init => IInv
<1> SUFFICES ASSUME Init
             PROVE  IInv
  OBVIOUS
<1>1. 0 \in 0..(MaxSlabs - 1) /\ 0 \in 0..(SlabSize - 1) /\ 1 \in 0..MaxSlabs
  BY SlabAssumption
<1>2. fd \in [Slots -> Fds] /\ \A s \in Slots : s[1] = 0 => fd[s] = s[1] * SlabSize + s[2]
  <2>1. \A s \in Slots : s[1] = 0 => 0 * SlabSize + s[2] \in Fds
    BY <1>1, SlotNumbers DEF Slots
  <2>2. 0 \in Fds
    BY <1>1, SlabAssumption, SlotNumbers
  <2>3. fd = [s \in Slots |-> IF s[1] = 0 THEN 0 * SlabSize + s[2] ELSE 0]
    BY DEF Init, Numbered
  <2> QED
    BY <2>1, <2>2, <2>3
<1>3. word \in [Slots -> Pointers \cup Inumbers]
  BY SlabAssumption DEF Init, Threaded, Successor, Pointers, Slots
<1>4. InMemory = {s \in Slots : s[1] = 0}
  BY SlabAssumption DEF Init, InMemory, Slots
<1>5. FreeSlots = {s \in Slots : s[1] = 0}
  BY <1>4 DEF Init, FreeSlots
<1>6. FreeListed
  BY <1>1, <1>5, SlabListed DEF Init, FreeListed
<1>7. TypeOK
  BY <1>1, <1>2, <1>3 DEF Init, TypeOK, Pointers, Slots
<1> QED
  BY <1>2, <1>4, <1>6, <1>7 DEF IInv, Init, NumbersExact, OpenInMemory, OpenHasInumber

\* The head s of the list threaded through g, from the free slots of the slabs that
\* there are now, becomes a descriptor.
Takes(s, i, g) ==
  /\ live /\ live' = live
  /\ s \in Slots /\ g \in [Slots -> Pointers \cup Inumbers]
  /\ slabs' \in 0..MaxSlabs /\ slabs <= slabs' /\ fd' \in [Slots -> Fds] /\ NumbersExact'
  /\ \A n \in open : g[GetFromFd(n)] = word[GetFromFd(n)]
  /\ Listed({u \in InMemory' : fd'[u] \notin open}, g, s, {NULL})
  /\ Take(s, i, g)

LEMMA TakeInv ==
  ASSUME IInv, NEW i \in Inumbers, NEW s, NEW g, Takes(s, i, g)
  PROVE  IInv'
<1> DEFINE F == {u \in InMemory' : fd'[u] \notin open}
<1>0. /\ live /\ live' = live
      /\ s \in Slots /\ g \in [Slots -> Pointers \cup Inumbers]
      /\ slabs' \in 0..MaxSlabs /\ slabs <= slabs' /\ fd' \in [Slots -> Fds] /\ NumbersExact'
      /\ \A n \in open : g[GetFromFd(n)] = word[GetFromFd(n)]
      /\ Listed(F, g, s, {NULL})
      /\ Take(s, i, g)
  BY DEF Takes
<1> USE <1>0
<1>1. s \in F /\ g[s] \in F \cup {NULL}
  BY NullAssumption, ListHead DEF Slots
<1>2. TypeOK'
  BY <1>1 DEF IInv, TypeOK, Take, InMemory, Pointers
<1>3. Found'
  BY <1>2, SlotsFoundNext
<1>4. FreeSlots' = F \ {s}
  BY <1>1, <1>3 DEF FreeSlots, Take, Found
<1>5. FreeListed'
  <2>1. \A u \in F \ {s} : word'[u] = g[u]
    BY DEF Take, InMemory
  <2>2. s \notin {NULL}
    BY NullAssumption DEF Slots
  <2> HIDE DEF F
  <2>3. Listed(F \ {s}, word', g[s], {NULL})
    BY <2>1, <2>2, ListPop DEF F
  <2> QED
    BY <1>4, <2>3 DEF FreeListed, Take
<1>6. OpenInMemory'
  <2>1. fd'[s] \div SlabSize < slabs'
    <3>1. GetFromFd(fd[s])' = s /\ s[1] < slabs'
      BY <1>1, <1>3 DEF Found, InMemory
    <3>2. s # NULL
      BY NullAssumption DEF Slots
    <3> QED
      BY <3>1, <3>2 DEF GetFromFd
  <2>2. \A n \in open : n \div SlabSize < slabs'
    BY SlabAssumption DEF IInv, OpenInMemory, TypeOK, Fds
  <2> QED
    BY <2>1, <2>2 DEF OpenInMemory, Take
<1>7. OpenHasInumber'
  <2>1. ASSUME NEW n \in open, n # fd'[s]
        PROVE  word'[GetFromFd(n)'] \in Inumbers
    <3>1. n \in Fds /\ n \div SlabSize < slabs /\ n \div SlabSize < slabs'
      BY SlabAssumption DEF IInv, OpenInMemory, TypeOK, Fds
    <3>2. GetFromFd(n)' = GetFromFd(n)
      BY <3>1 DEF GetFromFd
    <3>3. GetFromFd(n)' # s /\ GetFromFd(n)' \in Slots
      BY <1>3, <2>1, <3>1 DEF Found, InMemory
    <3> QED
      BY <3>2, <3>3 DEF IInv, OpenHasInumber, Take
  <2>2. ASSUME NEW n, n = fd'[s]
        PROVE  word'[GetFromFd(n)'] \in Inumbers
    <3>1. GetFromFd(fd[s])' = s
      BY <1>1, <1>3 DEF Found
    <3>2. GetFromFd(n)' = s
      BY <2>2, <3>1 DEF GetFromFd
    <3> QED
      BY <3>2 DEF Take
  <2> QED
    BY <2>1, <2>2 DEF OpenHasInumber, Take
<1> QED
  BY <1>2, <1>5, <1>6, <1>7 DEF IInv

\* sfs_filedescriptor_allocate() does that, with the list as it is or with the one of a
\* new slab.
LEMMA AllocateTakes ==
  ASSUME IInv, NEW i \in Inumbers, Allocate(i)
  PROVE  \E s, g : Takes(s, i, g)
<1>1. TypeOK /\ live /\ live' = live /\ NumbersExact /\ OpenInMemory /\ OpenHasInumber /\ FreeListed
  BY DEF IInv, Allocate
<1>2. CASE freelist # NULL /\ UNCHANGED <<slabs, fd>> /\ Take(freelist, i, word)
  <2>1. freelist \in Slots
    BY <1>1, <1>2 DEF TypeOK, Pointers
  <2>2. FreeSlots = {u \in InMemory' : fd'[u] \notin open}
    BY <1>2 DEF FreeSlots, InMemory
  <2>3. NumbersExact'
    BY <1>1, <1>2 DEF NumbersExact, InMemory
  <2>4. /\ slabs' \in 0..MaxSlabs /\ slabs <= slabs' /\ fd' \in [Slots -> Fds]
        /\ word \in [Slots -> Pointers \cup Inumbers]
    BY <1>1, <1>2, SlabAssumption DEF TypeOK
  <2>5. Listed({u \in InMemory' : fd'[u] \notin open}, word, freelist, {NULL})
    BY <1>1, <2>2 DEF FreeListed
  <2> QED
    BY <1>1, <1>2, <2>1, <2>3, <2>4, <2>5 DEF Takes
<1>3. CASE /\ freelist = NULL
           /\ slabs < MaxSlabs
           /\ slabs' = slabs + 1
           /\ fd' = Numbered(slabs, fd)
           /\ Take(<<slabs, 0>>, i, Threaded(slabs, word))
  <2> DEFINE g == Threaded(slabs, word)
  <2>1. slabs \in 0..(MaxSlabs - 1) /\ 0 \in 0..(SlabSize - 1) /\ <<slabs, 0>> \in Slots
    <3>1. slabs \in 0..(MaxSlabs - 1) /\ 0 \in 0..(SlabSize - 1)
      BY <1>1, <1>3, SlabAssumption DEF TypeOK
    <3> QED
      BY <3>1 DEF Slots
  <2>2. InMemory' = InMemory \cup {s \in Slots : s[1] = slabs}
    <3>1. slabs' = slabs + 1 /\ \A s \in Slots : s[1] \in Nat
      BY <1>3, SlabAssumption DEF Slots
    <3>2. \A s \in Slots : s[1] < slabs + 1 <=> s[1] < slabs \/ s[1] = slabs
      BY <2>1, <3>1
    <3> QED
      BY <3>1, <3>2 DEF InMemory
  <2>3. \A s \in Slots : /\ s[1] = slabs => fd'[s] = slabs * SlabSize + s[2]
                         /\ s[1] # slabs => fd'[s] = fd[s]
    BY <1>3 DEF Numbered
  <2>4. fd' \in [Slots -> Fds]
    <3>1. \A s \in Slots : slabs * SlabSize + s[2] \in Fds
      BY <2>1, SlotNumbers DEF Slots
    <3> QED
      BY <1>1, <1>3, <3>1 DEF Numbered, TypeOK
  <2>5. NumbersExact'
    <3>1. \A s \in InMemory : s[1] # slabs /\ s \in Slots
      BY <2>1 DEF InMemory, Slots
    <3> QED
      BY <1>1, <2>2, <2>3, <3>1 DEF NumbersExact
  <2>6. FreeSlots = {}
    BY <1>1, <1>3, ListEmpty DEF FreeListed
  <2>7. {u \in InMemory' : fd'[u] \notin open} = {s \in Slots : s[1] = slabs}
    <3>1. ASSUME NEW u \in InMemory
          PROVE  fd'[u] \in open
      BY <2>1, <2>3, <2>6 DEF FreeSlots, InMemory, Slots
    <3>2. ASSUME NEW u \in Slots, u[1] = slabs
          PROVE  fd'[u] \notin open
      <4>1. fd'[u] \div SlabSize = slabs
        BY <2>1, <2>3, <3>2, SlotNumbers DEF Slots
      <4> QED
        BY <1>1, <2>1, <4>1 DEF OpenInMemory
    <3> QED
      BY <2>2, <3>1, <3>2
  <2>8. Listed({u \in InMemory' : fd'[u] \notin open}, g, <<slabs, 0>>, {NULL})
    BY <2>1, <2>7, SlabListed
  <2>9. g \in [Slots -> Pointers \cup Inumbers]
    <3>1. \A s \in Slots : Successor(s) \in Pointers
      BY SlabAssumption DEF Successor, Pointers, Slots
    <3> QED
      BY <1>1, <3>1 DEF Threaded, TypeOK
  <2>10. \A n \in open : g[GetFromFd(n)] = word[GetFromFd(n)]
    <3> SUFFICES ASSUME NEW n \in open
                 PROVE  g[GetFromFd(n)] = word[GetFromFd(n)]
      OBVIOUS
    <3>1. GetFromFd(n) \in InMemory
      BY <1>1, SlotsFound DEF Found, OpenInMemory, TypeOK
    <3>2. GetFromFd(n) \in Slots /\ GetFromFd(n)[1] # slabs
      BY <2>1, <3>1 DEF InMemory, Slots
    <3> QED
      BY <3>2 DEF Threaded
  <2>11. slabs' \in 0..MaxSlabs /\ slabs <= slabs'
    BY <1>3, <2>1, SlabAssumption
  <2> HIDE DEF g
  <2>12. Take(<<slabs, 0>>, i, g)
    BY <1>3 DEF g
  <2> QED
    BY <1>1, <2>1, <2>4, <2>5, <2>8, <2>9, <2>10, <2>11, <2>12 DEF Takes
<1> QED
  BY <1>2, <1>3 DEF Allocate

LEMMA FreeInv ==
  ASSUME IInv, NEW n \in Fds, Free(n)
  PROVE  IInv'
<1> DEFINE s == GetFromFd(n)
<1>1. TypeOK /\ live /\ NumbersExact /\ OpenInMemory /\ OpenHasInumber /\ FreeListed
  BY DEF IInv, Free
<1>2. /\ n \in open /\ live' = live /\ slabs' = slabs /\ fd' = fd /\ open' = open \ {n}
      /\ word' = [word EXCEPT ![s] = freelist] /\ freelist' = s
  BY DEF Free
<1>3. Found
  BY <1>1, SlotsFound
<1>4. s \in InMemory /\ s \in Slots /\ fd[s] = n /\ s # NULL
  BY <1>1, <1>2, <1>3, NullAssumption DEF Found, OpenInMemory, InMemory, Slots
<1> HIDE DEF s
<1>5. TypeOK'
  BY <1>1, <1>2, <1>4 DEF TypeOK, Pointers
<1>6. NumbersExact' /\ OpenInMemory'
  BY <1>1, <1>2 DEF NumbersExact, OpenInMemory, InMemory
<1>7. OpenHasInumber'
  <2> SUFFICES ASSUME NEW m \in open, m # n
               PROVE  word'[GetFromFd(m)] \in Inumbers
    BY <1>2 DEF OpenHasInumber, GetFromFd
  <2>1. GetFromFd(m) \in Slots /\ fd[GetFromFd(m)] = m
    BY <1>1, <1>3 DEF Found, OpenInMemory, TypeOK, InMemory
  <2>2. GetFromFd(m) # s
    BY <1>4, <2>1
  <2> QED
    BY <1>1, <1>2, <2>1, <2>2 DEF OpenHasInumber, TypeOK
<1>8. FreeListed'
  <2>1. FreeSlots' = FreeSlots \cup {s} /\ s \notin FreeSlots
    BY <1>2, <1>3, <1>4 DEF FreeSlots, InMemory, Found
  <2>2. word'[s] = freelist /\ \A u \in FreeSlots : word'[u] = word[u]
    BY <1>1, <1>2, <1>4, <2>1 DEF TypeOK, FreeSlots, InMemory
  <2>3. Listed(FreeSlots \cup {s}, word', s, {NULL})
    BY <1>1, <1>4, <2>1, <2>2, ListPush DEF FreeListed
  <2> QED
    BY <1>2, <2>1, <2>3 DEF FreeListed
<1> QED
  BY <1>1, <1>2, <1>5, <1>6, <1>7, <1>8 DEF IInv

LEMMA InvNext == IInv /\ [Next]_vars => IInv'
<1> SUFFICES ASSUME IInv, [Next]_vars
             PROVE  IInv'
  OBVIOUS
<1>1. CASE \E i \in Inumbers : Allocate(i)
  BY <1>1, AllocateTakes, TakeInv
<1>2. CASE \E n \in Fds : Free(n)
  BY <1>2, FreeInv
<1>3. CASE Deinit
  <2>1. slabs' \in 0..MaxSlabs
    BY <1>3, SlabAssumption DEF Deinit
  <2>2. TypeOK'
    BY <1>3, <2>1 DEF Deinit, IInv, TypeOK, Pointers
  <2> QED
    BY <1>3, <2>2 DEF Deinit, IInv
<1>4. CASE UNCHANGED vars
  <2>1. TypeOK' /\ (NumbersExact <=> NumbersExact') /\ (OpenInMemory <=> OpenInMemory')
    BY <1>4 DEF vars, IInv, TypeOK, Pointers, NumbersExact, OpenInMemory, InMemory
  <2>2. OpenHasInumber <=> OpenHasInumber'
    BY <1>4 DEF vars, OpenHasInumber, GetFromFd
  <2>3. FreeListed <=> FreeListed'
    <3>1. FreeSlots' = FreeSlots
      BY <1>4 DEF vars, FreeSlots, InMemory
    <3> QED
      BY <1>4, <3>1 DEF vars, FreeListed
  <2> QED
    BY <1>4, <2>1, <2>2, <2>3 DEF vars, IInv
<1> QED
  BY <1>1, <1>2, <1>3, <1>4 DEF Next

LEMMA Inductive == Spec => []IInv
BY InvInit, InvNext, PTL DEF Spec

-----------------------------------------------------------------------------
\* The slots, their words and the descriptors keep their types, however the pool
\* grows: no number leaves the range of the slabs.
THEOREM PoolTypes == Spec => []TypeOK
<1>1. IInv => TypeOK
  BY DEF IInv
<1> QED
  BY <1>1, Inductive, PTL

\* Whatever the size and number of the slabs, sfs_filedescriptor_get_from_fd() finds
\* the slot whose number it is given.
THEOREM NumbersLeadBack == Spec => []NumbersFindSlots
<1>1. IInv => NumbersFindSlots
  BY SlotsFound DEF IInv, Found, NumbersFindSlots
<1> QED
  BY <1>1, Inductive, PTL

\* The list of free descriptors has the free slots and no other: no inode number of
\* an open descriptor is ever followed as a pointer.
THEOREM PoolListIsSound == Spec => []FreeListSound
<1>1. IInv => FreeListSound
  <2> SUFFICES ASSUME IInv, live
               PROVE  FreeListSound
    BY DEF FreeListSound
  <2>1. Listed(FreeSlots, word, freelist, {NULL})
    BY DEF IInv, FreeListed
  <2>2. \A s : s \in FreeSlots <=> IsFree(s)
    BY DEF FreeSlots, IsFree
  <2>3. freelist # NULL => IsFree(freelist)
    BY <2>1, <2>2, ListHead
  <2>4. ASSUME NEW s \in FreeSlots
        PROVE  /\ word[s] # NULL => IsFree(word[s]) /\ word[s] # freelist
               /\ s = freelist \/ \E t \in Slots : IsFree(t) /\ word[t] = s
    <3>1. word[s] \in FreeSlots \cup {NULL} /\ word[s] # freelist
      BY <2>1, <2>4, ListNext
    <3>2. s # freelist => \E t \in FreeSlots : word[t] = s
      BY <2>1, <2>4, ListPrevious
    <3> QED
      BY <2>2, <3>1, <3>2 DEF FreeSlots, InMemory
  <2>5. ASSUME NEW s \in FreeSlots, NEW t \in FreeSlots, word[s] = word[t], word[s] # NULL
        PROVE  s = t
    BY <2>1, <2>5, ListInjective
  <2> QED
    BY <2>2, <2>3, <2>4, <2>5 DEF FreeListSound
<1> QED
  BY <1>1, Inductive, PTL

\* sfs_filedescriptor_allocate() calls malloc() only when every slot is open: the
\* list cannot lose a slot, which the links of FreeListSound alone do not exclude.
THEOREM GrowsWhenFull == Spec => []GrowsOnlyWhenFull
<1>1. IInv => GrowsOnlyWhenFull
  BY ListEmpty DEF IInv, FreeListed, FreeSlots, GrowsOnlyWhenFull
<1> QED
  BY <1>1, Inductive, PTL

-----------------------------------------------------------------------------
(* The pool implements the table of descriptors. *)

Opened == [n \in Fds |-> IF n \in open THEN word[GetFromFd(n)] ELSE NULL]

\* A slot taken through a list whose threading leaves the open descriptors alone is
\* one new entry of the table.
LEMMA TakeRefines ==
  ASSUME IInv, IInv', NEW i \in Inumbers, NEW s, NEW g, Takes(s, i, g)
  PROVE  Abstract!Allocate(i)
<1>0. /\ live /\ live' /\ slabs <= slabs' /\ g \in [Slots -> Pointers \cup Inumbers]
      /\ \A n \in open : g[GetFromFd(n)] = word[GetFromFd(n)]
      /\ Take(s, i, g)
      /\ s \in InMemory' /\ fd'[s] \notin open
  BY NullAssumption, ListHead DEF Takes, Slots
<1> USE <1>0
<1>1. Found'
  BY SlotsFoundNext DEF IInv
<1>2. PICK m \in Fds : m = fd'[s]
  BY DEF IInv, TypeOK, InMemory
<1>3. GetFromFd(m)' = s /\ s \in Slots
  <2>1. GetFromFd(fd[s])' = s
    BY <1>1 DEF Found
  <2> QED
    BY <1>2, <2>1 DEF GetFromFd, InMemory
<1>4. Opened[m] = NULL
  BY <1>2 DEF Opened
<1>5. ASSUME NEW n \in Fds
      PROVE  Opened'[n] = IF n = m THEN i ELSE Opened[n]
  <2>1. CASE n = m
    BY <1>2, <1>3, <2>1 DEF Opened, Take
  <2>2. CASE n # m /\ n \in open
    <3>1. n \div SlabSize < slabs /\ n \div SlabSize < slabs'
      BY <2>2, SlabAssumption DEF IInv, OpenInMemory, TypeOK, Fds
    <3>2. GetFromFd(n)' = GetFromFd(n)
      BY <3>1 DEF GetFromFd
    <3>3. GetFromFd(n)' # s /\ GetFromFd(n)' \in Slots
      BY <1>1, <1>2, <2>2, <3>1 DEF Found, InMemory
    <3>4. word'[GetFromFd(n)'] = word[GetFromFd(n)]
      BY <2>2, <3>2, <3>3 DEF Take
    <3> QED
      BY <2>2, <3>4 DEF Opened, Take
  <2>3. CASE n # m /\ n \notin open
    BY <1>2, <2>3 DEF Opened, Take
  <2> QED
    BY <2>1, <2>2, <2>3
<1>6. Opened' = [Opened EXCEPT ![m] = i]
  <2>1. Opened' = [n \in Fds |-> Opened'[n]] /\ Opened = [n \in Fds |-> Opened[n]]
    BY DEF Opened
  <2> HIDE DEF Opened
  <2> QED
    BY <1>5, <2>1
<1> QED
  BY <1>4, <1>6 DEF Abstract!Allocate, Opened

LEMMA FreeRefines ==
  ASSUME IInv, NEW n \in Fds, Free(n)
  PROVE  Abstract!Free(n)
<1>1. Opened[n] \in Inumbers
  BY DEF Free, IInv, OpenHasInumber, Opened
<1>2. ASSUME NEW m \in Fds, m # n, m \in open
      PROVE  word'[GetFromFd(m)'] = word[GetFromFd(m)]
  <2>1. Found
    BY SlotsFound DEF IInv, Free
  <2>2. fd[GetFromFd(m)] = m /\ fd[GetFromFd(n)] = n /\ GetFromFd(m) \in Slots
    BY <1>2, <2>1 DEF Found, IInv, OpenInMemory, Free, InMemory
  <2>3. GetFromFd(m)' = GetFromFd(m)
    BY DEF Free, GetFromFd
  <2> QED
    BY <1>2, <2>2, <2>3 DEF Free, IInv, TypeOK
<1>3. Opened' = [Opened EXCEPT ![n] = NULL]
  BY <1>2 DEF Opened, Free
<1> QED
  BY <1>1, <1>3, NullAssumption DEF Abstract!Free, Opened

\* The slab allocator behaves as the table of open descriptors that filedescriptor.h
\* promises: no number is given out twice, and an open one keeps its inode number,
\* whatever other descriptors are allocated and freed in whichever slabs.
THEOREM PoolImplementsTable == Spec => ImplementsFdTable
<1>1. Init => Abstract!Init
  BY DEF Init, Abstract!Init
<1>2. IInv /\ IInv' /\ [Next]_vars => [Abstract!Next]_Opened
  <2> SUFFICES ASSUME IInv, IInv', [Next]_vars
               PROVE  Abstract!Next \/ Opened' = Opened
    OBVIOUS
  <2>1. CASE \E i \in Inumbers : Allocate(i)
    <3>1. PICK i \in Inumbers : Allocate(i)
      BY <2>1
    <3>2. Abstract!Allocate(i)
      BY <3>1, AllocateTakes, TakeRefines
    <3> QED
      BY <3>2 DEF Abstract!Next
  <2>2. CASE \E n \in Fds : Free(n)
    BY <2>2, FreeRefines DEF Abstract!Next
  <2>3. CASE Deinit
    BY <2>3 DEF Deinit, Abstract!Next, Abstract!Reset
  <2>4. CASE UNCHANGED vars
    BY <2>4 DEF vars, Opened, GetFromFd
  <2> QED
    BY <2>1, <2>2, <2>3, <2>4 DEF Next
<1> QED
  BY <1>1, <1>2, Inductive, PTL DEF Spec, ImplementsFdTable, Abstract!Spec, Opened
=============================================================================
