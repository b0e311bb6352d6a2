---------------------------- MODULE BlockProofs -----------------------------
(***************************************************************************)
(* Proofs about FreeBlocks, for disks of any size, and about InodeBlocks,  *)
(* which extends it, for any number of inodes and of direct pointers: what *)
(* is on the free list, who owns which block, what a block reads as, and   *)
(* that both use the disk as a pool of blocks, with crashes.               *)
(***************************************************************************)
EXTENDS InodeBlocks, ThreadedLists, TLAPS

\* Word 0 of the blocks, the successors in the list of nodes.
Successors == [b \in Blocks |-> disk[b][0]]

\* The blocks in T are index nodes: they are not in use, and the blocks they name
\* are neither nodes nor in use, and are named once.
Tidy(T) ==
  /\ T \subseteq Blocks /\ T \cap held = {}
  /\ \A n \in T, w \in Slots : disk[n][w] # 0 => disk[n][w] \in Blocks \ (T \cup held)
  /\ \A m, n \in T, v, w \in Slots :
        disk[m][v] # 0 /\ disk[m][v] = disk[n][w] => m = n /\ v = w

\* H are the nodes of the list that the process follows, S those of the list on the
\* disk, which it finds after a crash.  The two may share nodes, or not.
Lists(H, S) ==
  /\ Listed(H, Successors, head, {0})
  /\ Listed(S, Successors, sb_head, {0})
  /\ Tidy(H \cup S)

\* The inductive invariant.
IInv == TypeOK /\ \E H, S : Lists(H, S)

LEMMA BlockFacts == /\ NumBlocks \in Nat /\ NumBlocks >= 1 /\ Words \in Nat /\ Words >= 2
                    /\ 0 \notin Blocks /\ Blocks \subseteq 0..NumBlocks /\ 0 \notin Slots
                    /\ 0 \in 0..(Words - 1) /\ Slots \subseteq 0..(Words - 1)
                    /\ \A b \in 0..NumBlocks : b # 0 => b \in Blocks
BY LayoutAssumption DEF Blocks, Slots

-----------------------------------------------------------------------------
(* The nodes of a list, as the loops of the code reach them. *)

IsWalk(c, h) == c = [k \in 0..NumBlocks |->
                       IF k = 0 THEN h
                       ELSE IF c[k - 1] = 0 THEN 0 ELSE disk[c[k - 1]][0]]

LEMMA WalkExists ==
  ASSUME NEW H \in SUBSET Blocks, NEW h, Listed(H, Successors, h, {0})
  PROVE  \E c : IsWalk(c, h)
<1>0. PICK n \in Nat : \E s : Listing(n, s, H, Successors, h, {0})
  BY DEF Listed
<1>1. PICK s : Listing(n, s, H, Successors, h, {0})
  BY <1>0
<1> DEFINE g == [j \in 0..NumBlocks |-> IF j <= n THEN s[j + 1] ELSE 0]
<1>2. ASSUME NEW j \in 0..NumBlocks
      PROVE  g[j] = IF j = 0 THEN h ELSE IF g[j - 1] = 0 THEN 0 ELSE disk[g[j - 1]][0]
  <2>1. CASE j = 0
    BY <1>1, <2>1, BlockFacts DEF Listing
  <2>2. CASE j # 0 /\ j <= n
    <3>1. j - 1 \in 0..NumBlocks /\ j - 1 <= n /\ (j - 1) + 1 = j /\ j \in 1..n
      BY <2>2, BlockFacts
    <3>2. g[j - 1] = s[j] /\ g[j] = s[j + 1]
      BY <2>2, <3>1
    <3>3. s[j] \in H /\ Successors[s[j]] = s[j + 1]
      BY <1>1, <3>1 DEF Listing
    <3>4. s[j] # 0 /\ disk[s[j]][0] = s[j + 1]
      BY <3>3, BlockFacts DEF Successors
    <3> HIDE DEF g
    <3> QED
      BY <2>2, <3>2, <3>4
  <2>3. CASE j # 0 /\ j = n + 1
    <3>1. g[j - 1] = s[n + 1] /\ g[j] = 0
      BY <2>3, BlockFacts
    <3>2. s[n + 1] = 0
      BY <1>1 DEF Listing
    <3> HIDE DEF g
    <3> QED
      BY <2>3, <3>1, <3>2
  <2>4. CASE j > n + 1
    <3>1. g[j - 1] = 0 /\ g[j] = 0
      BY <2>4, BlockFacts
    <3> HIDE DEF g
    <3> QED
      BY <2>4, <3>1
  <2> QED
    BY <2>1, <2>2, <2>3, <2>4, BlockFacts
<1>3. IsWalk(g, h)
  BY <1>2, Zenon DEF IsWalk
<1> QED
  BY <1>3

LEMMA WalkIsList ==
  ASSUME NEW H \in SUBSET Blocks, NEW h, Listed(H, Successors, h, {0}), NEW c, IsWalk(c, h)
  PROVE  /\ {c[k] : k \in 0..NumBlocks} \ {0} = H
         /\ c[NumBlocks] = 0
<1>0. PICK n \in Nat : \E s : Listing(n, s, H, Successors, h, {0})
  BY DEF Listed
<1>1. PICK s : Listing(n, s, H, Successors, h, {0})
  BY <1>0
<1>2. n <= NumBlocks
  BY <1>1, ListLength, BlockFacts DEF Blocks
<1>3. Follows(c, NumBlocks, H, Successors, h, {0})
  <2>1. /\ c[0] = h
        /\ \A j \in 1..NumBlocks : c[j] = IF c[j - 1] = 0 THEN 0 ELSE disk[c[j - 1]][0]
    BY BlockFacts DEF IsWalk
  <2>2. \A j \in 1..NumBlocks : c[j - 1] \in H => c[j] = Successors[c[j - 1]]
    BY <2>1, BlockFacts DEF Successors
  <2>3. \A j \in 1..NumBlocks : c[j - 1] \in {0} => c[j] \in {0}
    BY <2>1
  <2> QED
    BY <2>1, <2>2, <2>3, BlockFacts DEF Follows
<1>4. \A j \in 0..NumBlocks : (j <= n => c[j] = s[j + 1]) /\ (j > n => c[j] \in {0})
  BY <1>1, <1>3, ListWalk
<1>5. ASSUME NEW j \in 0..NumBlocks, c[j] # 0
      PROVE  c[j] \in H
  <2>1. j <= n /\ c[j] = s[j + 1]
    BY <1>4, <1>5
  <2>2. j # n
    BY <1>1, <1>5, <2>1 DEF Listing
  <2>3. j + 1 \in 1..n
    BY <2>1, <2>2
  <2> QED
    BY <1>1, <2>1, <2>3 DEF Listing
<1>6. ASSUME NEW x \in H
      PROVE  \E j \in 0..NumBlocks : c[j] = x
  <2>1. PICK k \in 1..n : s[k] = x
    BY <1>1 DEF Listing
  <2>2. k - 1 \in 0..NumBlocks /\ k - 1 <= n /\ (k - 1) + 1 = k
    BY <1>2, BlockFacts
  <2>3. c[k - 1] = x
    BY <1>4, <2>1, <2>2
  <2> QED
    BY <2>2, <2>3
<1>7. c[NumBlocks] = 0
  <2>1. CASE n = NumBlocks
    <3>1. c[NumBlocks] = s[n + 1]
      BY <1>4, <2>1, BlockFacts
    <3> QED
      BY <1>1, <3>1 DEF Listing
  <2>2. CASE n < NumBlocks
    BY <1>4, <2>2, BlockFacts
  <2> QED
    BY <1>2, <2>1, <2>2, BlockFacts
<1>8. 0 \notin H
  BY BlockFacts
<1>9. {c[k] : k \in 0..NumBlocks} \ {0} = H
  BY <1>5, <1>6, <1>8
<1> QED
  BY <1>7, <1>9

\* The loop meets every node of the list, and ends.
LEMMA NodesOfList ==
  ASSUME NEW H \in SUBSET Blocks, NEW h, Listed(H, Successors, h, {0})
  PROVE  /\ Nodes(h) = H
         /\ Node(h)[NumBlocks] = 0
         /\ \A k \in 0..NumBlocks : Node(h)[k] # 0 => Node(h)[k] \in H
<1> DEFINE walk == CHOOSE c : IsWalk(c, h)
<1>1. IsWalk(walk, h)
  BY WalkExists
<1>2. {walk[k] : k \in 0..NumBlocks} \ {0} = H /\ walk[NumBlocks] = 0
  <2> HIDE DEF walk
  <2> QED
    BY <1>1, WalkIsList
<1>3. Node(h) = walk
  BY DEF Node, IsWalk
<1> HIDE DEF walk
<1> QED
  BY <1>2, <1>3 DEF Nodes

-----------------------------------------------------------------------------
(* The index that formatting leaves. *)

\* A product by a larger number is larger.
LEMMA Monotone ==
  ASSUME NEW a \in Int, NEW b \in Int, NEW k \in Nat, a <= b
  PROVE  a * k <= b * k /\ a * k \in Int /\ b * k \in Int
<1>1. PICK d \in Nat : b = a + d
  BY SMT
<1>2. b * k = a * k + d * k /\ d * k \in Nat /\ a * k \in Int
  BY <1>1
<1> QED
  BY <1>2

\* Numbers in base k have one notation.
LEMMA Digits ==
  ASSUME NEW k \in Nat, k >= 1, NEW a \in Nat, NEW b \in Nat,
         NEW x \in 0..(k - 1), NEW y \in 0..(k - 1), a * k + x = b * k + y
  PROVE  a = b /\ x = y
<1>1. (a * k + x) \div k = a /\ (b * k + y) \div k = b
  OBVIOUS
<1>2. a = b
  BY <1>1
<1>3. a * k \in Int /\ a * k + x = a * k + y
  BY <1>2
<1> QED
  BY <1>2, <1>3

Last == FirstFree - 1

\* There is a node for every Words blocks, or part of that.
LEMMA LastNodeSize ==
  /\ Last \in Nat /\ Last >= 1 /\ Last <= NumBlocks /\ FirstFree = Last + 1
  /\ (Last - 1) * Words < NumBlocks /\ NumBlocks <= Last * Words
<1> DEFINE d == (NumBlocks * (Words - 1)) \div Words
<1>1. NumBlocks \in Nat /\ NumBlocks >= 1 /\ Words \in Nat /\ Words >= 2
  BY BlockFacts
<1>2. NumBlocks * (Words - 1) = NumBlocks * Words - NumBlocks /\ NumBlocks * Words \in Nat
      /\ NumBlocks * (Words - 1) \in Nat
  BY <1>1
<1>3. d \in Nat /\ d * Words <= NumBlocks * (Words - 1) /\ NumBlocks * (Words - 1) < d * Words + Words
  BY <1>1, <1>2
<1>4. FirstFree = 1 + NumBlocks - d
  BY DEF FirstFree
<1> HIDE DEF d
<1>5. Last = NumBlocks - d /\ FirstFree = Last + 1
  BY <1>1, <1>3, <1>4 DEF Last
<1>6. /\ Last * Words = NumBlocks * Words - d * Words
      /\ (Last - 1) * Words = NumBlocks * Words - d * Words - Words
      /\ d * Words \in Nat
  BY <1>1, <1>3, <1>5
<1>7. NumBlocks <= Last * Words /\ (Last - 1) * Words < NumBlocks
  BY <1>1, <1>2, <1>3, <1>6
<1>8. Last >= 1
  <2> SUFFICES ASSUME Last <= 0
               PROVE  FALSE
    BY <1>1, <1>3, <1>5
  <2>1. Last * Words <= 0 * Words /\ Last * Words \in Int
    BY <1>1, <1>3, <1>5, Monotone
  <2>2. 0 * Words = 0
    BY <1>1
  <2> QED
    BY <1>1, <1>7, <2>1, <2>2
<1> QED
  BY <1>1, <1>3, <1>5, <1>7, <1>8

\* Only the last node may not be full.
LEMMA FullNodes ==
  ASSUME NEW n \in 1..Last
  PROVE  /\ Full(n) <=> Last + n * (Words - 1) <= NumBlocks
         /\ n < Last => Full(n)
<1>1. /\ NumBlocks \in Nat /\ Words \in Nat /\ Words >= 2 /\ Words - 1 \in Nat
      /\ Last \in Nat /\ FirstFree = Last + 1 /\ n \in Nat /\ n <= Last
  BY BlockFacts, LastNodeSize
<1>2. n * (Words - 1) \in Nat
  BY <1>1
<1>3. Full(n) <=> Last + n * (Words - 1) <= NumBlocks
  BY <1>1, <1>2 DEF Full
<1>4. ASSUME n < Last
      PROVE  Last + n * (Words - 1) <= NumBlocks
  <2>1. n * (Words - 1) <= (Last - 1) * (Words - 1) /\ (Last - 1) * (Words - 1) \in Int
    BY <1>1, <1>4, Monotone
  <2>2. (Last - 1) * (Words - 1) = (Last - 1) * Words - (Last - 1) /\ (Last - 1) * Words \in Int
    BY <1>1
  <2> QED
    BY <1>1, <1>2, <2>1, <2>2, LastNodeSize
<1> QED
  BY <1>3, <1>4

\* The blocks named in the full nodes follow the nodes, and are named in order.
NamedAt(n, w) == FirstFree + (n - 1) * (Words - 1) + w - 1

LEMMA NamedInOrder ==
  ASSUME NEW n \in 1..Last, NEW w \in Slots
  PROVE  /\ NamedAt(n, w) \in Nat /\ Last < NamedAt(n, w)
         /\ NamedAt(n, w) <= Last + n * (Words - 1)
         /\ \A m \in 1..Last, v \in Slots : NamedAt(m, v) = NamedAt(n, w) => m = n /\ v = w
<1>1. /\ Words \in Nat /\ Words >= 2 /\ Words - 1 \in Nat
      /\ Last \in Nat /\ FirstFree = Last + 1
      /\ n \in Nat /\ n - 1 \in Nat /\ w \in 1..(Words - 1) /\ w - 1 \in 0..((Words - 1) - 1)
  BY BlockFacts, LastNodeSize DEF Slots
<1>2. (n - 1) * (Words - 1) \in Nat /\ n * (Words - 1) = (n - 1) * (Words - 1) + (Words - 1)
  BY <1>1
<1>3. NamedAt(n, w) = Last + 1 + ((n - 1) * (Words - 1) + (w - 1))
  BY <1>1, <1>2 DEF NamedAt
<1>4. ASSUME NEW m \in 1..Last, NEW v \in Slots, NamedAt(m, v) = NamedAt(n, w)
      PROVE  m = n /\ v = w
  <2>1. m - 1 \in Nat /\ v \in Nat /\ v - 1 \in 0..((Words - 1) - 1)
    BY <1>1 DEF Slots
  <2>2. (m - 1) * (Words - 1) \in Nat
    BY <1>1, <2>1
  <2>3. NamedAt(m, v) = Last + 1 + ((m - 1) * (Words - 1) + (v - 1))
    BY <1>1, <2>1, <2>2 DEF NamedAt
  <2>4. (m - 1) * (Words - 1) + (v - 1) = (n - 1) * (Words - 1) + (w - 1)
    BY <1>1, <1>2, <1>3, <1>4, <2>1, <2>2, <2>3
  <2>5. m - 1 = n - 1 /\ v - 1 = w - 1
    BY <1>1, <2>1, <2>4, Digits
  <2> QED
    BY <1>1, <2>1, <2>5
<1> QED
  BY <1>1, <1>2, <1>3, <1>4

LEMMA InitLists ==
  ASSUME Leftovers = {0}, Init
  PROVE  /\ TypeOK /\ Lists(1..Last, 1..Last)
         /\ \A n \in 1..Last, w \in Slots : disk[n][w] = IF Full(n) THEN NamedAt(n, w) ELSE 0
<1> DEFINE H == 1..Last
           t == [k \in 1..(Last + 1) |-> IF k <= Last THEN k ELSE 0]
<1>0. disk = [b \in Blocks |-> IF b < FirstFree /\ Full(b) THEN IndexNode(b) ELSE ZeroBlock]
  BY DEF Init, ZeroBlock
<1>1. /\ Last \in Nat /\ Last >= 1 /\ FirstFree = Last + 1 /\ H \subseteq Blocks
      /\ NumBlocks \in Nat /\ Words \in Nat /\ Words >= 2
  BY BlockFacts, LastNodeSize DEF Blocks
<1>2. ASSUME NEW n \in Blocks, NEW w \in Slots
      PROVE  disk[n][w] = IF n \in H /\ Full(n) THEN NamedAt(n, w) ELSE 0
  <2>1. disk[n] = IF n \in H /\ Full(n) THEN IndexNode(n) ELSE ZeroBlock
    BY <1>0, <1>1 DEF Blocks
  <2>2. w \in 0..(Words - 1) /\ w # 0
    BY BlockFacts
  <2>3. IndexNode(n)[w] = NamedAt(n, w)
    BY <2>2, Zenon DEF IndexNode, NamedAt
  <2>4. ZeroBlock[w] = 0
    BY <2>2 DEF ZeroBlock, Fill
  <2> QED
    BY <2>1, <2>3, <2>4
<1>3. ASSUME NEW n \in Blocks
      PROVE  disk[n][0] = IF n \in H /\ Full(n) /\ n < Last THEN n + 1 ELSE 0
  <2>1. disk[n] = IF n \in H /\ Full(n) THEN IndexNode(n) ELSE ZeroBlock
    BY <1>0, <1>1 DEF Blocks
  <2>2. IndexNode(n)[0] = IF n < Last THEN n + 1 ELSE 0
    BY <1>1, BlockFacts DEF IndexNode, Last
  <2>3. ZeroBlock[0] = 0
    BY BlockFacts DEF ZeroBlock, Fill
  <2> QED
    BY <2>1, <2>2, <2>3
<1>4. ASSUME NEW n \in H, NEW w \in Slots, Full(n)
      PROVE  NamedAt(n, w) \in Blocks /\ NamedAt(n, w) \notin H
  <2>1. n * (Words - 1) \in Int
    BY <1>1
  <2>2. Last + n * (Words - 1) <= NumBlocks
    BY <1>4, FullNodes
  <2>3. NamedAt(n, w) \in Nat /\ Last < NamedAt(n, w) /\ NamedAt(n, w) <= Last + n * (Words - 1)
    BY NamedInOrder
  <2> QED
    BY <1>1, <2>1, <2>2, <2>3 DEF Blocks
<1>5. TypeOK
  <2>1. disk = [b \in Blocks |-> IF b < FirstFree /\ Full(b) THEN IndexNode(b) ELSE ZeroBlock]
    BY <1>0
  <2>2. \A b \in Blocks : IndexNode(b) = [w \in 0..(Words - 1) |-> IndexNode(b)[w]]
    BY DEF IndexNode
  <2>3. ZeroBlock = [w \in 0..(Words - 1) |-> ZeroBlock[w]]
    BY DEF ZeroBlock, Fill
  <2>4. \A b \in Blocks : disk[b] = [w \in 0..(Words - 1) |-> disk[b][w]]
    BY <2>1, <2>2, <2>3
  <2>5. ASSUME NEW b \in Blocks, NEW w \in 0..(Words - 1)
        PROVE  disk[b][w] \in 0..NumBlocks
    <3>1. CASE w = 0
      BY <1>1, <1>3, <3>1 DEF Blocks
    <3>2. CASE w # 0
      <4>1. w \in Slots
        BY <1>1, <3>2 DEF Slots
      <4>2. disk[b][w] \in Blocks \/ disk[b][w] = 0
        BY <1>2, <1>4, <4>1
      <4>3. 0 \in 0..NumBlocks
        BY <1>1
      <4> QED
        BY <4>2, <4>3, BlockFacts, Zenon
    <3> QED
      BY <3>1, <3>2
  <2>6. \A b \in Blocks : disk[b] \in [0..(Words - 1) -> 0..NumBlocks]
    BY <2>4, <2>5
  <2>7. disk \in [Blocks -> [0..(Words - 1) -> 0..NumBlocks]]
    BY <2>1, <2>6
  <2> QED
    BY <1>1, <2>7, BlockFacts DEF TypeOK, Init
<1>6. Listed(H, Successors, 1, {0})
  <2>1. \A k \in 1..Last : k \in 1..(Last + 1) /\ t[k] = k /\ k + 1 \in 1..(Last + 1)
    BY <1>1
  <2>2. t[Last + 1] = 0 /\ Last + 1 \in 1..(Last + 1)
    BY <1>1
  <2>3. \A k \in 1..(Last + 1) : k \in 1..Last \/ k = Last + 1
    BY <1>1
  <2>4. t \in [1..(Last + 1) -> H \cup {0}]
    BY <2>1, <2>2, <2>3
  <2> HIDE DEF t
  <2>5. ASSUME NEW k \in 1..Last
        PROVE  Successors[t[k]] = t[k + 1]
    <3>1. Successors[k] = IF k < Last THEN k + 1 ELSE 0
      BY <1>1, <1>3, FullNodes DEF Successors
    <3>2. CASE k < Last
      <4>1. k + 1 \in 1..Last
        BY <1>1, <3>2
      <4> QED
        BY <2>1, <3>1, <3>2, <4>1
    <3>3. CASE k = Last
      BY <1>1, <2>1, <2>2, <3>1, <3>3
    <3> QED
      BY <1>1, <3>2, <3>3
  <2>6. t[1] = 1
    BY <1>1, <2>1
  <2>7. H \cap {0} = {}
    BY <1>1
  <2>8. Listing(Last, t, H, Successors, 1, {0})
    BY <1>1, <2>1, <2>2, <2>4, <2>5, <2>6, <2>7 DEF Listing
  <2> QED
    BY <1>1, <2>8 DEF Listed
<1> HIDE DEF H
<1>7. Tidy(H)
  <2>1. H \subseteq Blocks /\ held = {}
    BY <1>1 DEF Init
  <2>2. \A n \in H, w \in Slots : disk[n][w] # 0 => disk[n][w] \in Blocks \ (H \cup held)
    BY <1>2, <1>4, <2>1
  <2>3. ASSUME NEW m \in H, NEW n \in H, NEW v \in Slots, NEW w \in Slots,
               disk[m][v] # 0, disk[m][v] = disk[n][w]
        PROVE  m = n /\ v = w
    <3>1. NamedAt(m, v) = NamedAt(n, w)
      BY <1>2, <2>1, <2>3
    <3> QED
      BY <3>1, NamedInOrder DEF H
  <2> QED
    BY <2>1, <2>2, <2>3 DEF Tidy
<1>8. Lists(H, H)
  <2>1. H \cup H = H
    OBVIOUS
  <2> QED
    BY <1>6, <1>7, <2>1 DEF Lists, Init
<1>9. \A n \in H, w \in Slots : disk[n][w] = IF Full(n) THEN NamedAt(n, w) ELSE 0
  BY <1>1, <1>2
<1> QED
  BY <1>5, <1>8, <1>9 DEF H

LEMMA InvInit ==
  ASSUME Leftovers = {0}, Init
  PROVE  IInv
BY InitLists DEF IInv

-----------------------------------------------------------------------------
(* What the steps do to the lists. *)

\* A list whose successors are not written is still there.
LEMMA KeepListed ==
  ASSUME NEW F \in SUBSET Blocks, NEW h, Listed(F, Successors, h, {0}),
         \A n \in F : disk'[n][0] = disk[n][0]
  PROVE  Listed(F, Successors', h, {0})
<1>1. \A n \in F : Successors'[n] = Successors[n]
  BY DEF Successors
<1> QED
  BY <1>1, ListFrame

\* Nodes that are not written, or in which slots are zeroed, stay tidy.
LEMMA KeepTidy ==
  ASSUME NEW T, Tidy(T), NEW U, U \subseteq T, U \cap held' = {},
         \A n \in U, w \in Slots : \/ disk'[n][w] = 0
                                   \/ disk'[n][w] = disk[n][w] /\ disk[n][w] \notin held'
  PROVE  Tidy(U)'
<1>1. \A n \in U, w \in Slots : disk'[n][w] # 0 => disk'[n][w] = disk[n][w] /\ n \in T
  OBVIOUS
<1>2. \A n \in U, w \in Slots : disk'[n][w] # 0 => disk'[n][w] \in Blocks \ (U \cup held')
  BY <1>1 DEF Tidy
<1>3. ASSUME NEW m \in U, NEW n \in U, NEW v \in Slots, NEW w \in Slots,
             disk'[m][v] # 0, disk'[m][v] = disk'[n][w]
      PROVE  m = n /\ v = w
  BY <1>1, <1>3 DEF Tidy
<1> QED
  BY <1>2, <1>3 DEF Tidy

\* A block that was in use becomes a node that names nothing.
LEMMA GrowTidy ==
  ASSUME NEW T, Tidy(T), NEW b \in held, held' = held \ {b}, b \in Blocks,
         \A w \in Slots : disk'[b][w] = 0,
         \A n \in T, w \in Slots : disk'[n][w] = disk[n][w]
  PROVE  Tidy(T \cup {b})'
<1> DEFINE U == T \cup {b}
<1>1. U \subseteq Blocks /\ U \cap held' = {}
  BY DEF Tidy
<1>2. \A n \in U, w \in Slots : disk'[n][w] # 0 => n \in T /\ disk'[n][w] = disk[n][w]
  OBVIOUS
<1>3. \A n \in U, w \in Slots : disk'[n][w] # 0 => disk'[n][w] \in Blocks \ (U \cup held')
  BY <1>2 DEF Tidy
<1>4. ASSUME NEW m \in U, NEW n \in U, NEW v \in Slots, NEW w \in Slots,
             disk'[m][v] # 0, disk'[m][v] = disk'[n][w]
      PROVE  m = n /\ v = w
  BY <1>2, <1>4 DEF Tidy
<1> QED
  BY <1>1, <1>3, <1>4 DEF Tidy

\* A block that was in use is named in an empty slot.
LEMMA NameTidy ==
  ASSUME NEW T, Tidy(T), NEW b \in held, held' = held \ {b}, b \in Blocks,
         NEW k \in T, NEW u \in Slots, disk[k][u] = 0, disk'[k][u] = b,
         \A n \in T, w \in Slots : n # k \/ w # u => disk'[n][w] = disk[n][w]
  PROVE  Tidy(T)'
<1>1. T \cap held' = {} /\ T \subseteq Blocks /\ b \notin T
  BY DEF Tidy
<1>2. \A n \in T, w \in Slots : disk'[n][w] # 0 =>
         \/ n = k /\ w = u /\ disk'[n][w] = b
         \/ (n # k \/ w # u) /\ disk'[n][w] = disk[n][w] /\ disk[n][w] # b
  BY DEF Tidy
<1>3. \A n \in T, w \in Slots : disk'[n][w] # 0 => disk'[n][w] \in Blocks \ (T \cup held')
  BY <1>1, <1>2 DEF Tidy
<1>4. ASSUME NEW m \in T, NEW n \in T, NEW v \in Slots, NEW w \in Slots,
             disk'[m][v] # 0, disk'[m][v] = disk'[n][w]
      PROVE  m = n /\ v = w
  BY <1>2, <1>4 DEF Tidy
<1> QED
  BY <1>1, <1>3, <1>4 DEF Tidy

LEMMA ListsFacts ==
  ASSUME TypeOK, NEW H, NEW S, Lists(H, S)
  PROVE  /\ H \in SUBSET Blocks /\ S \in SUBSET Blocks
         /\ H \cap held = {} /\ S \cap held = {}
         /\ head # 0 => head \in H
         /\ head = 0 => H = {}
         /\ Nodes(head) = H /\ Nodes(sb_head) = S
         /\ \A k \in 0..NumBlocks : Node(head)[k] # 0 => Node(head)[k] \in H
<1>1. H \in SUBSET Blocks /\ S \in SUBSET Blocks /\ H \cap held = {} /\ S \cap held = {}
  BY DEF Lists, Tidy
<1>2. head # 0 => head \in H
  BY ListHead DEF Lists
<1>3. head = 0 => H = {}
  BY ListEmpty DEF Lists
<1> QED
  BY <1>1, <1>2, <1>3, NodesOfList DEF Lists

-----------------------------------------------------------------------------
(* The steps keep the invariant. *)

\* disk'[n][w] after an assignment to one word.
LEMMA WordWritten ==
  ASSUME TypeOK, NEW n \in Blocks, NEW w \in 0..(Words - 1), NEW x \in 0..NumBlocks,
         disk' = [disk EXCEPT ![n][w] = x]
  PROVE  /\ disk' \in [Blocks -> [0..(Words - 1) -> 0..NumBlocks]]
         /\ disk'[n][w] = x
         /\ \A m \in Blocks, v \in 0..(Words - 1) :
               m # n \/ v # w => disk'[m][v] = disk[m][v]
BY DEF TypeOK

LEMMA TakeSlotInv ==
  ASSUME TypeOK, NEW H, NEW S, Lists(H, S), head # 0,
         NEW w \in Slots, First(w, UsedSlots(head)), TakeSlot(w)
  PROVE  TypeOK' /\ Lists(H, S)'
<1> DEFINE x == disk[head][w]
           T == H \cup S
<1>1. head \in H /\ head \in Blocks /\ T \subseteq Blocks
  BY ListsFacts
<1>2. x # 0 /\ x \in Blocks /\ x \notin T /\ x \notin held
  BY <1>1 DEF First, UsedSlots, Lists, Tidy
<1>3. 0 \in 0..NumBlocks /\ w \in 0..(Words - 1) /\ w # 0 /\ 0 \in 0..(Words - 1)
  BY BlockFacts
<1>4. /\ held' = held \cup {x} /\ head' = head /\ sb_head' = sb_head
      /\ disk' = [disk EXCEPT ![head][w] = 0]
  BY DEF TakeSlot
<1>5. /\ disk' \in [Blocks -> [0..(Words - 1) -> 0..NumBlocks]]
      /\ disk'[head][w] = 0
      /\ \A m \in Blocks, v \in 0..(Words - 1) :
            m # head \/ v # w => disk'[m][v] = disk[m][v]
  BY <1>1, <1>3, <1>4, WordWritten
<1>6. TypeOK'
  BY <1>2, <1>4, <1>5 DEF TypeOK
<1>7. Listed(H, Successors', head, {0}) /\ Listed(S, Successors', sb_head, {0})
  BY <1>1, <1>3, <1>5, KeepListed DEF Lists
<1>8. Tidy(T)'
  <2>1. T \cap held' = {}
    BY <1>2, <1>4 DEF Lists, Tidy
  <2>2. ASSUME NEW n \in T, NEW v \in Slots
        PROVE  \/ disk'[n][v] = 0
               \/ disk'[n][v] = disk[n][v] /\ disk[n][v] \notin held'
    <3>1. n # head \/ v # w => disk'[n][v] = disk[n][v]
      BY <1>1, <1>5, BlockFacts
    <3>2. n # head \/ v # w => disk[n][v] # x \/ disk[n][v] = 0
      BY <1>1, <1>2 DEF Lists, Tidy
    <3>3. disk[n][v] # 0 => disk[n][v] \notin held
      BY DEF Lists, Tidy
    <3> QED
      BY <1>4, <1>5, <3>1, <3>2, <3>3
  <2> HIDE DEF T
  <2> QED
    BY <2>1, <2>2, KeepTidy DEF Lists, T
<1> QED
  BY <1>4, <1>6, <1>7, <1>8 DEF Lists

LEMMA TakeNodeInv ==
  ASSUME TypeOK, NEW H, NEW S, Lists(H, S), head # 0, TakeNode, NEW G, G = H \ {head}
  PROVE  /\ TypeOK'
         /\ \/ held' = held \cup {head} /\ Lists(G, G)'
            \/ "write" \in Faults /\ held' = held /\ Lists(G, S)'
<1>1. head \in H /\ head \in Blocks /\ H \subseteq Blocks /\ S \subseteq Blocks
  BY ListsFacts
<1>2. head' = disk[head][0] /\ disk' = disk /\ head' = Successors[head] /\ Successors' = Successors
  BY <1>1 DEF TakeNode, Successors
<1>3. Listed(G, Successors', head', {0})
  <2>1. Listed(H, Successors, head, {0})
    BY DEF Lists
  <2>2. Listed(H \ {head}, Successors, Successors[head], {0})
    BY <2>1, ListPop
  <2> QED
    BY <1>2, <2>2
<1>4. head' \in 0..NumBlocks
  BY <1>1, <1>2, BlockFacts DEF TypeOK
<1>5. TypeOK'
  BY <1>1, <1>2, <1>4 DEF TypeOK, TakeNode
<1>6. ASSUME NEW U, U \subseteq H \cup S, U \cap held' = {},
             \A n \in U, v \in Slots : disk[n][v] # 0 => disk[n][v] \notin held'
      PROVE  Tidy(U)'
  <2>1. Tidy(H \cup S)
    BY DEF Lists
  <2>2. \A n \in U, v \in Slots : \/ disk'[n][v] = 0
                                  \/ disk'[n][v] = disk[n][v] /\ disk[n][v] \notin held'
    BY <1>2, <1>6
  <2> QED
    BY <1>6, <2>1, <2>2, KeepTidy
<1>7. CASE sb_head' = head' /\ held' = held \cup {head}
  <2>1. G \cup G \subseteq H \cup S /\ (G \cup G) \cap held' = {}
    BY <1>1, <1>7 DEF Lists, Tidy
  <2>2. \A n \in G \cup G, v \in Slots : disk[n][v] # 0 => disk[n][v] \notin held'
    BY <1>1, <1>7 DEF Lists, Tidy
  <2>3. Tidy(G \cup G)'
    BY <1>6, <2>1, <2>2
  <2> QED
    BY <1>3, <1>5, <1>7, <2>3 DEF Lists
<1>8. CASE "write" \in Faults /\ UNCHANGED <<sb_head, held>>
  <2>1. G \cup S \subseteq H \cup S /\ (G \cup S) \cap held' = {}
    BY <1>1, <1>8 DEF Lists, Tidy
  <2>2. \A n \in G \cup S, v \in Slots : disk[n][v] # 0 => disk[n][v] \notin held'
    BY <1>1, <1>8 DEF Lists, Tidy
  <2>3. Tidy(G \cup S)'
    BY <1>6, <2>1, <2>2
  <2>4. Listed(S, Successors', sb_head', {0})
    BY <1>2, <1>8 DEF Lists
  <2> QED
    BY <1>3, <1>5, <1>8, <2>3, <2>4 DEF Lists
<1> QED
  BY <1>7, <1>8 DEF TakeNode

\* disk' after b became a block of zeroes.
LEMMA BlockZeroed ==
  ASSUME TypeOK, NEW b \in Blocks, disk' = [disk EXCEPT ![b] = ZeroBlock]
  PROVE  /\ disk' \in [Blocks -> [0..(Words - 1) -> 0..NumBlocks]]
         /\ \A w \in 0..(Words - 1) : disk'[b][w] = 0
         /\ \A m \in Blocks : m # b => disk'[m] = disk[m]
<1>1. ZeroBlock \in [0..(Words - 1) -> 0..NumBlocks] /\ \A w \in 0..(Words - 1) : ZeroBlock[w] = 0
  BY BlockFacts DEF ZeroBlock, Fill
<1> QED
  BY <1>1 DEF TypeOK

\* A list of one node.
LEMMA OneNode ==
  ASSUME NEW b \in Blocks, NEW next, next[b] = 0
  PROVE  Listed({b}, next, b, {0})
<1>1. Listed({}, next, 0, {0})
  BY ListNil
<1>2. b \notin {} /\ b \notin {0}
  BY BlockFacts
<1>3. Listed({} \cup {b}, next, b, {0})
  BY <1>1, <1>2, ListPush
<1> QED
  BY <1>3

LEMMA FreeFirstInv ==
  ASSUME TypeOK, NEW H, NEW S, Lists(H, S), NEW b \in held, FreeFirst(b)
  PROVE  /\ TypeOK'
         /\ H = {}
         /\ \A w \in Slots : disk'[b][w] = 0
         /\ \A n \in S : n # b /\ disk'[n] = disk[n]
         /\ \/ held' = held \ {b} /\ Lists({b}, {b})'
            \/ "write" \in Faults /\ held' = held \ {b} /\ Lists({b}, S)'
            \/ "crash" \in Faults /\ held' = held /\ Lists(S, S)'
<1>1. b \in Blocks /\ H = {} /\ S \in SUBSET Blocks /\ b \notin S
  BY ListsFacts DEF TypeOK, FreeFirst
<1>2. /\ disk' \in [Blocks -> [0..(Words - 1) -> 0..NumBlocks]]
      /\ \A w \in 0..(Words - 1) : disk'[b][w] = 0
      /\ \A m \in Blocks : m # b => disk'[m] = disk[m]
  BY <1>1, BlockZeroed DEF FreeFirst
<1>3. Listed({b}, Successors', b, {0})
  <2>1. Successors'[b] = 0
    BY <1>1, <1>2, BlockFacts DEF Successors
  <2> QED
    BY <1>1, <2>1, OneNode
<1>4. Listed(S, Successors', sb_head, {0})
  BY <1>1, <1>2, KeepListed DEF Lists
<1>5. /\ Tidy(S)
      /\ \A n \in S, w \in Slots : disk'[n][w] = disk[n][w]
      /\ \A w \in Slots : disk'[b][w] = 0
      /\ \A n \in S : n # b /\ disk'[n] = disk[n]
  BY <1>1, <1>2, BlockFacts DEF Lists, Tidy
<1>6. ASSUME held' = held \ {b}, NEW U, U \subseteq S \cup {b}
      PROVE  Tidy(U)'
  <2>1. Tidy(S \cup {b})'
    BY <1>1, <1>5, <1>6, GrowTidy
  <2> QED
    BY <1>6, <2>1 DEF Tidy
<1>7. TypeOK'
  BY <1>1, <1>2, BlockFacts DEF TypeOK, FreeFirst
<1>8. CASE head' = b /\ sb_head' = b /\ held' = held \ {b}
  BY <1>1, <1>3, <1>5, <1>6, <1>7, <1>8 DEF Lists
<1>9. CASE "write" \in Faults /\ head' = b /\ sb_head' = sb_head /\ held' = held \ {b}
  BY <1>1, <1>3, <1>4, <1>5, <1>6, <1>7, <1>9 DEF Lists
<1>10. CASE "crash" \in Faults /\ head' = sb_head /\ UNCHANGED <<sb_head, held>>
  <2>1. Tidy(S \cup S)'
    BY <1>5, <1>10 DEF Tidy
  <2> QED
    BY <1>1, <1>4, <1>5, <1>7, <1>10, <2>1 DEF Lists
<1> QED
  BY <1>8, <1>9, <1>10 DEF FreeFirst

\* b is named by a slot that was empty.
LEMMA FreeIntoSlotInv ==
  ASSUME TypeOK, NEW H, NEW S, Lists(H, S), NEW b \in held, held' = held \ {b}, FreeIntoSlot(b)
  PROVE  /\ TypeOK' /\ Lists(H, S)' /\ head' = head
         /\ \E n \in H, w \in Slots :
               /\ disk[n][w] = 0 /\ disk'[n][w] = b
               /\ \A m \in Blocks, v \in Slots : m # n \/ v # w => disk'[m][v] = disk[m][v]
<1>1. b \in Blocks /\ b \in 0..NumBlocks /\ H \in SUBSET Blocks /\ S \in SUBSET Blocks
  BY ListsFacts, BlockFacts DEF TypeOK
<1>2. PICK k \in 0..NumBlocks, w \in Slots :
        /\ Node(head)[k] # 0
        /\ First(w, EmptySlots(Node(head)[k]))
        /\ disk' = [disk EXCEPT ![Node(head)[k]][w] = b]
  BY DEF FreeIntoSlot
<1>3. PICK n \in H : n = Node(head)[k]
  BY <1>2, ListsFacts
<1>4. disk[n][w] = 0 /\ disk' = [disk EXCEPT ![n][w] = b]
  BY <1>2, <1>3 DEF First, EmptySlots, UsedSlots
<1>5. /\ disk' \in [Blocks -> [0..(Words - 1) -> 0..NumBlocks]]
      /\ disk'[n][w] = b
      /\ \A m \in Blocks, v \in 0..(Words - 1) : m # n \/ v # w => disk'[m][v] = disk[m][v]
  <2>1. w \in 0..(Words - 1) /\ n \in Blocks
    BY <1>1, BlockFacts
  <2>2. b \in 0..NumBlocks /\ disk' = [disk EXCEPT ![n][w] = b]
    BY <1>1, <1>4
  <2> QED
    BY <2>1, <2>2, WordWritten
<1>6. head' = head /\ sb_head' = sb_head
  BY DEF FreeIntoSlot
<1>7. TypeOK'
  BY <1>5, <1>6 DEF TypeOK
<1>8. Listed(H, Successors', head, {0}) /\ Listed(S, Successors', sb_head, {0})
  <2>1. \A m \in Blocks : disk'[m][0] = disk[m][0]
    BY <1>5, BlockFacts
  <2> QED
    BY <1>1, <2>1, KeepListed DEF Lists
<1>9. Tidy(H \cup S)'
  <2>1. Tidy(H \cup S) /\ n \in H \cup S
    BY DEF Lists
  <2>2. \A m \in H \cup S, v \in Slots : m # n \/ v # w => disk'[m][v] = disk[m][v]
    BY <1>1, <1>5, BlockFacts
  <2>3. disk[n][w] = 0 /\ disk'[n][w] = b /\ b \in Blocks
    BY <1>1, <1>4, <1>5
  <2> QED
    BY <2>1, <2>2, <2>3, NameTidy
<1>10. \A m \in Blocks, v \in Slots : m # n \/ v # w => disk'[m][v] = disk[m][v]
  BY <1>5, BlockFacts
<1>11. Lists(H, S)'
  BY <1>6, <1>8, <1>9 DEF Lists
<1>12. disk[n][w] = 0 /\ disk'[n][w] = b
  BY <1>4, <1>5
<1> QED
  BY <1>6, <1>7, <1>10, <1>11, <1>12

\* b becomes the last node of the list; also of the one on the disk, if they end in
\* the same node.
LEMMA FreeAppendInv ==
  ASSUME TypeOK, NEW H, NEW S, Lists(H, S), NEW b \in held, held' = held \ {b}, FreeAppend(b)
  PROVE  /\ TypeOK' /\ head' = head
         /\ \E G \in {S, S \cup {b}} : Lists(H \cup {b}, G)'
         /\ \A n \in H \cup S, w \in Slots : disk'[n][w] = disk[n][w]
         /\ \A w \in Slots : disk'[b][w] = 0
<1>1. b \in Blocks /\ b \in 0..NumBlocks /\ H \in SUBSET Blocks /\ S \in SUBSET Blocks
      /\ b \notin H /\ b \notin S /\ Nodes(head) = H /\ b # 0
  BY ListsFacts, BlockFacts DEF TypeOK
<1>2. PICK z \in H : /\ disk[z][0] = 0
                     /\ disk' = [disk EXCEPT ![z][0] = b, ![b] = ZeroBlock]
  BY <1>1 DEF FreeAppend, LastNode
<1>3. ZeroBlock \in [0..(Words - 1) -> 0..NumBlocks] /\ \A w \in 0..(Words - 1) : ZeroBlock[w] = 0
  BY BlockFacts DEF ZeroBlock, Fill
<1>4. /\ disk' \in [Blocks -> [0..(Words - 1) -> 0..NumBlocks]]
      /\ disk'[b] = ZeroBlock /\ disk'[z][0] = b
      /\ \A w \in 0..(Words - 1) : w # 0 => disk'[z][w] = disk[z][w]
      /\ \A m \in Blocks : m # z /\ m # b => disk'[m] = disk[m]
  <2>1. z # b /\ z \in Blocks /\ 0 \in 0..(Words - 1)
    BY <1>1, BlockFacts
  <2> QED
    BY <1>1, <1>2, <1>3, <2>1 DEF TypeOK
<1>5. head' = head /\ sb_head' = sb_head
  BY DEF FreeAppend
<1>6. TypeOK'
  BY <1>4, <1>5 DEF TypeOK
<1>7. /\ \A n \in H \cup S, w \in Slots : disk'[n][w] = disk[n][w]
      /\ \A w \in Slots : disk'[b][w] = 0
  BY <1>1, <1>3, <1>4, BlockFacts
<1>8. /\ Successors[z] = 0 /\ Successors'[b] = 0 /\ Successors'[z] = b
      /\ \A m \in Blocks \ {z, b} : Successors'[m] = Successors[m]
  BY <1>1, <1>2, <1>3, <1>4, BlockFacts DEF Successors
<1>9. ASSUME NEW F \in SUBSET Blocks, NEW h, Listed(F, Successors, h, {0}), z \in F, b \notin F
      PROVE  Listed(F \cup {b}, Successors', h, {0})
  <2>1. \A y \in F \ {z} : Successors'[y] = Successors[y]
    BY <1>8, <1>9
  <2>2. Successors[z] \in {0} /\ Successors'[b] \in {0} /\ b \notin {0}
    BY <1>1, <1>8
  <2> QED
    BY <1>8, <1>9, <2>1, <2>2, ListAppend
<1>10. Listed(H \cup {b}, Successors', head', {0})
  BY <1>1, <1>5, <1>9 DEF Lists
<1>11. Tidy((H \cup S) \cup {b})'
  <2>1. Tidy(H \cup S)
    BY DEF Lists
  <2> QED
    BY <1>1, <1>7, <2>1, GrowTidy
<1>12. ASSUME NEW G, G \subseteq S \cup {b}, Listed(G, Successors', sb_head', {0})
       PROVE  Lists(H \cup {b}, G)'
  <2>1. Tidy((H \cup {b}) \cup G)'
    BY <1>11, <1>12 DEF Tidy
  <2> QED
    BY <1>10, <1>12, <2>1 DEF Lists
<1>13. CASE z \in S
  <2>1. Listed(S \cup {b}, Successors', sb_head', {0})
    BY <1>1, <1>5, <1>9, <1>13 DEF Lists
  <2>2. Lists(H \cup {b}, S \cup {b})'
    BY <1>12, <2>1
  <2> QED
    BY <1>5, <1>6, <1>7, <2>2
<1>14. CASE z \notin S
  <2>1. \A n \in S : disk'[n][0] = disk[n][0]
    BY <1>1, <1>4, <1>14
  <2>2. Listed(S, Successors', sb_head', {0})
    BY <1>1, <1>5, <2>1, KeepListed DEF Lists
  <2>3. Lists(H \cup {b}, S)'
    BY <1>12, <2>2
  <2> QED
    BY <1>5, <1>6, <1>7, <2>3
<1> QED
  BY <1>13, <1>14

\* Steps that write no node and free at most a block that no list gets.
LEMMA SameListsInv ==
  ASSUME TypeOK, NEW H, NEW S, Lists(H, S), held' \subseteq held,
         head' = head, sb_head' = sb_head,
         disk' \in [Blocks -> [0..(Words - 1) -> 0..NumBlocks]],
         \A n \in H \cup S : disk'[n] = disk[n]
  PROVE  TypeOK' /\ Lists(H, S)'
<1>1. H \in SUBSET Blocks /\ S \in SUBSET Blocks
  BY ListsFacts
<1>2. Listed(H, Successors', head, {0}) /\ Listed(S, Successors', sb_head, {0})
  BY <1>1, KeepListed DEF Lists
<1>3. Tidy(H \cup S)'
  BY DEF Lists, Tidy
<1> QED
  BY <1>2, <1>3 DEF TypeOK, Lists

LEMMA FreeBlockInv ==
  ASSUME TypeOK, NEW H, NEW S, Lists(H, S), NEW b \in held, FreeBlock(b)
  PROVE  IInv'
<1>1. CASE FreeFirst(b)
  BY <1>1, FreeFirstInv DEF IInv
<1>2. CASE FreeIntoSlot(b)
  <2>1. held' = held \ {b}
    BY <1>2 DEF FreeIntoSlot
  <2> QED
    BY <1>2, <2>1, FreeIntoSlotInv DEF IInv
<1>3. CASE FreeAppend(b)
  <2>1. held' = held \ {b}
    BY <1>3 DEF FreeAppend
  <2> QED
    BY <1>3, <2>1, FreeAppendInv DEF IInv
<1> QED
  BY <1>1, <1>2, <1>3 DEF FreeBlock

LEMMA WriteBlockInv ==
  ASSUME TypeOK, NEW H, NEW S, Lists(H, S), NEW b \in held, WriteBlock(b)
  PROVE  /\ TypeOK' /\ Lists(H, S)' /\ head' = head /\ held' = held
         /\ \A n \in H \cup S : disk'[n] = disk[n]
<1>1. PICK x \in Patterns : disk' = [disk EXCEPT ![b] = Fill(x)]
  BY DEF WriteBlock
<1>2. b \in Blocks /\ b \notin H \cup S /\ H \cup S \subseteq Blocks
  BY ListsFacts DEF TypeOK
<1>3. Fill(x) \in [0..(Words - 1) -> 0..NumBlocks]
  BY PatternsAssumption DEF Fill
<1>4. disk' \in [Blocks -> [0..(Words - 1) -> 0..NumBlocks]]
  BY <1>1, <1>2, <1>3 DEF TypeOK
<1>5. \A n \in H \cup S : disk'[n] = disk[n]
  BY <1>1, <1>2 DEF TypeOK
<1>6. held' = held /\ head' = head /\ sb_head' = sb_head
  BY DEF WriteBlock
<1>7. TypeOK' /\ Lists(H, S)'
  BY <1>4, <1>5, <1>6, SameListsInv
<1> QED
  BY <1>5, <1>6, <1>7

\* A list is that of a process, or that of the disk: after the superblock is written
\* it is both, and after a crash too.
LEMMA OneListInv ==
  ASSUME TypeOK, NEW H, NEW S, Lists(H, S), disk' = disk, held' = held
  PROVE  /\ head' = head /\ sb_head' = head => TypeOK' /\ Lists(H, H)'
         /\ head' = sb_head /\ sb_head' = sb_head => TypeOK' /\ Lists(S, S)'
<1>1. Successors' = Successors
  BY DEF Successors
<1>2. Tidy(H \cup H)' /\ Tidy(S \cup S)'
  BY DEF Lists, Tidy
<1> QED
  BY <1>1, <1>2 DEF Lists, TypeOK

LEMMA InvNext == IInv /\ [Next]_vars => IInv'
<1> SUFFICES ASSUME IInv, [Next]_vars
             PROVE  IInv'
  OBVIOUS
<1>1. PICK H, S : Lists(H, S)
  BY DEF IInv
<1>2. TypeOK
  BY DEF IInv
<1>3. CASE AllocateBlock
  <2>1. CASE \E w \in Slots : First(w, UsedSlots(head)) /\ TakeSlot(w)
    BY <1>1, <1>2, <1>3, <2>1, TakeSlotInv DEF IInv, AllocateBlock
  <2>2. CASE TakeNode
    BY <1>1, <1>2, <1>3, <2>2, TakeNodeInv DEF IInv, AllocateBlock
  <2> QED
    BY <1>3, <2>1, <2>2 DEF AllocateBlock
<1>4. CASE \E b \in held : FreeBlock(b)
  BY <1>1, <1>2, <1>4, FreeBlockInv
<1>5. CASE \E b \in held : WriteBlock(b)
  BY <1>1, <1>2, <1>5, WriteBlockInv DEF IInv
<1>6. CASE WriteSuperblock
  BY <1>1, <1>2, <1>6, OneListInv DEF IInv, WriteSuperblock
<1>7. CASE Crash
  BY <1>1, <1>2, <1>7, OneListInv DEF IInv, Crash
<1>8. CASE UNCHANGED vars
  <2>1. /\ held' \subseteq held /\ disk' \in [Blocks -> [0..(Words - 1) -> 0..NumBlocks]]
        /\ disk' = disk /\ head' = head /\ sb_head' = sb_head
    BY <1>2, <1>8 DEF TypeOK, vars
  <2>2. TypeOK' /\ Lists(H, S)'
    BY <1>1, <1>2, <2>1, SameListsInv
  <2> QED
    BY <2>2 DEF IInv
<1> QED
  BY <1>3, <1>4, <1>5, <1>6, <1>7, <1>8 DEF Next

LEMMA Inductive ==
  ASSUME Leftovers = {0}
  PROVE  Spec => []IInv
BY InvInit, InvNext, PTL DEF Spec

-----------------------------------------------------------------------------
\* The blocks that a list with the nodes H offers.
PoolOf(H) == H \cup UNION {{disk[n][w] : w \in UsedSlots(n)} : n \in H}

\* What the list offers is what its nodes are and name, none of it in use.
OfferedExact ==
  \A H, S : TypeOK /\ Lists(H, S) =>
     /\ Offered(head) = PoolOf(H) /\ Offered(sb_head) = PoolOf(S)
     /\ PoolOf(H) \subseteq Blocks \ held /\ PoolOf(S) \subseteq Blocks \ held

LEMMA OfferedByNodes == OfferedExact
<1> SUFFICES ASSUME NEW H, NEW S, TypeOK, Lists(H, S)
             PROVE  /\ Offered(head) = PoolOf(H) /\ Offered(sb_head) = PoolOf(S)
                    /\ PoolOf(H) \subseteq Blocks \ held /\ PoolOf(S) \subseteq Blocks \ held
  BY DEF OfferedExact
<1>1. Nodes(head) = H /\ Nodes(sb_head) = S
  BY ListsFacts
<1>2. ASSUME NEW F, F \subseteq H \cup S
      PROVE  PoolOf(F) \subseteq Blocks \ held
  BY <1>2 DEF PoolOf, UsedSlots, Lists, Tidy
<1> QED
  BY <1>1, <1>2 DEF Offered, PoolOf

LEMMA OfferedByNodesNext == OfferedExact'
BY OfferedByNodes, PTL

\* The words of the disk and the heads of the list are block numbers or 0.
THEOREM BlockTypes ==
  ASSUME Leftovers = {0}
  PROVE  Spec => []TypeOK
<1>1. IInv => TypeOK
  BY DEF IInv
<1> QED
  BY <1>1, Inductive, PTL

\* The list that sfs_fs_allocate_block() and sfs_fs_free_block() follow ends, and names
\* no block twice, in spite of failed writes and crashes, whatever the size of the
\* disk.
THEOREM BlockListIsSound ==
  ASSUME Leftovers = {0}
  PROVE  Spec => []ListIsSound
<1>1. IInv => ListIsSound
  <2> SUFFICES ASSUME IInv
               PROVE  ListIsSound
    OBVIOUS
  <2>1. PICK H, S : Lists(H, S)
    BY DEF IInv
  <2>2. H \in SUBSET Blocks /\ Nodes(head) = H
    BY <2>1, ListsFacts DEF IInv
  <2>3. Node(head)[NumBlocks] = 0
    BY <2>1, <2>2, NodesOfList DEF Lists
  <2>4. \A n \in H, w \in Slots : disk[n][w] \notin H
    BY <2>1, <2>2, BlockFacts DEF Lists, Tidy
  <2>5. \A m, n \in H, v, w \in Slots :
           disk[m][v] # 0 /\ disk[m][v] = disk[n][w] => m = n /\ v = w
    BY <2>1 DEF Lists, Tidy
  <2> QED
    BY <2>2, <2>3, <2>4, <2>5 DEF ListIsSound
<1> QED
  BY <1>1, Inductive, PTL

\* No block of a file is offered by the list, neither by the one in memory nor by the
\* one that is found after a crash: no file can get a block that another one has,
\* whichever of the writes fail (but see TornAppend).
THEOREM HeldBlocksAreNotFree ==
  ASSUME Leftovers = {0}
  PROVE  Spec => []NoHeldBlockIsFree
<1>1. IInv => NoHeldBlockIsFree
  BY OfferedByNodes DEF IInv, OfferedExact, NoHeldBlockIsFree
<1> QED
  BY <1>1, Inductive, PTL

-----------------------------------------------------------------------------
(* The list implements a pool of blocks. *)

\* Formatting fills as many nodes as whole multiples of Words blocks.
LEMMA FullCount ==
  ASSUME NEW n \in 1..Last
  PROVE  Full(n) <=> n <= NumBlocks \div Words
<1> DEFINE a == NumBlocks \div Words
<1>1. /\ NumBlocks \in Nat /\ Words \in Nat /\ Words >= 2 /\ Words - 1 \in Nat
      /\ Last \in Nat /\ Last >= 1 /\ n \in Nat /\ n <= Last
  BY BlockFacts, LastNodeSize
<1>2. a \in Nat /\ a * Words <= NumBlocks /\ NumBlocks < a * Words + Words /\ a * Words \in Nat
  BY <1>1
<1> HIDE DEF a
<1>3. Full(n) <=> Last + n * (Words - 1) <= NumBlocks
  BY FullNodes
<1>4. CASE n < Last
  <2>1. Full(n)
    BY <1>4, FullNodes
  <2>2. n * Words <= (Last - 1) * Words /\ n * Words \in Int /\ (Last - 1) * Words \in Int
    BY <1>1, <1>4, Monotone
  <2>3. n * Words < a * Words + Words
    BY <1>1, <1>2, <2>2, LastNodeSize
  <2>4. n <= a
    <3> SUFFICES ASSUME a + 1 <= n
                 PROVE  FALSE
      BY <1>1, <1>2
    <3>1. (a + 1) * Words <= n * Words
      BY <1>1, <1>2, Monotone
    <3>2. (a + 1) * Words = a * Words + Words
      BY <1>1, <1>2
    <3> QED
      BY <1>1, <1>2, <2>2, <2>3, <3>1, <3>2
  <2> QED
    BY <2>1, <2>4 DEF a
<1>5. CASE n = Last
  <2>1. n + n * (Words - 1) = n * Words /\ n * (Words - 1) \in Nat /\ n * Words \in Nat
    BY <1>1
  <2>2. Full(n) <=> n * Words <= NumBlocks
    BY <1>3, <1>5, <2>1
  <2>3. ASSUME n <= a
        PROVE  n * Words <= NumBlocks
    BY <1>1, <1>2, <2>1, <2>3, Monotone
  <2>4. ASSUME n * Words <= NumBlocks
        PROVE  n <= a
    <3> SUFFICES ASSUME a + 1 <= n
                 PROVE  FALSE
      BY <1>1, <1>2
    <3>1. (a + 1) * Words <= n * Words
      BY <1>1, <1>2, Monotone
    <3>2. (a + 1) * Words = a * Words + Words
      BY <1>1, <1>2
    <3> QED
      BY <1>1, <1>2, <2>1, <2>4, <3>1, <3>2
  <2> QED
    BY <2>2, <2>3, <2>4 DEF a
<1> QED
  BY <1>1, <1>4, <1>5

Formatted == {b \in Blocks : b < FirstFree \/ b <= FirstFree + (Words - 1) * (NumBlocks \div Words) - 1}

\* The list of a new disk offers the nodes and the blocks of the full ones.
LEMMA InitPool ==
  ASSUME Leftovers = {0}, Init
  PROVE  Offered(head) = Formatted
<1> DEFINE a == NumBlocks \div Words
           K == Words - 1
<1>1. /\ NumBlocks \in Nat /\ Words \in Nat /\ Words >= 2 /\ K \in Nat /\ K >= 1
      /\ Last \in Nat /\ Last >= 1 /\ Last <= NumBlocks /\ FirstFree = Last + 1
  BY BlockFacts, LastNodeSize
<1>2. a \in Nat /\ a * K \in Nat /\ K * a = a * K
  BY <1>1
<1>3. a <= Last
  <2>1. a * Words <= NumBlocks /\ NumBlocks <= Last * Words /\ a * Words \in Int
    BY <1>1, LastNodeSize
  <2> SUFFICES ASSUME Last + 1 <= a
               PROVE  FALSE
    BY <1>1, <1>2
  <2>2. (Last + 1) * Words <= a * Words
    BY <1>1, <1>2, Monotone
  <2>3. (Last + 1) * Words = Last * Words + Words /\ Last * Words \in Int
    BY <1>1
  <2> QED
    BY <1>1, <2>1, <2>2, <2>3
<1> HIDE DEF a, K
<1>4. Formatted = {b \in Blocks : b <= Last \/ b <= Last + a * K}
  BY <1>1, <1>2 DEF Formatted, a, K, Blocks
<1>5. Offered(head) = PoolOf(1..Last) /\ PoolOf(1..Last) \subseteq Blocks
  BY InitLists, OfferedByNodes DEF OfferedExact
<1>6. ASSUME NEW n \in 1..Last, NEW w \in Slots
      PROVE  disk[n][w] = IF n <= a THEN NamedAt(n, w) ELSE 0
  BY InitLists, FullCount DEF a
<1>7. ASSUME NEW n \in 1..Last, NEW w \in Slots, disk[n][w] # 0
      PROVE  disk[n][w] <= Last + a * K
  <2>1. disk[n][w] = NamedAt(n, w) /\ n <= a
    BY <1>6, <1>7
  <2>2. NamedAt(n, w) \in Nat /\ NamedAt(n, w) <= Last + n * K
    BY NamedInOrder DEF K
  <2>3. n * K <= a * K /\ n * K \in Int
    BY <1>1, <1>2, <2>1, Monotone
  <2> QED
    BY <1>1, <1>2, <2>1, <2>2, <2>3
<1>8. ASSUME NEW b \in Blocks, Last < b, b <= Last + a * K
      PROVE  \E n \in 1..Last, w \in Slots : disk[n][w] = b /\ w \in UsedSlots(n)
  <2> DEFINE y == b - Last - 1
             q == y \div K
             r == y % K
  <2>1. y \in Nat /\ y < a * K
    BY <1>1, <1>2, <1>8 DEF Blocks
  <2> HIDE DEF y
  <2>2. q \in Nat /\ r \in 0..(K - 1) /\ q * K + r = y /\ q * K \in Nat
    BY <1>1, <2>1
  <2> HIDE DEF q, r
  <2>3. q < a
    <3> SUFFICES ASSUME a <= q
                 PROVE  FALSE
      BY <1>2, <2>2
    <3>1. a * K <= q * K
      BY <1>1, <1>2, <2>2, Monotone
    <3> QED
      BY <1>1, <1>2, <2>1, <2>2, <3>1
  <2>4. q + 1 \in 1..Last /\ q + 1 <= a /\ (q + 1) - 1 = q
    BY <1>1, <1>2, <1>3, <2>2, <2>3
  <2>5. r + 1 \in Slots /\ r + 1 \in Nat
    BY <1>1, <2>2 DEF Slots, K
  <2>6. NamedAt(q + 1, r + 1) = Last + 1 + q * K + (r + 1) - 1
    BY <1>1, <2>4 DEF NamedAt, K
  <2>7. NamedAt(q + 1, r + 1) = b
    BY <1>1, <2>1, <2>2, <2>6 DEF y, Blocks
  <2>8. disk[q + 1][r + 1] = b /\ b # 0
    BY <1>6, <2>4, <2>5, <2>7, BlockFacts
  <2> QED
    BY <2>4, <2>5, <2>8 DEF UsedSlots
<1>9. \A b \in Blocks : b <= Last => b \in 1..Last
  BY <1>1 DEF Blocks
<1>10. \A b \in Blocks : b \in Nat
  BY DEF Blocks
<1>11. ASSUME NEW b \in PoolOf(1..Last)
       PROVE  b \in Formatted
  <2>1. b \in 1..Last \/ \E n \in 1..Last, w \in Slots : disk[n][w] # 0 /\ b = disk[n][w]
    BY DEF PoolOf, UsedSlots
  <2>2. b <= Last \/ b <= Last + a * K
    BY <1>7, <2>1
  <2> QED
    BY <1>4, <1>5, <2>2
<1>12. ASSUME NEW b \in Formatted
       PROVE  b \in PoolOf(1..Last)
  <2>1. b \in Blocks /\ (b <= Last \/ (Last < b /\ b <= Last + a * K))
    BY <1>1, <1>2, <1>4, <1>10
  <2> QED
    BY <1>8, <1>9, <2>1 DEF PoolOf
<1> QED
  BY <1>5, <1>11, <1>12

PoolMembers == \A H, x : x \in PoolOf(H) <=>
                 \/ x \in H
                 \/ x # 0 /\ \E n \in H, w \in Slots : disk[n][w] = x

LEMMA PoolMembership == PoolMembers
BY DEF PoolMembers, PoolOf, UsedSlots

LEMMA PoolMembershipNext == PoolMembers'
BY PoolMembership, PTL

\* The superblock on the disk has the head of the list, unless a write may fail.
Synced == "write" \notin Faults => sb_head = head

LEMMA SyncedInit == Init => Synced
BY DEF Init, Synced

LEMMA SyncedAllocate == Synced /\ AllocateBlock => Synced'
BY DEF Synced, AllocateBlock, TakeSlot, TakeNode

LEMMA SyncedFree ==
  ASSUME Synced, NEW b, FreeBlock(b)
  PROVE  Synced'
BY DEF Synced, FreeBlock, FreeFirst, FreeIntoSlot, FreeAppend

LEMMA AlwaysSynced == Spec => []Synced
<1>1. Synced /\ [Next]_vars => Synced'
  <2>1. Synced /\ (WriteSuperblock \/ Crash \/ UNCHANGED vars) => Synced'
    BY DEF Synced, WriteSuperblock, Crash, vars
  <2>2. ASSUME Synced, NEW b \in held, WriteBlock(b)
        PROVE  Synced'
    BY <2>2 DEF Synced, WriteBlock
  <2> QED
    BY <2>1, <2>2, SyncedAllocate, SyncedFree DEF Next
<1> QED
  BY <1>1, SyncedInit, PTL DEF Spec

\* The pools of a step from nodes H, S to nodes G, U.
LEMMA PoolStep ==
  ASSUME TypeOK, TypeOK', NEW H, NEW S, Lists(H, S), NEW G, NEW U, Lists(G, U)'
  PROVE  /\ Offered(head) = PoolOf(H) /\ Offered(head)' = PoolOf(G)'
         /\ Offered(sb_head) = PoolOf(S) /\ Offered(sb_head)' = PoolOf(U)'
         /\ PoolOf(H) \subseteq Blocks \ held
BY OfferedByNodes, OfferedByNodesNext DEF OfferedExact

\* Where no write fails there is one list, and one pool.
LEMMA OnePool ==
  ASSUME TypeOK', Synced', NEW G, NEW U, Lists(G, U)', "write" \notin Faults
  PROVE  Offered(sb_head)' = Offered(head)'
BY DEF Synced

LEMMA AllocateRefines ==
  ASSUME IInv, IInv', Synced', AllocateBlock
  PROVE  \E x \in Blocks : Abstract!Allocate(x) \/ Abstract!AllocateFails(x)
<1>1. PICK H, S : Lists(H, S)
  BY DEF IInv
<1>2. TypeOK /\ TypeOK' /\ head # 0
  BY DEF IInv, AllocateBlock
<1>3. CASE \E w \in Slots : First(w, UsedSlots(head)) /\ TakeSlot(w)
  <2>1. PICK w \in Slots : First(w, UsedSlots(head)) /\ TakeSlot(w)
    BY <1>3
  <2>2. PICK x : x = disk[head][w]
    OBVIOUS
  <2>3. Lists(H, S)'
    BY <1>1, <1>2, <2>1, TakeSlotInv
  <2>4. head \in H /\ head \in Blocks /\ H \subseteq Blocks /\ S \subseteq Blocks /\ x # 0
    BY <1>1, <1>2, <2>1, <2>2, ListsFacts DEF First, UsedSlots
  <2>5. /\ disk'[head][w] = 0 /\ held' = held \cup {x}
        /\ \A m \in H \cup S, v \in Slots : m # head \/ v # w => disk'[m][v] = disk[m][v]
    <3>1. w \in 0..(Words - 1) /\ 0 \in 0..NumBlocks /\ disk' = [disk EXCEPT ![head][w] = 0]
      BY <2>1, BlockFacts DEF TakeSlot
    <3>2. /\ disk'[head][w] = 0
          /\ \A m \in Blocks, v \in 0..(Words - 1) : m # head \/ v # w => disk'[m][v] = disk[m][v]
      <4>1. TypeOK /\ head \in Blocks
        BY <1>2, <2>4
      <4> QED
        BY <3>1, <4>1, WordWritten
    <3> QED
      BY <2>1, <2>2, <2>4, <3>2, BlockFacts DEF TakeSlot
  <2>6. x \in PoolOf(H) /\ x \in Blocks
    BY <1>1, <2>2, <2>4, PoolMembership DEF PoolMembers, Lists, Tidy
  <2>7. x \notin H \cup S /\ \A m \in H \cup S, v \in Slots : disk[m][v] = x => m = head /\ v = w
    BY <1>1, <2>2, <2>4 DEF Lists, Tidy
  <2>8. ASSUME NEW F, F \subseteq H \cup S
        PROVE  PoolOf(F)' = IF head \in F THEN PoolOf(F) \ {x} ELSE PoolOf(F)
    <3>1. ASSUME NEW y \in PoolOf(F)'
          PROVE  y \in PoolOf(F) /\ (head \in F => y # x)
      <4>1. CASE y \in F
        BY <2>7, <2>8, <4>1, PoolMembership DEF PoolMembers
      <4>2. CASE y # 0 /\ \E n \in F, v \in Slots : disk'[n][v] = y
        <5>1. PICK n \in F, v \in Slots : disk'[n][v] = y
          BY <4>2
        <5>2. disk[n][v] = y /\ (n # head \/ v # w)
          BY <2>5, <2>8, <4>2, <5>1
        <5> QED
          BY <2>7, <2>8, <4>2, <5>2, PoolMembership DEF PoolMembers
      <4> QED
        BY <3>1, <4>1, <4>2, PoolMembershipNext DEF PoolMembers
    <3>2. ASSUME NEW y \in PoolOf(F), head \in F => y # x
          PROVE  y \in PoolOf(F)'
      <4>1. CASE y \in F
        BY <4>1, PoolMembershipNext DEF PoolMembers
      <4>2. CASE y # 0 /\ \E n \in F, v \in Slots : disk[n][v] = y
        <5>1. PICK n \in F, v \in Slots : disk[n][v] = y
          BY <4>2
        <5>2. disk'[n][v] = y
          BY <2>2, <2>5, <2>8, <3>2, <5>1
        <5> QED
          BY <4>2, <5>2, PoolMembershipNext DEF PoolMembers
      <4> QED
        BY <3>2, <4>1, <4>2, PoolMembership DEF PoolMembers
    <3> QED
      BY <3>1, <3>2
  <2>9. PoolOf(H)' = PoolOf(H) \ {x} /\ PoolOf(S)' \in {PoolOf(S), PoolOf(S) \ {x}}
    BY <2>4, <2>8
  <2>10. /\ Offered(head) = PoolOf(H) /\ Offered(head)' = PoolOf(H)'
         /\ Offered(sb_head) = PoolOf(S) /\ Offered(sb_head)' = PoolOf(S)'
    BY <1>1, <1>2, <2>3, PoolStep
  <2>11. Offered(sb_head)' = Offered(head)' \/ "write" \in Faults
    BY <1>2, <2>3, OnePool
  <2>12. Abstract!Allocate(x)
    BY <2>5, <2>6, <2>9, <2>10, <2>11 DEF Abstract!Allocate
  <2> QED
    BY <2>6, <2>12
<1>4. CASE TakeNode
  <2>1. PICK G : G = H \ {head}
    OBVIOUS
  <2>2. head \in H /\ head \in Blocks /\ \A v \in Slots : disk[head][v] = 0
    BY <1>1, <1>2, <1>4, ListsFacts DEF TakeNode, UsedSlots
  <2>3. head \in PoolOf(H)
    BY <2>2, PoolMembership DEF PoolMembers
  <2>4. disk' = disk
    BY <1>4 DEF TakeNode
  <2>5. \A m \in H, v \in Slots : disk[m][v] # head
    BY <1>1, <1>2, <2>2 DEF Lists, Tidy
  <2>6. PoolOf(G)' = PoolOf(H) \ {head}
    <3>1. ASSUME NEW y
          PROVE  y \in PoolOf(G)' <=> y \in PoolOf(H) /\ y # head
      <4>1. y \in PoolOf(G)' <=> \/ y \in G
                                 \/ y # 0 /\ \E n \in G, w \in Slots : disk[n][w] = y
        BY <2>4, PoolMembershipNext DEF PoolMembers
      <4>2. y \in PoolOf(H) <=> \/ y \in H
                                \/ y # 0 /\ \E n \in H, w \in Slots : disk[n][w] = y
        BY PoolMembership DEF PoolMembers
      <4> QED
        BY <2>1, <2>2, <2>5, <4>1, <4>2
    <3> QED
      BY <3>1
  <2>7. CASE held' = held \cup {head} /\ Lists(G, G)'
    <3>1. /\ Offered(head) = PoolOf(H) /\ Offered(head)' = PoolOf(G)'
          /\ Offered(sb_head)' = PoolOf(G)'
      BY <1>1, <1>2, <2>7, PoolStep
    <3>2. Abstract!Allocate(head)
      BY <2>3, <2>6, <2>7, <3>1 DEF Abstract!Allocate
    <3> QED
      BY <2>2, <3>2
  <2>8. CASE "write" \in Faults /\ held' = held /\ Lists(G, S)'
    <3>1. /\ Offered(head) = PoolOf(H) /\ Offered(head)' = PoolOf(G)'
          /\ Offered(sb_head) = PoolOf(S) /\ Offered(sb_head)' = PoolOf(S)'
      BY <1>1, <1>2, <2>8, PoolStep
    <3>2. PoolOf(S)' = PoolOf(S)
      BY <2>4 DEF PoolOf, UsedSlots
    <3>3. Abstract!AllocateFails(head)
      BY <2>3, <2>6, <2>8, <3>1, <3>2 DEF Abstract!AllocateFails
    <3> QED
      BY <2>2, <3>3
  <2> QED
    BY <1>1, <1>2, <1>4, <2>1, <2>7, <2>8, TakeNodeInv
<1> QED
  BY <1>3, <1>4 DEF AllocateBlock

LEMMA FreeRefines ==
  ASSUME IInv, IInv', Synced', NEW b \in held, FreeBlock(b)
  PROVE  Abstract!Free(b) \/ Abstract!Crash
<1>1. PICK H, S : Lists(H, S)
  BY DEF IInv
<1>2. TypeOK /\ TypeOK' /\ b \in Blocks /\ b # 0
  BY BlockFacts DEF IInv, TypeOK
<1>3. H \subseteq Blocks /\ S \subseteq Blocks
  BY <1>1, <1>2, ListsFacts
<1>4. ASSUME NEW G, NEW U, Lists(G, U)', held' = held \ {b}, PoolOf(G)' = PoolOf(H) \cup {b},
             PoolOf(U)' \in {PoolOf(G)', PoolOf(S), PoolOf(S) \cup {b}}
      PROVE  Abstract!Free(b)
  <2>1. /\ Offered(head) = PoolOf(H) /\ Offered(head)' = PoolOf(G)'
        /\ Offered(sb_head) = PoolOf(S) /\ Offered(sb_head)' = PoolOf(U)'
    BY <1>1, <1>2, <1>4, PoolStep
  <2>2. Offered(sb_head)' = Offered(head)' \/ "write" \in Faults
    BY <1>2, <1>4, OnePool
  <2> QED
    BY <1>4, <2>1, <2>2 DEF Abstract!Free
<1>5. ASSUME NEW G, NEW y
      PROVE  y \in PoolOf(G)' <=> \/ y \in G
                                  \/ y # 0 /\ \E n \in G, w \in Slots : disk'[n][w] = y
  BY PoolMembershipNext DEF PoolMembers
<1>6. ASSUME NEW G, NEW y
      PROVE  y \in PoolOf(G) <=> \/ y \in G
                                 \/ y # 0 /\ \E n \in G, w \in Slots : disk[n][w] = y
  BY PoolMembership DEF PoolMembers
<1>7. CASE FreeFirst(b)
  <2>1. /\ H = {} /\ \A w \in Slots : disk'[b][w] = 0
        /\ \A n \in S : disk'[n] = disk[n]
        /\ \/ held' = held \ {b} /\ Lists({b}, {b})'
           \/ "write" \in Faults /\ held' = held \ {b} /\ Lists({b}, S)'
           \/ "crash" \in Faults /\ held' = held /\ Lists(S, S)'
    BY <1>1, <1>2, <1>7, FreeFirstInv
  <2>2. PoolOf({b})' = PoolOf(H) \cup {b}
    <3>1. \A y : y \in PoolOf({b})' <=> y = b
      BY <1>5, <2>1
    <3>2. \A y : y \notin PoolOf(H)
      BY <1>6, <2>1
    <3> QED
      BY <3>1, <3>2
  <2>3. PoolOf(S)' = PoolOf(S)
    <3>1. \A y : y \in PoolOf(S)' <=> y \in PoolOf(S)
      BY <1>5, <1>6, <2>1
    <3> QED
      BY <3>1
  <2>4. CASE held' = held \ {b} /\ Lists({b}, {b})'
    BY <1>4, <2>2, <2>4
  <2>5. CASE "write" \in Faults /\ held' = held \ {b} /\ Lists({b}, S)'
    BY <1>4, <2>2, <2>3, <2>5
  <2>6. CASE "crash" \in Faults /\ held' = held /\ Lists(S, S)'
    <3>1. Offered(head)' = PoolOf(S)' /\ Offered(sb_head) = PoolOf(S) /\ Offered(sb_head)' = PoolOf(S)'
      BY <1>1, <1>2, <2>6, PoolStep
    <3> QED
      BY <2>3, <2>6, <3>1 DEF Abstract!Crash
  <2> QED
    BY <2>1, <2>4, <2>5, <2>6
<1>8. CASE FreeIntoSlot(b)
  <2>0. held' = held \ {b}
    BY <1>8 DEF FreeIntoSlot
  <2>1. Lists(H, S)'
    BY <1>1, <1>2, <1>8, <2>0, FreeIntoSlotInv
  <2>2. PICK n \in H, w \in Slots :
               /\ disk[n][w] = 0 /\ disk'[n][w] = b
               /\ \A m \in Blocks, v \in Slots : m # n \/ v # w => disk'[m][v] = disk[m][v]
    BY <1>1, <1>2, <1>8, <2>0, FreeIntoSlotInv
  <2>3. ASSUME NEW F, F \subseteq Blocks
        PROVE  PoolOf(F)' = IF n \in F THEN PoolOf(F) \cup {b} ELSE PoolOf(F)
    <3>1. ASSUME NEW y, y \in PoolOf(F)'
          PROVE  y \in PoolOf(F) \/ (n \in F /\ y = b)
      BY <1>5, <1>6, <2>2, <2>3, <3>1
    <3>2. ASSUME NEW y, y \in PoolOf(F)
          PROVE  y \in PoolOf(F)'
      BY <1>5, <1>6, <2>2, <2>3, <3>2
    <3>3. n \in F => b \in PoolOf(F)'
      BY <1>2, <1>5, <2>2
    <3> QED
      BY <3>1, <3>2, <3>3
  <2>4. PoolOf(H)' = PoolOf(H) \cup {b} /\ PoolOf(S)' \in {PoolOf(S), PoolOf(S) \cup {b}}
    BY <1>3, <2>2, <2>3
  <2> QED
    BY <1>4, <2>0, <2>1, <2>4
<1>9. CASE FreeAppend(b)
  <2>0. held' = held \ {b}
    BY <1>9 DEF FreeAppend
  <2>1. /\ TypeOK' /\ head' = head
        /\ \E U \in {S, S \cup {b}} : Lists(H \cup {b}, U)'
        /\ \A n \in H \cup S, w \in Slots : disk'[n][w] = disk[n][w]
        /\ \A w \in Slots : disk'[b][w] = 0
    BY <1>1, <1>2, <1>9, <2>0, FreeAppendInv
  <2>2. PICK U \in {S, S \cup {b}} : Lists(H \cup {b}, U)'
    BY <2>1
  <2>3. ASSUME NEW F, F \subseteq H \cup S
        PROVE  PoolOf(F)' = PoolOf(F) /\ PoolOf(F \cup {b})' = PoolOf(F) \cup {b}
    <3>1. \A y : y \in PoolOf(F)' <=> y \in PoolOf(F)
      BY <1>5, <1>6, <2>1, <2>3
    <3>2. \A y : y \in PoolOf(F \cup {b})' <=> y \in PoolOf(F) \/ y = b
      BY <1>5, <1>6, <2>1, <2>3
    <3> QED
      BY <3>1, <3>2
  <2>4. PoolOf(H \cup {b})' = PoolOf(H) \cup {b} /\ PoolOf(U)' \in {PoolOf(S), PoolOf(S) \cup {b}}
    BY <2>2, <2>3
  <2> QED
    BY <1>4, <2>0, <2>2, <2>4
<1> QED
  BY <1>7, <1>8, <1>9 DEF FreeBlock

\* The pools after a step that writes no node.
LEMMA SamePool ==
  ASSUME TypeOK, TypeOK', NEW H, NEW S, Lists(H, S), NEW G, NEW U, Lists(G, U)',
         \A n \in G \cup U : disk'[n] = disk[n]
  PROVE  /\ Offered(head) = PoolOf(H) /\ Offered(sb_head) = PoolOf(S)
         /\ Offered(head)' = PoolOf(G) /\ Offered(sb_head)' = PoolOf(U)
<1>1. ASSUME NEW F, F \subseteq G \cup U
      PROVE  PoolOf(F)' = PoolOf(F)
  <2>1. \A y : y \in PoolOf(F)' <=> y \in PoolOf(F)
    BY <1>1, PoolMembership, PoolMembershipNext DEF PoolMembers
  <2> QED
    BY <2>1
<1>2. PoolOf(G)' = PoolOf(G) /\ PoolOf(U)' = PoolOf(U)
  BY <1>1
<1> QED
  BY <1>2, PoolStep

\* sfs_fs_allocate_block() and sfs_fs_free_block() behave as a pool: what is allocated
\* was free, what is freed can be allocated, on the disk as in memory, and a block is
\* lost only by an allocation whose superblock write failed, or by a crash before a
\* failed superblock write was repeated; for a disk of any size, made of zeroes.
THEOREM ListImplementsPool ==
  ASSUME Leftovers = {0}
  PROVE  Spec => ImplementsBlockPool
<1>1. Init => Abstract!Init
  BY InitPool DEF Init, Abstract!Init, Formatted
<1>2. IInv /\ IInv' /\ Synced' /\ [Next]_vars => [Abstract!Next]_(Abstract!vars)
  <2> SUFFICES ASSUME IInv, IInv', Synced', [Next]_vars
               PROVE  Abstract!Next \/ Abstract!vars' = Abstract!vars
    OBVIOUS
  <2>1. PICK H, S : Lists(H, S)
    BY DEF IInv
  <2>2. TypeOK /\ TypeOK'
    BY DEF IInv
  <2>3. CASE AllocateBlock
    BY <2>3, AllocateRefines DEF Abstract!Next
  <2>4. CASE \E b \in held : FreeBlock(b)
    <3>1. PICK b \in held : FreeBlock(b)
      BY <2>4
    <3>2. Abstract!Free(b) \/ Abstract!Crash
      BY <3>1, FreeRefines
    <3> QED
      BY <2>2, <3>2 DEF Abstract!Next, TypeOK
  <2>5. CASE \E b \in held : WriteBlock(b)
    <3>1. Lists(H, S)' /\ held' = held /\ \A n \in H \cup S : disk'[n] = disk[n]
      BY <2>1, <2>2, <2>5, WriteBlockInv
    <3>2. Offered(head)' = Offered(head) /\ Offered(sb_head)' = Offered(sb_head)
      BY <2>1, <2>2, <3>1, SamePool
    <3> QED
      BY <3>1, <3>2 DEF Abstract!vars
  <2>6. CASE WriteSuperblock
    <3>1. Lists(H, H)' /\ held' = held /\ disk' = disk
      BY <2>1, <2>2, <2>6, OneListInv DEF WriteSuperblock
    <3>2. Offered(head)' = Offered(head) /\ Offered(sb_head)' = Offered(head)
      BY <2>1, <2>2, <3>1, SamePool
    <3> QED
      BY <3>1, <3>2 DEF Abstract!Next, Abstract!Store
  <2>7. CASE Crash
    <3>1. Lists(S, S)' /\ held' = held /\ disk' = disk /\ "crash" \in Faults
      BY <2>1, <2>2, <2>7, OneListInv DEF Crash
    <3>2. Offered(head)' = Offered(sb_head) /\ Offered(sb_head)' = Offered(sb_head)
      BY <2>1, <2>2, <3>1, SamePool
    <3> QED
      BY <3>1, <3>2 DEF Abstract!Next, Abstract!Crash
  <2>8. CASE UNCHANGED vars
    <3>1. /\ held' \subseteq held /\ disk' \in [Blocks -> [0..(Words - 1) -> 0..NumBlocks]]
          /\ disk' = disk /\ head' = head /\ sb_head' = sb_head /\ held' = held
      BY <2>2, <2>8 DEF TypeOK, vars
    <3>2. Lists(H, S)'
      BY <2>1, <2>2, <3>1, SameListsInv
    <3>3. Offered(head)' = Offered(head) /\ Offered(sb_head)' = Offered(sb_head)
      BY <2>1, <2>2, <3>1, <3>2, SamePool
    <3> QED
      BY <3>1, <3>3 DEF Abstract!vars
  <2> QED
    BY <2>3, <2>4, <2>5, <2>6, <2>7, <2>8 DEF Next
<1> QED
  BY <1>1, <1>2, Inductive, AlwaysSynced, PTL DEF Spec, ImplementsBlockPool, Abstract!Spec

-----------------------------------------------------------------------------
(* The blocks of inodes. *)

Contents == [0..(Words - 1) -> 0..NumBlocks]

LEMMA IndexFacts ==
  /\ NDir \in Nat /\ NDir >= 1 /\ NumLogical \in Nat /\ 0 \in 0..NDir /\ NDir \in 0..NDir
  /\ 0 \in 0..NumBlocks
  /\ \A k \in Logical : /\ k \in Nat
                        /\ k < NDir => k \in 0..NDir
                        /\ k >= NDir => k - NDir \in 0..(Words - 1)
                        /\ k < NumLogical
BY LogicalAssumption, BlockFacts DEF Logical

LEMMA FillTypes == ZeroBlock \in Contents /\ \A x \in Patterns : Fill(x) \in Contents
BY PatternsAssumption, IndexFacts DEF ZeroBlock, Fill, Contents

-----------------------------------------------------------------------------
(* Types. *)

\* The fields of the call in progress.
LEMMA CallFields ==
  ASSUME InodesTypeOK
  PROVE  /\ call.op \in {"idle", "write", "link", "free"}
         /\ call.op = "idle" => call = Idle
         /\ call.op \in {"write", "link"} => call.i \in Inums /\ call.k \in Logical /\ call.x \in Patterns
         /\ call.op = "link" => call.index \in Contents
         /\ call.op = "free" => /\ call.i \in Inums /\ call.k \in 0..NDir
                                /\ call = [op |-> "free", i |-> call.i, k |-> call.k]
<1>1. CASE call = Idle
  BY <1>1 DEF Idle
<1>2. CASE call \in [op : {"write"}, i : Inums, k : Logical, x : Patterns]
  BY <1>2
<1>3. CASE call \in [op : {"link"}, i : Inums, k : Logical, x : Patterns, index : Contents]
  BY <1>3
<1>4. CASE call \in [op : {"free"}, i : Inums, k : 0..NDir]
  BY <1>4
<1> QED
  BY <1>1, <1>2, <1>3, <1>4 DEF InodesTypeOK, Contents

\* The type invariant, as the steps need it.
CallType(c) ==
  \/ c = Idle
  \/ \E i \in Inums, k \in Logical, x \in Patterns :
        \/ c = [op |-> "write", i |-> i, k |-> k, x |-> x]
        \/ \E f \in Contents : c = [op |-> "link", i |-> i, k |-> k, x |-> x, index |-> f]
  \/ \E i \in Inums, k \in 0..NDir : c = [op |-> "free", i |-> i, k |-> k]

LEMMA CallTypes ==
  ASSUME NEW c, CallType(c)
  PROVE  c \in {Idle}
           \cup [op : {"write"}, i : Inums, k : Logical, x : Patterns]
           \cup [op : {"link"}, i : Inums, k : Logical, x : Patterns,
                 index : [0..(Words - 1) -> 0..NumBlocks]]
           \cup [op : {"free"}, i : Inums, k : 0..NDir]
BY DEF CallType, Contents

\* A block taken out of the list is a block, and the list keeps its types.
LEMMA AllocateTypes ==
  ASSUME Faults = {}, TypeOK, AllocateBlock
  PROVE  /\ TypeOK' /\ Allocated \in Blocks /\ held' = held \cup {Allocated}
         /\ \/ /\ UsedSlots(head) = {} /\ Allocated = head /\ disk' = disk
               /\ TakeNode
            \/ \E w \in Slots : /\ First(w, UsedSlots(head)) /\ TakeSlot(w)
                                /\ Allocated = disk[head][w]
<1>1. head \in Blocks
  BY BlockFacts DEF AllocateBlock, TypeOK
<1>2. CASE \E w \in Slots : First(w, UsedSlots(head)) /\ TakeSlot(w)
  <2>1. PICK w \in Slots : First(w, UsedSlots(head)) /\ TakeSlot(w)
    BY <1>2
  <2>2. PICK v \in Slots : v = CHOOSE u \in Slots : First(u, UsedSlots(head))
    BY <2>1
  <2>3. First(v, UsedSlots(head))
    BY <2>1, <2>2
  <2>4. v = w
    BY <2>1, <2>3, BlockFacts DEF First, Slots, UsedSlots
  <2>5. UsedSlots(head) # {}
    BY <2>1 DEF First
  <2>6. Allocated = disk[head][w]
    BY <2>2, <2>4, <2>5 DEF Allocated
  <2>7. w \in 0..(Words - 1) /\ disk[head][w] \in 0..NumBlocks /\ disk[head][w] # 0
    BY <1>1, <2>1, BlockFacts DEF First, UsedSlots, TypeOK
  <2>8. Allocated \in Blocks
    BY <2>6, <2>7, BlockFacts
  <2>9. disk' \in [Blocks -> [0..(Words - 1) -> 0..NumBlocks]]
    BY <1>1, <2>1, <2>7, WordWritten, IndexFacts DEF TakeSlot
  <2> QED
    BY <2>1, <2>6, <2>8, <2>9 DEF TakeSlot, TypeOK
<1>3. CASE TakeNode
  <2>1. UsedSlots(head) = {} /\ Allocated = head
    BY <1>3 DEF TakeNode, Allocated
  <2>2. head' \in 0..NumBlocks /\ sb_head' = head' /\ held' = held \cup {head} /\ disk' = disk
    BY <1>1, <1>3, BlockFacts DEF TakeNode, TypeOK
  <2> QED
    BY <1>1, <1>3, <2>1, <2>2 DEF TypeOK
<1> QED
  BY <1>2, <1>3 DEF AllocateBlock

\* ... and so it is when a block is put back, whatever block that is.
LEMMA FreeTypes ==
  ASSUME Faults = {}, TypeOK, NEW b \in Blocks, FreeBlock(b)
  PROVE  TypeOK'
<1>1. held' \subseteq Blocks
  BY DEF FreeBlock, FreeFirst, FreeIntoSlot, FreeAppend, TypeOK
<1>2. CASE FreeFirst(b)
  <2>1. disk' \in [Blocks -> [0..(Words - 1) -> 0..NumBlocks]]
    BY <1>2, BlockZeroed DEF FreeFirst
  <2>2. head' \in 0..NumBlocks /\ sb_head' \in 0..NumBlocks
    BY <1>2, BlockFacts DEF FreeFirst
  <2> QED
    BY <1>1, <2>1, <2>2 DEF TypeOK
<1>3. CASE FreeIntoSlot(b)
  <2>1. PICK k \in 0..NumBlocks, w \in Slots : disk' = [disk EXCEPT ![Node(head)[k]][w] = b]
    BY <1>3 DEF FreeIntoSlot
  <2>2. PICK n : n = Node(head)[k]
    OBVIOUS
  <2>3. b \in 0..NumBlocks /\ w \in 0..(Words - 1)
    BY BlockFacts
  <2>4. disk' \in [Blocks -> [0..(Words - 1) -> 0..NumBlocks]]
    BY <2>1, <2>2, <2>3 DEF TypeOK
  <2> QED
    BY <1>1, <1>3, <2>4 DEF FreeIntoSlot, TypeOK
<1>4. CASE FreeAppend(b)
  <2>1. PICK n \in Blocks : disk' = [disk EXCEPT ![n][0] = b, ![b] = ZeroBlock]
    BY <1>4 DEF FreeAppend
  <2>2. b \in 0..NumBlocks /\ 0 \in 0..(Words - 1) /\ ZeroBlock \in [0..(Words - 1) -> 0..NumBlocks]
    BY BlockFacts, FillTypes DEF Contents
  <2>3. disk' \in [Blocks -> [0..(Words - 1) -> 0..NumBlocks]]
    BY <2>1, <2>2 DEF TypeOK
  <2> QED
    BY <1>1, <1>4, <2>3 DEF FreeAppend, TypeOK
<1> QED
  BY <1>2, <1>3, <1>4 DEF FreeBlock

Pointers == [0..NDir -> 0..NumBlocks]

LEMMA NumberTypes ==
  ASSUME TypeOK, NEW p \in Pointers, NEW k \in Logical
  PROVE  /\ BlockNumber(p, k) \in 0..NumBlocks
         /\ k >= NDir => Indirect(p, k) \in 0..NumBlocks
<1>1. CASE k < NDir
  BY <1>1, IndexFacts DEF BlockNumber, Pointers
<1>2. CASE k >= NDir
  <2>1. k - NDir \in 0..(Words - 1) /\ p[NDir] \in 0..NumBlocks
    BY <1>2, IndexFacts DEF Pointers
  <2>2. Indirect(p, k) \in 0..NumBlocks
    BY <2>1, BlockFacts, IndexFacts DEF Indirect, TypeOK
  <2>3. ~(k < NDir)
    BY <1>2, IndexFacts
  <2> QED
    BY <2>2, <2>3 DEF BlockNumber
<1> QED
  BY <1>1, <1>2, IndexFacts

LEMMA IndirectBlockTypes ==
  ASSUME TypeOK, NEW p \in Pointers
  PROVE  IndirectBlocks(p) \subseteq Blocks
<1>1. ASSUME NEW k \in NDir..(NumLogical - 1)
      PROVE  Indirect(p, k) \in 0..NumBlocks
  <2>1. k \in Logical /\ k >= NDir
    BY IndexFacts DEF Logical
  <2> QED
    BY <2>1, NumberTypes
<1>2. p[NDir] \in 0..NumBlocks
  BY IndexFacts DEF Pointers
<1> QED
  BY <1>1, <1>2, BlockFacts DEF IndirectBlocks

\* The types of what the inodes and the history keep.
StateTypes ==
  /\ TypeOK
  /\ ptr \in [Inums -> Pointers] /\ live \subseteq Inums
  /\ saved \in [ptr : [Inums -> Pointers], live : SUBSET Inums]
  /\ CallType(call)
  /\ written \in [Inums -> [Logical -> Contents]]
  /\ lost \subseteq Blocks
  /\ doomed \in BOOLEAN /\ stale \in BOOLEAN /\ tainted \in BOOLEAN

TypesAgree == InodesTypeOK <=> StateTypes

LEMMA SameTypes == TypesAgree
<1>1. ASSUME InodesTypeOK
      PROVE  StateTypes
  <2>1. CallType(call)
    <3>1. CASE call = Idle
      BY <3>1 DEF CallType
    <3>2. CASE call \in [op : {"write"}, i : Inums, k : Logical, x : Patterns]
      <4>1. call = [op |-> "write", i |-> call.i, k |-> call.k, x |-> call.x]
            /\ call.i \in Inums /\ call.k \in Logical /\ call.x \in Patterns
        BY <3>2
      <4> QED
        BY <4>1 DEF CallType
    <3>3. CASE call \in [op : {"link"}, i : Inums, k : Logical, x : Patterns, index : Contents]
      <4>1. call = [op |-> "link", i |-> call.i, k |-> call.k, x |-> call.x, index |-> call.index]
            /\ call.i \in Inums /\ call.k \in Logical /\ call.x \in Patterns /\ call.index \in Contents
        BY <3>3
      <4> QED
        BY <4>1 DEF CallType
    <3>4. CASE call \in [op : {"free"}, i : Inums, k : 0..NDir]
      <4>1. call = [op |-> "free", i |-> call.i, k |-> call.k]
            /\ call.i \in Inums /\ call.k \in 0..NDir
        BY <3>4
      <4> QED
        BY <4>1 DEF CallType
    <3> QED
      BY <1>1, <3>1, <3>2, <3>3, <3>4 DEF InodesTypeOK, Contents
  <2>2. doomed \in BOOLEAN /\ stale \in BOOLEAN /\ tainted \in BOOLEAN
    BY <1>1, Zenon DEF InodesTypeOK
  <2> QED
    BY <1>1, <2>1, <2>2 DEF InodesTypeOK, StateTypes, Pointers, Contents
<1>2. ASSUME StateTypes
      PROVE  InodesTypeOK
  <2>1. {doomed, stale, tainted} \subseteq BOOLEAN
    BY <1>2, Zenon DEF StateTypes
  <2>2. call \in {Idle}
           \cup [op : {"write"}, i : Inums, k : Logical, x : Patterns]
           \cup [op : {"link"}, i : Inums, k : Logical, x : Patterns,
                 index : [0..(Words - 1) -> 0..NumBlocks]]
           \cup [op : {"free"}, i : Inums, k : 0..NDir]
    BY <1>2, CallTypes DEF StateTypes
  <2> QED
    BY <1>2, <2>1, <2>2 DEF InodesTypeOK, StateTypes, Pointers, Contents
<1> QED
  BY <1>1, <1>2 DEF TypesAgree

LEMMA SameTypesNext == TypesAgree'
BY SameTypes, PTL

LEMMA TypesInit ==
  ASSUME Leftovers = {0}, InodesInit
  PROVE  InodesTypeOK
<1> SUFFICES StateTypes
  BY SameTypes DEF TypesAgree
<1>1. TypeOK
  BY InitLists DEF InodesInit
<1>2. NoPointers \in Pointers /\ Nothing \in [Logical -> Contents]
  BY IndexFacts, FillTypes DEF NoPointers, Pointers, Nothing
<1>3. doomed \in BOOLEAN /\ stale \in BOOLEAN /\ tainted \in BOOLEAN
  BY DEF InodesInit
<1>4. CallType(call)
  BY DEF InodesInit, CallType
<1> QED
  BY <1>1, <1>2, <1>3, <1>4 DEF InodesInit, StateTypes

\* The inode, the place and the data of a call that writes.
LEMMA WritingFacts ==
  ASSUME StateTypes, NEW i \in Inums, NEW k \in Logical, NEW x \in Patterns
  PROVE  /\ CallType([op |-> "write", i |-> i, k |-> k, x |-> x])
         /\ ptr[i] \in Pointers
         /\ \A l \in 0..NDir : ptr[i][l] \in 0..NumBlocks
BY DEF CallType, StateTypes, Pointers

LEMMA TypesNext ==
  ASSUME Faults = {}
  PROVE  InodesTypeOK /\ [InodesNext]_inodesVars => InodesTypeOK'
<1> SUFFICES ASSUME StateTypes, [InodesNext]_inodesVars
             PROVE  StateTypes'
  BY SameTypes, SameTypesNext DEF TypesAgree
<1>0. TypeOK /\ doomed \in BOOLEAN /\ stale \in BOOLEAN /\ tainted \in BOOLEAN
  BY DEF StateTypes
<1>1. ASSUME NEW i \in Inums, CreateInode(i)
      PROVE  StateTypes'
  <2>1. NoPointers \in Pointers
    BY IndexFacts DEF NoPointers, Pointers
  <2> QED
    BY <1>1, <2>1 DEF CreateInode, StateTypes, history, vars, TypeOK
<1>2. ASSUME NEW i \in Inums, BeginDeallocate(i)
      PROVE  StateTypes'
  <2>1. IndirectBlocks(ptr[i]) \subseteq Blocks
    BY <1>0, IndirectBlockTypes DEF StateTypes
  <2>2. Nothing \in [Logical -> Contents]
    BY FillTypes DEF Nothing
  <2>3. CallType(call')
    BY <1>2, IndexFacts DEF BeginDeallocate, CallType
  <2>4. doomed' \in BOOLEAN
    BY <1>2, Zenon DEF BeginDeallocate
  <2> QED
    BY <1>0, <1>2, <2>1, <2>2, <2>3, <2>4 DEF BeginDeallocate, StateTypes, vars, TypeOK
<1>3. ASSUME NEW i \in Inums, NEW k \in Logical, NEW x \in Patterns,
             \/ AllocateDirect(i, k, x) \/ AllocateIndex(i, k, x) \/ AllocateLink(i, k, x)
             \/ NoSpace(i, k, x) \/ WriteData(i, k, x)
      PROVE  StateTypes'
  <2>0. /\ CallType([op |-> "write", i |-> i, k |-> k, x |-> x]) /\ ptr[i] \in Pointers
        /\ \A b \in Blocks : b \in 0..NumBlocks
    BY WritingFacts, BlockFacts
  <2>1. CASE AllocateDirect(i, k, x)
    <3>1. TypeOK' /\ Allocated \in 0..NumBlocks
      BY <1>0, <2>0, <2>1, AllocateTypes DEF AllocateDirect
    <3>2. ptr' \in [Inums -> Pointers]
      BY <2>1, <3>1, IndexFacts DEF AllocateDirect, StateTypes, Pointers
    <3>3. CallType(call')
      BY <2>0, <2>1 DEF AllocateDirect, Continue
    <3> QED
      BY <2>1, <3>1, <3>2, <3>3 DEF AllocateDirect, StateTypes, history
  <2>2. CASE AllocateIndex(i, k, x)
    <3>1. TypeOK' /\ Allocated \in 0..NumBlocks
      BY <1>0, <2>0, <2>2, AllocateTypes DEF AllocateIndex
    <3>2. ptr' \in [Inums -> Pointers]
      BY <2>2, <3>1, IndexFacts DEF AllocateIndex, StateTypes, Pointers
    <3>3. CallType(call')
      BY <2>0, <2>2 DEF AllocateIndex, Continue
    <3>4. stale' \in BOOLEAN
      BY <2>2, Zenon DEF AllocateIndex
    <3> QED
      BY <2>2, <3>1, <3>2, <3>3, <3>4 DEF AllocateIndex, StateTypes
  <2>3. CASE AllocateLink(i, k, x)
    <3>1. TypeOK' /\ Allocated \in 0..NumBlocks
      BY <1>0, <2>0, <2>3, AllocateTypes DEF AllocateLink
    <3>2. ptr[i][NDir] \in Blocks
      BY <2>0, <2>3, BlockFacts, IndexFacts DEF AllocateLink, Pointers
    <3>3. [disk[ptr[i][NDir]] EXCEPT ![k - NDir] = Allocated] \in Contents
      BY <1>0, <3>1, <3>2 DEF TypeOK, Contents
    <3>4. CallType(call')
      BY <2>3, <3>3 DEF AllocateLink, CallType
    <3> QED
      BY <2>3, <3>1, <3>4 DEF AllocateLink, StateTypes, history
  <2>4. CASE NoSpace(i, k, x)
    <3>1. CallType(call')
      BY <2>4 DEF NoSpace, CallType
    <3> QED
      BY <2>4, <3>1 DEF NoSpace, StateTypes, history, vars, TypeOK
  <2>5. CASE WriteData(i, k, x)
    <3>1. CallType(call')
      BY <2>5 DEF WriteData, CallType
    <3>2. disk' \in [Blocks -> [0..(Words - 1) -> 0..NumBlocks]]
      BY <1>0, <2>5, FillTypes DEF WriteData, TypeOK, Contents
    <3>3. written' \in [Inums -> [Logical -> Contents]]
      BY <2>5, FillTypes DEF WriteData, StateTypes
    <3> QED
      BY <2>5, <3>1, <3>2, <3>3 DEF WriteData, StateTypes, TypeOK
  <2> QED
    BY <1>3, <2>1, <2>2, <2>3, <2>4, <2>5
<1>4. CASE WriteIndex
  <2>1. /\ call.i \in Inums /\ call.k \in Logical /\ call.x \in Patterns /\ call.index \in Contents
    BY <1>4, CallFields, SameTypes DEF WriteIndex, TypesAgree
  <2>2. CallType(call')
    BY <1>4, <2>1 DEF WriteIndex, Continue, CallType
  <2>3. disk' \in [Blocks -> [0..(Words - 1) -> 0..NumBlocks]]
    BY <1>0, <1>4, <2>1 DEF WriteIndex, TypeOK, Contents
  <2> QED
    BY <1>4, <2>2, <2>3 DEF WriteIndex, StateTypes, TypeOK, history
<1>5. CASE FreePointers
  <2>1. /\ call.i \in Inums /\ call.k \in 0..NDir
        /\ call = [op |-> "free", i |-> call.i, k |-> call.k]
    BY <1>5, CallFields, SameTypes DEF FreePointers, TypesAgree
  <2>2. ASSUME call.k < NDir, call' = [call EXCEPT !.k = @ + 1]
        PROVE  CallType(call')
    <3>1. call.k + 1 \in 0..NDir /\ call' = [op |-> "free", i |-> call.i, k |-> call.k + 1]
      BY <2>1, <2>2, IndexFacts
    <3> QED
      BY <2>1, <3>1 DEF CallType
  <2>3. CASE /\ call.k < NDir /\ ptr[call.i][call.k] # 0
             /\ FreeBlock(ptr[call.i][call.k])
             /\ call' = [call EXCEPT !.k = @ + 1] /\ ptr' = ptr
    <3>0. ptr \in [Inums -> Pointers] /\ call.i \in Inums /\ call.k \in 0..NDir
      BY <2>1 DEF StateTypes
    <3>1. ptr[call.i][call.k] \in 0..NumBlocks
      BY <3>0, Zenon DEF Pointers
    <3>2. ptr[call.i][call.k] \in Blocks
      BY <2>3, <3>1, BlockFacts
    <3>3. TypeOK'
      BY <1>0, <2>3, <3>2, FreeTypes
    <3>4. CallType(call')
      BY <2>2, <2>3
    <3> QED
      BY <1>5, <2>3, <3>3, <3>4 DEF FreePointers, StateTypes, history
  <2>4. CASE /\ call.k < NDir /\ ptr[call.i][call.k] = 0
             /\ call' = [call EXCEPT !.k = @ + 1] /\ UNCHANGED <<vars, ptr>>
    <3>1. CallType(call')
      BY <2>2, <2>4
    <3> QED
      BY <1>5, <2>4, <3>1 DEF FreePointers, StateTypes, history, vars, TypeOK
  <2>5. CASE /\ call.k = NDir
             /\ call' = Idle /\ ptr' = [ptr EXCEPT ![call.i] = NoPointers]
             /\ UNCHANGED vars
    <3>1. NoPointers \in Pointers
      BY IndexFacts DEF NoPointers, Pointers
    <3>2. CallType(call')
      BY <2>5 DEF CallType
    <3> QED
      BY <1>5, <2>5, <3>1, <3>2 DEF FreePointers, StateTypes, history, vars, TypeOK
  <2> QED
    BY <1>5, <2>3, <2>4, <2>5 DEF FreePointers
<1>6. CASE SaveInodes
  <2>1. CallType(call') /\ doomed' \in BOOLEAN
    BY <1>6 DEF SaveInodes, StateTypes
  <2> QED
    BY <1>6, <2>1 DEF SaveInodes, StateTypes, vars, TypeOK
<1>7. CASE InodesCrash
  <2>1. CallType(call')
    BY <1>7 DEF InodesCrash, CallType
  <2>2. ASSUME NEW i \in Inums, NEW k \in Logical
        PROVE  written'[i][k] \in Contents /\ written'[i] = [l \in Logical |-> written'[i][l]]
    <3>1. BlockNumber(saved.ptr[i], k) \in 0..NumBlocks
      BY <1>0, NumberTypes DEF StateTypes
    <3>2. written[i][k] \in Contents /\ ZeroBlock \in Contents
      BY FillTypes, Zenon DEF StateTypes
    <3>3. BlockNumber(saved.ptr[i], k) # 0 => disk[BlockNumber(saved.ptr[i], k)] \in Contents
      BY <1>0, <3>1, BlockFacts DEF TypeOK, Contents
    <3>4. written'[i][k] = IF i \notin saved.live \/ BlockNumber(saved.ptr[i], k) = 0 THEN ZeroBlock
                           ELSE IF call.op = "write" /\ call.i = i /\ call.k = k
                           THEN disk[BlockNumber(saved.ptr[i], k)] ELSE written[i][k]
      BY <1>7, Zenon DEF InodesCrash
    <3>5. written'[i] = [l \in Logical |-> written'[i][l]]
      BY <1>7 DEF InodesCrash
    <3> QED
      BY <3>2, <3>3, <3>4, <3>5
  <2>3. written' = [i \in Inums |-> written'[i]]
    BY <1>7 DEF InodesCrash
  <2>4. written' \in [Inums -> [Logical -> Contents]]
    <3>1. ASSUME NEW i \in Inums
          PROVE  written'[i] \in [Logical -> Contents]
      <4>1. NumLogical > 0 /\ 0 \in Logical
        BY LogicalAssumption, IndexFacts DEF Logical
      <4> QED
        BY <2>2, <4>1
    <3> QED
      BY <2>3, <3>1
  <2>5. doomed' \in BOOLEAN /\ tainted' \in BOOLEAN
    BY <1>7, Zenon DEF InodesCrash
  <2>6. lost' \subseteq Blocks
    BY <1>7, <1>0 DEF InodesCrash, TypeOK
  <2>7. ptr' \in [Inums -> Pointers] /\ live' \subseteq Inums
    BY <1>7 DEF InodesCrash, StateTypes
  <2> QED
    BY <1>7, <2>1, <2>4, <2>5, <2>6, <2>7 DEF InodesCrash, StateTypes, vars, TypeOK
<1>8. CASE UNCHANGED inodesVars
  BY <1>8 DEF inodesVars, vars, StateTypes, TypeOK, CallType
<1> QED
  BY <1>1, <1>2, <1>3, <1>4, <1>5, <1>6, <1>7, <1>8 DEF InodesNext

\* Every pointer of an inode, of an index block and of the free list is a block number
\* or 0, and every call, crash and recovery leaves it so, even in damaged files.
THEOREM InodeTypes ==
  ASSUME Faults = {}, Leftovers = {0}
  PROVE  InodesSpec => []InodesTypeOK
BY TypesInit, TypesNext, PTL DEF InodesSpec

-----------------------------------------------------------------------------
(* Who owns which block. *)

\* The places of an inode where it keeps block numbers: its pointers, and behind them
\* the words of its index block.  Logical block k is at place At(k).
Places == 0..NDir \cup (NDir + 1)..NumLogical
At(k) == IF k < NDir THEN k ELSE k + 1
Place(p, k) == IF k <= NDir THEN p[k] ELSE Indirect(p, k - 1)

\* Own[i][k]: the block at place k of inode i, 0 if there is none.
Own == [i \in Inums |-> [k \in Places |-> Place(ptr[i], k)]]

\* The inodes in L have no block twice if O says what they have.
Exclusive(O, L) == \A i, j \in L, k, l \in Places :
                      O[i][k] # 0 /\ O[i][k] = O[j][l] => i = j /\ k = l
\* ... and the blocks they have.
Had(O, L) == {b \in Blocks : \E i \in L, k \in Places : O[i][k] = b}

LEMMA PlaceFacts ==
  /\ 0..NDir \subseteq Places /\ NDir \in Places
  /\ \A k \in Logical : /\ At(k) \in Places /\ At(k) # NDir
                        /\ k < NDir => At(k) = k
                        /\ k >= NDir => At(k) = k + 1 /\ ~(At(k) <= NDir) /\ At(k) - 1 = k
                        /\ \A l \in Logical : At(k) = At(l) => k = l
  /\ \A k \in Places : /\ k <= NDir => k \in 0..NDir
                       /\ ~(k <= NDir) => /\ k - 1 \in Logical /\ k - 1 >= NDir
                                          /\ At(k - 1) = k /\ (k - 1) - NDir \in 0..(Words - 1)
BY LogicalAssumption, IndexFacts DEF Places, At, Logical

\* What Own says in terms of the pointers and of the index block.
OwnFacts ==
  \A i \in Inums, k \in Places :
    /\ k <= NDir => Own[i][k] = ptr[i][k]
    /\ ~(k <= NDir) => Own[i][k] = IF ptr[i][NDir] = 0 THEN 0
                                   ELSE disk[ptr[i][NDir]][(k - 1) - NDir]

LEMMA OwnIs == OwnFacts
BY DEF OwnFacts, Own, Place, Indirect

LEMMA OwnIsNext == OwnFacts'
BY OwnIs, PTL

\* Logical blocks are at their places.
NumberFacts == \A i \in Inums, k \in Logical : BlockNumber(ptr[i], k) = Own[i][At(k)]

LEMMA NumberIs == NumberFacts
<1> SUFFICES ASSUME NEW i \in Inums, NEW k \in Logical
             PROVE  BlockNumber(ptr[i], k) = Own[i][At(k)]
  BY DEF NumberFacts
<1>1. At(k) \in Places
  BY PlaceFacts
<1>2. CASE k < NDir
  <2>1. At(k) = k /\ k <= NDir
    BY <1>2, PlaceFacts, IndexFacts
  <2> QED
    BY <1>1, <1>2, <2>1, OwnIs DEF OwnFacts, BlockNumber
<1>3. CASE k >= NDir
  <2>1. ~(k < NDir) /\ ~(At(k) <= NDir) /\ At(k) - 1 = k
    BY <1>3, PlaceFacts, IndexFacts
  <2> QED
    BY <1>1, <2>1, OwnIs DEF OwnFacts, BlockNumber, Indirect
<1> QED
  BY <1>2, <1>3, IndexFacts

LEMMA NumberIsNext == NumberFacts'
BY NumberIs, PTL

OwnTyped == StateTypes => \A i \in Inums, k \in Places : Own[i][k] \in 0..NumBlocks

LEMMA OwnTypes == OwnTyped
<1> SUFFICES ASSUME StateTypes, NEW i \in Inums, NEW k \in Places
             PROVE  Own[i][k] \in 0..NumBlocks
  BY DEF OwnTyped
<1>0. TypeOK /\ ptr[i] \in Pointers
  BY DEF StateTypes
<1>1. CASE k <= NDir
  <2>1. k \in 0..NDir /\ Own[i][k] = ptr[i][k]
    BY <1>1, PlaceFacts, OwnIs DEF OwnFacts
  <2> QED
    BY <1>0, <2>1 DEF Pointers
<1>2. CASE ~(k <= NDir)
  <2>1. k - 1 \in Logical /\ Own[i][k] = BlockNumber(ptr[i], k - 1)
    BY <1>2, PlaceFacts, NumberIs DEF NumberFacts
  <2> QED
    BY <1>0, <2>1, NumberTypes
<1> QED
  BY <1>1, <1>2

\* The blocks of the inodes in L, as InodeBlocks defines them.
OwnersAgree == StateTypes => \A L \in SUBSET Inums : BlocksOf(ptr, L) = Had(Own, L)

LEMMA Owners == OwnersAgree
<1> SUFFICES ASSUME StateTypes, NEW L \in SUBSET Inums
             PROVE  BlocksOf(ptr, L) = Had(Own, L)
  BY DEF OwnersAgree
<1>1. ASSUME NEW i \in L, NEW k \in 0..NDir, ptr[i][k] # 0
      PROVE  ptr[i][k] \in Had(Own, L)
  <2>1. k \in Places /\ Own[i][k] = ptr[i][k] /\ Own[i][k] \in 0..NumBlocks
    <3>1. k \in Places /\ k <= NDir /\ i \in Inums
      BY PlaceFacts, IndexFacts
    <3> QED
      BY <3>1, OwnIs, OwnTypes DEF OwnFacts, OwnTyped
  <2> QED
    BY <1>1, <2>1, BlockFacts DEF Had
<1>2. ASSUME NEW i \in L, NEW k \in NDir..(NumLogical - 1), Indirect(ptr[i], k) # 0
      PROVE  Indirect(ptr[i], k) \in Had(Own, L)
  <2>1. k \in Logical /\ ~(k < NDir) /\ i \in Inums
    BY IndexFacts DEF Logical
  <2>2. At(k) \in Places /\ Own[i][At(k)] = Indirect(ptr[i], k) /\ Own[i][At(k)] \in 0..NumBlocks
    BY <2>1, PlaceFacts, NumberIs, OwnTypes DEF NumberFacts, OwnTyped, BlockNumber
  <2> QED
    BY <1>2, <2>2, BlockFacts DEF Had
<1>3. ASSUME NEW b \in BlocksOf(ptr, L)
      PROVE  b \in Had(Own, L)
  <2>1. PICK i \in L : b \in {ptr[i][k] : k \in 0..NDir} \cup IndirectBlocks(ptr[i]) /\ b # 0
    BY DEF BlocksOf
  <2>2. \/ \E k \in 0..NDir : b = ptr[i][k]
        \/ \E k \in NDir..(NumLogical - 1) : b = Indirect(ptr[i], k)
    BY <2>1, IndexFacts DEF IndirectBlocks
  <2> QED
    BY <1>1, <1>2, <2>1, <2>2
<1>4. ASSUME NEW b \in Had(Own, L)
      PROVE  b \in BlocksOf(ptr, L)
  <2>1. PICK i \in L, k \in Places : Own[i][k] = b
    BY DEF Had
  <2>2. b # 0 /\ i \in Inums
    BY BlockFacts DEF Had
  <2>3. CASE k <= NDir
    <3>1. k \in 0..NDir /\ b = ptr[i][k]
      BY <2>1, <2>2, <2>3, PlaceFacts, OwnIs DEF OwnFacts
    <3> QED
      BY <2>2, <3>1 DEF BlocksOf
  <2>4. CASE ~(k <= NDir)
    <3>1. k - 1 \in Logical /\ k - 1 >= NDir /\ At(k - 1) = k
      BY <2>4, PlaceFacts
    <3>2. PICK l \in Logical : l = k - 1
      BY <3>1
    <3>3. l \in NDir..(NumLogical - 1) /\ ~(l < NDir)
      BY <3>1, <3>2, IndexFacts DEF Logical
    <3>4. b = Indirect(ptr[i], l)
      BY <2>1, <2>2, <3>1, <3>2, <3>3, NumberIs DEF NumberFacts, BlockNumber
    <3>5. b \in IndirectBlocks(ptr[i])
      BY <2>2, <3>3, <3>4 DEF IndirectBlocks
    <3> QED
      BY <2>2, <3>5 DEF BlocksOf
  <2> QED
    BY <2>3, <2>4
<1> QED
  BY <1>3, <1>4

LEMMA OwnersNext == OwnersAgree'
BY Owners, PTL

LEMMA OwnTypesNext == OwnTyped'
BY OwnTypes, PTL

\* A block that nobody had goes to a place that had none.
Gains(O, Q, L, i, k, b) ==
  /\ i \in L /\ k \in Places /\ b \in Blocks /\ b \notin Had(O, L)
  /\ O[i][k] = 0 /\ Q[i][k] = b
  /\ \A j \in L, l \in Places : j # i \/ l # k => Q[j][l] = O[j][l]

LEMMA AddOwner ==
  ASSUME NEW O, NEW Q, NEW L, NEW i, NEW k, NEW b, Exclusive(O, L), Gains(O, Q, L, i, k, b)
  PROVE  Exclusive(Q, L) /\ Had(Q, L) = Had(O, L) \cup {b}
<1>1. \A j \in L, l \in Places : O[j][l] # b
  BY DEF Had, Gains
<1>2. Exclusive(Q, L)
  BY <1>1 DEF Exclusive, Gains
<1>3. 0 \notin Blocks
  BY BlockFacts
<1> QED
  BY <1>2, <1>3 DEF Had, Gains

\* A block has one owner.
LEMMA OneOwner ==
  ASSUME NEW O, NEW L, Exclusive(O, L), NEW i \in L, NEW j \in L, NEW k \in Places, NEW l \in Places,
         O[i][k] # 0, O[i][k] = O[j][l]
  PROVE  i = j /\ k = l
BY DEF Exclusive

\* Nothing changes.
LEMMA SameOwners ==
  ASSUME NEW O, NEW Q, NEW L, Exclusive(O, L),
         \A j \in L, l \in Places : Q[j][l] = O[j][l]
  PROVE  Exclusive(Q, L) /\ Had(Q, L) = Had(O, L)
BY DEF Exclusive, Had

\* Inodes and blocks are forgotten.
LEMMA FewerOwners ==
  ASSUME NEW O, NEW Q, NEW L, NEW M, M \subseteq L, Exclusive(O, L),
         \A j \in M, l \in Places : Q[j][l] \in {0, O[j][l]}
  PROVE  Exclusive(Q, M) /\ Had(Q, M) \subseteq Had(O, L)
<1>1. Exclusive(Q, M)
  BY DEF Exclusive
<1>2. 0 \notin Blocks
  BY BlockFacts
<1> QED
  BY <1>1, <1>2 DEF Had

-----------------------------------------------------------------------------
(* The invariant, of states in which no file has been corrupted. *)

\* The free list is well formed.
ListOK == \E H, S : Lists(H, S)

\* The blocks in use are those of the live inodes, the lost ones and those of the call,
\* and no block is of two kinds.
Accounted ==
  /\ held = Had(Own, live) \cup lost \cup InFlight
  /\ Had(Own, live) \cap (lost \cup InFlight) = {}
  /\ lost \cap InFlight = {}

\* A call that links a block holds the index with the block in a word that is 0 on the
\* disk; one that frees has no block twice in front of it.
CallOK ==
  /\ call.op \in {"write", "link"} => call.i \in live
  /\ call.op = "link" =>
       /\ call.k >= NDir
       /\ Own[call.i][NDir] # 0 /\ Own[call.i][At(call.k)] = 0
       /\ call.index[call.k - NDir] # 0
       /\ call.index = [disk[Own[call.i][NDir]] EXCEPT ![call.k - NDir] = call.index[call.k - NDir]]
  /\ call.op = "free" =>
       /\ call.i \notin live
       /\ \A k, l \in call.k..(NDir - 1) :
            ptr[call.i][k] # 0 /\ ptr[call.i][k] = ptr[call.i][l] => k = l

\* Unless a deallocation waits to be saved, a pointer on the disk is 0 or the current one.
SavedOK ==
  ~doomed => \A i \in saved.live : i \in live /\ \A k \in 0..NDir : saved.ptr[i][k] \in {0, ptr[i][k]}

\* The call writes block k of inode i.
Busy(i, k) == call.op \in {"write", "link"} /\ call.i = i /\ call.k = k

\* A hole was never written, and every other block but the busy one has what was.
ReadOK ==
  /\ \A i \in live, k \in Logical :
       /\ Own[i][At(k)] = 0 => written[i][k] = ZeroBlock
       /\ Own[i][At(k)] # 0 => Busy(i, k) \/ disk[Own[i][At(k)]] = written[i][k]
  /\ \A i \in Inums \ live : written[i] = Nothing

Sound == ListOK /\ Exclusive(Own, live) /\ Accounted /\ CallOK /\ SavedOK /\ ReadOK

\* The inductive invariant.
InodesInv == StateTypes /\ (Healthy => Sound)

-----------------------------------------------------------------------------
(* What the steps of the list do to the blocks in use: nothing. *)

LEMMA AllocateStep ==
  ASSUME Faults = {}, TypeOK, ListOK, AllocateBlock
  PROVE  /\ ListOK' /\ Allocated \in Blocks \ held /\ held' = held \cup {Allocated}
         /\ \A b \in held \cup {Allocated} : disk'[b] = disk[b]
<1>1. PICK H, S : Lists(H, S)
  BY DEF ListOK
<1>2. /\ TypeOK' /\ Allocated \in Blocks /\ held' = held \cup {Allocated}
      /\ head # 0 /\ held \subseteq Blocks
  BY AllocateTypes DEF AllocateBlock, TypeOK
<1>3. head \in H /\ H \in SUBSET Blocks /\ S \in SUBSET Blocks /\ H \cap held = {}
  BY <1>1, <1>2, ListsFacts
<1>4. CASE UsedSlots(head) = {} /\ Allocated = head /\ disk' = disk /\ TakeNode
  <2>1. PICK G : G = H \ {head}
    OBVIOUS
  <2>2. Lists(G, G)'
    BY <1>1, <1>2, <1>4, <2>1, TakeNodeInv
  <2> QED
    BY <1>2, <1>3, <1>4, <2>2 DEF ListOK
<1>5. CASE \E w \in Slots : /\ First(w, UsedSlots(head)) /\ TakeSlot(w)
                            /\ Allocated = disk[head][w]
  <2>1. PICK w \in Slots : First(w, UsedSlots(head)) /\ TakeSlot(w) /\ Allocated = disk[head][w]
    BY <1>5
  <2>2. Lists(H, S)'
    BY <1>1, <1>2, <2>1, TakeSlotInv
  <2>3. Allocated \in Blocks \ (H \cup S \cup held)
    BY <1>1, <1>2, <1>3, <2>1, BlockFacts DEF Lists, Tidy
  <2>4. disk' = [disk EXCEPT ![head][w] = 0]
    BY <2>1 DEF TakeSlot
  <2>5. \A b \in Blocks : b # head => disk'[b] = disk[b]
    BY <2>4 DEF TypeOK
  <2> QED
    BY <1>2, <1>3, <2>2, <2>3, <2>5 DEF ListOK
<1> QED
  BY <1>4, <1>5, AllocateTypes

LEMMA FreeStep ==
  ASSUME Faults = {}, TypeOK, ListOK, NEW b \in held, FreeBlock(b)
  PROVE  /\ ListOK' /\ held' = held \ {b}
         /\ \A c \in held : c # b => disk'[c] = disk[c]
<1>1. PICK H, S : Lists(H, S)
  BY DEF ListOK
<1>2. ListOK' /\ held' = held \ {b} /\ held \subseteq Blocks /\ b \in Blocks
  <2>1. ListOK' /\ held \subseteq Blocks /\ b \in Blocks
    BY <1>1, FreeBlockInv DEF IInv, ListOK, TypeOK
  <2>2. held' = held \ {b}
    BY DEF FreeBlock, FreeFirst, FreeIntoSlot, FreeAppend
  <2> QED
    BY <2>1, <2>2
<1>3. H \in SUBSET Blocks /\ H \cap held = {} /\ Nodes(head) = H
  BY <1>1, ListsFacts
<1>4. CASE FreeFirst(b)
  <2>1. disk' = [disk EXCEPT ![b] = ZeroBlock]
    BY <1>4 DEF FreeFirst
  <2> QED
    BY <1>2, <2>1, BlockZeroed
<1>5. CASE FreeIntoSlot(b)
  <2>1. PICK k \in 0..NumBlocks, w \in Slots :
               Node(head)[k] # 0 /\ disk' = [disk EXCEPT ![Node(head)[k]][w] = b]
    BY <1>5 DEF FreeIntoSlot
  <2>2. PICK n : n = Node(head)[k]
    OBVIOUS
  <2>3. n \in H
    BY <1>3, <2>1, <2>2 DEF Nodes
  <2>4. disk' = [disk EXCEPT ![n][w] = b]
    BY <2>1, <2>2
  <2> QED
    BY <1>2, <1>3, <2>3, <2>4 DEF TypeOK
<1>6. CASE FreeAppend(b)
  <2>1. PICK n \in Blocks : LastNode(n) /\ disk' = [disk EXCEPT ![n][0] = b, ![b] = ZeroBlock]
    BY <1>6 DEF FreeAppend
  <2>2. n \in H
    BY <1>3, <2>1 DEF LastNode
  <2> QED
    BY <1>2, <1>3, <2>1, <2>2 DEF TypeOK
<1> QED
  BY <1>2, <1>4, <1>5, <1>6 DEF FreeBlock

\* A block in use is written.
LEMMA WriteStep ==
  ASSUME TypeOK, ListOK, TypeOK', head' = head, sb_head' = sb_head, held' = held,
         \A b \in Blocks \ held : disk'[b] = disk[b]
  PROVE  ListOK' /\ Offered(head)' = Offered(head) /\ Offered(sb_head)' = Offered(sb_head)
<1>1. PICK H, S : Lists(H, S)
  BY DEF ListOK
<1>2. H \in SUBSET Blocks /\ S \in SUBSET Blocks /\ H \cap held = {} /\ S \cap held = {}
  BY <1>1, ListsFacts
<1>3. \A n \in H \cup S : disk'[n] = disk[n]
  BY <1>2
<1>4. disk' \in [Blocks -> [0..(Words - 1) -> 0..NumBlocks]] /\ held' \subseteq held
  BY DEF TypeOK
<1>5. Lists(H, S)'
  BY <1>1, <1>3, <1>4, SameListsInv
<1>6. Offered(head)' = Offered(head) /\ Offered(sb_head)' = Offered(sb_head)
  BY <1>1, <1>3, <1>5, SamePool
<1> QED
  BY <1>5, <1>6 DEF ListOK

-----------------------------------------------------------------------------
(* Facts for the steps of the calls. *)

\* An inode whose pointers and index block are not written keeps its places.
LEMMA KeepPlaces ==
  ASSUME NEW j \in Inums, ptr'[j] = ptr[j],
         ptr[j][NDir] = 0 \/ disk'[ptr[j][NDir]] = disk[ptr[j][NDir]]
  PROVE  \A l \in Places : Own'[j][l] = Own[j][l]
BY OwnIs, OwnIsNext DEF OwnFacts

\* The blocks of live inodes are in use.
LEMMA OwnedAreHeld ==
  ASSUME StateTypes, Accounted
  PROVE  \A j \in live, l \in Places : Own[j][l] # 0 => Own[j][l] \in Had(Own, live) /\ Own[j][l] \in held
<1>1. ASSUME NEW j \in live, NEW l \in Places, Own[j][l] # 0
      PROVE  Own[j][l] \in Had(Own, live)
  <2>1. j \in Inums
    BY DEF StateTypes
  <2>2. Own[j][l] \in Blocks
    BY <1>1, <2>1, OwnTypes, BlockFacts DEF OwnTyped
  <2> QED
    BY <2>2 DEF Had
<1> QED
  BY <1>1 DEF Accounted

\* A step that does not write the pointers nor the index of a live inode keeps its places.
LEMMA KeepOthers ==
  ASSUME StateTypes, Accounted, NEW j \in live, ptr'[j] = ptr[j],
         Own[j][NDir] \in held => disk'[Own[j][NDir]] = disk[Own[j][NDir]]
  PROVE  \A l \in Places : Own'[j][l] = Own[j][l]
<1>1. j \in Inums /\ NDir \in Places /\ NDir <= NDir
  BY PlaceFacts, IndexFacts DEF StateTypes
<1>2. Own[j][NDir] = ptr[j][NDir]
  BY <1>1, OwnIs DEF OwnFacts
<1>3. ptr[j][NDir] = 0 \/ disk'[ptr[j][NDir]] = disk[ptr[j][NDir]]
  BY <1>1, <1>2, OwnedAreHeld
<1> QED
  BY <1>1, <1>3, KeepPlaces

LEMMA WritingCall ==
  ASSUME NEW i, NEW k, NEW x, Writing(i, k, x), CallOK
  PROVE  /\ i \in live /\ InFlight = {}
         /\ \A j, l : Busy(j, l) => j = i /\ l = k
<1>1. CASE call = Idle /\ i \in live
  BY <1>1 DEF Idle, InFlight, Busy
<1>2. CASE call = [op |-> "write", i |-> i, k |-> k, x |-> x]
  BY <1>2 DEF CallOK, InFlight, Busy
<1> QED
  BY <1>1, <1>2 DEF Writing

LEMMA ContinueCall ==
  ASSUME NEW i, NEW k, NEW x, Continue(i, k, x), i \in live'
  PROVE  /\ InFlight' = {} /\ CallOK'
         /\ \A j, l : Busy(j, l)' <=> j = i /\ l = k
BY DEF Continue, InFlight, CallOK, Busy

LEMMA IdleCall ==
  ASSUME call' = Idle
  PROVE  InFlight' = {} /\ CallOK' /\ \A j, l : ~Busy(j, l)'
BY DEF Idle, InFlight, CallOK, Busy

LEMMA IdleNow ==
  ASSUME call = Idle
  PROVE  InFlight = {} /\ \A j, l : ~Busy(j, l)
BY DEF Idle, InFlight, Busy

\* What only looks at the pointers of live inodes.
LEMMA KeepSaved ==
  ASSUME SavedOK, saved' = saved, live \subseteq live', doomed' = doomed,
         \A j \in live, l \in 0..NDir : ptr'[j][l] = ptr[j][l] \/ ptr[j][l] = 0
  PROVE  SavedOK'
BY DEF SavedOK

\* The contents and the history of blocks that are not written.
LEMMA KeepReads ==
  ASSUME StateTypes, ReadOK, Accounted, live' = live, written' = written,
         NEW i, NEW k,
         \A j \in live, l \in Logical :
            j # i \/ l # k => /\ Own'[j][At(l)] = Own[j][At(l)]
                              /\ Own[j][At(l)] # 0 => disk'[Own[j][At(l)]] = disk[Own[j][At(l)]]
                              /\ Busy(j, l) => Busy(j, l)',
         i \in live /\ k \in Logical =>
            /\ Own'[i][At(k)] = 0 => Own[i][At(k)] = 0
            /\ Own'[i][At(k)] # 0 => Busy(i, k)'
  PROVE  ReadOK'
<1>1. ASSUME NEW j \in live, NEW l \in Logical
      PROVE  /\ Own'[j][At(l)] = 0 => written[j][l] = ZeroBlock
             /\ Own'[j][At(l)] # 0 => Busy(j, l)' \/ disk'[Own'[j][At(l)]] = written[j][l]
  <2>1. CASE j # i \/ l # k
    BY <2>1 DEF ReadOK
  <2>2. CASE j = i /\ l = k
    BY <2>2 DEF ReadOK
  <2> QED
    BY <2>1, <2>2
<1>2. \A j \in Inums \ live' : written'[j] = Nothing
  BY DEF ReadOK
<1> QED
  BY <1>1, <1>2 DEF ReadOK

\* A block goes to a direct place or to the place of the index, empty before.
LEMMA PutPointer ==
  ASSUME Faults = {}, StateTypes, Sound, NEW i \in live, NEW m \in 0..NDir, AllocateBlock,
         ptr[i][m] = 0, ptr' = [ptr EXCEPT ![i][m] = Allocated],
         m = NDir => disk[Allocated] = ZeroBlock
  PROVE  /\ Own'[i][m] = Allocated /\ Own[i][m] = 0
         /\ \A j \in live, l \in Places : j # i \/ l # m => Own'[j][l] = Own[j][l]
         /\ \A j \in live, l \in 0..NDir : ptr'[j][l] = ptr[j][l] \/ ptr[j][l] = 0
<1>1. TypeOK /\ ListOK /\ Accounted /\ i \in Inums /\ ptr \in [Inums -> Pointers]
  BY DEF StateTypes, Sound
<1>2. /\ Allocated \in Blocks \ held
      /\ \A b \in held \cup {Allocated} : disk'[b] = disk[b]
  BY <1>1, AllocateStep
<1>3. m \in Places /\ m <= NDir /\ NDir \in Places /\ NDir <= NDir /\ NDir \in 0..NDir
  BY PlaceFacts, IndexFacts
<1>4. /\ \A j \in Inums : j # i => ptr'[j] = ptr[j]
      /\ \A l \in 0..NDir : l # m => ptr'[i][l] = ptr[i][l]
      /\ ptr'[i][m] = Allocated
  BY <1>1 DEF Pointers
<1>5. Own'[i][m] = Allocated /\ Own[i][m] = 0
  BY <1>1, <1>3, <1>4, OwnIs, OwnIsNext DEF OwnFacts
<1>6. ASSUME NEW j \in live, j # i, NEW l \in Places
      PROVE  Own'[j][l] = Own[j][l]
  <2>1. ptr'[j] = ptr[j]
    BY <1>4, <1>6 DEF StateTypes
  <2>2. Own[j][NDir] \in held => disk'[Own[j][NDir]] = disk[Own[j][NDir]]
    BY <1>2
  <2> QED
    BY <1>1, <2>1, <2>2, KeepOthers
<1>7. ASSUME NEW l \in Places, l # m
      PROVE  Own'[i][l] = Own[i][l]
  <2>1. CASE l <= NDir
    <3>1. l \in 0..NDir
      BY <2>1, PlaceFacts
    <3> QED
      BY <1>1, <1>4, <1>7, <2>1, <3>1, OwnIs, OwnIsNext DEF OwnFacts
  <2>2. CASE ~(l <= NDir) /\ m # NDir
    <3>1. ptr'[i][NDir] = ptr[i][NDir]
      BY <1>3, <1>4, <2>2
    <3>2. Own[i][NDir] = ptr[i][NDir]
      BY <1>1, <1>3, OwnIs DEF OwnFacts
    <3>3. ptr[i][NDir] # 0 => disk'[ptr[i][NDir]] = disk[ptr[i][NDir]]
      BY <1>1, <1>2, <1>3, <3>2, OwnedAreHeld
    <3> QED
      BY <1>1, <2>2, <3>1, <3>3, OwnIs, OwnIsNext DEF OwnFacts
  <2>3. CASE ~(l <= NDir) /\ m = NDir
    <3>1. Own[i][l] = 0
      BY <1>1, <2>3, OwnIs DEF OwnFacts
    <3>2. disk'[Allocated] = ZeroBlock /\ (l - 1) - NDir \in 0..(Words - 1)
      BY <1>2, <2>3, PlaceFacts
    <3>3. ZeroBlock[(l - 1) - NDir] = 0
      BY <3>2 DEF ZeroBlock, Fill
    <3>4. Own'[i][l] = disk'[Allocated][(l - 1) - NDir] \/ Own'[i][l] = 0
      BY <1>1, <1>4, <2>3, OwnIsNext DEF OwnFacts
    <3> QED
      BY <3>1, <3>2, <3>3, <3>4
  <2> QED
    BY <2>1, <2>2, <2>3, Zenon
<1>8. ASSUME NEW j \in live, NEW l \in 0..NDir
      PROVE  ptr'[j][l] = ptr[j][l] \/ ptr[j][l] = 0
  <2>1. j \in Inums
    BY DEF StateTypes
  <2> QED
    BY <1>4, <2>1
<1> QED
  BY <1>5, <1>6, <1>7, <1>8

\* sfs_fs_inode_block_write() stores a new block in the inode.
LEMMA PutSound ==
  ASSUME Faults = {}, StateTypes, Sound, NEW i \in Inums, NEW k \in Logical, NEW x \in Patterns,
         Writing(i, k, x), NEW m \in 0..NDir, AllocateBlock,
         ptr[i][m] = 0, ptr' = [ptr EXCEPT ![i][m] = Allocated],
         m = NDir => disk[Allocated] = ZeroBlock,
         m # NDir => At(k) = m,
         Continue(i, k, x), UNCHANGED <<live, saved, written, lost, doomed>>
  PROVE  Sound'
<1>1. /\ TypeOK /\ ListOK /\ Exclusive(Own, live) /\ Accounted /\ CallOK /\ SavedOK /\ ReadOK
      /\ live' = live /\ saved' = saved /\ written' = written /\ lost' = lost /\ doomed' = doomed
  BY DEF StateTypes, Sound
<1>2. /\ ListOK' /\ Allocated \in Blocks \ held /\ held' = held \cup {Allocated}
      /\ \A b \in held \cup {Allocated} : disk'[b] = disk[b]
  BY <1>1, AllocateStep
<1>3. i \in live /\ InFlight = {} /\ \A j, l : Busy(j, l) => j = i /\ l = k
  BY <1>1, WritingCall
<1>4. InFlight' = {} /\ CallOK' /\ \A j, l : Busy(j, l)' <=> j = i /\ l = k
  BY <1>1, <1>3, ContinueCall
<1>5. /\ Own'[i][m] = Allocated /\ Own[i][m] = 0
      /\ \A j \in live, l \in Places : j # i \/ l # m => Own'[j][l] = Own[j][l]
      /\ \A j \in live, l \in 0..NDir : ptr'[j][l] = ptr[j][l] \/ ptr[j][l] = 0
  BY <1>3, PutPointer
<1>6. m \in Places /\ Allocated \notin Had(Own, live)
  BY <1>1, <1>2, PlaceFacts DEF Accounted
<1>7. Exclusive(Own', live) /\ Had(Own', live) = Had(Own, live) \cup {Allocated}
  <2>1. Gains(Own, Own', live, i, m, Allocated)
    BY <1>2, <1>3, <1>5, <1>6 DEF Gains
  <2> QED
    BY <1>1, <2>1, AddOwner
<1>8. Accounted'
  BY <1>1, <1>2, <1>3, <1>4, <1>7 DEF Accounted
<1>9. SavedOK'
  BY <1>1, <1>5, KeepSaved
<1>10. ReadOK'
  <2>1. ASSUME NEW j \in live, NEW l \in Logical, j # i \/ l # k
        PROVE  /\ Own'[j][At(l)] = Own[j][At(l)]
               /\ Own[j][At(l)] # 0 => disk'[Own[j][At(l)]] = disk[Own[j][At(l)]]
               /\ Busy(j, l) => Busy(j, l)'
    <3>1. At(l) \in Places /\ (j # i \/ At(l) # m)
      BY <2>1, PlaceFacts
    <3>2. Own[j][At(l)] # 0 => Own[j][At(l)] \in held
      BY <1>1, <3>1, OwnedAreHeld
    <3> QED
      BY <1>2, <1>3, <1>5, <2>1, <3>1, <3>2
  <2>2. /\ Own'[i][At(k)] = 0 => Own[i][At(k)] = 0
        /\ Own'[i][At(k)] # 0 => Busy(i, k)'
    <3>1. At(k) \in Places
      BY PlaceFacts
    <3>2. At(k) # m => Own'[i][At(k)] = Own[i][At(k)]
      BY <1>3, <1>5, <3>1
    <3> QED
      BY <1>4, <1>5, <3>2
  <2> QED
    BY <1>1, <2>1, <2>2, KeepReads
<1> QED
  BY <1>1, <1>2, <1>4, <1>7, <1>8, <1>9, <1>10 DEF Sound

LEMMA DirectSound ==
  ASSUME Faults = {}, StateTypes, Sound, NEW i \in Inums, NEW k \in Logical, NEW x \in Patterns,
         AllocateDirect(i, k, x)
  PROVE  Sound'
<1>1. k \in 0..NDir /\ k # NDir /\ At(k) = k
  BY IndexFacts, PlaceFacts DEF AllocateDirect
<1> QED
  BY <1>1, PutSound DEF AllocateDirect, history

LEMMA IndexSound ==
  ASSUME Faults = {}, StateTypes, Sound, NEW i \in Inums, NEW k \in Logical, NEW x \in Patterns,
         AllocateIndex(i, k, x), Healthy'
  PROVE  Sound'
<1>1. NDir \in 0..NDir
  BY IndexFacts
<1>2. disk[Allocated] = ZeroBlock
  BY Zenon DEF AllocateIndex, Healthy
<1> QED
  BY <1>1, <1>2, PutSound DEF AllocateIndex

\* read_from_indirect() takes a block for a hole in the index.
LEMMA LinkSound ==
  ASSUME Faults = {}, StateTypes, Sound, NEW i \in Inums, NEW k \in Logical, NEW x \in Patterns,
         AllocateLink(i, k, x)
  PROVE  Sound'
<1>1. /\ TypeOK /\ ListOK /\ Exclusive(Own, live) /\ Accounted /\ CallOK /\ SavedOK /\ ReadOK
      /\ ptr' = ptr /\ live' = live /\ saved' = saved /\ written' = written /\ lost' = lost
      /\ doomed' = doomed /\ live \subseteq Inums
  BY DEF StateTypes, Sound, AllocateLink, history
<1>2. /\ ListOK' /\ Allocated \in Blocks \ held /\ held' = held \cup {Allocated}
      /\ \A b \in held \cup {Allocated} : disk'[b] = disk[b]
  BY <1>1, AllocateStep DEF AllocateLink
<1>3. i \in live /\ InFlight = {} /\ \A j, l : Busy(j, l) => j = i /\ l = k
  BY <1>1, WritingCall DEF AllocateLink
<1>4. ASSUME NEW j \in live, NEW l \in Places
      PROVE  Own'[j][l] = Own[j][l]
  <2>1. ptr'[j] = ptr[j] /\ (Own[j][NDir] \in held => disk'[Own[j][NDir]] = disk[Own[j][NDir]])
    BY <1>1, <1>2
  <2> QED
    BY <1>1, <2>1, KeepOthers
<1>5. Exclusive(Own', live) /\ Had(Own', live) = Had(Own, live)
  BY <1>1, <1>4, SameOwners
<1>6. /\ k >= NDir /\ ~(k < NDir) /\ k - NDir \in 0..(Words - 1) /\ At(k) \in Places
      /\ NDir \in Places /\ NDir <= NDir
  BY IndexFacts, PlaceFacts DEF AllocateLink
<1>7. /\ Own[i][NDir] = ptr[i][NDir] /\ Own[i][NDir] # 0 /\ Own[i][At(k)] = 0
      /\ Own[i][NDir] \in held /\ Own[i][NDir] \in Blocks
  <2>1. Own[i][NDir] = ptr[i][NDir] /\ Own[i][NDir] # 0
    BY <1>6, OwnIs DEF OwnFacts, AllocateLink
  <2>2. Own[i][At(k)] = 0
    BY <1>6, NumberIs DEF NumberFacts, BlockNumber, AllocateLink
  <2>3. Own[i][NDir] \in held
    BY <1>1, <1>3, <1>6, <2>1, OwnedAreHeld
  <2> QED
    BY <1>1, <2>1, <2>2, <2>3 DEF TypeOK
<1> DEFINE f == [disk[Own[i][NDir]] EXCEPT ![k - NDir] = Allocated]
<1>8. call' = [op |-> "link", i |-> i, k |-> k, x |-> x, index |-> f]
  BY <1>7 DEF AllocateLink
<1>9. f[k - NDir] = Allocated /\ f = [disk'[Own'[i][NDir]] EXCEPT ![k - NDir] = Allocated]
  <2>1. disk[Own[i][NDir]] \in Contents
    BY <1>1, <1>7 DEF TypeOK, Contents
  <2>2. f[k - NDir] = Allocated
    BY <1>6, <2>1 DEF Contents
  <2>3. disk'[Own'[i][NDir]] = disk[Own[i][NDir]]
    BY <1>2, <1>3, <1>4, <1>6, <1>7
  <2> QED
    BY <2>2, <2>3
<1> HIDE DEF f
<1>10. /\ call'.op = "link" /\ call'.i = i /\ call'.k = k /\ call'.index = f
  BY <1>8
<1>11. InFlight' = {Allocated}
  BY <1>9, <1>10 DEF InFlight
<1>12. CallOK'
  <2>1. /\ Own'[i][NDir] # 0 /\ Own'[i][At(k)] = 0 /\ Allocated # 0
    BY <1>2, <1>3, <1>4, <1>6, <1>7, BlockFacts
  <2> QED
    BY <1>1, <1>3, <1>6, <1>9, <1>10, <2>1 DEF CallOK
<1>13. Accounted'
  BY <1>1, <1>2, <1>3, <1>5, <1>11 DEF Accounted
<1>14. SavedOK'
  BY <1>1, KeepSaved
<1>15. ReadOK'
  <2>1. ASSUME NEW j \in live, NEW l \in Logical, j # i \/ l # k
        PROVE  /\ Own'[j][At(l)] = Own[j][At(l)]
               /\ Own[j][At(l)] # 0 => disk'[Own[j][At(l)]] = disk[Own[j][At(l)]]
               /\ Busy(j, l) => Busy(j, l)'
    <3>1. At(l) \in Places
      BY PlaceFacts
    <3>2. Own[j][At(l)] # 0 => Own[j][At(l)] \in held
      BY <1>1, <3>1, OwnedAreHeld
    <3> QED
      BY <1>2, <1>3, <1>4, <2>1, <3>1, <3>2
  <2>2. Busy(i, k)'
    BY <1>10 DEF Busy
  <2>3. Own'[i][At(k)] = 0 => Own[i][At(k)] = 0
    BY <1>7
  <2> QED
    BY <1>1, <2>1, <2>2, <2>3, KeepReads
<1> QED
  BY <1>1, <1>2, <1>5, <1>12, <1>13, <1>14, <1>15 DEF Sound

\* ... and writes the index.
LEMMA WriteIndexSound ==
  ASSUME StateTypes, StateTypes', Sound, WriteIndex
  PROVE  Sound'
<1>1. /\ TypeOK /\ TypeOK' /\ ListOK /\ Exclusive(Own, live) /\ Accounted /\ CallOK /\ SavedOK /\ ReadOK
      /\ head' = head /\ sb_head' = sb_head /\ held' = held
      /\ ptr' = ptr /\ live' = live /\ saved' = saved /\ written' = written /\ lost' = lost
      /\ doomed' = doomed /\ live \subseteq Inums
  BY DEF StateTypes, Sound, WriteIndex, history
<1>2. PICK i, k, x, f : i = call.i /\ k = call.k /\ x = call.x /\ f = call.index
  OBVIOUS
<1>3. call.op = "link" /\ i \in Inums /\ k \in Logical /\ x \in Patterns /\ f \in Contents
  BY <1>2, CallFields, SameTypes DEF WriteIndex, TypesAgree
<1>4. /\ i \in live /\ k >= NDir /\ Own[i][NDir] # 0 /\ Own[i][At(k)] = 0 /\ f[k - NDir] # 0
      /\ f = [disk[Own[i][NDir]] EXCEPT ![k - NDir] = f[k - NDir]]
  BY <1>1, <1>2, <1>3 DEF CallOK
<1>5. /\ At(k) \in Places /\ At(k) # NDir /\ ~(At(k) <= NDir) /\ At(k) - 1 = k
      /\ NDir \in Places /\ NDir <= NDir /\ k - NDir \in 0..(Words - 1)
  BY <1>3, <1>4, PlaceFacts, IndexFacts
<1>6. PICK n : n = Own[i][NDir]
  OBVIOUS
<1>7. n = ptr[i][NDir] /\ n # 0 /\ n \in held /\ n \in Blocks
  BY <1>1, <1>3, <1>4, <1>5, <1>6, OwnIs, OwnedAreHeld DEF OwnFacts, TypeOK
<1>8. disk' = [disk EXCEPT ![n] = f]
  BY <1>2, <1>7 DEF WriteIndex
<1>9. disk'[n] = f /\ \A b \in Blocks : b # n => disk'[b] = disk[b]
  BY <1>1, <1>7, <1>8 DEF TypeOK
<1>10. PICK b : b = f[k - NDir]
  OBVIOUS
<1>11. b \in Blocks /\ InFlight = {b}
  <2>1. b \in 0..NumBlocks
    BY <1>3, <1>5, <1>10 DEF Contents
  <2> QED
    BY <1>2, <1>3, <1>4, <1>10, <2>1, BlockFacts DEF InFlight
<1>12. ASSUME NEW j \in live, NEW l \in Places, j # i \/ l # At(k)
       PROVE  Own'[j][l] = Own[j][l]
  <2>1. CASE j # i
    <3>1. Own[j][NDir] # n
      BY <1>1, <1>4, <1>5, <1>6, <2>1 DEF Exclusive
    <3>2. Own[j][NDir] \in held => disk'[Own[j][NDir]] = disk[Own[j][NDir]]
      BY <1>1, <1>9, <3>1 DEF TypeOK
    <3>3. ptr'[j] = ptr[j]
      BY <1>1
    <3> QED
      BY <1>1, <3>2, <3>3, KeepOthers
  <2>2. CASE j = i /\ l <= NDir
    BY <1>1, <1>3, <2>2, OwnIs, OwnIsNext DEF OwnFacts
  <2>3. CASE j = i /\ ~(l <= NDir)
    <3>1. Own[i][l] = disk[n][(l - 1) - NDir] /\ Own'[i][l] = f[(l - 1) - NDir]
      <4>1. Own[i][l] = disk[n][(l - 1) - NDir]
        BY <1>3, <1>7, <2>3, OwnIs DEF OwnFacts
      <4>2. Own'[i][l] = disk'[n][(l - 1) - NDir]
        BY <1>1, <1>3, <1>7, <2>3, OwnIsNext DEF OwnFacts
      <4> QED
        BY <1>9, <4>1, <4>2
    <3>2. l - 1 \in Logical /\ At(l - 1) = l /\ (l - 1) - NDir \in 0..(Words - 1)
      BY <2>3, PlaceFacts
    <3>3. l - 1 # k
      BY <1>12, <2>3, <3>2
    <3>4. (l - 1) - NDir # k - NDir
      BY <1>3, <3>2, <3>3, IndexFacts
    <3>5. disk[n] \in Contents
      BY <1>1, <1>7 DEF TypeOK, Contents
    <3>6. f[(l - 1) - NDir] = disk[n][(l - 1) - NDir]
      <4>1. PICK v : v = (l - 1) - NDir
        OBVIOUS
      <4>2. PICK w : w = k - NDir
        OBVIOUS
      <4>3. f = [disk[n] EXCEPT ![w] = f[w]] /\ v # w /\ v \in 0..(Words - 1)
        BY <1>4, <1>6, <3>2, <3>4, <4>1, <4>2
      <4>4. f[v] = disk[n][v]
        BY <3>5, <4>3 DEF Contents
      <4> QED
        BY <4>1, <4>4
    <3> QED
      BY <2>3, <3>1, <3>6
  <2> QED
    BY <2>1, <2>2, <2>3
<1>13. Own'[i][At(k)] = b
  <2>1. Own'[i][At(k)] = disk'[n][k - NDir]
    BY <1>1, <1>3, <1>5, <1>7, OwnIsNext DEF OwnFacts
  <2> QED
    BY <1>9, <1>10, <2>1
<1>14. Exclusive(Own', live) /\ Had(Own', live) = Had(Own, live) \cup {b}
  <2>1. b \notin Had(Own, live)
    BY <1>1, <1>11 DEF Accounted
  <2>2. Gains(Own, Own', live, i, At(k), b)
    BY <1>4, <1>5, <1>11, <1>12, <1>13, <2>1 DEF Gains
  <2> QED
    BY <1>1, <2>2, AddOwner
<1>15. InFlight' = {} /\ CallOK' /\ \A j, l : Busy(j, l)' <=> j = i /\ l = k
  BY <1>1, <1>2, <1>4, ContinueCall DEF WriteIndex
<1>16. Accounted'
  BY <1>1, <1>11, <1>14, <1>15 DEF Accounted
<1>17. SavedOK'
  BY <1>1, KeepSaved
<1>18. ListOK'
  BY <1>1, <1>7, <1>9, WriteStep
<1>19. ReadOK'
  <2>1. ASSUME NEW j \in live, NEW l \in Logical, j # i \/ l # k
        PROVE  /\ Own'[j][At(l)] = Own[j][At(l)]
               /\ Own[j][At(l)] # 0 => disk'[Own[j][At(l)]] = disk[Own[j][At(l)]]
               /\ Busy(j, l) => Busy(j, l)'
    <3>1. At(l) \in Places /\ At(l) # NDir /\ (j # i \/ At(l) # At(k))
      BY <1>3, <2>1, PlaceFacts
    <3>2. Own[j][At(l)] # 0 => Own[j][At(l)] \in held /\ Own[j][At(l)] \in Blocks
      BY <1>1, <3>1, OwnedAreHeld DEF TypeOK
    <3>3. Own[j][At(l)] # n
      BY <1>1, <1>4, <1>5, <1>6, <3>1 DEF Exclusive
    <3>4. ~Busy(j, l)
      BY <1>2, <2>1 DEF Busy
    <3> QED
      BY <1>9, <1>12, <3>1, <3>2, <3>3, <3>4
  <2> QED
    BY <1>1, <1>4, <1>15, <2>1, KeepReads
<1> QED
  BY <1>1, <1>14, <1>15, <1>16, <1>17, <1>18, <1>19 DEF Sound

\* The call fails for want of a block, and leaves a hole.
LEMMA NoSpaceSound ==
  ASSUME StateTypes, StateTypes', Sound, NEW i \in Inums, NEW k \in Logical, NEW x \in Patterns,
         NoSpace(i, k, x)
  PROVE  Sound'
<1>1. /\ TypeOK /\ TypeOK' /\ ListOK /\ Exclusive(Own, live) /\ Accounted /\ CallOK /\ SavedOK /\ ReadOK
      /\ disk' = disk /\ head' = head /\ sb_head' = sb_head /\ held' = held
      /\ ptr' = ptr /\ live' = live /\ saved' = saved /\ written' = written /\ lost' = lost
      /\ doomed' = doomed /\ live \subseteq Inums
  BY DEF StateTypes, Sound, NoSpace, history, vars
<1>2. i \in live /\ InFlight = {} /\ \A j, l : Busy(j, l) => j = i /\ l = k
  BY <1>1, WritingCall DEF NoSpace
<1>3. InFlight' = {} /\ CallOK'
  BY IdleCall DEF NoSpace
<1>4. ASSUME NEW j \in live, NEW l \in Places
      PROVE  Own'[j][l] = Own[j][l]
  BY <1>1, KeepPlaces
<1>5. Exclusive(Own', live) /\ Had(Own', live) = Had(Own, live)
  BY <1>1, <1>4, SameOwners
<1>6. Own[i][At(k)] = 0 /\ At(k) \in Places
  BY NumberIs, PlaceFacts DEF NumberFacts, NoSpace
<1>7. ReadOK'
  <2>1. ASSUME NEW j \in live, NEW l \in Logical, j # i \/ l # k
        PROVE  /\ Own'[j][At(l)] = Own[j][At(l)]
               /\ Own[j][At(l)] # 0 => disk'[Own[j][At(l)]] = disk[Own[j][At(l)]]
               /\ Busy(j, l) => Busy(j, l)'
    <3>1. At(l) \in Places
      BY PlaceFacts
    <3> QED
      BY <1>1, <1>2, <1>4, <2>1, <3>1
  <2>2. Own'[i][At(k)] = 0
    BY <1>2, <1>4, <1>6
  <2> QED
    BY <1>1, <1>6, <2>1, <2>2, KeepReads
<1>8. Accounted' /\ SavedOK'
  BY <1>1, <1>2, <1>3, <1>5, KeepSaved DEF Accounted
<1>9. ListOK'
  BY <1>1, WriteStep
<1> QED
  BY <1>1, <1>3, <1>5, <1>7, <1>8, <1>9 DEF Sound

\* The data are written.
LEMMA WriteDataSound ==
  ASSUME StateTypes, StateTypes', Sound, NEW i \in Inums, NEW k \in Logical, NEW x \in Patterns,
         WriteData(i, k, x)
  PROVE  Sound'
<1>1. /\ TypeOK /\ TypeOK' /\ ListOK /\ Exclusive(Own, live) /\ Accounted /\ CallOK /\ SavedOK /\ ReadOK
      /\ head' = head /\ sb_head' = sb_head /\ held' = held
      /\ ptr' = ptr /\ live' = live /\ saved' = saved /\ lost' = lost
      /\ doomed' = doomed /\ live \subseteq Inums
  BY DEF StateTypes, Sound, WriteData
<1>2. i \in live /\ InFlight = {} /\ \A j, l : Busy(j, l) => j = i /\ l = k
  BY <1>1, WritingCall DEF WriteData
<1>3. InFlight' = {} /\ CallOK' /\ \A j, l : ~Busy(j, l)'
  BY IdleCall DEF WriteData
<1>4. PICK n : n = Own[i][At(k)]
  OBVIOUS
<1>5. At(k) \in Places /\ At(k) # NDir /\ NDir \in Places
  BY PlaceFacts
<1>6. n = BlockNumber(ptr[i], k) /\ n # 0
  BY <1>4, NumberIs, BlockFacts DEF NumberFacts, WriteData
<1>7. n \in held /\ n \in Blocks
  BY <1>1, <1>2, <1>4, <1>5, <1>6, OwnedAreHeld DEF TypeOK
<1>8. disk' = [disk EXCEPT ![n] = Fill(x)]
  BY <1>6 DEF WriteData
<1>9. disk'[n] = Fill(x) /\ \A b \in Blocks : b # n => disk'[b] = disk[b]
  BY <1>1, <1>7, <1>8 DEF TypeOK
<1>10. ASSUME NEW j \in live, NEW l \in Places
       PROVE  Own'[j][l] = Own[j][l]
  <2>1. Own[j][NDir] # n
    <3>1. Exclusive(Own, live) /\ i \in live /\ Own[i][At(k)] = n /\ n # 0
      BY <1>1, <1>2, <1>4, <1>6
    <3> QED
      BY <1>5, <3>1 DEF Exclusive
  <2>2. Own[j][NDir] \in held => disk'[Own[j][NDir]] = disk[Own[j][NDir]]
    BY <1>1, <1>9, <2>1 DEF TypeOK
  <2>3. ptr'[j] = ptr[j]
    BY <1>1
  <2> QED
    BY <1>1, <2>2, <2>3, KeepOthers
<1>11. Exclusive(Own', live) /\ Had(Own', live) = Had(Own, live)
  BY <1>1, <1>10, SameOwners
<1>12. Accounted' /\ SavedOK'
  BY <1>1, <1>2, <1>3, <1>11, KeepSaved DEF Accounted
<1>13. ListOK'
  BY <1>1, <1>7, <1>9, WriteStep
<1>14. /\ written'[i][k] = Fill(x)
       /\ \A j \in Inums, l \in Logical : j # i \/ l # k => written'[j][l] = written[j][l]
       /\ \A j \in Inums : j # i => written'[j] = written[j]
  BY DEF WriteData, StateTypes
<1>15. ReadOK'
  <2>1. ASSUME NEW j \in live, NEW l \in Logical
        PROVE  /\ Own'[j][At(l)] = 0 => written'[j][l] = ZeroBlock
               /\ Own'[j][At(l)] # 0 => disk'[Own'[j][At(l)]] = written'[j][l]
    <3>1. At(l) \in Places /\ Own'[j][At(l)] = Own[j][At(l)]
      BY <1>10, PlaceFacts
    <3>2. CASE j = i /\ l = k
      BY <1>4, <1>6, <1>9, <1>14, <3>1, <3>2
    <3>3. CASE j # i \/ l # k
      <4>1. At(l) # At(k) \/ j # i
        BY <3>3, PlaceFacts
      <4>2. Own[j][At(l)] # n
        <5>1. Exclusive(Own, live) /\ i \in live /\ Own[i][At(k)] = n /\ n # 0
          BY <1>1, <1>2, <1>4, <1>6
        <5> QED
          BY <1>5, <3>1, <4>1, <5>1 DEF Exclusive
      <4>3. Own[j][At(l)] # 0 => Own[j][At(l)] \in Blocks
        BY <1>1, <3>1, OwnedAreHeld DEF TypeOK
      <4>4. written'[j][l] = written[j][l] /\ ~Busy(j, l)
        BY <1>1, <1>2, <1>14, <3>3
      <4>5. /\ Own[j][At(l)] = 0 => written[j][l] = ZeroBlock
            /\ Own[j][At(l)] # 0 => disk[Own[j][At(l)]] = written[j][l]
        BY <1>1, <4>4 DEF ReadOK
      <4> QED
        BY <1>9, <3>1, <4>2, <4>3, <4>4, <4>5
    <3> QED
      BY <3>2, <3>3
  <2>2. \A j \in Inums \ live' : written'[j] = Nothing
    BY <1>1, <1>2, <1>14 DEF ReadOK
  <2> QED
    BY <1>1, <2>1, <2>2 DEF ReadOK
<1> QED
  BY <1>1, <1>3, <1>11, <1>12, <1>13, <1>15 DEF Sound

\* sfs_create() takes an inode that has nothing.
LEMMA CreateSound ==
  ASSUME StateTypes, StateTypes', Sound, NEW i \in Inums, CreateInode(i)
  PROVE  Sound'
<1>1. /\ TypeOK /\ TypeOK' /\ ListOK /\ Exclusive(Own, live) /\ Accounted /\ CallOK /\ SavedOK /\ ReadOK
      /\ disk' = disk /\ head' = head /\ sb_head' = sb_head /\ held' = held
      /\ live' = live \cup {i} /\ i \notin live /\ saved' = saved /\ lost' = lost
      /\ written' = written /\ doomed' = doomed /\ live \subseteq Inums
      /\ call = Idle /\ call' = Idle
  BY DEF StateTypes, Sound, CreateInode, history, vars
<1>2. InFlight = {} /\ InFlight' = {} /\ CallOK' /\ \A j, l : ~Busy(j, l)
  BY <1>1, IdleCall, IdleNow
<1>3. ptr'[i] = NoPointers /\ \A j \in Inums : j # i => ptr'[j] = ptr[j]
  BY DEF CreateInode, StateTypes
<1>4. ASSUME NEW l \in Places
      PROVE  Own'[i][l] = 0
  <2>1. ptr'[i][NDir] = 0 /\ \A m \in 0..NDir : ptr'[i][m] = 0
    BY <1>3, IndexFacts DEF NoPointers
  <2>2. CASE l <= NDir
    <3>1. l \in 0..NDir /\ Own'[i][l] = ptr'[i][l]
      BY <2>2, OwnIsNext, PlaceFacts DEF OwnFacts
    <3> QED
      BY <2>1, <3>1
  <2>3. CASE ~(l <= NDir)
    BY <2>1, <2>3, OwnIsNext DEF OwnFacts
  <2> QED
    BY <2>2, <2>3
<1>5. ASSUME NEW j \in live, NEW l \in Places
      PROVE  Own'[j][l] = Own[j][l]
  <2>1. j \in Inums /\ ptr'[j] = ptr[j]
    BY <1>1, <1>3
  <2> QED
    BY <1>1, <2>1, KeepPlaces
<1>6. Exclusive(Own', live')
  BY <1>1, <1>4, <1>5 DEF Exclusive
<1>7. Had(Own', live') = Had(Own, live)
  <2>1. 0 \notin Blocks
    BY BlockFacts
  <2> QED
    BY <1>1, <1>4, <1>5, <2>1 DEF Had
<1>8. Accounted'
  BY <1>1, <1>2, <1>7 DEF Accounted
<1>9. SavedOK'
  <2>1. \A j \in live, l \in 0..NDir : ptr'[j][l] = ptr[j][l]
    BY <1>1, <1>3
  <2> QED
    BY <1>1, <2>1, KeepSaved
<1>10. ListOK'
  BY <1>1, WriteStep
<1>11. ReadOK'
  <2>1. ASSUME NEW j \in live', NEW l \in Logical
        PROVE  /\ Own'[j][At(l)] = 0 => written'[j][l] = ZeroBlock
               /\ Own'[j][At(l)] # 0 => disk'[Own'[j][At(l)]] = written'[j][l]
    <3>1. At(l) \in Places
      BY PlaceFacts
    <3>2. CASE j = i
      <4>1. written[i] = Nothing
        BY <1>1 DEF ReadOK
      <4>2. written[i][l] = ZeroBlock
        BY <4>1 DEF Nothing
      <4> QED
        BY <1>1, <1>4, <3>1, <3>2, <4>2
    <3>3. CASE j \in live
      BY <1>1, <1>2, <1>5, <3>1, <3>3 DEF ReadOK
    <3> QED
      BY <1>1, <3>2, <3>3
  <2>2. \A j \in Inums \ live' : written'[j] = Nothing
    BY <1>1 DEF ReadOK
  <2> QED
    BY <2>1, <2>2 DEF ReadOK
<1> QED
  BY <1>2, <1>6, <1>8, <1>9, <1>10, <1>11 DEF Sound

\* The blocks of an inode: the direct ones, which deallocation frees, and the others.
LEMMA DirectAndIndirect ==
  ASSUME StateTypes, NEW i \in Inums
  PROVE  /\ \A k \in 0..(NDir - 1) : k \in Places /\ ptr[i][k] = Own[i][k]
         /\ \A b : b \in IndirectBlocks(ptr[i]) <=>
                     b # 0 /\ \E l \in Places : ~(l < NDir) /\ Own[i][l] = b
<1>1. ASSUME NEW k \in 0..(NDir - 1)
      PROVE  k \in Places /\ ptr[i][k] = Own[i][k]
  <2>1. k \in 0..NDir /\ k <= NDir
    BY IndexFacts
  <2> QED
    BY <2>1, PlaceFacts, OwnIs DEF OwnFacts
<1>2. ASSUME NEW b, b \in IndirectBlocks(ptr[i])
      PROVE  b # 0 /\ \E l \in Places : ~(l < NDir) /\ Own[i][l] = b
  <2>1. b # 0 /\ (b = ptr[i][NDir] \/ \E k \in NDir..(NumLogical - 1) : b = Indirect(ptr[i], k))
    BY <1>2, IndexFacts DEF IndirectBlocks
  <2>2. CASE b = ptr[i][NDir]
    <3>1. NDir \in Places /\ NDir <= NDir /\ ~(NDir < NDir)
      BY PlaceFacts, IndexFacts
    <3> QED
      BY <2>1, <2>2, <3>1, OwnIs DEF OwnFacts
  <2>3. CASE \E k \in NDir..(NumLogical - 1) : b = Indirect(ptr[i], k)
    <3>1. PICK k \in NDir..(NumLogical - 1) : b = Indirect(ptr[i], k)
      BY <2>3
    <3>2. k \in Logical /\ ~(k < NDir)
      BY IndexFacts DEF Logical
    <3>3. At(k) \in Places /\ ~(At(k) < NDir)
      BY <3>2, PlaceFacts, IndexFacts DEF At
    <3>4. Own[i][At(k)] = b
      BY <3>1, <3>2, NumberIs DEF NumberFacts, BlockNumber
    <3> QED
      BY <2>1, <3>3, <3>4
  <2> QED
    BY <2>1, <2>2, <2>3
<1>3. ASSUME NEW l \in Places, ~(l < NDir), Own[i][l] # 0
      PROVE  Own[i][l] \in IndirectBlocks(ptr[i])
  <2>1. CASE l <= NDir
    <3>1. l = NDir /\ Own[i][l] = ptr[i][l]
      BY <1>3, <2>1, PlaceFacts, IndexFacts, OwnIs DEF OwnFacts
    <3> QED
      BY <1>3, <3>1 DEF IndirectBlocks
  <2>2. CASE ~(l <= NDir)
    <3>1. PICK k \in Logical : k = l - 1 /\ k >= NDir /\ At(k) = l
      BY <2>2, PlaceFacts
    <3>2. k \in NDir..(NumLogical - 1) /\ ~(k < NDir)
      BY <3>1, IndexFacts DEF Logical
    <3>3. Own[i][l] = Indirect(ptr[i], k)
      BY <3>1, <3>2, NumberIs DEF NumberFacts, BlockNumber
    <3> QED
      BY <1>3, <3>2, <3>3 DEF IndirectBlocks
  <2> QED
    BY <2>1, <2>2
<1> QED
  BY <1>1, <1>2, <1>3

\* sfs_fs_inode_deallocate() begins.
LEMMA DeallocateSound ==
  ASSUME StateTypes, StateTypes', Sound, NEW i \in Inums, BeginDeallocate(i)
  PROVE  Sound'
<1>1. /\ TypeOK /\ TypeOK' /\ ListOK /\ Exclusive(Own, live) /\ Accounted /\ CallOK /\ SavedOK /\ ReadOK
      /\ disk' = disk /\ head' = head /\ sb_head' = sb_head /\ held' = held
      /\ live' = live \ {i} /\ i \in live /\ saved' = saved /\ ptr' = ptr
      /\ lost' = lost \cup IndirectBlocks(ptr[i]) /\ live \subseteq Inums
      /\ call = Idle
  BY DEF StateTypes, Sound, BeginDeallocate, vars
<1>2. InFlight = {} /\ \A j, l : ~Busy(j, l)
  BY <1>1, IdleNow
<1>3. /\ call'.op = "free" /\ call'.i = i /\ call'.k = 0
  BY DEF BeginDeallocate
<1>4. /\ \A k \in 0..(NDir - 1) : k \in Places /\ k < NDir /\ ptr[i][k] = Own[i][k]
      /\ \A b : b \in IndirectBlocks(ptr[i]) <=>
                  b # 0 /\ \E l \in Places : ~(l < NDir) /\ Own[i][l] = b
  BY DirectAndIndirect, IndexFacts
<1>5. InFlight' = {ptr[i][k] : k \in 0..(NDir - 1)} \ {0}
  BY <1>1, <1>3 DEF InFlight
<1>6. \A b : b \in InFlight' <=> b # 0 /\ \E k \in Places : k < NDir /\ Own[i][k] = b
  <2>1. \A k \in Places : k < NDir => k \in 0..(NDir - 1)
    BY PlaceFacts, IndexFacts DEF Places
  <2> QED
    BY <1>4, <1>5, <2>1
<1>7. ASSUME NEW j \in live, NEW l \in Places
      PROVE  Own'[j][l] = Own[j][l]
  BY <1>1, KeepPlaces
<1>8. Exclusive(Own', live')
  BY <1>1, <1>7 DEF Exclusive
<1>9. Had(Own', live') = Had(Own, live \ {i})
  BY <1>1, <1>7 DEF Had
<1>10. \A b \in Blocks : b \in Had(Own, live) <=> \/ b \in Had(Own, live \ {i})
                                                  \/ b \in InFlight' \/ b \in IndirectBlocks(ptr[i])
  <2>1. \A b \in Blocks : b # 0
    BY BlockFacts
  <2> QED
    BY <1>1, <1>4, <1>6, <2>1 DEF Had
<1>11. InFlight' \subseteq Blocks /\ IndirectBlocks(ptr[i]) \subseteq Blocks /\ Had(Own, live) \subseteq Blocks
  <2>1. \A l \in Places : Own[i][l] \in 0..NumBlocks
    BY OwnTypes DEF OwnTyped
  <2> QED
    BY <1>4, <1>6, <2>1, BlockFacts DEF Had
<1>12. Had(Own, live) = Had(Own, live \ {i}) \cup InFlight' \cup IndirectBlocks(ptr[i])
  <2>1. Had(Own, live \ {i}) \subseteq Blocks
    BY DEF Had
  <2> QED
    BY <1>10, <1>11, <2>1
<1>13. /\ Had(Own, live \ {i}) \cap (InFlight' \cup IndirectBlocks(ptr[i])) = {}
       /\ InFlight' \cap IndirectBlocks(ptr[i]) = {}
  <2>1. \A b \in Had(Own, live \ {i}) : b # 0 /\ \E j \in live \ {i}, l \in Places : Own[j][l] = b
    BY BlockFacts DEF Had
  <2>2. \A b : b \in InFlight' \/ b \in IndirectBlocks(ptr[i]) => \E l \in Places : Own[i][l] = b
    BY <1>4, <1>6
  <2>3. ASSUME NEW b \in Had(Own, live \ {i}), b \in InFlight' \/ b \in IndirectBlocks(ptr[i])
        PROVE  FALSE
    <3>1. PICK j \in live \ {i}, l \in Places : Own[j][l] = b
      BY <2>1
    <3>2. PICK k \in Places : Own[i][k] = b
      BY <2>2, <2>3
    <3>3. Exclusive(Own, live) /\ i \in live /\ j \in live /\ j # i
          /\ Own[i][k] # 0 /\ Own[i][k] = Own[j][l]
      BY <1>1, <2>1, <3>1, <3>2
    <3>4. i = j
      BY <3>3, OneOwner
    <3> QED
      BY <3>3, <3>4
  <2>4. ASSUME NEW b, b \in InFlight', b \in IndirectBlocks(ptr[i])
        PROVE  FALSE
    <3>1. PICK l \in Places : l < NDir /\ Own[i][l] = b
      BY <1>6, <2>4
    <3>2. PICK k \in Places : ~(k < NDir) /\ Own[i][k] = b /\ b # 0
      BY <1>4, <2>4
    <3>3. Exclusive(Own, live) /\ i \in live /\ Own[i][k] # 0 /\ Own[i][k] = Own[i][l]
      BY <1>1, <3>1, <3>2
    <3>4. k = l
      BY <3>3, Zenon DEF Exclusive
    <3> QED
      BY <3>1, <3>2, <3>4
  <2> QED
    BY <2>3, <2>4
<1>14. Accounted'
  <2>1. held = Had(Own, live) \cup lost /\ Had(Own, live) \cap lost = {}
    BY <1>1, <1>2 DEF Accounted
  <2> QED
    BY <1>1, <1>9, <1>12, <1>13, <2>1 DEF Accounted
<1>15. CallOK'
  <2>1. ASSUME NEW k \in 0..(NDir - 1), NEW l \in 0..(NDir - 1), ptr[i][k] # 0, ptr[i][k] = ptr[i][l]
        PROVE  k = l
    BY <1>1, <1>4, <2>1 DEF Exclusive
  <2>2. i \notin live'
    BY <1>1
  <2> QED
    BY <1>1, <1>3, <2>1, <2>2 DEF CallOK
<1>16. SavedOK'
  <2>1. ~doomed' => ~doomed /\ i \notin saved.live
    BY Zenon DEF BeginDeallocate
  <2> QED
    BY <1>1, <2>1 DEF SavedOK
<1>17. ListOK'
  BY <1>1, WriteStep
<1>18. written'[i] = Nothing /\ \A j \in Inums : j # i => written'[j] = written[j]
  BY DEF BeginDeallocate, StateTypes
<1>19. ReadOK'
  <2>1. ASSUME NEW j \in live', NEW l \in Logical
        PROVE  /\ Own'[j][At(l)] = 0 => written'[j][l] = ZeroBlock
               /\ Own'[j][At(l)] # 0 => disk'[Own'[j][At(l)]] = written'[j][l]
    <3>1. At(l) \in Places /\ j \in live /\ j \in Inums /\ j # i
      BY <1>1, PlaceFacts
    <3>2. Own'[j][At(l)] = Own[j][At(l)] /\ written'[j] = written[j]
      BY <1>7, <1>18, <3>1
    <3> QED
      BY <1>1, <1>2, <3>1, <3>2 DEF ReadOK
  <2>2. \A j \in Inums \ live' : written'[j] = Nothing
    BY <1>1, <1>18 DEF ReadOK
  <2> QED
    BY <2>1, <2>2 DEF ReadOK
<1> QED
  BY <1>8, <1>14, <1>15, <1>16, <1>17, <1>19 DEF Sound

\* The call gives the blocks of R back and leaves the others as they are.
Released(R) ==
  /\ R \subseteq InFlight /\ InFlight' = InFlight \ R /\ held' = held \ R
  /\ \A b \in held \ R : disk'[b] = disk[b]

\* A step of a call that frees, and that keeps the live inodes and their blocks.
LEMMA FreeingSound ==
  ASSUME StateTypes, Sound, call.op = "free", ListOK', CallOK',
         NEW R, Released(R), \A j \in live : ptr'[j] = ptr[j],
         UNCHANGED <<live, saved, written, lost, doomed>>
  PROVE  Sound'
<1>1. /\ TypeOK /\ Exclusive(Own, live) /\ Accounted /\ SavedOK /\ ReadOK
      /\ live' = live /\ saved' = saved /\ written' = written /\ lost' = lost
      /\ doomed' = doomed /\ live \subseteq Inums
      /\ R \subseteq InFlight /\ InFlight' = InFlight \ R /\ held' = held \ R
  BY DEF StateTypes, Sound, Released
<1>0. \A b \in held \ R : disk'[b] = disk[b]
  BY DEF Released
<1>2. \A j, l : ~Busy(j, l)
  BY DEF Busy
<1>3. ASSUME NEW j \in live, NEW l \in Places, Own[j][l] # 0
      PROVE  Own[j][l] \in held \ R
  BY <1>1, <1>3, OwnedAreHeld DEF Accounted
<1>4. ASSUME NEW j \in live, NEW l \in Places
      PROVE  Own'[j][l] = Own[j][l]
  <2>1. NDir \in Places /\ (Own[j][NDir] = 0 => Own[j][NDir] \notin held)
    BY <1>1, PlaceFacts, BlockFacts DEF TypeOK
  <2>2. Own[j][NDir] \in held => disk'[Own[j][NDir]] = disk[Own[j][NDir]]
    BY <1>0, <1>3, <2>1
  <2> QED
    BY <1>1, <2>2, KeepOthers
<1>5. Exclusive(Own', live) /\ Had(Own', live) = Had(Own, live)
  BY <1>1, <1>4, SameOwners
<1>6. Accounted'
  BY <1>1, <1>5 DEF Accounted
<1>7. SavedOK'
  BY <1>1, KeepSaved
<1>8. ReadOK'
  <2>1. ASSUME NEW j \in live, NEW l \in Logical
        PROVE  /\ Own'[j][At(l)] = 0 => written'[j][l] = ZeroBlock
               /\ Own'[j][At(l)] # 0 => disk'[Own'[j][At(l)]] = written'[j][l]
    <3>1. At(l) \in Places /\ Own'[j][At(l)] = Own[j][At(l)]
      BY <1>4, PlaceFacts
    <3>2. Own[j][At(l)] # 0 => disk'[Own[j][At(l)]] = disk[Own[j][At(l)]]
      BY <1>0, <1>3, <3>1
    <3> QED
      BY <1>1, <1>2, <3>1, <3>2 DEF ReadOK
  <2>2. \A j \in Inums \ live' : written'[j] = Nothing
    BY <1>1 DEF ReadOK
  <2> QED
    BY <1>1, <2>1, <2>2 DEF ReadOK
<1> QED
  BY <1>1, <1>5, <1>6, <1>7, <1>8 DEF Sound

\* The loop of sfs_fs_inode_deallocate().
LEMMA FreePointersSound ==
  ASSUME Faults = {}, StateTypes, StateTypes', Sound, FreePointers
  PROVE  Sound'
<1>1. /\ TypeOK /\ TypeOK' /\ ListOK /\ Accounted /\ CallOK
      /\ live' = live /\ saved' = saved /\ written' = written /\ lost' = lost
      /\ doomed' = doomed /\ live \subseteq Inums /\ call.op = "free"
      /\ ptr \in [Inums -> Pointers]
  BY DEF StateTypes, Sound, FreePointers, history
<1>2. PICK i, k : i = call.i /\ k = call.k
  OBVIOUS
<1>3. i \in Inums /\ k \in 0..NDir /\ call = [op |-> "free", i |-> i, k |-> k] /\ NDir \in Nat
  BY <1>1, <1>2, CallFields, SameTypes, IndexFacts DEF TypesAgree
<1>4. /\ i \notin live
      /\ \A m, l \in k..(NDir - 1) : ptr[i][m] # 0 /\ ptr[i][m] = ptr[i][l] => m = l
  BY <1>1, <1>2 DEF CallOK
<1>5. InFlight = {ptr[i][l] : l \in k..(NDir - 1)} \ {0}
  BY <1>1, <1>2 DEF InFlight
<1>6. ASSUME k < NDir, call' = [call EXCEPT !.k = @ + 1], ptr' = ptr
      PROVE  /\ CallOK' /\ InFlight' = InFlight \ {ptr[i][k]}
             /\ k \in k..(NDir - 1)
  <2>1. call'.op = "free" /\ call'.i = i /\ call'.k = k + 1
    BY <1>3, <1>6
  <2>2. /\ k \in k..(NDir - 1)
        /\ \A l : l \in k..(NDir - 1) <=> l = k \/ l \in (k + 1)..(NDir - 1)
        /\ k \notin (k + 1)..(NDir - 1)
    BY <1>3, <1>6
  <2>3. InFlight' = {ptr[i][l] : l \in (k + 1)..(NDir - 1)} \ {0}
    BY <1>6, <2>1 DEF InFlight
  <2>4. CallOK'
    <3>1. \A m, l \in (k + 1)..(NDir - 1) : ptr'[i][m] # 0 /\ ptr'[i][m] = ptr'[i][l] => m = l
      BY <1>4, <1>6, <2>2
    <3> QED
      BY <1>1, <1>4, <2>1, <3>1 DEF CallOK
  <2>5. ASSUME NEW b
        PROVE  b \in InFlight' <=> b \in InFlight /\ b # ptr[i][k]
    <3>1. b \in InFlight' <=> b # 0 /\ \E l \in (k + 1)..(NDir - 1) : ptr[i][l] = b
      BY <2>3
    <3>2. b \in InFlight <=> b # 0 /\ \E l \in k..(NDir - 1) : ptr[i][l] = b
      BY <1>5
    <3> QED
      BY <1>4, <2>2, <3>1, <3>2
  <2> QED
    BY <2>2, <2>4, <2>5
<1>7. CASE /\ call.k < NDir /\ ptr[call.i][call.k] # 0
           /\ FreeBlock(ptr[call.i][call.k])
           /\ call' = [call EXCEPT !.k = @ + 1] /\ ptr' = ptr
  <2>1. PICK b : b = ptr[i][k]
    OBVIOUS
  <2>2. CallOK' /\ InFlight' = InFlight \ {b} /\ b \in InFlight
    BY <1>2, <1>5, <1>6, <1>7, <2>1
  <2>3. b \in held
    BY <1>1, <2>2 DEF Accounted
  <2>4. FreeBlock(b)
    BY <1>2, <1>7, <2>1
  <2>5. ListOK' /\ held' = held \ {b} /\ \A c \in held : c # b => disk'[c] = disk[c]
    BY <1>1, <2>3, <2>4, FreeStep
  <2>6. Released({b}) /\ \A j \in live : ptr'[j] = ptr[j]
    BY <1>7, <2>2, <2>5 DEF Released
  <2> QED
    BY <1>1, <2>2, <2>5, <2>6, FreeingSound
<1>8. ASSUME UNCHANGED vars, CallOK', InFlight' = InFlight, \A j \in live : ptr'[j] = ptr[j]
      PROVE  Sound'
  <2>1. disk' = disk /\ head' = head /\ sb_head' = sb_head /\ held' = held
    BY <1>8 DEF vars
  <2>2. ListOK'
    BY <1>1, <2>1, WriteStep
  <2>3. Released({})
    BY <1>8, <2>1 DEF Released
  <2> QED
    BY <1>1, <1>8, <2>2, <2>3, FreeingSound
<1>9. CASE /\ call.k < NDir /\ ptr[call.i][call.k] = 0
           /\ call' = [call EXCEPT !.k = @ + 1] /\ UNCHANGED <<vars, ptr>>
  <2>1. CallOK' /\ InFlight' = InFlight \ {0} /\ ptr' = ptr /\ UNCHANGED vars
    BY <1>2, <1>6, <1>9
  <2>2. InFlight' = InFlight
    BY <1>5, <2>1
  <2> QED
    BY <1>8, <2>1, <2>2
<1>10. CASE /\ call.k = NDir
            /\ call' = Idle /\ ptr' = [ptr EXCEPT ![call.i] = NoPointers]
            /\ UNCHANGED vars
  <2>1. InFlight' = {} /\ CallOK'
    BY <1>10, IdleCall
  <2>2. \A l : l \notin k..(NDir - 1)
    BY <1>2, <1>3, <1>10
  <2>3. InFlight = {}
    BY <1>5, <2>2
  <2>4. \A j \in live : ptr'[j] = ptr[j]
    BY <1>1, <1>2, <1>4, <1>10
  <2> QED
    BY <1>8, <1>10, <2>1, <2>3, <2>4
<1> QED
  BY <1>7, <1>9, <1>10 DEF FreePointers

\* A step that changes nothing but the table on the disk.
LEMMA StillSound ==
  ASSUME StateTypes, StateTypes', Sound, SavedOK', UNCHANGED <<vars, ptr, live, call, written, lost>>
  PROVE  Sound'
<1>1. /\ TypeOK /\ TypeOK' /\ ListOK /\ Exclusive(Own, live) /\ Accounted /\ CallOK /\ ReadOK
      /\ disk' = disk /\ head' = head /\ sb_head' = sb_head /\ held' = held
      /\ ptr' = ptr /\ live' = live /\ written' = written /\ lost' = lost /\ call' = call
  BY DEF StateTypes, Sound, vars
<1>2. Own' = Own
  BY <1>1 DEF Own, Place, Indirect
<1>3. InFlight' = InFlight
  BY <1>1 DEF InFlight
<1>4. Accounted'
  BY <1>1, <1>2, <1>3 DEF Accounted
<1>5. CallOK'
  BY <1>1, <1>2 DEF CallOK
<1>6. ReadOK'
  BY <1>1, <1>2 DEF ReadOK, Busy
<1>7. ListOK'
  BY <1>1, WriteStep
<1> QED
  BY <1>1, <1>2, <1>4, <1>5, <1>6, <1>7 DEF Sound

\* The table is written.
LEMMA SaveSound ==
  ASSUME StateTypes, StateTypes', Sound, SaveInodes
  PROVE  Sound'
<1>1. SavedOK'
  BY DEF SaveInodes, SavedOK
<1>2. UNCHANGED <<vars, ptr, live, call, written, lost>>
  BY DEF SaveInodes
<1> QED
  BY <1>1, <1>2, StillSound

\* The process dies while no deallocation waits to be saved.
LEMMA CrashSound ==
  ASSUME StateTypes, StateTypes', Sound, ~doomed, InodesCrash
  PROVE  Sound'
<1>1. /\ TypeOK /\ TypeOK' /\ ListOK /\ Exclusive(Own, live) /\ Accounted /\ CallOK /\ SavedOK /\ ReadOK
      /\ disk' = disk /\ head' = head /\ sb_head' = sb_head /\ held' = held
      /\ ptr' = saved.ptr /\ live' = saved.live /\ saved' = saved
      /\ live \subseteq Inums /\ live' \subseteq Inums
  BY DEF StateTypes, Sound, InodesCrash, vars
<1>2. /\ lost' = held \ BlocksOf(saved.ptr, saved.live)
      /\ InFlight' = {} /\ CallOK' /\ \A j, l : ~Busy(j, l)'
  BY IdleCall DEF InodesCrash
<1>3. live' \subseteq live /\ \A j \in live', l \in 0..NDir : ptr'[j][l] \in {0, ptr[j][l]}
  BY <1>1 DEF SavedOK
<1>4. NDir \in Nat /\ NDir \in Places /\ NDir \in 0..NDir
  BY PlaceFacts, IndexFacts
<1>5. ASSUME NEW j \in live', NEW l \in Places
      PROVE  Own'[j][l] \in {0, Own[j][l]}
  <2>1. j \in Inums /\ Own[j][l] = Place(ptr[j], l) /\ Own'[j][l] = Place(ptr[j], l)'
    BY <1>1 DEF Own
  <2>2. CASE l <= NDir
    <3>1. l \in 0..NDir
      BY <1>4, <2>2, IndexFacts DEF Places
    <3> QED
      BY <1>3, <2>1, <2>2, <3>1 DEF Place
  <2>3. CASE ~(l <= NDir)
    <3>1. ptr'[j][NDir] \in {0, ptr[j][NDir]}
      BY <1>3, <1>4
    <3> QED
      BY <1>1, <2>1, <2>3, <3>1 DEF Place, Indirect
  <2> QED
    BY <2>2, <2>3
<1>6. Exclusive(Own', live') /\ Had(Own', live') \subseteq Had(Own, live)
  BY <1>1, <1>3, <1>5, FewerOwners
<1>7. BlocksOf(saved.ptr, saved.live) = Had(Own', live')
  <2>1. BlocksOf(ptr, live)' = Had(Own', live')
    BY <1>1, OwnersNext DEF OwnersAgree
  <2>2. BlocksOf(ptr, live)' = BlocksOf(saved.ptr, saved.live)
    BY <1>1 DEF BlocksOf, IndirectBlocks, Indirect
  <2> QED
    BY <2>1, <2>2
<1>8. Accounted'
  BY <1>1, <1>2, <1>6, <1>7 DEF Accounted
<1>9. SavedOK'
  BY <1>1 DEF SavedOK
<1>10. ListOK'
  BY <1>1, WriteStep
<1>11. \A j \in Inums, l \in Logical : BlockNumber(saved.ptr[j], l) = Own'[j][At(l)]
  <2>1. \A j \in Inums, l \in Logical : BlockNumber(ptr[j], l)' = Own'[j][At(l)]
    BY NumberIsNext DEF NumberFacts
  <2>2. ASSUME NEW j \in Inums, NEW l \in Logical
        PROVE  BlockNumber(ptr[j], l)' = BlockNumber(saved.ptr[j], l)
    BY <1>1 DEF BlockNumber, Indirect
  <2> QED
    BY <2>1, <2>2
<1>12. ASSUME NEW j \in Inums, NEW l \in Logical
       PROVE  written'[j][l] =
                IF j \notin live' \/ Own'[j][At(l)] = 0 THEN ZeroBlock
                ELSE IF call.op = "write" /\ call.i = j /\ call.k = l
                THEN disk[Own'[j][At(l)]]
                ELSE written[j][l]
  BY <1>1, <1>11 DEF InodesCrash
<1>13. ReadOK'
  <2>1. ASSUME NEW j \in live', NEW l \in Logical
        PROVE  /\ Own'[j][At(l)] = 0 => written'[j][l] = ZeroBlock
               /\ Own'[j][At(l)] # 0 => disk'[Own'[j][At(l)]] = written'[j][l]
    <3>1. At(l) \in Places /\ j \in live /\ j \in Inums
      BY <1>1, <1>3, PlaceFacts
    <3>2. CASE Own'[j][At(l)] = 0
      BY <1>12, <3>1, <3>2
    <3>3. CASE Own'[j][At(l)] # 0 /\ call.op = "write" /\ call.i = j /\ call.k = l
      BY <1>1, <1>12, <3>1, <3>3
    <3>4. CASE Own'[j][At(l)] # 0 /\ ~(call.op = "write" /\ call.i = j /\ call.k = l)
      <4>1. Own'[j][At(l)] = Own[j][At(l)] /\ Own[j][At(l)] # 0
        BY <1>5, <3>1, <3>4
      <4>2. ~(call.op = "link" /\ call.i = j /\ call.k = l)
        BY <1>1, <4>1 DEF CallOK
      <4>3. ~Busy(j, l)
        BY <3>4, <4>2 DEF Busy
      <4>4. written'[j][l] = written[j][l]
        BY <1>12, <3>1, <3>4
      <4> QED
        BY <1>1, <3>1, <4>1, <4>3, <4>4 DEF ReadOK
    <3> QED
      BY <3>2, <3>3, <3>4
  <2>2. ASSUME NEW j \in Inums \ live'
        PROVE  written'[j] = Nothing
    <3>1. written'[j] = [l \in Logical |-> written'[j][l]]
      BY DEF InodesCrash
    <3> QED
      BY <1>12, <3>1 DEF Nothing
  <2> QED
    BY <2>1, <2>2 DEF ReadOK
<1> QED
  BY <1>2, <1>6, <1>8, <1>9, <1>10, <1>13 DEF Sound

-----------------------------------------------------------------------------
(* The invariant holds. *)

LEMMA SoundInit ==
  ASSUME Leftovers = {0}, InodesInit
  PROVE  Sound
<1>1. ListOK
  BY InitLists DEF InodesInit, ListOK
<1>2. live = {} /\ lost = {} /\ call = Idle /\ held = {} /\ saved.live = {}
  BY DEF InodesInit, Init
<1>3. Exclusive(Own, live) /\ Had(Own, live) = {}
  BY <1>2 DEF Exclusive, Had
<1>4. InFlight = {}
  BY <1>2, IdleNow
<1>5. Accounted
  BY <1>2, <1>3, <1>4 DEF Accounted
<1>6. CallOK
  BY <1>2 DEF CallOK, Idle
<1>7. SavedOK
  BY <1>2 DEF SavedOK
<1>8. ReadOK
  BY <1>2 DEF ReadOK, InodesInit
<1> QED
  BY <1>1, <1>3, <1>5, <1>6, <1>7, <1>8 DEF Sound

\* A file that was corrupted stays so.
LEMMA HealthBefore ==
  ASSUME [InodesNext]_inodesVars, Healthy'
  PROVE  Healthy /\ (InodesCrash => ~doomed)
<1>1. ~stale' /\ ~tainted'
  BY Zenon DEF Healthy
<1>2. ASSUME NEW i \in Inums, CreateInode(i) \/ BeginDeallocate(i)
      PROVE  stale' = stale /\ tainted' = tainted
  BY <1>2 DEF CreateInode, BeginDeallocate, history
<1>3. ASSUME NEW i \in Inums, NEW k \in Logical, NEW x \in Patterns,
             \/ AllocateDirect(i, k, x) \/ AllocateLink(i, k, x)
             \/ NoSpace(i, k, x) \/ WriteData(i, k, x)
      PROVE  stale' = stale /\ tainted' = tainted
  BY <1>3 DEF AllocateDirect, AllocateLink, NoSpace, WriteData, history
<1>4. ASSUME NEW i \in Inums, NEW k \in Logical, NEW x \in Patterns, AllocateIndex(i, k, x)
      PROVE  stale' = (stale \/ disk[Allocated] # ZeroBlock) /\ tainted' = tainted
  BY <1>4 DEF AllocateIndex
<1>5. WriteIndex \/ FreePointers \/ SaveInodes \/ UNCHANGED inodesVars => stale' = stale /\ tainted' = tainted
  BY DEF WriteIndex, FreePointers, SaveInodes, inodesVars, history
<1>6. InodesCrash => stale' = stale /\ tainted' = (tainted \/ doomed)
  BY DEF InodesCrash
<1>7. ~stale
  BY <1>1, <1>2, <1>3, <1>4, <1>5, <1>6, Zenon DEF InodesNext
<1>8. ~tainted
  BY <1>1, <1>2, <1>3, <1>4, <1>5, <1>6, Zenon DEF InodesNext
<1>9. InodesCrash => ~doomed
  BY <1>1, <1>6, Zenon
<1> QED
  BY <1>7, <1>8, <1>9, Zenon DEF Healthy

LEMMA SoundNext ==
  ASSUME Faults = {}, StateTypes, StateTypes', Sound, [InodesNext]_inodesVars, Healthy'
  PROVE  Sound'
<1>1. CASE \E i \in Inums : CreateInode(i) \/ BeginDeallocate(i)
  BY <1>1, CreateSound, DeallocateSound
<1>2. CASE \E i \in Inums, k \in Logical, x \in Patterns :
             \/ AllocateDirect(i, k, x) \/ AllocateIndex(i, k, x) \/ AllocateLink(i, k, x)
             \/ NoSpace(i, k, x) \/ WriteData(i, k, x)
  BY <1>2, DirectSound, IndexSound, LinkSound, NoSpaceSound, WriteDataSound
<1>3. CASE WriteIndex
  BY <1>3, WriteIndexSound
<1>4. CASE FreePointers
  BY <1>4, FreePointersSound
<1>5. CASE SaveInodes
  BY <1>5, SaveSound
<1>6. CASE InodesCrash
  BY <1>6, HealthBefore, CrashSound
<1>7. CASE UNCHANGED inodesVars
  <2>1. UNCHANGED <<vars, ptr, live, call, written, lost>> /\ saved' = saved /\ doomed' = doomed
    BY <1>7 DEF inodesVars
  <2>2. SavedOK'
    BY <2>1 DEF Sound, SavedOK
  <2> QED
    BY <2>1, <2>2, StillSound
<1> QED
  BY <1>1, <1>2, <1>3, <1>4, <1>5, <1>6, <1>7 DEF InodesNext

LEMMA InodesInductive ==
  ASSUME Faults = {}, Leftovers = {0}
  PROVE  InodesSpec => []InodesInv
<1>1. InodesInit => InodesInv
  BY TypesInit, SameTypes, SoundInit DEF TypesAgree, InodesInv
<1>2. InodesInv /\ [InodesNext]_inodesVars => InodesInv'
  <2> SUFFICES ASSUME InodesInv, [InodesNext]_inodesVars
               PROVE  StateTypes' /\ (Healthy' => Sound')
    BY DEF InodesInv
  <2>1. StateTypes /\ StateTypes'
    BY TypesNext, SameTypes, SameTypesNext DEF TypesAgree, InodesInv
  <2>2. ASSUME Healthy'
        PROVE  Sound'
    <3>1. Sound
      BY <2>2, HealthBefore DEF InodesInv
    <3> QED
      BY <2>1, <2>2, <3>1, SoundNext
  <2> QED
    BY <2>1, <2>2
<1> QED
  BY <1>1, <1>2, PTL DEF InodesSpec

-----------------------------------------------------------------------------
(* What it says of the files. *)

\* The places as Owned lists them.
LEMMA OwnedPlaces ==
  ASSUME NEW i \in Inums, NEW k \in 0..NumLogical
  PROVE  \E p \in Places : /\ Owned(i)[k] = Own[i][p]
                           /\ p = IF k = NumLogical THEN NDir ELSE At(k)
<1>1. NDir \in Nat /\ NumLogical \in Nat /\ NDir \in Places /\ NDir <= NDir
  BY PlaceFacts, IndexFacts
<1>2. CASE k = NumLogical
  <2>1. Own[i][NDir] = ptr[i][NDir]
    BY <1>1, OwnIs DEF OwnFacts
  <2> QED
    BY <1>1, <1>2, <2>1 DEF Owned
<1>3. CASE k # NumLogical
  <2>1. k \in Logical
    BY <1>1, <1>3 DEF Logical
  <2>2. At(k) \in Places /\ BlockNumber(ptr[i], k) = Own[i][At(k)]
    BY <2>1, PlaceFacts, NumberIs DEF NumberFacts
  <2>3. Owned(i)[k] = BlockNumber(ptr[i], k)
    BY <1>3 DEF Owned
  <2> QED
    BY <1>3, <2>2, <2>3
<1> QED
  BY <1>2, <1>3

\* No block belongs to two files, to two places of a file, or to a file and the free
\* list of sfs_fs_allocate_block(), until a file is corrupted in one of the two known
\* ways: for any number of inodes, blocks, direct pointers and words of an index block.
THEOREM BlocksAreNotShared ==
  ASSUME Faults = {}, Leftovers = {0}
  PROVE  InodesSpec => []NoBlockIsShared
<1>1. InodesInv => NoBlockIsShared
  <2> SUFFICES ASSUME StateTypes, Sound
               PROVE  NoBlockIsShared
    BY DEF InodesInv, NoBlockIsShared
  <2>1. /\ TypeOK /\ ListOK /\ Exclusive(Own, live) /\ Accounted /\ live \subseteq Inums
    BY DEF StateTypes, Sound
  <2>2. ASSUME NEW i \in live, NEW j \in live, NEW k \in 0..NumLogical, NEW l \in 0..NumLogical,
               Owned(i)[k] # 0, Owned(i)[k] = Owned(j)[l]
        PROVE  i = j /\ k = l
    <3>1. PICK p \in Places : Owned(i)[k] = Own[i][p] /\ p = IF k = NumLogical THEN NDir ELSE At(k)
      BY <2>1, OwnedPlaces
    <3>2. PICK q \in Places : Owned(j)[l] = Own[j][q] /\ q = IF l = NumLogical THEN NDir ELSE At(l)
      BY <2>1, OwnedPlaces
    <3>3. Own[i][p] # 0 /\ Own[i][p] = Own[j][q]
      BY <2>2, <3>1, <3>2
    <3>4. i = j /\ p = q
      BY <2>1, <3>3, OneOwner
    <3>5. k = l
      BY <3>1, <3>2, <3>4, IndexFacts DEF At
    <3> QED
      BY <3>4, <3>5
  <2>3. BlocksOf(ptr, live) = Had(Own, live)
    BY <2>1, Owners DEF OwnersAgree
  <2>4. Had(Own, live) \cap (lost \cup InFlight) = {} /\ Had(Own, live) \subseteq held
    BY <2>1 DEF Accounted
  <2>5. Offered(head) \subseteq Blocks \ held
    <3>1. PICK H, S : Lists(H, S)
      BY <2>1 DEF ListOK
    <3> QED
      BY <2>1, <3>1, OfferedByNodes DEF OfferedExact
  <2>6. BlocksOf(ptr, live) \cap (Offered(head) \cup lost \cup InFlight) = {}
    BY <2>3, <2>4, <2>5
  <2> QED
    BY <2>2, <2>6 DEF NoBlockIsShared
<1> QED
  BY <1>1, InodesInductive, PTL

\* Every block in use belongs to a file or to the call in progress, or is one that
\* sfs_fs_inode_deallocate() forgot or a crash cut off.
THEOREM BlocksAreAccountedFor ==
  ASSUME Faults = {}, Leftovers = {0}
  PROVE  InodesSpec => []EveryBlockIsAccountedFor
<1>1. InodesInv => EveryBlockIsAccountedFor
  <2> SUFFICES ASSUME StateTypes, Sound
               PROVE  EveryBlockIsAccountedFor
    BY DEF InodesInv, EveryBlockIsAccountedFor
  <2>1. BlocksOf(ptr, live) = Had(Own, live)
    BY Owners DEF OwnersAgree, StateTypes
  <2> QED
    BY <2>1 DEF Sound, Accounted, EveryBlockIsAccountedFor
<1> QED
  BY <1>1, InodesInductive, PTL

\* What sfs_fs_inode_block_read() returns of a block is what the last
\* sfs_fs_inode_block_write() of it left, or zeroes, through recycled blocks and inodes
\* and crashes between any two writes to the disk.
THEOREM BlocksReadAsWritten ==
  ASSUME Faults = {}, Leftovers = {0}
  PROVE  InodesSpec => []ReadsReturnWrites
<1>1. InodesInv => ReadsReturnWrites
  <2> SUFFICES ASSUME StateTypes, Sound, NEW i \in live, NEW k \in Logical,
                      call.op \in {"write", "link"} => <<call.i, call.k>> # <<i, k>>
               PROVE  BlockRead(i, k) = written[i][k]
    BY DEF InodesInv, ReadsReturnWrites
  <2>1. i \in Inums /\ ReadOK
    BY DEF StateTypes, Sound
  <2>2. BlockNumber(ptr[i], k) = Own[i][At(k)]
    BY <2>1, NumberIs DEF NumberFacts
  <2>3. ~Busy(i, k)
    BY DEF Busy
  <2> QED
    BY <2>1, <2>2, <2>3 DEF ReadOK, BlockRead
<1> QED
  BY <1>1, InodesInductive, PTL

LEMMA InodesSynced == InodesSpec => []Synced
<1>1. InodesInit => Synced
  BY SyncedInit DEF InodesInit
<1>2. Synced /\ [InodesNext]_inodesVars => Synced'
  <2> SUFFICES ASSUME Synced, [InodesNext]_inodesVars
               PROVE  Synced'
    OBVIOUS
  <2>1. head' = head /\ sb_head' = sb_head => Synced'
    BY DEF Synced
  <2>2. UNCHANGED vars => Synced'
    BY <2>1 DEF vars
  <2>3. CASE \E i \in Inums : CreateInode(i) \/ BeginDeallocate(i)
    BY <2>2, <2>3 DEF CreateInode, BeginDeallocate
  <2>4. ASSUME NEW i \in Inums, NEW k \in Logical, NEW x \in Patterns,
               \/ AllocateDirect(i, k, x) \/ AllocateIndex(i, k, x) \/ AllocateLink(i, k, x)
               \/ NoSpace(i, k, x) \/ WriteData(i, k, x)
        PROVE  Synced'
    BY <2>1, <2>2, <2>4, SyncedAllocate
    DEF AllocateDirect, AllocateIndex, AllocateLink, NoSpace, WriteData
  <2>5. CASE WriteIndex
    BY <2>1, <2>5 DEF WriteIndex
  <2>6. CASE FreePointers
    BY <2>2, <2>6, SyncedFree DEF FreePointers
  <2>7. CASE SaveInodes \/ InodesCrash \/ UNCHANGED inodesVars
    BY <2>2, <2>7 DEF SaveInodes, InodesCrash, inodesVars
  <2> QED
    BY <2>3, <2>4, <2>5, <2>6, <2>7 DEF InodesNext
<1> QED
  BY <1>1, <1>2, PTL DEF InodesSpec

\* While no file is corrupted, the calls use the free list as a pool of blocks: each
\* takes a free block, gives back one in use, or leaves both sets alone, and none is
\* given back twice.
THEOREM InodesImplementPool ==
  ASSUME Faults = {}, Leftovers = {0}
  PROVE  InodesSpec /\ []Healthy => ImplementsBlockPool
<1>1. InodesInit => Abstract!Init
  BY InitPool DEF InodesInit, Init, Abstract!Init, Formatted
<1>2. /\ InodesInv /\ InodesInv' /\ Healthy /\ Healthy' /\ Synced' /\ [InodesNext]_inodesVars
      => [Abstract!Next]_(Abstract!vars)
  <2> SUFFICES ASSUME InodesInv, InodesInv', Healthy, Healthy', Synced', [InodesNext]_inodesVars
               PROVE  Abstract!Next \/ Abstract!vars' = Abstract!vars
    OBVIOUS
  <2>1. StateTypes /\ StateTypes' /\ Sound /\ Sound'
    BY DEF InodesInv
  <2>2. TypeOK /\ TypeOK' /\ ListOK /\ ListOK' /\ Accounted /\ CallOK
    BY <2>1 DEF StateTypes, Sound
  <2>3. IInv /\ IInv'
    BY <2>2 DEF ListOK, IInv
  <2>4. ASSUME AllocateBlock
        PROVE  Abstract!Next
    BY <2>3, <2>4, AllocateRefines DEF Abstract!Next
  <2>5. ASSUME NEW b \in held, FreeBlock(b)
        PROVE  Abstract!Next
    BY <2>2, <2>3, <2>5, FreeRefines DEF Abstract!Next, TypeOK
  <2>6. ASSUME head' = head, sb_head' = sb_head, held' = held, \A b \in Blocks \ held : disk'[b] = disk[b]
        PROVE  Abstract!vars' = Abstract!vars
    BY <2>2, <2>6, WriteStep DEF Abstract!vars
  <2>7. ASSUME UNCHANGED vars
        PROVE  Abstract!vars' = Abstract!vars
    BY <2>6, <2>7 DEF vars
  <2>8. CASE \E i \in Inums : CreateInode(i) \/ BeginDeallocate(i)
    BY <2>7, <2>8 DEF CreateInode, BeginDeallocate
  <2>9. ASSUME NEW i \in Inums, NEW k \in Logical, NEW x \in Patterns,
               \/ AllocateDirect(i, k, x) \/ AllocateIndex(i, k, x) \/ AllocateLink(i, k, x)
        PROVE  Abstract!Next
    BY <2>4, <2>9 DEF AllocateDirect, AllocateIndex, AllocateLink
  <2>10. ASSUME NEW i \in Inums, NEW k \in Logical, NEW x \in Patterns, NoSpace(i, k, x)
         PROVE  Abstract!vars' = Abstract!vars
    BY <2>7, <2>10 DEF NoSpace
  <2>11. ASSUME NEW i \in Inums, NEW k \in Logical, NEW x \in Patterns, WriteData(i, k, x)
         PROVE  Abstract!vars' = Abstract!vars
    <3>1. i \in live
      BY <2>2, <2>11, WritingCall DEF WriteData
    <3>2. At(k) \in Places /\ i \in Inums /\ BlockNumber(ptr[i], k) = Own[i][At(k)]
      BY PlaceFacts, NumberIs DEF NumberFacts
    <3>3. BlockNumber(ptr[i], k) \in held
      BY <2>1, <2>2, <2>11, <3>1, <3>2, OwnedAreHeld, BlockFacts DEF WriteData
    <3>4. /\ head' = head /\ sb_head' = sb_head /\ held' = held
          /\ \A b \in Blocks \ held : disk'[b] = disk[b]
      BY <2>2, <2>11, <3>3 DEF WriteData, TypeOK
    <3> QED
      BY <2>6, <3>4
  <2>12. CASE WriteIndex
    <3>1. PICK i : i = call.i
      OBVIOUS
    <3>2. i \in live /\ Own[i][NDir] # 0 /\ NDir \in Places /\ NDir <= NDir /\ i \in Inums
      BY <2>1, <2>2, <2>12, <3>1, PlaceFacts, IndexFacts DEF CallOK, WriteIndex, StateTypes
    <3>3. ptr[i][NDir] = Own[i][NDir]
      BY <3>2, OwnIs DEF OwnFacts
    <3>4. ptr[i][NDir] \in held
      BY <2>1, <2>2, <3>2, <3>3, OwnedAreHeld
    <3>5. /\ head' = head /\ sb_head' = sb_head /\ held' = held
          /\ \A b \in Blocks \ held : disk'[b] = disk[b]
      BY <2>2, <2>12, <3>1, <3>4 DEF WriteIndex, TypeOK
    <3> QED
      BY <2>6, <3>5
  <2>13. CASE FreePointers
    <3>1. CASE /\ call.k < NDir /\ ptr[call.i][call.k] # 0
               /\ FreeBlock(ptr[call.i][call.k])
      <4>1. call.op = "free"
        BY <2>13 DEF FreePointers
      <4>2. call.k \in 0..NDir /\ NDir \in Nat
        BY <2>1, <4>1, CallFields, SameTypes, IndexFacts DEF TypesAgree
      <4>3. call.k \in call.k..(NDir - 1)
        BY <3>1, <4>2
      <4>4. ptr[call.i][call.k] \in InFlight
        BY <3>1, <4>1, <4>3 DEF InFlight
      <4>5. ptr[call.i][call.k] \in held
        BY <2>2, <4>4 DEF Accounted
      <4> QED
        BY <2>5, <3>1, <4>5
    <3>2. CASE UNCHANGED vars
      BY <2>7, <3>2
    <3> QED
      BY <2>13, <3>1, <3>2 DEF FreePointers
  <2>14. CASE SaveInodes \/ InodesCrash \/ UNCHANGED inodesVars
    BY <2>7, <2>14 DEF SaveInodes, InodesCrash, inodesVars
  <2> QED
    BY <2>8, <2>9, <2>10, <2>11, <2>12, <2>13, <2>14 DEF InodesNext
<1> QED
  BY <1>1, <1>2, InodesInductive, InodesSynced, PTL DEF InodesSpec, ImplementsBlockPool, Abstract!Spec
=============================================================================
