---------------------------- MODULE FormatProofs ----------------------------
(***************************************************************************)
(* Proofs about Format for disks of every size, blocks and inodes of every *)
(* size, and a process that stops anywhere: a disk with the signature is   *)
(* completely formatted, the assertions of format_fs() fail for the sizes  *)
(* named in Unformattable and for no other, and what formatting loses.     *)
(***************************************************************************)
EXTENDS Format, FiniteSetTheorems, TLAPS

\* The slots of an index node, and the number of nodes.
K == Words - 1
nodes == first_free_block - free_blocks_head

\* A product by a larger number is larger.
LEMMA Monotone ==
  ASSUME NEW a \in Int, NEW b \in Int, NEW k \in Nat, a <= b
  PROVE  a * k <= b * k /\ a * k \in Int /\ b * k \in Int
<1>1. PICK d \in Nat : b = a + d
  BY SMT
<1>2. b * k = a * k + d * k /\ d * k \in Nat /\ a * k \in Int
  BY <1>1
<1> QED
  BY <1>2

\* There is an index node for every Words free blocks, or part of that.
LayoutIsRight ==
  /\ blocks \in Nat /\ blocks >= 3
  /\ inode_table_blocks \in Nat /\ inode_table_blocks >= 1
  /\ free_blocks_head = inode_table_blocks + 2 /\ free_blocks_head <= blocks
  /\ free_blocks \in Nat /\ blocks = free_blocks_head + free_blocks
  /\ nodes \in Nat /\ nodes <= free_blocks /\ first_free_block = free_blocks_head + nodes
  /\ free_blocks <= nodes * Words /\ (nodes - 1) * Words < free_blocks

LEMMA KFacts == K \in Nat /\ K >= 1 /\ Words = K + 1 /\ Words \in Nat /\ Words >= 2
BY LayoutAssumption DEF K

LEMMA LayoutLemma == blocks \in Nat /\ blocks >= 3 => LayoutIsRight
<1> SUFFICES ASSUME blocks \in Nat, blocks >= 3
             PROVE  LayoutIsRight
  OBVIOUS
<1> DEFINE t == (blocks - 1) \div TableShare
           d == (free_blocks * (Words - 1)) \div Words
<1>1. t \in Nat /\ 2 * t <= blocks - 1
  <2>1. TableShare \in Nat /\ TableShare >= 2 /\ blocks - 1 \in Nat
    BY LayoutAssumption
  <2>2. t \in Nat /\ t * TableShare <= blocks - 1 /\ t * TableShare \in Nat
    BY <2>1
  <2>3. 2 * t <= TableShare * t /\ t * TableShare = TableShare * t
    BY <2>1, <2>2, Monotone
  <2> QED
    BY <2>1, <2>2, <2>3
<1>2. /\ inode_table_blocks \in Nat /\ inode_table_blocks >= 1
      /\ inode_table_blocks + 2 <= blocks
  BY <1>1 DEF inode_table_blocks
<1>3. /\ free_blocks_head = inode_table_blocks + 2 /\ free_blocks_head <= blocks
      /\ free_blocks \in Nat /\ blocks = free_blocks_head + free_blocks /\ free_blocks_head \in Nat
  BY <1>2 DEF free_blocks_head, free_blocks
<1>4. Words \in Nat /\ Words >= 2
  BY LayoutAssumption
<1>5. /\ free_blocks * (Words - 1) = free_blocks * Words - free_blocks
      /\ free_blocks * Words \in Nat /\ free_blocks * (Words - 1) \in Nat
  BY <1>3, <1>4
<1>6. /\ d \in Nat /\ d * Words <= free_blocks * (Words - 1) /\ d * Words \in Nat
      /\ free_blocks * (Words - 1) < d * Words + Words
  BY <1>3, <1>4, <1>5
<1>7. d <= free_blocks
  <2> SUFFICES ASSUME free_blocks <= d - 1
               PROVE  FALSE
    BY <1>3, <1>6
  <2>1. free_blocks * Words <= (d - 1) * Words
    BY <1>3, <1>4, <1>6, Monotone
  <2>2. (d - 1) * Words = d * Words - Words
    BY <1>4, <1>6
  <2> QED
    BY <1>3, <1>4, <1>5, <1>6, <2>1, <2>2
<1>8. first_free_block = free_blocks_head + free_blocks - d
  BY DEF first_free_block
<1> HIDE DEF d, t
<1>9. nodes = free_blocks - d /\ nodes \in Nat /\ first_free_block = free_blocks_head + nodes
  BY <1>3, <1>6, <1>7, <1>8 DEF nodes
<1>10. nodes * Words = free_blocks * Words - d * Words
  BY <1>3, <1>4, <1>6, <1>9
<1>11. (nodes - 1) * Words = nodes * Words - Words /\ nodes * Words \in Nat
  BY <1>4, <1>9
<1>12. free_blocks <= nodes * Words /\ (nodes - 1) * Words < free_blocks
  BY <1>3, <1>4, <1>5, <1>6, <1>10, <1>11
<1> QED
  BY <1>2, <1>3, <1>6, <1>9, <1>12 DEF LayoutIsRight

-----------------------------------------------------------------------------
(* The inductive invariant. *)

\* What formatting makes of a block of the table and of an index node.
TableBlock(b) == [j \in 0..(PerBlock - 1) |->
                    LET n == (b - 1) * PerBlock + j + 1
                    IN  IF n = 1 THEN [inumber |-> 1, links |-> 1, size |-> 0]
                        ELSE [inumber |-> n, links |-> 0, size |-> n + 1]]
Link(n) == IF n < first_free_block - 1 THEN n + 1 ELSE 0
NameAt(n, w) == first_free_block + (n - free_blocks_head) * K + w - 1
IndexNode(n) == [w \in 0..(Words - 1) |-> IF w = 0 THEN Link(n) ELSE NameAt(n, w)]

\* The first b blocks of the table are there.
TableUpTo(b) == \A c \in 1..b : disk[c] = TableBlock(c)

\* The node that is being filled has what it should have up to the position, which
\* says how many blocks were named; the nodes before it have been written.
Filling ==
  \/ cur_index_block_pos = 0 /\ cur_index_block = free_blocks_head /\ i = first_free_block
  \/ /\ cur_index_block_pos \in 2..Words
     /\ cur_index_block \in IndexNodes
     /\ i = NameAt(cur_index_block, cur_index_block_pos)
     /\ free_index[0] = Link(cur_index_block)
     /\ \A w \in 1..(cur_index_block_pos - 1) : free_index[w] = NameAt(cur_index_block, w)
     /\ \A n \in IndexNodes : n < cur_index_block => disk[n] = IndexNode(n)
     /\ cur_index_block_pos = Words => disk[cur_index_block] = IndexNode(cur_index_block)

\* A node is as it was, or was filled and written by this or an earlier attempt.
NodesSound ==
  \A n \in IndexNodes : disk[n] = Old \/ (FilledNode(n) /\ disk[n] = IndexNode(n))

Complete == /\ TableUpTo(inode_table_blocks)
            /\ \A n \in IndexNodes : FilledNode(n) => disk[n] = IndexNode(n)

IInv ==
  /\ TypeOK
  /\ disk[0] \in {Old, Superblock}
  /\ ~TooSmall => NodesSound
  /\ disk[0] # Old => ~TooSmall /\ ~Unformattable /\ Complete
  /\ pc = "mounted" => disk[0] # Old
  /\ pc \in {"inodes", "index"} => disk[0] = Old /\ ~TooSmall
  /\ pc = "inodes" => /\ i \in 1..(inode_table_blocks + 1)
                      /\ next_free = IF i = 1 THEN 3 ELSE (i - 1) * PerBlock + 2
                      /\ TableUpTo(i - 1)
  /\ pc = "index" => TableUpTo(inode_table_blocks) /\ Filling
  /\ pc = "aborted" => Unformattable

-----------------------------------------------------------------------------
(* The names in the nodes. *)

\* A node after the last one would name blocks behind the end of the disk.
LEMMA NamedOnDisk ==
  ASSUME LayoutIsRight, NEW n \in Int, n >= free_blocks_head, NEW w \in 1..Words,
         NameAt(n, w) < blocks
  PROVE  n \in IndexNodes
<1> DEFINE m == n - free_blocks_head
<1>1. m \in Nat /\ K \in Nat /\ m * K \in Nat /\ w \in Nat /\ w >= 1
  BY KFacts DEF LayoutIsRight
<1>2. NameAt(n, w) = first_free_block + m * K + w - 1
  BY DEF NameAt
<1> HIDE DEF m
<1>3. m * K < free_blocks - nodes
  BY <1>1, <1>2 DEF LayoutIsRight
<1>4. nodes * K = nodes * Words - nodes /\ nodes * K \in Nat /\ nodes * Words \in Nat
  BY KFacts DEF LayoutIsRight
<1>5. m < nodes
  <2> SUFFICES ASSUME nodes <= m
               PROVE  FALSE
    BY <1>1 DEF LayoutIsRight
  <2>1. nodes * K <= m * K
    BY <1>1, Monotone DEF LayoutIsRight
  <2> QED
    BY <1>1, <1>3, <1>4, <2>1 DEF LayoutIsRight
<1> QED
  BY <1>1, <1>5 DEF m, IndexNodes, LayoutIsRight

\* The numbers of a node: what it names, and when it is filled.
LEMMA NameFacts ==
  ASSUME LayoutIsRight, NEW n \in IndexNodes
  PROVE  /\ n \in Nat /\ n >= free_blocks_head /\ n < first_free_block
         /\ \A w \in 0..Words : NameAt(n, w) \in Int
         /\ \A w \in 1..Words : NameAt(n, w) \in Nat /\ NameAt(n, w) >= first_free_block
         /\ \A w \in 0..(Words - 1) : NameAt(n, w + 1) = NameAt(n, w) + 1
         /\ NameAt(n + 1, 1) = NameAt(n, Words)
         /\ FilledNode(n) <=> NameAt(n, Words) <= blocks
         /\ ~FilledNode(n) => n = first_free_block - 1
<1> DEFINE m == n - free_blocks_head
<1>1. m \in Nat /\ K \in Nat /\ m * K \in Nat /\ n \in Nat /\ n >= free_blocks_head
      /\ n < first_free_block /\ m < nodes /\ first_free_block \in Nat
  BY KFacts DEF LayoutIsRight, IndexNodes
<1>2. \A w : NameAt(n, w) = first_free_block + m * K + w - 1
  BY DEF NameAt
<1>3. (m + 1) * K = m * K + K /\ (n + 1) - free_blocks_head = m + 1
  BY <1>1 DEF LayoutIsRight
<1>4. NameAt(n + 1, 1) = first_free_block + (m + 1) * K + 1 - 1
  BY <1>3 DEF NameAt
<1>5. FilledNode(n) <=> first_free_block + (m + 1) * K <= blocks
  BY DEF FilledNode, K
<1> HIDE DEF m
<1>6. FilledNode(n) <=> NameAt(n, Words) <= blocks
  BY <1>1, <1>2, <1>3, <1>5, KFacts
<1>7. ASSUME n # first_free_block - 1
      PROVE  FilledNode(n)
  <2>1. m <= nodes - 2
    BY <1>1, <1>7 DEF m, LayoutIsRight
  <2>2. (m + 1) * K <= (nodes - 1) * K /\ (nodes - 1) * K \in Int
    BY <1>1, <2>1, Monotone DEF LayoutIsRight
  <2>3. (nodes - 1) * K = (nodes - 1) * Words - (nodes - 1) /\ (nodes - 1) * Words \in Int
    BY KFacts DEF LayoutIsRight
  <2> QED
    BY <1>1, <1>3, <1>5, <2>2, <2>3 DEF LayoutIsRight
<1> QED
  BY <1>1, <1>2, <1>3, <1>4, <1>6, <1>7, KFacts

LEMMA IndexNodeType ==
  ASSUME LayoutIsRight, NEW n \in IndexNodes, FilledNode(n), blocks \in Sizes
  PROVE  /\ IndexNode(n) \in [0..(Words - 1) -> 0..blocks]
         /\ IndexNode(n) # Old
<1>1. ASSUME NEW w \in 1..(Words - 1)
      PROVE  NameAt(n, w) \in 0..blocks
  <2>1. NameAt(n, Words) <= blocks /\ NameAt(n, w) \in Nat
    BY NameFacts, KFacts
  <2>2. NameAt(n, w) <= NameAt(n, Words)
    <3>1. (n - free_blocks_head) * K \in Int
      BY NameFacts, KFacts DEF LayoutIsRight
    <3> QED
      BY <3>1, KFacts DEF NameAt, LayoutIsRight
  <2>3. NameAt(n, Words) \in Int
    BY NameFacts, KFacts
  <2> QED
    BY <2>1, <2>2, <2>3 DEF LayoutIsRight
<1>2. Link(n) \in 0..blocks
  BY NameFacts DEF Link, LayoutIsRight
<1>3. IndexNode(n) \in [0..(Words - 1) -> 0..blocks]
  <2>1. \A w \in 0..(Words - 1) : w # 0 => w \in 1..(Words - 1)
    BY KFacts
  <2> QED
    BY <1>1, <1>2, <2>1 DEF IndexNode
<1> QED
  BY <1>3, OldAssumption

-----------------------------------------------------------------------------
(* The steps keep the invariant. *)

\* The layout depends on the size of the disk only, which does not change.
LEMMA SameLayout ==
  ASSUME blocks' = blocks
  PROVE  /\ inode_table_blocks' = inode_table_blocks /\ free_blocks_head' = free_blocks_head
         /\ first_free_block' = first_free_block /\ Superblock' = Superblock
         /\ IndexNodes' = IndexNodes
         /\ (TooSmall' <=> TooSmall) /\ (Unformattable' <=> Unformattable)
         /\ \A n : FilledNode(n)' <=> FilledNode(n)
         /\ \A n : IndexNode(n)' = IndexNode(n) /\ Link(n)' = Link(n)
         /\ \A n, w : NameAt(n, w)' = NameAt(n, w)
<1>1. inode_table_blocks' = inode_table_blocks /\ free_blocks_head' = free_blocks_head
      /\ free_blocks' = free_blocks
  BY DEF inode_table_blocks, free_blocks_head, free_blocks
<1>2. first_free_block' = first_free_block
  BY <1>1 DEF first_free_block
<1>3. Superblock' = Superblock /\ IndexNodes' = IndexNodes
  BY <1>1, <1>2 DEF Superblock, IndexNodes
<1>4. (TooSmall' <=> TooSmall) /\ (Unformattable' <=> Unformattable)
  BY <1>1 DEF TooSmall, Unformattable
<1>5. \A n : FilledNode(n)' <=> FilledNode(n)
  BY <1>1, <1>2 DEF FilledNode
<1>6. \A n : Link(n)' = Link(n)
  BY <1>2 DEF Link
<1>7. \A n, w : NameAt(n, w)' = NameAt(n, w)
  BY <1>1, <1>2 DEF NameAt
<1>8. \A n : IndexNode(n)' = IndexNode(n)
  BY <1>6, <1>7 DEF IndexNode
<1> QED
  BY <1>1, <1>2, <1>3, <1>4, <1>5, <1>6, <1>7, <1>8

LEMMA TypeFacts ==
  ASSUME TypeOK
  PROVE  /\ blocks \in Nat /\ blocks >= 1 /\ blocks \in Sizes /\ 0 \in DOMAIN disk
         /\ ~TooSmall => LayoutIsRight
         /\ Superblock # Old
<1>1. blocks \in Nat /\ blocks >= 1 /\ blocks \in Sizes
  BY SizesAssumption DEF TypeOK
<1>2. ~TooSmall => LayoutIsRight
  BY <1>1, LayoutLemma DEF TooSmall
<1>3. 0 \in DOMAIN disk
  BY <1>1 DEF TypeOK
<1>4. Superblock # Old
  <2>1. inode_table_blocks \in Nat
    BY <1>1, LayoutAssumption DEF inode_table_blocks
  <2>2. inode_table_blocks * PerBlock \in Nat /\ free_blocks_head \in Nat
    BY <2>1, LayoutAssumption DEF free_blocks_head
  <2>3. Superblock \in [signature : {TRUE}, blocks : Nat, inodes : Nat,
                        free_blocks_head : Nat, free_inode_head : Nat]
    BY <1>1, <2>2 DEF Superblock
  <2> QED
    BY <2>3, OldAssumption
<1> QED
  BY <1>1, <1>2, <1>3, <1>4

LEMMA InvInit == Init => IInv
<1> SUFFICES ASSUME Init
             PROVE  IInv
  OBVIOUS
<1>1. blocks \in Nat /\ blocks >= 1
  BY SizesAssumption DEF Init
<1>2. TypeOK
  <2>1. EmptyNode \in [0..(Words - 1) -> 0..blocks]
    BY <1>1 DEF EmptyNode
  <2> QED
    BY <1>1, <2>1, LayoutAssumption DEF Init, TypeOK
<1>3. \A b \in 0..(blocks - 1) : disk[b] = Old
  BY DEF Init
<1>4. disk[0] = Old
  BY <1>1, <1>3
<1>5. ~TooSmall => NodesSound
  <2> SUFFICES ASSUME ~TooSmall, NEW n \in IndexNodes
               PROVE  disk[n] = Old
    BY DEF NodesSound
  <2>1. LayoutIsRight
    BY <1>2, TypeFacts
  <2>2. n \in 0..(blocks - 1)
    BY <2>1 DEF IndexNodes, LayoutIsRight
  <2> QED
    BY <1>3, <2>2
<1> QED
  BY <1>2, <1>4, <1>5 DEF IInv, Init

LEMMA OpenDiskInv ==
  ASSUME IInv, OpenDisk
  PROVE  IInv'
<1>1. blocks' = blocks /\ disk' = disk /\ i' = 1 /\ next_free' = 3 /\ stops' = stops
      /\ cur_index_block_pos' = cur_index_block_pos /\ free_index' = free_index
      /\ pc' \in {"mounted", "refused", "inodes"}
  BY DEF OpenDisk
<1>2. TypeOK
  BY DEF IInv
<1>3. TypeOK'
  BY <1>1, <1>2, TypeFacts DEF TypeOK
<1>4. /\ disk'[0] \in {Old, Superblock'}
      /\ ~TooSmall' => NodesSound'
      /\ disk'[0] # Old => ~TooSmall' /\ ~Unformattable' /\ Complete'
  BY <1>1, SameLayout DEF IInv, NodesSound, Complete, TableUpTo
<1>5. /\ pc' = "mounted" => disk'[0] # Old
      /\ pc' = "inodes" => disk'[0] = Old /\ ~TooSmall'
  BY <1>1, <1>2, TypeFacts, SameLayout DEF OpenDisk, IInv
<1>6. ~TooSmall => /\ i' \in 1..(inode_table_blocks' + 1)
                   /\ TableUpTo(i - 1)'
  BY <1>1, <1>2, TypeFacts, SameLayout DEF LayoutIsRight, TableUpTo
<1> QED
  BY <1>1, <1>3, <1>4, <1>5, <1>6, SameLayout DEF IInv

LEMMA WriteInodesInv ==
  ASSUME IInv, WriteInodes
  PROVE  IInv'
<1>1. blocks' = blocks /\ pc = "inodes" /\ pc' = pc /\ stops' = stops
      /\ cur_index_block_pos' = cur_index_block_pos /\ free_index' = free_index
      /\ i' = i + 1 /\ i <= inode_table_blocks
      /\ disk' = [disk EXCEPT ![i] = InodeBlock]
      /\ next_free' = next_free + (IF i = 1 THEN PerBlock - 1 ELSE PerBlock)
  BY DEF WriteInodes
<1>2. TypeOK /\ LayoutIsRight /\ ~TooSmall
  BY <1>1, TypeFacts DEF IInv
<1>3. /\ i \in 1..inode_table_blocks /\ i \in Nat /\ i \in DOMAIN disk
      /\ next_free = IF i = 1 THEN 3 ELSE (i - 1) * PerBlock + 2
      /\ TableUpTo(i - 1) /\ disk[0] = Old /\ PerBlock \in Nat /\ PerBlock >= 1
  BY <1>1, <1>2, LayoutAssumption DEF IInv, LayoutIsRight, TypeOK
<1>4. /\ DOMAIN disk' = DOMAIN disk /\ disk'[i] = InodeBlock
      /\ \A b \in DOMAIN disk : b # i => disk'[b] = disk[b]
  BY <1>1, <1>3
<1>5. TypeOK'
  <2>1. i' \in 0..blocks
    BY <1>1, <1>2, <1>3 DEF LayoutIsRight
  <2> QED
    BY <1>1, <1>2, <1>4, <2>1 DEF TypeOK
<1>6. InodeBlock = TableBlock(i)
  <2> SUFFICES ASSUME NEW j \in 0..(PerBlock - 1)
               PROVE  InodeBlock[j] = TableBlock(i)[j]
    BY DEF InodeBlock, TableBlock
  <2>1. CASE i = 1
    <3>1. (i - 1) * PerBlock = 0
      BY <1>3, <2>1
    <3>2. (i - 1) * PerBlock + j + 1 = j + 1 /\ (next_free + (j - 1)) - 1 = j + 1
          /\ next_free + (j - 1) = (j + 1) + 1 /\ (j + 1 = 1 <=> j = 0)
      BY <1>3, <2>1, <3>1
    <3> QED
      BY <2>1, <3>2, Zenon DEF InodeBlock, TableBlock
  <2>2. CASE i # 1
    <3>1. (i - 1) * PerBlock \in Nat /\ (i - 1) * PerBlock >= 1
      <4>1. i - 1 \in Nat /\ i - 1 >= 1
        BY <1>3, <2>2
      <4>2. 1 * PerBlock <= (i - 1) * PerBlock
        BY <1>3, <4>1, Monotone
      <4> QED
        BY <1>3, <4>1, <4>2
    <3>2. (next_free + j) - 1 = (i - 1) * PerBlock + j + 1
          /\ next_free + j = ((i - 1) * PerBlock + j + 1) + 1
          /\ (i - 1) * PerBlock + j + 1 # 1
      BY <1>3, <2>2, <3>1
    <3> QED
      BY <2>2, <3>2, Zenon DEF InodeBlock, TableBlock
  <2> QED
    BY <2>1, <2>2
<1>7. /\ i' \in 1..(inode_table_blocks' + 1)
      /\ next_free' = IF i' = 1 THEN 3 ELSE (i' - 1) * PerBlock + 2
  <2>1. CASE i = 1
    BY <1>1, <1>2, <1>3, <2>1, SameLayout DEF LayoutIsRight
  <2>2. CASE i # 1
    <3>1. i * PerBlock = (i - 1) * PerBlock + PerBlock /\ (i - 1) * PerBlock \in Nat
      BY <1>3
    <3>2. next_free' = i * PerBlock + 2
      BY <1>1, <1>3, <2>2, <3>1
    <3>3. i' - 1 = i /\ i' # 1 /\ i' \in 1..(inode_table_blocks' + 1)
      BY <1>1, <1>2, <1>3, SameLayout DEF LayoutIsRight
    <3> QED
      BY <3>2, <3>3
  <2> QED
    BY <2>1, <2>2
<1>8. TableUpTo(i - 1)'
  <2>1. \A c \in 1..(i' - 1) : c = i \/ (c \in 1..(i - 1) /\ c \in DOMAIN disk /\ c # i)
    BY <1>1, <1>2, <1>3 DEF LayoutIsRight, TypeOK
  <2> QED
    BY <1>3, <1>4, <1>6, <2>1 DEF TableUpTo
<1>9. NodesSound' /\ disk'[0] = Old
  <2>1. \A n \in IndexNodes : n \in DOMAIN disk /\ n # i
    BY <1>2, <1>3 DEF IndexNodes, LayoutIsRight, TypeOK
  <2>2. \A n \in IndexNodes : disk'[n] = disk[n]
    BY <1>4, <2>1
  <2>3. 0 \in DOMAIN disk /\ 0 # i
    BY <1>2, <1>3, TypeFacts
  <2> QED
    BY <1>1, <1>2, <1>3, <1>4, <2>2, <2>3, SameLayout DEF NodesSound, IInv
<1> QED
  BY <1>1, <1>2, <1>5, <1>7, <1>8, <1>9, SameLayout DEF IInv

LEMMA BeginIndexInv ==
  ASSUME IInv, BeginIndex
  PROVE  IInv'
<1>1. blocks' = blocks /\ pc = "inodes" /\ pc' = "index" /\ stops' = stops /\ disk' = disk
      /\ cur_index_block' = free_blocks_head /\ cur_index_block_pos' = 0
      /\ free_index' = free_index /\ i' = first_free_block /\ i > inode_table_blocks
  BY DEF BeginIndex
<1>2. TypeOK /\ LayoutIsRight /\ ~TooSmall /\ disk[0] = Old /\ NodesSound
  BY <1>1, TypeFacts DEF IInv
<1>3. TypeOK'
  <2>1. i' \in 0..blocks /\ 0 \in 0..Words
    BY <1>1, <1>2, KFacts DEF LayoutIsRight
  <2> QED
    BY <1>1, <1>2, <2>1 DEF TypeOK
<1>4. TableUpTo(inode_table_blocks)'
  <2>1. i - 1 = inode_table_blocks /\ TableUpTo(i - 1)
    BY <1>1, <1>2 DEF IInv, LayoutIsRight
  <2> QED
    BY <1>1, <2>1, SameLayout DEF TableUpTo
<1>5. Filling'
  BY <1>1, SameLayout DEF Filling
<1>6. NodesSound'
  BY <1>1, <1>2, SameLayout DEF NodesSound
<1> QED
  BY <1>1, <1>2, <1>3, <1>4, <1>5, <1>6, SameLayout DEF IInv

\* The node that the next block belongs to is one of the nodes; the nodes before it
\* have been written.  (fs.c:140, the assertion inside the loop.)
LEMMA AdvancedFacts ==
  ASSUME IInv, pc = "index", i < blocks, NEW n, NEW p,
         n = Advanced.node, p = Advanced.pos
  PROVE  /\ n \in IndexNodes
         /\ \/ p = 0 /\ i = NameAt(n, 1)
            \/ /\ p \in 2..(Words - 1) /\ n = cur_index_block
               /\ p = cur_index_block_pos /\ i = NameAt(n, p)
         /\ \A m \in IndexNodes : m < n => disk[m] = IndexNode(m)
<1>1. TypeOK /\ LayoutIsRight /\ Filling
  BY TypeFacts DEF IInv
<1>2. CASE cur_index_block_pos = 0
  <2>1. n = free_blocks_head /\ p = 0 /\ i = first_free_block
    BY <1>1, <1>2, KFacts DEF Advanced, Filling
  <2>2. i = NameAt(n, 1)
    BY <2>1, KFacts, <1>1 DEF NameAt, LayoutIsRight
  <2>3. n \in Int /\ n >= free_blocks_head /\ 1 \in 1..Words
    BY <2>1, <1>1, KFacts DEF LayoutIsRight
  <2>4. n \in IndexNodes
    BY <1>1, <2>2, <2>3, NamedOnDisk
  <2>5. \A m \in IndexNodes : ~(m < n)
    BY <1>1, <2>1, NameFacts DEF LayoutIsRight
  <2> QED
    BY <2>1, <2>2, <2>4, <2>5
<1>3. CASE cur_index_block_pos = Words
  <2>1. n = cur_index_block + 1 /\ p = 0
    BY <1>3 DEF Advanced
  <2>2. cur_index_block \in IndexNodes /\ i = NameAt(cur_index_block, Words)
        /\ disk[cur_index_block] = IndexNode(cur_index_block)
        /\ \A m \in IndexNodes : m < cur_index_block => disk[m] = IndexNode(m)
    BY <1>1, <1>3, KFacts DEF Filling
  <2>3. i = NameAt(n, 1)
    BY <1>1, <2>1, <2>2, NameFacts
  <2>4. n \in Int /\ n >= free_blocks_head /\ 1 \in 1..Words
    BY <2>1, <2>2, <1>1, KFacts, NameFacts DEF LayoutIsRight
  <2>5. n \in IndexNodes
    BY <1>1, <2>3, <2>4, NamedOnDisk
  <2>6. \A m \in IndexNodes : m < n => m < cur_index_block \/ m = cur_index_block
    BY <1>1, <2>1, <2>2, NameFacts
  <2> QED
    BY <2>1, <2>2, <2>3, <2>5, <2>6
<1>4. CASE cur_index_block_pos # 0 /\ cur_index_block_pos # Words
  <2>1. n = cur_index_block /\ p = cur_index_block_pos
    BY <1>4 DEF Advanced
  <2>2. p \in 2..(Words - 1)
    BY <1>1, <1>4, <2>1, KFacts DEF Filling
  <2> QED
    BY <1>1, <1>4, <2>1, <2>2 DEF Filling
<1> QED
  BY <1>2, <1>3, <1>4

LEMMA NameBlockInv ==
  ASSUME IInv, NameBlock
  PROVE  IInv'
<1> DEFINE n == Advanced.node
           p == Advanced.pos
           q == IF p = 0 THEN 2 ELSE p + 1
<1>1. blocks' = blocks /\ pc = "index" /\ pc' = pc /\ stops' = stops /\ i < blocks
      /\ cur_index_block' = n /\ cur_index_block_pos' = q
      /\ free_index' = Named(n, p, i) /\ i' = i + 1
      /\ disk' = IF q = Words THEN [disk EXCEPT ![n] = free_index'] ELSE disk
  BY DEF NameBlock
<1>2. TypeOK /\ LayoutIsRight /\ ~TooSmall /\ disk[0] = Old /\ NodesSound /\ Filling
      /\ TableUpTo(inode_table_blocks)
  BY <1>1, TypeFacts DEF IInv
<1>3. /\ n \in IndexNodes
      /\ \/ p = 0 /\ i = NameAt(n, 1)
         \/ /\ p \in 2..(Words - 1) /\ n = cur_index_block
            /\ p = cur_index_block_pos /\ i = NameAt(n, p)
      /\ \A m \in IndexNodes : m < n => disk[m] = IndexNode(m)
  BY <1>1, AdvancedFacts
<1>4. q \in 2..Words
  BY <1>3, KFacts
<1>5. i' = NameAt(n, q) /\ i \in Nat /\ i' <= blocks /\ i' \in 0..blocks
  <2>1. i \in Nat /\ i' <= blocks /\ i' \in 0..blocks
    BY <1>1, <1>2, TypeFacts DEF TypeOK
  <2>2. \A w \in 0..(Words - 1) : NameAt(n, w + 1) = NameAt(n, w) + 1
    BY <1>2, <1>3, NameFacts
  <2>3. CASE p = 0
    <3>1. 1 \in 0..(Words - 1) /\ 1 + 1 = 2 /\ q = 2 /\ p \notin 2..(Words - 1)
      BY <2>3, KFacts
    <3>2. NameAt(n, 2) = NameAt(n, 1) + 1
      BY <2>2, <3>1
    <3> QED
      BY <1>1, <1>3, <2>1, <3>1, <3>2
  <2>4. CASE p # 0
    <3>1. p \in 0..(Words - 1) /\ q = p + 1
      BY <1>3, <2>4
    <3> QED
      BY <1>1, <1>3, <2>1, <2>2, <2>4, <3>1
  <2> QED
    BY <2>3, <2>4
<1>6. free_index' \in [0..(Words - 1) -> 0..blocks]
  <2>1. free_index \in [0..(Words - 1) -> 0..blocks] /\ i \in 0..blocks
    BY <1>2 DEF TypeOK
  <2>2. Link(n) \in 0..blocks
    BY <1>2, <1>3, NameFacts DEF Link, LayoutIsRight
  <2> QED
    BY <1>1, <2>1, <2>2 DEF Named, Link
<1>7. /\ free_index'[0] = Link(n)
      /\ \A w \in 1..(q - 1) : free_index'[w] = NameAt(n, w)
  <2>1. DOMAIN free_index = 0..(Words - 1)
    BY <1>2 DEF TypeOK
  <2>2. CASE p = 0
    <3>1. 0 \in DOMAIN free_index /\ 1 \in DOMAIN free_index /\ q = 2
      BY <2>1, <2>2, KFacts
    <3>2. free_index' = [free_index EXCEPT ![0] = Link(n), ![1] = i]
      BY <1>1, <2>2 DEF Named, Link
    <3>3. free_index'[0] = Link(n) /\ free_index'[1] = i
      BY <3>1, <3>2
    <3>4. \A w \in 1..(q - 1) : w = 1
      BY <3>1
    <3> QED
      BY <1>3, <2>2, <3>3, <3>4
  <2>3. CASE p # 0
    <3>1. p \in 2..(Words - 1) /\ n = cur_index_block /\ p = cur_index_block_pos
          /\ i = NameAt(n, p) /\ q = p + 1
      BY <1>3, <2>3
    <3>2. free_index' = [free_index EXCEPT ![p] = i] /\ p \in DOMAIN free_index
      BY <1>1, <2>1, <2>3, <3>1 DEF Named
    <3>3. free_index[0] = Link(n) /\ \A w \in 1..(p - 1) : free_index[w] = NameAt(n, w)
      BY <1>2, <2>3, <3>1 DEF Filling
    <3>4. \A w \in 1..(q - 1) : w = p \/ (w \in 1..(p - 1) /\ w # p /\ w \in DOMAIN free_index)
      <4> HIDE DEF n, p, q
      <4> QED
        BY <2>1, <3>1, KFacts
    <3>5. 0 \in DOMAIN free_index /\ 0 # p
      BY <2>1, <2>3, KFacts
    <3> QED
      BY <3>1, <3>2, <3>3, <3>4, <3>5
  <2> QED
    BY <2>2, <2>3
<1>8. q = Words => free_index' = IndexNode(n) /\ FilledNode(n)
  <2> SUFFICES ASSUME q = Words
               PROVE  free_index' = IndexNode(n) /\ FilledNode(n)
    OBVIOUS
  <2>1. FilledNode(n)
    BY <1>2, <1>3, <1>5, NameFacts
  <2>2. \A w \in 0..(Words - 1) : free_index'[w] = IndexNode(n)[w]
    <3>1. \A w \in 0..(Words - 1) : w = 0 \/ (w # 0 /\ w \in 1..(q - 1))
      BY KFacts
    <3> QED
      BY <1>7, <3>1 DEF IndexNode
  <2> HIDE DEF q
  <2>3. free_index' = IndexNode(n)
    BY <1>6, <2>2 DEF IndexNode
  <2> QED
    BY <2>1, <2>3
<1>9. /\ DOMAIN disk' = DOMAIN disk /\ n \in DOMAIN disk
      /\ \A b \in DOMAIN disk : b # n => disk'[b] = disk[b]
      /\ q = Words => disk'[n] = IndexNode(n)
      /\ q # Words => disk'[n] = disk[n]
  <2>1. n \in DOMAIN disk
    BY <1>2, <1>3, NameFacts DEF LayoutIsRight, TypeOK
  <2> HIDE DEF n, q
  <2> QED
    BY <1>1, <1>8, <2>1
<1> HIDE DEF n, p, q
<1>10. TypeOK'
  BY <1>1, <1>2, <1>4, <1>5, <1>6, <1>9 DEF TypeOK
<1>11. \A m \in IndexNodes : m \in DOMAIN disk
  BY <1>2, NameFacts DEF LayoutIsRight, TypeOK
<1>12. NodesSound'
  <2>1. \A m \in IndexNodes : disk'[m] = Old \/ (FilledNode(m) /\ disk'[m] = IndexNode(m))
    BY <1>2, <1>8, <1>9, <1>11 DEF NodesSound
  <2> QED
    BY <1>1, <2>1, SameLayout DEF NodesSound
<1>13. n \in Nat /\ n > inode_table_blocks
  BY <1>2, <1>3, NameFacts DEF LayoutIsRight
<1>14. TableUpTo(inode_table_blocks)' /\ disk'[0] = Old
  <2>1. \A c \in 0..inode_table_blocks : c # n /\ c \in DOMAIN disk
    BY <1>2, <1>13 DEF LayoutIsRight, TypeOK
  <2>2. \A c \in 0..inode_table_blocks : disk'[c] = disk[c]
    BY <1>9, <2>1
  <2>3. 0 \in 0..inode_table_blocks /\ \A c \in 1..inode_table_blocks : c \in 0..inode_table_blocks
    BY <1>2 DEF LayoutIsRight
  <2> QED
    BY <1>1, <1>2, <2>2, <2>3, SameLayout DEF TableUpTo
<1>15. Filling'
  <2>1. \A m \in IndexNodes : m < n => disk'[m] = IndexNode(m)
    <3>1. \A m \in IndexNodes : m < n => m # n /\ m \in DOMAIN disk
      BY <1>2, <1>11, <1>13, NameFacts
    <3> QED
      BY <1>3, <1>9, <3>1
  <2> QED
    BY <1>1, <1>3, <1>4, <1>5, <1>7, <1>9, <2>1, SameLayout DEF Filling
<1> QED
  BY <1>1, <1>2, <1>10, <1>12, <1>14, <1>15, SameLayout DEF IInv

\* Quotient and remainder.
LEMMA Division ==
  ASSUME NEW a \in Int, NEW k \in Nat, k >= 1
  PROVE  /\ a = (a \div k) * k + (a % k)
         /\ a \div k \in Int /\ (a \div k) * k \in Int
         /\ a % k \in 0..(k - 1)
         /\ a \in Nat => a \div k \in Nat
BY SMT

LEMMA Remainder ==
  ASSUME NEW a \in Int, NEW k \in Nat, k >= 1, NEW r \in 0..(k - 1)
  PROVE  (a * k + r) % k = r
<1> DEFINE b == a * k + r
           d == b \div k
<1>1. b \in Int /\ a * k \in Int
  OBVIOUS
<1>2. b = d * k + (b % k) /\ d \in Int /\ d * k \in Int /\ b % k \in 0..(k - 1)
  BY <1>1, Division
<1> HIDE DEF d
<1>3. ~(d < a)
  <2> SUFFICES ASSUME d < a PROVE FALSE
    OBVIOUS
  <2>1. (d + 1) * k <= a * k /\ (d + 1) * k = d * k + k
    BY <1>2, Monotone
  <2> QED
    BY <1>1, <1>2, <2>1
<1>4. ~(a < d)
  <2> SUFFICES ASSUME a < d PROVE FALSE
    OBVIOUS
  <2>1. (a + 1) * k <= d * k /\ (a + 1) * k = a * k + k
    BY <1>2, Monotone
  <2> QED
    BY <1>1, <1>2, <2>1
<1>5. d = a
  BY <1>2, <1>3, <1>4
<1> QED
  BY <1>1, <1>2, <1>5

\* When all blocks are named, the last node was begun, unless the size is bad.
LEMMA LastNode ==
  ASSUME IInv, pc = "index", i >= blocks
  PROVE  cur_index_block = first_free_block - 1 <=> ~Unformattable
<1>1. TypeOK /\ LayoutIsRight /\ Filling /\ i = blocks
  BY TypeFacts DEF IInv, TypeOK
<1>2. CASE cur_index_block_pos = 0
  <2>1. cur_index_block = free_blocks_head /\ nodes = free_blocks
    BY <1>1, <1>2, KFacts DEF Filling, LayoutIsRight
  <2>2. free_blocks \in {0, 1}
    <3> SUFFICES ASSUME free_blocks >= 2 PROVE FALSE
      BY <1>1 DEF LayoutIsRight
    <3>1. 2 * (free_blocks - 1) <= Words * (free_blocks - 1)
      BY <1>1, KFacts, Monotone DEF LayoutIsRight
    <3>2. Words * (free_blocks - 1) = (free_blocks - 1) * Words /\ (free_blocks - 1) * Words \in Int
      BY <1>1, KFacts DEF LayoutIsRight
    <3>3. (free_blocks - 1) * Words < free_blocks
      BY <1>1, <2>1 DEF LayoutIsRight
    <3> QED
      BY <1>1, <3>1, <3>2, <3>3 DEF LayoutIsRight
  <2> QED
    BY <1>1, <2>1, <2>2 DEF LayoutIsRight, Unformattable
<1>3. CASE cur_index_block_pos # 0
  <2> DEFINE m == cur_index_block - free_blocks_head
             pos == cur_index_block_pos
             n1 == nodes - 1
  <2>1. pos \in 2..Words /\ pos \in Nat /\ cur_index_block \in IndexNodes
        /\ blocks = first_free_block + m * K + pos - 1
    BY <1>1, <1>3, KFacts DEF Filling, NameAt
  <2>2. m \in Nat /\ m * K \in Nat /\ m <= n1 /\ n1 \in Nat /\ n1 = nodes - 1
        /\ cur_index_block = free_blocks_head + m
    BY <1>1, <2>1, KFacts, NameFacts DEF LayoutIsRight
  <2>3. n1 * Words = n1 * K + n1 /\ n1 * K \in Nat /\ n1 * Words \in Nat
    BY <2>2, KFacts
  <2> HIDE DEF m, pos, n1
  <2>4. free_blocks = nodes + m * K + pos - 1 /\ free_blocks >= 2
    BY <1>1, <2>1, <2>2 DEF LayoutIsRight
  <2>5. CASE m = n1
    <3>1. free_blocks = n1 * Words + pos
      <4>1. m * K = n1 * K /\ nodes \in Nat
        BY <1>1, <2>5 DEF LayoutIsRight
      <4> QED
        BY <2>1, <2>2, <2>3, <2>4, <4>1
    <3>2. free_blocks % Words # 1
      <4>1. CASE pos = Words
        <5>1. free_blocks = (n1 + 1) * Words + 0 /\ 0 \in 0..(Words - 1)
          BY <2>2, <2>3, <3>1, <4>1, KFacts
        <5>2. free_blocks % Words = 0
          BY <2>2, <5>1, KFacts, Remainder
        <5> QED
          BY <5>2
      <4>2. CASE pos # Words
        <5>1. pos \in 0..(Words - 1) /\ pos # 1
          BY <2>1, <4>2, KFacts
        <5>2. free_blocks % Words = pos
          <6>1. (n1 * Words + pos) % Words = pos
            <7>1. n1 \in Int /\ Words \in Nat /\ Words >= 1
              BY <2>2, KFacts
            <7> QED
              BY <5>1, <7>1, Remainder, Zenon
          <6> QED
            BY <3>1, <6>1
        <5> QED
          BY <5>1, <5>2
      <4> QED
        BY <4>1, <4>2
    <3>3. ~Unformattable
      BY <2>4, <3>2, <1>1 DEF Unformattable, LayoutIsRight
    <3> QED
      BY <1>1, <2>2, <2>5, <3>3 DEF LayoutIsRight
  <2>6. CASE m # n1
    <3>1. (m + 1) * K <= n1 * K /\ (m + 1) * K = m * K + K
      BY <2>2, <2>6, KFacts, Monotone
    <3>2. n1 * Words < free_blocks
      BY <1>1, <2>2 DEF LayoutIsRight
    <3>3. free_blocks = n1 * Words + 1 /\ 1 \in 0..(Words - 1)
      BY <1>1, <2>1, <2>2, <2>3, <2>4, <3>1, <3>2, KFacts DEF LayoutIsRight
    <3>4. free_blocks % Words = 1
      <4>1. (n1 * Words + 1) % Words = 1
        <5>1. n1 \in Int /\ Words \in Nat /\ Words >= 1
          BY <2>2, KFacts
        <5> QED
          BY <3>3, <5>1, Remainder, Zenon
      <4> QED
        BY <3>3, <4>1
    <3> QED
      BY <1>1, <2>2, <2>4, <2>6, <3>4 DEF Unformattable, LayoutIsRight
  <2> QED
    BY <2>5, <2>6
<1> QED
  BY <1>2, <1>3

LEMMA AssertionFailsInv ==
  ASSUME IInv, AssertionFails
  PROVE  IInv'
<1>1. blocks' = blocks /\ disk' = disk /\ pc = "index" /\ pc' = "aborted" /\ i' = i
      /\ stops' = stops /\ free_index' = free_index
      /\ cur_index_block_pos' = cur_index_block_pos
      /\ i >= blocks /\ cur_index_block # first_free_block - 1
  BY DEF AssertionFails, locals
<1>2. TypeOK /\ disk[0] = Old /\ ~TooSmall /\ NodesSound /\ Unformattable
  BY <1>1, LastNode DEF IInv
<1>3. TypeOK'
  BY <1>1, <1>2 DEF TypeOK
<1>4. NodesSound'
  BY <1>1, <1>2, SameLayout DEF NodesSound
<1> QED
  BY <1>1, <1>2, <1>3, <1>4, SameLayout DEF IInv

LEMMA WriteSuperblockInv ==
  ASSUME IInv, WriteSuperblock
  PROVE  IInv'
<1>1. blocks' = blocks /\ pc = "index" /\ pc' = "mounted" /\ i' = i
      /\ disk' = [disk EXCEPT ![0] = Superblock]
      /\ stops' = stops /\ free_index' = free_index
      /\ cur_index_block_pos' = cur_index_block_pos
      /\ i >= blocks /\ cur_index_block = first_free_block - 1
  BY DEF WriteSuperblock, locals
<1>2. TypeOK /\ LayoutIsRight /\ disk[0] = Old /\ ~TooSmall /\ NodesSound /\ ~Unformattable
      /\ Filling /\ TableUpTo(inode_table_blocks)
  BY <1>1, LastNode, TypeFacts DEF IInv
<1>3. i = blocks /\ blocks \in Nat
  BY <1>1, <1>2, TypeFacts DEF TypeOK
<1>4. \A n \in IndexNodes : FilledNode(n) => disk[n] = IndexNode(n)
  <2> SUFFICES ASSUME NEW n \in IndexNodes, FilledNode(n)
               PROVE  disk[n] = IndexNode(n)
    OBVIOUS
  <2>1. NameAt(n, Words) <= blocks
    BY <1>2, NameFacts
  <2>2. CASE cur_index_block_pos = 0
    <3>1. Words - 1 \in 1..Words /\ Words - 1 \in 0..(Words - 1) /\ (Words - 1) + 1 = Words
      BY KFacts
    <3>2. NameAt(n, (Words - 1) + 1) = NameAt(n, Words - 1) + 1
          /\ NameAt(n, Words - 1) >= first_free_block /\ NameAt(n, Words - 1) \in Nat
      BY <1>2, <3>1, NameFacts
    <3>3. first_free_block = blocks
      BY <1>2, <1>3, <2>2, KFacts DEF Filling
    <3> QED
      BY <1>3, <2>1, <3>1, <3>2, <3>3
  <2>3. CASE cur_index_block_pos # 0
    <3>1. /\ cur_index_block_pos \in 2..Words /\ i = NameAt(cur_index_block, cur_index_block_pos)
          /\ \A m \in IndexNodes : m < cur_index_block => disk[m] = IndexNode(m)
          /\ cur_index_block_pos = Words => disk[cur_index_block] = IndexNode(cur_index_block)
      BY <1>2, <2>3 DEF Filling
    <3>2. n < cur_index_block \/ n = cur_index_block
      BY <1>1, <1>2, NameFacts DEF LayoutIsRight
    <3>3. n = cur_index_block => cur_index_block_pos = Words
      <4> SUFFICES ASSUME n = cur_index_block
                   PROVE  cur_index_block_pos >= Words
        BY <3>1, KFacts
      <4>1. (n - free_blocks_head) * K \in Int
        BY <1>2, NameFacts, KFacts DEF LayoutIsRight
      <4>2. NameAt(n, cur_index_block_pos) - NameAt(n, Words) = cur_index_block_pos - Words
            /\ NameAt(n, Words) \in Int /\ NameAt(n, cur_index_block_pos) \in Int
        BY <1>2, <3>1, <4>1, KFacts DEF NameAt, LayoutIsRight
      <4> QED
        BY <1>3, <2>1, <3>1, <4>2, KFacts
    <3> QED
      BY <3>1, <3>2, <3>3
  <2> QED
    BY <2>2, <2>3
<1>5. /\ DOMAIN disk' = DOMAIN disk /\ disk'[0] = Superblock
      /\ \A b \in DOMAIN disk : b # 0 => disk'[b] = disk[b]
  BY <1>1, <1>2, TypeFacts
<1>6. TypeOK'
  BY <1>1, <1>2, <1>5 DEF TypeOK
<1>7. /\ \A n \in IndexNodes : disk'[n] = disk[n]
      /\ \A b \in 1..inode_table_blocks : disk'[b] = disk[b]
  <2>1. /\ \A n \in IndexNodes : n # 0 /\ n \in DOMAIN disk
        /\ \A b \in 1..inode_table_blocks : b # 0 /\ b \in DOMAIN disk
    BY <1>2, NameFacts DEF LayoutIsRight, TypeOK
  <2> QED
    BY <1>5, <2>1
<1>8. NodesSound' /\ Complete'
  BY <1>1, <1>2, <1>4, <1>7, SameLayout DEF NodesSound, Complete, TableUpTo
<1>9. disk'[0] \in {Old, Superblock'} /\ disk'[0] # Old
  BY <1>1, <1>2, <1>5, TypeFacts, SameLayout
<1> QED
  BY <1>1, <1>2, <1>6, <1>8, <1>9, SameLayout DEF IInv

LEMMA StopInv ==
  ASSUME IInv, Stop
  PROVE  IInv'
<1>1. blocks' = blocks /\ disk' = disk /\ pc' = "off" /\ i' = i
      /\ stops' = stops + 1 /\ stops < MaxStops /\ free_index' = free_index
      /\ cur_index_block_pos' = cur_index_block_pos
  BY DEF Stop, locals
<1>2. TypeOK'
  BY <1>1, LayoutAssumption DEF IInv, TypeOK
<1>3. /\ disk'[0] \in {Old, Superblock'}
      /\ ~TooSmall' => NodesSound'
      /\ disk'[0] # Old => ~TooSmall' /\ ~Unformattable' /\ Complete'
  BY <1>1, SameLayout DEF IInv, NodesSound, Complete, TableUpTo
<1> QED
  BY <1>1, <1>2, <1>3 DEF IInv

LEMMA StutterInv ==
  ASSUME IInv, UNCHANGED vars
  PROVE  IInv'
<1>1. blocks' = blocks /\ disk' = disk /\ pc' = pc /\ i' = i /\ next_free' = next_free
      /\ stops' = stops /\ free_index' = free_index /\ cur_index_block' = cur_index_block
      /\ cur_index_block_pos' = cur_index_block_pos
  BY DEF vars, locals
<1>2. TypeOK'
  BY <1>1 DEF IInv, TypeOK
<1>3. /\ disk'[0] \in {Old, Superblock'}
      /\ ~TooSmall' => NodesSound'
      /\ disk'[0] # Old => ~TooSmall' /\ ~Unformattable' /\ Complete'
  BY <1>1, SameLayout DEF IInv, NodesSound, Complete, TableUpTo
<1>4. TableUpTo(i - 1)' <=> TableUpTo(i - 1)
  BY <1>1 DEF TableUpTo
<1>5. TableUpTo(inode_table_blocks)' <=> TableUpTo(inode_table_blocks)
  BY <1>1, SameLayout DEF TableUpTo
<1>6. Filling' <=> Filling
  BY <1>1, SameLayout DEF Filling
<1> QED
  BY <1>1, <1>2, <1>3, <1>4, <1>5, <1>6, SameLayout DEF IInv

LEMMA Inductive == Spec => []IInv
<1>1. IInv /\ [Next]_vars => IInv'
  BY OpenDiskInv, WriteInodesInv, BeginIndexInv, NameBlockInv, AssertionFailsInv,
     WriteSuperblockInv, StopInv, StutterInv DEF Next, Format
<1> QED
  BY <1>1, InvInit, PTL DEF Spec

-----------------------------------------------------------------------------
(* The theorems. *)

\* The variables of format_fs() and the size of the disk keep their types, wherever
\* the process stops: no turn of a loop of fs.c:73-165 leaves the disk or the block
\* that is being filled.
THEOREM FormatTypes == Spec => []TypeOK
<1>1. IInv => TypeOK
  BY DEF IInv
<1> QED
  BY <1>1, Inductive, PTL

\* Blocks and slots of nodes correspond: division finds the slot that names a block.
LEMMA SlotLemma ==
  ASSUME LayoutIsRight, NEW b \in first_free_block..(blocks - 1)
  PROVE  /\ SlotOf(b).node \in IndexNodes /\ SlotOf(b).word \in 1..(Words - 1)
         /\ NameAt(SlotOf(b).node, SlotOf(b).word) = b
         /\ FilledNode(SlotOf(b).node) =>
              IndexNode(SlotOf(b).node)[SlotOf(b).word] = b
<1> DEFINE s == b - first_free_block
           n == free_blocks_head + s \div K
           w == 1 + (s % K)
<1>1. SlotOf(b).node = n /\ SlotOf(b).word = w
  BY DEF SlotOf, K
<1>2. s \in Nat /\ b \in Nat /\ b < blocks
  BY DEF LayoutIsRight
<1>3. s = (s \div K) * K + (s % K) /\ s \div K \in Nat /\ (s \div K) * K \in Int
      /\ s % K \in 0..(K - 1)
  <2>1. s \in Int /\ K \in Nat /\ K >= 1
    BY <1>2, KFacts
  <2> HIDE DEF s
  <2> QED
    BY <1>2, <2>1, Division, Zenon
<1>4. n \in Int /\ n >= free_blocks_head /\ n - free_blocks_head = s \div K
  BY <1>3 DEF LayoutIsRight
<1>5. w \in 1..(Words - 1) /\ w \in 1..Words /\ w # 0 /\ w \in 0..(Words - 1)
  BY <1>3, KFacts
<1>6. NameAt(n, w) = b
  <2>1. NameAt(n, w) = first_free_block + (s \div K) * K + w - 1
    BY <1>4 DEF NameAt
  <2>2. first_free_block \in Nat /\ b = first_free_block + s
    BY <1>2 DEF LayoutIsRight
  <2> QED
    BY <1>2, <1>3, <2>1, <2>2
<1> HIDE DEF n, w, s
<1>7. n \in IndexNodes
  BY <1>2, <1>4, <1>5, <1>6, NamedOnDisk
<1>8. IndexNode(n)[w] = b
  BY <1>5, <1>6 DEF IndexNode
<1> QED
  BY <1>1, <1>5, <1>6, <1>7, <1>8

\* SignatureMeansFormatted: format_fs() writes the superblock last (fs.c:169-186), and
\* a disk that has it has the whole inode table and every index node that is full, with
\* a name for every block that it should name, however often formatting was interrupted.
THEOREM SignedDiskIsFormatted == Spec => []SignatureMeansFormatted
<1>1. IInv => SignatureMeansFormatted
  <2> SUFFICES ASSUME IInv, disk[0] # Old
               PROVE  TableIsRight /\ IndexIsRight
    BY DEF SignatureMeansFormatted
  <2>1. LayoutIsRight /\ Complete /\ NodesSound /\ blocks \in Sizes
    BY TypeFacts DEF IInv
  <2>2. TableIsRight
    BY <2>1 DEF Complete, TableUpTo, TableBlock, TableIsRight
  <2>3. \A n \in IndexNodes : FilledNode(n) =>
          /\ disk[n] # Old
          /\ disk[n][0] = IF n + 1 \in IndexNodes THEN n + 1 ELSE 0
    <3> SUFFICES ASSUME NEW n \in IndexNodes, FilledNode(n)
                 PROVE  /\ disk[n] # Old
                        /\ disk[n][0] = IF n + 1 \in IndexNodes THEN n + 1 ELSE 0
      OBVIOUS
    <3>1. disk[n] = IndexNode(n) /\ disk[n] # Old
      BY <2>1, IndexNodeType DEF Complete
    <3>2. IndexNode(n)[0] = Link(n)
      BY KFacts DEF IndexNode
    <3>3. n + 1 \in IndexNodes <=> n < first_free_block - 1
      BY <2>1, NameFacts DEF IndexNodes, LayoutIsRight
    <3> QED
      BY <3>1, <3>2, <3>3 DEF Link
  <2>4. ASSUME NEW b \in first_free_block..(blocks - 1), FilledNode(SlotOf(b).node)
        PROVE  disk[SlotOf(b).node][SlotOf(b).word] = b
    BY <2>1, <2>4, SlotLemma DEF Complete
  <2>5. \A n \in IndexNodes : ~FilledNode(n) => n = first_free_block - 1 /\ disk[n] = Old
    BY <2>1, NameFacts DEF NodesSound
  <2> QED
    BY <2>2, <2>3, <2>4, <2>5 DEF IndexIsRight
<1> QED
  BY <1>1, Inductive, PTL

\* AssertionsFailOnlyForBadSizes: fs.c:140 never fails, and fs.c:167 fails on the disks
\* of the sizes in Unformattable only; on those, no filesystem is ever mounted.
THEOREM BadSizesOnly == Spec => []AssertionsFailOnlyForBadSizes
<1>1. IInv => AssertionsFailOnlyForBadSizes
  <2> SUFFICES ASSUME IInv
               PROVE  AssertionsFailOnlyForBadSizes
    OBVIOUS
  <2>1. pc = "index" /\ i < blocks => Advanced.node < first_free_block
    <3> SUFFICES ASSUME pc = "index", i < blocks
                 PROVE  Advanced.node < first_free_block
      OBVIOUS
    <3>1. Advanced.node \in IndexNodes
      BY AdvancedFacts
    <3>2. LayoutIsRight
      BY TypeFacts DEF IInv
    <3> QED
      BY <3>1, <3>2, NameFacts
  <2> QED
    BY <2>1 DEF IInv, AssertionsFailOnlyForBadSizes
<1> QED
  BY <1>1, Inductive, PTL

\* format_fs() loses the block between the table and the index, and the blocks that
\* the last node would name if it is not full; no others, and never a full node's.
LostBlocks ==
  pc = "mounted" =>
    LET slots == blocks - first_free_block IN
    /\ Offered \subseteq (inode_table_blocks + 2)..(blocks - 1)
    /\ Cardinality((inode_table_blocks + 1)..(blocks - 1) \ Offered) = 1 + (slots % (Words - 1))

\* LostBlocks: the list of a new filesystem offers no block of the inode table, and all
\* others but the one behind the table and those of a last node that is not full.
THEOREM WhatFormattingLoses == Spec => []LostBlocks
<1>1. IInv => LostBlocks
  <2> DEFINE slots == blocks - first_free_block
             c == slots \div K
             end == first_free_block + c * K
  <2> SUFFICES ASSUME IInv, pc = "mounted"
               PROVE  /\ Offered \subseteq (inode_table_blocks + 2)..(blocks - 1)
                      /\ Cardinality((inode_table_blocks + 1)..(blocks - 1) \ Offered)
                           = 1 + (slots % K)
    BY DEF LostBlocks, K
  <2>1. LayoutIsRight /\ Complete /\ NodesSound /\ blocks \in Sizes
    BY TypeFacts DEF IInv
  <2>2. slots \in Nat /\ first_free_block \in Nat /\ blocks \in Nat /\ inode_table_blocks \in Nat
        /\ blocks = first_free_block + slots /\ free_blocks_head = inode_table_blocks + 2
        /\ first_free_block >= free_blocks_head
    BY <2>1 DEF LayoutIsRight
  <2>3. slots = c * K + (slots % K) /\ c \in Nat /\ c * K \in Int /\ slots % K \in 0..(K - 1)
    <3>1. slots \in Int /\ K \in Nat /\ K >= 1
      BY <2>2, KFacts
    <3> HIDE DEF slots
    <3> QED
      BY <2>2, <3>1, Division, Zenon
  <2>4. \A n \in IndexNodes : disk[n] # Old <=> FilledNode(n)
    BY <2>1, IndexNodeType DEF NodesSound, Complete
  <2>5. \A n \in IndexNodes : disk[n] # Old => disk[n] = IndexNode(n)
    BY <2>1 DEF NodesSound
  <2> HIDE DEF c
  <2>6. ASSUME NEW n \in IndexNodes
        PROVE  FilledNode(n) <=> NameAt(n, Words) <= end
    <3> DEFINE m == n - free_blocks_head
    <3>1. m \in Nat /\ m * K \in Int /\ (m + 1) * K = m * K + K /\ (m + 1) * K \in Int
      BY <2>1, NameFacts, KFacts DEF LayoutIsRight
    <3>2. NameAt(n, Words) = first_free_block + (m + 1) * K
      BY <2>2, <3>1, KFacts DEF NameAt
    <3>3. FilledNode(n) <=> NameAt(n, Words) <= blocks
      BY <2>1, NameFacts
    <3> HIDE DEF m
    <3>4. ASSUME (m + 1) * K <= slots
          PROVE  (m + 1) * K <= c * K
      <4>1. m + 1 <= c
        <5> SUFFICES ASSUME c <= m PROVE FALSE
          BY <2>3, <3>1
        <5>1. c * K <= m * K
          BY <2>3, <3>1, KFacts, Monotone
        <5> QED
          BY <2>3, <3>1, <3>4, <5>1, KFacts, <2>2
      <4> QED
        BY <2>3, <3>1, <4>1, KFacts, Monotone
    <3> QED
      BY <2>2, <2>3, <3>1, <3>2, <3>3, <3>4, KFacts
  <2>7. ASSUME NEW b \in first_free_block..(blocks - 1)
        PROVE  b \in Offered <=> b < end
    <3>1. b \notin IndexNodes
      BY <2>2 DEF IndexNodes
    <3>2. b \in Offered <=> \E n \in IndexNodes : disk[n] # Old
                              /\ \E w \in 1..(Words - 1) : disk[n][w] = b
      BY <3>1 DEF Offered
    <3>3. \A n \in IndexNodes, w \in 1..(Words - 1) :
             IndexNode(n)[w] = NameAt(n, w) /\ NameAt(n, w) < NameAt(n, Words)
             /\ NameAt(n, w) \in Int /\ NameAt(n, Words) \in Int
             /\ NameAt(n, Words) <= NameAt(n, w) + K
      <4> SUFFICES ASSUME NEW n \in IndexNodes, NEW w \in 1..(Words - 1)
                   PROVE  /\ IndexNode(n)[w] = NameAt(n, w) /\ NameAt(n, w) < NameAt(n, Words)
                          /\ NameAt(n, w) \in Int /\ NameAt(n, Words) \in Int
                          /\ NameAt(n, Words) <= NameAt(n, w) + K
        OBVIOUS
      <4>1. (n - free_blocks_head) * K \in Int
        BY <2>1, NameFacts, KFacts DEF LayoutIsRight
      <4>2. IndexNode(n)[w] = NameAt(n, w)
        BY KFacts DEF IndexNode
      <4> QED
        BY <2>2, <4>1, <4>2, KFacts DEF NameAt
    <3>4. ASSUME NEW n \in IndexNodes, disk[n] # Old, NEW w \in 1..(Words - 1), disk[n][w] = b
          PROVE  b < end
      <4>1. NameAt(n, Words) <= end /\ b = NameAt(n, w)
        BY <2>4, <2>5, <2>6, <3>3, <3>4
      <4> QED
        BY <2>2, <2>3, <3>3, <4>1
    <3>5. ASSUME b < end
          PROVE  \E n \in IndexNodes : disk[n] # Old /\ \E w \in 1..(Words - 1) : disk[n][w] = b
      <4> DEFINE n == SlotOf(b).node
                 w == SlotOf(b).word
      <4>1. n \in IndexNodes /\ w \in 1..(Words - 1) /\ NameAt(n, w) = b
        BY <2>1, SlotLemma
      <4> HIDE DEF n, w
      <4> DEFINE m == n - free_blocks_head
      <4>2. m \in Nat /\ m * K \in Int /\ (m + 1) * K = m * K + K /\ (m + 1) * K \in Int
        BY <2>1, <4>1, NameFacts, KFacts DEF LayoutIsRight
      <4>3. NameAt(n, Words) = first_free_block + (m + 1) * K
            /\ b = first_free_block + m * K + w - 1
        BY <2>2, <4>1, <4>2, KFacts DEF NameAt
      <4> HIDE DEF m
      <4>4. m < c
        <5> SUFFICES ASSUME c <= m PROVE FALSE
          BY <2>3, <4>2
        <5>1. c * K <= m * K
          BY <2>3, <4>2, KFacts, Monotone
        <5> QED
          BY <2>2, <2>3, <3>5, <4>1, <4>2, <4>3, <5>1, KFacts
      <4>5. (m + 1) * K <= c * K
        BY <2>3, <4>2, <4>4, KFacts, Monotone
      <4>6. FilledNode(n)
        BY <2>2, <2>3, <2>6, <4>1, <4>2, <4>3, <4>5
      <4>7. disk[n] # Old /\ disk[n][w] = b
        BY <2>4, <2>5, <3>3, <4>1, <4>6
      <4> QED
        BY <4>1, <4>7
    <3> QED
      BY <3>2, <3>4, <3>5
  <2>8. Offered \subseteq (inode_table_blocks + 2)..(blocks - 1)
    <3>1. IndexNodes \subseteq (inode_table_blocks + 2)..(blocks - 1)
      BY <2>2 DEF IndexNodes
    <3>2. first_free_block..(blocks - 1) \subseteq (inode_table_blocks + 2)..(blocks - 1)
      BY <2>2
    <3> QED
      BY <3>1, <3>2 DEF Offered
  <2>9. (inode_table_blocks + 1)..(blocks - 1) \ Offered
          = (end..(blocks - 1)) \cup {inode_table_blocks + 1}
    <3>1. ASSUME NEW b \in (inode_table_blocks + 1)..(blocks - 1)
          PROVE  \/ b = inode_table_blocks + 1
                 \/ b \in IndexNodes
                 \/ b \in first_free_block..(blocks - 1)
      BY <2>2 DEF IndexNodes
    <3>2. IndexNodes \subseteq Offered /\ inode_table_blocks + 1 \notin Offered
      BY <2>2, <2>8 DEF Offered
    <3>3. end \in Int /\ end >= first_free_block /\ end <= blocks
      BY <2>2, <2>3, KFacts
    <3>4. \A b \in end..(blocks - 1) : b \in first_free_block..(blocks - 1) /\ ~(b < end)
            /\ b \in (inode_table_blocks + 1)..(blocks - 1)
      BY <2>2, <3>3
    <3>5. inode_table_blocks + 1 \in (inode_table_blocks + 1)..(blocks - 1)
      BY <2>1 DEF LayoutIsRight
    <3>6. \A b \in first_free_block..(blocks - 1) : ~(b < end) => b \in end..(blocks - 1)
      BY <2>2, <3>3
    <3> HIDE DEF end
    <3> QED
      BY <2>7, <3>1, <3>2, <3>4, <3>5, <3>6
  <2>10. end \in Int /\ end <= blocks /\ end > inode_table_blocks + 1 /\ blocks - end = slots % K
    BY <2>2, <2>3, KFacts
  <2>11. Cardinality(end..(blocks - 1)) = slots % K /\ IsFiniteSet(end..(blocks - 1))
    <3>1. blocks - 1 \in Int /\ end \in Int
      BY <2>2, <2>10
    <3>2. (IF end > blocks - 1 THEN 0 ELSE (blocks - 1) - end + 1) = blocks - end
      BY <2>2, <2>10
    <3> HIDE DEF end, slots
    <3>3. /\ Cardinality(end..(blocks - 1))
               = (IF end > blocks - 1 THEN 0 ELSE (blocks - 1) - end + 1)
          /\ IsFiniteSet(end..(blocks - 1))
      <4> DEFINE top == blocks - 1
      <4> HIDE DEF top
      <4>1. /\ Cardinality(end..top) = (IF end > top THEN 0 ELSE top - end + 1)
            /\ IsFiniteSet(end..top)
        BY <3>1, FS_Interval DEF top
      <4> QED
        BY <4>1 DEF top
    <3> QED
      BY <2>10, <3>2, <3>3, Zenon
  <2>12. inode_table_blocks + 1 \notin end..(blocks - 1)
    BY <2>2, <2>10
  <2> HIDE DEF end, slots
  <2>13. Cardinality((end..(blocks - 1)) \cup {inode_table_blocks + 1})
           = Cardinality(end..(blocks - 1)) + 1
    BY <2>11, <2>12, FS_AddElement
  <2>14. (slots % K) + 1 = 1 + (slots % K)
    BY <2>3, KFacts
  <2> QED
    BY <2>8, <2>9, <2>11, <2>13, <2>14, Zenon
<1> QED
  BY <1>1, Inductive, PTL
=============================================================================
