--------------------------- MODULE FileDataProofs ---------------------------
(***************************************************************************)
(* Proofs about FileData for files, blocks and requests of every size: the *)
(* reads that leave the caller's buffer are the ones in Overruns, and for  *)
(* the requests in Exact the file is an array of bytes.                    *)
(***************************************************************************)
EXTENDS FileData, TLAPS

-----------------------------------------------------------------------------
(* Arithmetic. *)

\* A product by a larger number is larger.
LEMMA Monotone ==
  ASSUME NEW a \in Int, NEW b \in Int, NEW k \in Nat, a <= b
  PROVE  a * k <= b * k /\ a * k \in Int /\ b * k \in Int
<1>1. PICK d \in Nat : b = a + d
  BY SMT
<1>2. b * k = a * k + d * k /\ d * k \in Nat /\ a * k \in Int
  BY <1>1
<1> QED
  BY <1>2

\* Quotient and remainder ...
LEMMA Division ==
  ASSUME NEW a \in Int, NEW k \in Nat, k >= 1
  PROVE  /\ a = (a \div k) * k + (a % k)
         /\ a \div k \in Int /\ (a \div k) * k \in Int
         /\ a % k \in 0..(k - 1)
         /\ a \in Nat => a \div k \in Nat
BY SMT

\* ... are what is inside a multiple.
LEMMA Quotient ==
  ASSUME NEW a \in Int, NEW d \in Int, NEW k \in Nat, k >= 1, NEW r \in 0..(k - 1),
         a = d * k + r
  PROVE  a \div k = d /\ a % k = r
<1> DEFINE c == a \div k
<1>1. d * k \in Int
  OBVIOUS
<1>2. a = c * k + (a % k) /\ c \in Int /\ c * k \in Int /\ a % k \in 0..(k - 1)
  BY Division, Zenon
<1> HIDE DEF c
<1>3. ~(c < d)
  <2> SUFFICES ASSUME c < d PROVE FALSE
    OBVIOUS
  <2>1. (c + 1) * k <= d * k /\ (c + 1) * k = c * k + k
    BY <1>2, Monotone
  <2> QED
    BY <1>1, <1>2, <2>1
<1>4. ~(d < c)
  <2> SUFFICES ASSUME d < c PROVE FALSE
    OBVIOUS
  <2>1. (d + 1) * k <= c * k /\ (d + 1) * k = d * k + k
    BY <1>2, Monotone
  <2> QED
    BY <1>1, <1>2, <2>1
<1>5. c = d
  BY <1>2, <1>3, <1>4
<1>6. c * k = d * k
  BY <1>5
<1> QED
  BY <1>1, <1>2, <1>5, <1>6 DEF c

-----------------------------------------------------------------------------
(* How a request is cut. *)

\* The first and the last block of a request, and where in them it begins and ends.
Cut(r) ==
  /\ r.off \in Nat /\ r.n \in Nat /\ r.n > 0 /\ r.off + r.n <= MaxEnd
  /\ first_block(r) \in Nat /\ first_block(r) * BlockSize \in Nat
  /\ first_block_offset(r) \in 0..(BlockSize - 1)
  /\ r.off = first_block(r) * BlockSize + first_block_offset(r)
  /\ last_block(r) \in Nat /\ last_block(r) * BlockSize \in Nat
  /\ last_block_len(r) \in 1..BlockSize
  /\ r.off + r.n = last_block(r) * BlockSize + last_block_len(r)
  /\ first_block(r) <= last_block(r)
  /\ (r.off + r.n - 1) \div BlockSize = last_block(r)
  /\ \/ last_block_len(r) = BlockSize /\ (r.off + r.n) \div BlockSize = last_block(r) + 1
     \/ /\ last_block_len(r) # BlockSize /\ (r.off + r.n) \div BlockSize = last_block(r)
        /\ (r.off + r.n) % BlockSize = last_block_len(r)

LEMMA BlockSizeFacts ==
  /\ BlockSize \in Nat /\ BlockSize >= 1 /\ MaxBlocks \in Nat /\ MaxBlocks >= 1
  /\ MaxEnd \in Nat /\ MaxBytes \in Nat /\ MaxBytes = MaxBlocks * BlockSize /\ 0 \in Bytes
<1>1. BlockSize \in Nat /\ BlockSize >= 1 /\ MaxBlocks \in Nat /\ MaxBlocks >= 1
      /\ MaxEnd \in Nat /\ 0 \in Bytes
  BY SizesAssumption
<1>2. MaxBlocks * BlockSize \in Nat
  BY <1>1
<1> QED
  BY <1>1, <1>2 DEF MaxBytes

LEMMA RequestFacts ==
  ASSUME NEW r \in Requests
  PROVE  /\ r.off \in Nat /\ r.n \in Nat /\ r.off + r.n <= MaxEnd /\ r.n <= MaxEnd
         /\ r.op \in {"read", "write"} /\ r.n \in 0..MaxEnd
BY BlockSizeFacts DEF Requests

LEMMA CutLemma ==
  ASSUME NEW r \in Requests, r.n > 0
  PROVE  Cut(r)
<1> DEFINE e == r.off + r.n
           d == e \div BlockSize
           m == e % BlockSize
<1>1. r.off \in Nat /\ r.n \in Nat /\ e <= MaxEnd /\ e \in Nat /\ r.off \in Int /\ e \in Int
      /\ BlockSize \in Nat /\ BlockSize >= 1 /\ r.off + r.n = e /\ r.off < e
  BY RequestFacts, BlockSizeFacts
<1>2. /\ r.off = first_block(r) * BlockSize + first_block_offset(r)
      /\ first_block(r) \in Nat /\ first_block(r) * BlockSize \in Int
      /\ first_block_offset(r) \in 0..(BlockSize - 1)
  BY <1>1, Division, Zenon DEF first_block, first_block_offset
<1> HIDE DEF e
<1>3. e = d * BlockSize + m /\ d \in Nat /\ d * BlockSize \in Int /\ m \in 0..(BlockSize - 1)
  BY <1>1, Division, Zenon
<1>4. /\ last_block_len(r) = IF m = 0 THEN BlockSize ELSE m
      /\ last_block(r) = d - (IF last_block_len(r) = BlockSize THEN 1 ELSE 0)
  BY DEF last_block_len, last_block, e
<1> HIDE DEF d, m
<1> DEFINE f == first_block(r)
           l == last_block(r)
<1> HIDE DEF f, l
<1>5. /\ l \in Nat /\ last_block_len(r) \in 1..BlockSize
      /\ e = l * BlockSize + last_block_len(r)
      /\ \/ last_block_len(r) = BlockSize /\ d = l + 1
         \/ last_block_len(r) # BlockSize /\ d = l /\ m = last_block_len(r)
  <2>1. CASE m = 0
    <3>1. last_block_len(r) = BlockSize /\ l = d - 1
      BY <1>4, <2>1 DEF l
    <3>2. d >= 1
      <4> SUFFICES ASSUME d = 0 PROVE FALSE
        BY <1>3
      <4>1. d * BlockSize = 0
        BY <1>1
      <4> QED
        BY <1>1, <1>3, <2>1, <4>1
    <3>3. (d - 1) * BlockSize = d * BlockSize - BlockSize
      BY <1>1, <1>3
    <3> QED
      BY <1>1, <1>3, <2>1, <3>1, <3>2, <3>3
  <2>2. CASE m # 0
    <3>1. last_block_len(r) = m /\ l = d
      BY <1>1, <1>3, <1>4, <2>2 DEF l
    <3> QED
      BY <1>1, <1>3, <2>2, <3>1
  <2> QED
    BY <2>1, <2>2
<1>6. l * BlockSize \in Nat
  BY <1>1, <1>5
<1>7. (e - 1) \div BlockSize = l
  <2>1. e - 1 = l * BlockSize + (last_block_len(r) - 1)
        /\ last_block_len(r) - 1 \in 0..(BlockSize - 1)
    BY <1>1, <1>5, <1>6
  <2>2. e - 1 \in Int /\ l \in Int
    BY <1>1, <1>5
  <2> QED
    BY <1>1, <2>1, <2>2, Quotient, Zenon
<1>8. f <= l
  <2> SUFFICES ASSUME l + 1 <= f PROVE FALSE
    BY <1>2, <1>5 DEF f
  <2>1. (l + 1) * BlockSize <= f * BlockSize /\ (l + 1) * BlockSize = l * BlockSize + BlockSize
    BY <1>1, <1>2, <1>5, Monotone DEF f
  <2> QED
    BY <1>1, <1>2, <1>5, <1>6, <2>1 DEF f
<1>9. first_block(r) * BlockSize \in Nat
  BY <1>1, <1>2
<1> QED
  BY <1>1, <1>2, <1>5, <1>6, <1>7, <1>8, <1>9 DEF Cut, e, d, m, f, l

\* The slices of a block of a request.
LEMMA SliceFacts ==
  ASSUME NEW r \in Requests, r.n > 0, NEW b \in first_block(r)..last_block(r)
  PROVE  /\ b \in Nat /\ b * BlockSize \in Nat /\ (b + 1) * BlockSize = b * BlockSize + BlockSize
         /\ slice_a(r, b) \in 0..(BlockSize - 1) /\ slice_b(r, b) \in 1..BlockSize
         /\ b * BlockSize + slice_b(r, b) <= r.off + r.n
         /\ slice_a(r, b) = 0 => r.off <= b * BlockSize
         /\ slice_a(r, b) # 0 => b = first_block(r) /\ slice_a(r, b) = first_block_offset(r)
         /\ slice_b(r, b) # BlockSize => b = last_block(r) /\ slice_b(r, b) = last_block_len(r)
<1>1. Cut(r) /\ BlockSize \in Nat /\ BlockSize >= 1
  BY CutLemma, BlockSizeFacts
<1>2. b \in Nat /\ b * BlockSize \in Nat /\ (b + 1) * BlockSize = b * BlockSize + BlockSize
  BY <1>1 DEF Cut
<1>3. /\ slice_a(r, b) \in 0..(BlockSize - 1) /\ slice_b(r, b) \in 1..BlockSize
      /\ slice_a(r, b) # 0 => b = first_block(r) /\ slice_a(r, b) = first_block_offset(r)
      /\ slice_b(r, b) # BlockSize => b = last_block(r) /\ slice_b(r, b) = last_block_len(r)
  BY <1>1 DEF Cut, slice_a, slice_b
<1>4. b * BlockSize + slice_b(r, b) <= r.off + r.n
  <2>1. CASE b = last_block(r)
    BY <1>1, <2>1 DEF Cut, slice_b
  <2>2. CASE b # last_block(r)
    <3>0. b + 1 \in Int /\ last_block(r) \in Int /\ b + 1 <= last_block(r)
      BY <1>1, <1>2, <2>2 DEF Cut
    <3>1. (b + 1) * BlockSize <= last_block(r) * BlockSize
      BY <1>1, <3>0, Monotone
    <3>2. slice_b(r, b) = BlockSize
      BY <2>2 DEF slice_b
    <3> QED
      BY <1>1, <1>2, <3>1, <3>2 DEF Cut
  <2> QED
    BY <2>1, <2>2
<1>5. ASSUME slice_a(r, b) = 0
      PROVE  r.off <= b * BlockSize
  <2>1. CASE b = first_block(r)
    BY <1>1, <1>5, <2>1 DEF Cut, slice_a
  <2>2. CASE b # first_block(r)
    <3>1. (first_block(r) + 1) * BlockSize <= b * BlockSize
          /\ (first_block(r) + 1) * BlockSize = first_block(r) * BlockSize + BlockSize
      <4>1. first_block(r) + 1 \in Int /\ first_block(r) \in Int /\ b \in Int
            /\ first_block(r) + 1 <= b
        <5>1. first_block(r) \in Int /\ last_block(r) \in Int
          BY <1>1 DEF Cut
        <5> QED
          BY <2>2, <5>1
      <4> QED
        BY <1>1, <4>1, Monotone
    <3> QED
      BY <1>1, <1>2, <3>1 DEF Cut
  <2> QED
    BY <2>1, <2>2
<1> QED
  BY <1>2, <1>3, <1>4, <1>5

\* An index outside the buffer is used by the requests in Overruns only (sfs.c:737,
\* 748 for sfs_read()).
LEMMA InBuffer ==
  ASSUME NEW r \in Requests, r.n > 0, NEW b \in first_block(r)..last_block(r), b < MaxBlocks,
         NEW j \in Exchanged(r, b), ~Overruns(r)
  PROVE  BufferIndex(r, b, j) \in 0..(r.n - 1)
<1>1. Cut(r) /\ BlockSize \in Nat /\ BlockSize >= 1
  BY CutLemma, BlockSizeFacts
<1>2. slice_a(r, b) = 0 /\ j \in 0..(slice_b(r, b) - 1)
  BY DEF Exchanged
<1>3. /\ b \in Nat /\ b * BlockSize \in Nat /\ (b + 1) * BlockSize = b * BlockSize + BlockSize
      /\ slice_b(r, b) \in 1..BlockSize
      /\ b * BlockSize + slice_b(r, b) <= r.off + r.n
      /\ r.off <= b * BlockSize
      /\ slice_b(r, b) # BlockSize => b = last_block(r) /\ slice_b(r, b) = last_block_len(r)
  BY <1>2, SliceFacts
<1>4. CASE Full(r, b)
  <2>1. slice_b(r, b) = BlockSize /\ BufferIndex(r, b, j) = (b * BlockSize + j) - first_block_offset(r)
    <3>1. slice_b(r, b) = BlockSize
      BY <1>4 DEF Full
    <3> QED
      BY <1>4, <3>1, Zenon DEF BufferIndex
  <2>2. b \in first_block(r)..((r.off + r.n) \div BlockSize)
    BY <1>1, <1>3 DEF Cut
  <2>3. first_block(r) = 0
    <3> SUFFICES ASSUME first_block(r) > 0
                 PROVE  Overruns(r)
      BY <1>1 DEF Cut
    <3>1. b < MaxBlocks /\ r.off <= b * BlockSize /\ (b + 1) * BlockSize <= r.off + r.n
      BY <1>1, <1>3, <2>1
    <3> QED
      BY <2>2, <3>1 DEF Overruns, first_block
  <2>4. r.off = first_block_offset(r)
    <3>1. first_block(r) * BlockSize = 0
      BY <1>1, <2>3
    <3> QED
      BY <1>1, <3>1 DEF Cut
  <2> QED
    BY <1>1, <1>2, <1>3, <2>1, <2>4 DEF Cut
<1>5. CASE ~Full(r, b)
  <2>1. slice_b(r, b) # BlockSize /\ BufferIndex(r, b, j) = j - first_block_offset(r)
    <3>1. slice_b(r, b) # BlockSize
      BY <1>2, <1>5 DEF Full
    <3> QED
      BY <1>5, <3>1 DEF BufferIndex
  <2>2. b = last_block(r) /\ slice_b(r, b) = last_block_len(r)
    BY <1>3, <2>1
  <2>3. /\ (r.off + r.n) \div BlockSize = last_block(r)
        /\ (r.off + r.n) % BlockSize = last_block_len(r)
    BY <1>1, <2>1, <2>2 DEF Cut
  <2>4. first_block_offset(r) = 0
    <3> SUFFICES ASSUME first_block_offset(r) # 0
                 PROVE  Overruns(r)
      OBVIOUS
    <3>1. first_block(r) # b
      BY <1>2 DEF slice_a
    <3>2. first_block(r) < last_block(r) /\ last_block(r) < MaxBlocks /\ last_block_len(r) # 0
      BY <1>1, <2>2, <3>1 DEF Cut
    <3> QED
      BY <2>3, <3>2 DEF Overruns, first_block, first_block_offset
  <2> QED
    <3>1. BufferIndex(r, b, j) = j
      BY <1>2, <1>3, <2>1, <2>4
    <3>2. r.off \in Nat /\ r.n \in Nat
      BY <1>1 DEF Cut
    <3> QED
      BY <1>2, <1>3, <3>1, <3>2
<1> QED
  BY <1>4, <1>5

LEMMA ReadOverruns ==
  ASSUME NEW r \in Requests, r.n > 0, NEW m \in Moves(r), m[1] \notin 0..(r.n - 1)
  PROVE  Overruns(r)
<1>1. PICK b \in {c \in first_block(r)..last_block(r) : c < MaxBlocks} :
        m \in {<<BufferIndex(r, b, j), b * BlockSize + j>> : j \in Exchanged(r, b)}
  BY DEF Moves
<1>2. PICK j \in Exchanged(r, b) : m = <<BufferIndex(r, b, j), b * BlockSize + j>>
  BY <1>1
<1>3. m[1] = BufferIndex(r, b, j)
  BY <1>2
<1> QED
  BY <1>1, <1>3, InBuffer

-----------------------------------------------------------------------------
(* The bytes of a block. *)

LEMMA ByteFacts ==
  ASSUME NEW p \in 0..(MaxBytes - 1)
  PROVE  /\ p \in Nat /\ p = (p \div BlockSize) * BlockSize + (p % BlockSize)
         /\ p \div BlockSize \in Nat /\ (p \div BlockSize) * BlockSize \in Int
         /\ p % BlockSize \in 0..(BlockSize - 1)
<1>1. p \in Nat /\ p \in Int /\ BlockSize \in Nat /\ BlockSize >= 1
  BY BlockSizeFacts
<1> QED
  BY <1>1, Division, Zenon

-----------------------------------------------------------------------------
(* The invariant. *)

\* The bytes that a write leaves, whichever block stops it, and the size: it has changed
\* the blocks in bs.
Stored(r, bs) ==
  /\ content' \in [0..(MaxBytes - 1) -> Bytes]
  /\ \A p \in 0..(MaxBytes - 1) :
       p \div BlockSize \notin bs => content'[p] = content[p]
  /\ \A p \in DOMAIN content' : content'[p] # 0 => p \div BlockSize \in stored'
  /\ stored' = stored \cup bs
  /\ size' = IF r.off + r.n > size THEN r.off + r.n ELSE size

LEMMA StoreFacts ==
  ASSUME TypeOK, NEW r \in Requests, r.n > 0, NEW buf \in [0..(r.n - 1) -> Bytes], NEW stop,
         NEW torn, Store(r, buf, stop, torn)
  PROVE  Stored(r, first_block(r)..(stop - 1) \cup torn)
<1> DEFINE done == first_block(r)..(stop - 1)
           wild == {p \in BytesOf(done) : FromNowhere(r, p)} \cup BytesOf(torn)
           bs == done \cup torn
<1>1. DOMAIN content = 0..(MaxBytes - 1) /\ content \in [0..(MaxBytes - 1) -> Bytes]
      /\ \A p \in DOMAIN content : content[p] # 0 => p \div BlockSize \in stored
  BY DEF TypeOK
<1>2. PICK junk \in [wild -> Bytes] :
        content' = [p \in DOMAIN content |->
         LET b == p \div BlockSize
             j == p % BlockSize
         IN  CASE p \in wild -> junk[p]
               [] p \notin wild /\ (b \notin done \/ KeepsOld(r, b, j)) -> content[p]
               [] OTHER -> buf[BufferIndex(r, b, j)]]
  BY DEF Store
<1>3. stored' = stored \cup bs /\ size' = IF r.off + r.n > size THEN r.off + r.n ELSE size
  BY DEF Store, Grown
<1>4. ASSUME NEW p \in 0..(MaxBytes - 1)
      PROVE  \/ content'[p] = content[p]
             \/ content'[p] \in Bytes /\ p \div BlockSize \in bs
  <2> DEFINE b == p \div BlockSize
             j == p % BlockSize
  <2>1. content'[p] = CASE p \in wild -> junk[p]
                        [] p \notin wild /\ (b \notin done \/ KeepsOld(r, b, j)) -> content[p]
                        [] OTHER -> buf[BufferIndex(r, b, j)]
    BY <1>1, <1>2
  <2>0. p \div BlockSize = b
    OBVIOUS
  <2>5. b \in done /\ ~KeepsOld(r, b, j) /\ p \notin wild => BufferIndex(r, b, j) \in 0..(r.n - 1)
    <3> SUFFICES ASSUME b \in done, ~KeepsOld(r, b, j), p \notin wild
                 PROVE  BufferIndex(r, b, j) \in 0..(r.n - 1)
      OBVIOUS
    <3>1. p \in BytesOf(done)
      BY DEF BytesOf
    <3> QED
      BY <3>1 DEF FromNowhere
  <2>6. p \in wild => b \in bs
    BY DEF BytesOf
  <2>7. b \in done => b \in bs
    OBVIOUS
  <2> HIDE DEF b, j, done, wild, bs
  <2>2. CASE p \in wild
    BY <2>0, <2>1, <2>2, <2>6
  <2>3. CASE p \notin wild /\ (b \notin done \/ KeepsOld(r, b, j))
    BY <2>1, <2>3
  <2>4. CASE p \notin wild /\ ~(b \notin done \/ KeepsOld(r, b, j))
    <3>1. BufferIndex(r, b, j) \in 0..(r.n - 1)
      BY <2>4, <2>5
    <3>2. content'[p] = buf[BufferIndex(r, b, j)]
      BY <2>1, <2>4
    <3> QED
      BY <2>0, <2>4, <2>7, <3>1, <3>2
  <2> QED
    BY <2>2, <2>3, <2>4
<1>5. content' \in [0..(MaxBytes - 1) -> Bytes]
  <2>1. DOMAIN content' = 0..(MaxBytes - 1) /\ content' = [p \in 0..(MaxBytes - 1) |-> content'[p]]
    BY <1>1, <1>2
  <2>2. \A p \in 0..(MaxBytes - 1) : content'[p] \in Bytes
    BY <1>1, <1>4
  <2> QED
    BY <2>1, <2>2
<1>6. \A p \in 0..(MaxBytes - 1) : p \div BlockSize \notin bs => content'[p] = content[p]
  BY <1>4
<1>7. \A p \in DOMAIN content' : content'[p] # 0 => p \div BlockSize \in stored'
  BY <1>1, <1>3, <1>4, <1>5
<1> QED
  BY <1>3, <1>5, <1>6, <1>7 DEF Stored

\* A write stores in blocks that lie below the new size.
LEMMA WriteType ==
  ASSUME TypeOK, NEW r \in Requests, r.n > 0,
         NEW bs \in SUBSET (first_block(r)..last_block(r)), \A b \in bs : b < MaxBlocks,
         Stored(r, bs), request' = r
  PROVE  TypeOK'
<1>1. /\ r.off \in Nat /\ r.n \in Nat /\ r.off + r.n <= MaxEnd /\ size \in 0..MaxEnd
      /\ BlockSize \in Nat /\ BlockSize >= 1
  BY RequestFacts, BlockSizeFacts DEF TypeOK
<1>2. size' \in 0..MaxEnd /\ size' \in Nat /\ size' >= size /\ size' >= r.off + r.n
  BY <1>1, BlockSizeFacts DEF Stored
<1>3. \A b \in bs : b \in first_block(r)..last_block(r) /\ b \in Nat
  <2>1. first_block(r) \in Nat /\ last_block(r) \in Nat
    BY CutLemma DEF Cut
  <2> QED
    BY <2>1
<1>4. stored' \subseteq 0..(MaxBlocks - 1)
  <2>1. stored' = stored \cup bs
    BY Zenon DEF Stored
  <2>2. stored \subseteq 0..(MaxBlocks - 1)
    BY DEF TypeOK
  <2>3. \A b \in bs : b \in 0..(MaxBlocks - 1)
    BY <1>3, BlockSizeFacts
  <2> QED
    BY <2>1, <2>2, <2>3, Zenon
<1>5. ASSUME NEW b \in stored'
      PROVE  b * BlockSize < size'
  <2>1. CASE b \in stored
    <3>1. b * BlockSize < size /\ b \in Nat
      BY <2>1 DEF TypeOK
    <3>2. b * BlockSize \in Nat
      BY <1>1, <3>1
    <3> QED
      BY <1>1, <1>2, <3>1, <3>2
  <2>2. CASE b \in bs
    <3>1. b \in first_block(r)..last_block(r)
      BY <1>3, <2>2
    <3>2. b * BlockSize \in Nat /\ slice_b(r, b) \in 1..BlockSize
          /\ b * BlockSize + slice_b(r, b) <= r.off + r.n
      BY <3>1, SliceFacts
    <3> QED
      BY <1>1, <1>2, <3>2
  <2> QED
    BY <1>5, <2>1, <2>2 DEF Stored
<1>6. /\ content' \in [0..(MaxBytes - 1) -> Bytes]
      /\ \A p \in DOMAIN content' : content'[p] # 0 => p \div BlockSize \in stored'
  BY Zenon DEF Stored
<1>7. request' \in Requests \cup {Idle}
  OBVIOUS
<1> QED
  BY <1>2, <1>4, <1>5, <1>6, <1>7, Zenon DEF TypeOK

\* What the two ends of sfs_write() have in common.
LEMMA WriteFacts ==
  ASSUME TypeOK, NEW r \in Requests, r.n > 0, NEW buf \in [0..(r.n - 1) -> Bytes],
         Write(r, buf)
  PROVE  \E bs \in SUBSET (first_block(r)..last_block(r)) :
           /\ \A b \in bs : b < MaxBlocks
           /\ Stored(r, bs)
           /\ answer' = Error \/ (answer' = Done /\ Store(r, buf, last_block(r) + 1, {}))
<1>0. first_block(r) \in Nat /\ last_block(r) \in Nat
  BY CutLemma DEF Cut
<1>1. CASE /\ last_block(r) < MaxBlocks
           /\ Store(r, buf, last_block(r) + 1, {})
           /\ answer' = Done
  <2> DEFINE bs == first_block(r)..((last_block(r) + 1) - 1) \cup {}
  <2>1. bs \in SUBSET (first_block(r)..last_block(r)) /\ \A b \in bs : b < MaxBlocks
    BY <1>0, <1>1, BlockSizeFacts
  <2>2. Stored(r, bs)
    BY <1>1, StoreFacts
  <2> HIDE DEF bs
  <2> QED
    BY <1>1, <2>1, <2>2
<1>2. CASE WriteFails(r, buf)
  <2>0. PICK stop \in first_block(r)..last_block(r) : \E torn \in SUBSET {stop} :
          /\ \A b \in first_block(r)..(stop - 1) : b < MaxBlocks
          /\ \A b \in torn : b < MaxBlocks
          /\ Store(r, buf, stop, torn)
          /\ answer' = Error
    BY <1>2 DEF WriteFails
  <2>1. PICK torn \in SUBSET {stop} :
          /\ \A b \in first_block(r)..(stop - 1) : b < MaxBlocks
          /\ \A b \in torn : b < MaxBlocks
          /\ Store(r, buf, stop, torn)
          /\ answer' = Error
    BY <2>0
  <2> DEFINE bs == first_block(r)..(stop - 1) \cup torn
  <2>2. ASSUME NEW b \in bs
        PROVE  b \in first_block(r)..last_block(r) /\ b < MaxBlocks
    <3>1. CASE b \in first_block(r)..(stop - 1)
      BY <1>0, <2>1, <3>1
    <3>2. CASE b \in torn
      BY <2>1, <3>2
    <3> QED
      BY <3>1, <3>2
  <2>3. Stored(r, bs)
    BY <2>1, StoreFacts
  <2> HIDE DEF bs
  <2> QED
    BY <2>1, <2>2, <2>3
<1> QED
  BY <1>1, <1>2 DEF Write

\* Where the bytes that sfs_read() moves to an index come from: a full block, or the tail.
LEMMA MovesForm ==
  ASSUME NEW r \in Requests, r.n > 0, NEW k, NEW p, <<k, p>> \in Moves(r)
  PROVE  /\ p \in 0..(MaxBytes - 1) /\ k \in Int
         /\ \/ p = k + first_block_offset(r)
            \/ p = last_block(r) * BlockSize + k + first_block_offset(r)
<1>1. PICK b \in {c \in first_block(r)..last_block(r) : c < MaxBlocks} :
        <<k, p>> \in {<<BufferIndex(r, b, j), b * BlockSize + j>> : j \in Exchanged(r, b)}
  BY DEF Moves
<1>2. PICK j \in Exchanged(r, b) : <<k, p>> = <<BufferIndex(r, b, j), b * BlockSize + j>>
  BY <1>1
<1>3. k = BufferIndex(r, b, j) /\ p = b * BlockSize + j /\ b < MaxBlocks
      /\ b \in first_block(r)..last_block(r)
  BY <1>1, <1>2
<1>4. slice_a(r, b) = 0 /\ j \in 0..(slice_b(r, b) - 1)
  BY DEF Exchanged
<1>5. /\ b \in Nat /\ b * BlockSize \in Nat /\ (b + 1) * BlockSize = b * BlockSize + BlockSize
      /\ slice_b(r, b) \in 1..BlockSize
      /\ slice_b(r, b) # BlockSize => b = last_block(r)
  BY <1>3, SliceFacts
<1>6. first_block_offset(r) \in Nat
  BY CutLemma, BlockSizeFacts DEF Cut
<1>7. p \in 0..(MaxBytes - 1)
  <2>1. (b + 1) * BlockSize <= MaxBlocks * BlockSize /\ MaxBlocks * BlockSize \in Int
    BY <1>3, <1>5, BlockSizeFacts, Monotone
  <2> QED
    BY <1>3, <1>4, <1>5, <2>1, BlockSizeFacts
<1>8. CASE Full(r, b)
  <2>1. k = (b * BlockSize + j) - first_block_offset(r)
    BY <1>3, <1>8, Zenon DEF BufferIndex
  <2> QED
    BY <1>3, <1>4, <1>5, <1>6, <1>7, <2>1
<1>9. CASE ~Full(r, b)
  <2>1. k = j - first_block_offset(r)
    BY <1>3, <1>9, Zenon DEF BufferIndex
  <2>2. b = last_block(r)
    BY <1>4, <1>5, <1>9 DEF Full
  <2> QED
    BY <1>3, <1>4, <1>5, <1>6, <1>7, <2>1, <2>2
<1> QED
  BY <1>8, <1>9

\* The last one is well defined.
LEMMA LatestLemma ==
  ASSUME NEW r \in Requests, r.n > 0, NEW m \in Moves(r), NEW k, m[1] = k
  PROVE  /\ Latest(r, k) \in 0..(MaxBytes - 1)
         /\ <<k, Latest(r, k)>> \in Moves(r)
<1>1. PICK p : m = <<k, p>>
  BY DEF Moves
<1>2. <<k, p>> \in Moves(r)
  BY <1>1
<1>3. first_block_offset(r) \in Nat /\ last_block(r) * BlockSize \in Nat
  BY CutLemma, BlockSizeFacts DEF Cut
<1> DEFINE f == k + first_block_offset(r)
           t == last_block(r) * BlockSize + k + first_block_offset(r)
<1>4. f <= t /\ f \in Int /\ t \in Int
  BY <1>2, <1>3, MovesForm
<1>5. \A q \in 0..(MaxBytes - 1) : <<k, q>> \in Moves(r) => q = f \/ q = t
  BY MovesForm
<1>6. p \in 0..(MaxBytes - 1) /\ (p = f \/ p = t)
  BY <1>2, MovesForm
<1> HIDE DEF f, t
<1>7. \E x \in 0..(MaxBytes - 1) :
        <<k, x>> \in Moves(r) /\ \A q \in 0..(MaxBytes - 1) : <<k, q>> \in Moves(r) => q <= x
  <2>1. CASE t \in 0..(MaxBytes - 1) /\ <<k, t>> \in Moves(r)
    BY <1>4, <1>5, <2>1
  <2>2. CASE ~(t \in 0..(MaxBytes - 1) /\ <<k, t>> \in Moves(r))
    BY <1>2, <1>4, <1>5, <1>6, <2>2
  <2> QED
    BY <2>1, <2>2
<1> QED
  BY <1>7 DEF Latest

\* The answers that are no overrun.
LEMMA ReadAnswer ==
  ASSUME TypeOK, NEW r \in Requests, r.n > 0, Read(r), answer' = Overrun
  PROVE  Overruns(r)
<1> SUFFICES ASSUME \A m \in Moves(r) : m[1] \in 0..(r.n - 1)
             PROVE  FALSE
  BY ReadOverruns
<1>1. CASE last_block(r) >= MaxBlocks
  BY <1>1, OverrunAssumption DEF Read
<1>2. CASE ~(last_block(r) >= MaxBlocks)
  <2>1. answer' = [k \in 0..(r.n - 1) |->
                     IF \E m \in Moves(r) : m[1] = k THEN content[Latest(r, k)] ELSE Unset]
    BY <1>2 DEF Read
  <2>2. ASSUME NEW k \in 0..(r.n - 1), NEW m \in Moves(r), m[1] = k
        PROVE  content[Latest(r, k)] \in Bytes
    BY <2>2, LatestLemma DEF TypeOK
  <2>3. answer' \in [0..(r.n - 1) -> Bytes \cup {Unset}]
    BY <2>1, <2>2
  <2> QED
    BY <2>3, RequestFacts, OverrunAssumption
<1> QED
  BY <1>1, <1>2

IInv == TypeOK /\ ReadsStayInBuffer

LEMMA InvInit == Init => IInv
<1> SUFFICES ASSUME Init
             PROVE  IInv
  OBVIOUS
<1>1. \A p \in DOMAIN content : content[p] = 0
  BY DEF Init
<1>2. TypeOK
  BY <1>1, BlockSizeFacts DEF Init, TypeOK
<1>3. ReadsStayInBuffer
  BY OverrunAssumption DEF Init, ReadsStayInBuffer
<1> QED
  BY <1>2, <1>3 DEF IInv

\* A call that changes no byte keeps the types.
LEMMA SameFile ==
  ASSUME TypeOK, UNCHANGED <<content, stored, size>>, request' \in Requests \cup {Idle}
  PROVE  TypeOK'
BY DEF TypeOK

LEMMA CallInv ==
  ASSUME IInv, NEW r \in Requests, Call(r)
  PROVE  IInv'
<1>1. TypeOK /\ request' = r
  BY DEF IInv, Call
<1>2. CASE Nothing(r)
  <2>1. TypeOK'
    BY <1>1, <1>2, SameFile DEF Nothing
  <2>2. answer' # Overrun
    <3>1. CASE r.n = 0 /\ r.op = "read"
      <4>1. answer' = [k \in {} |-> Unset]
        BY <1>2, <3>1 DEF Nothing
      <4>2. 0..(0 - 1) = {} /\ 0 \in 0..MaxEnd
        BY BlockSizeFacts
      <4>3. [k \in {} |-> Unset] \in [0..(0 - 1) -> Bytes \cup {Unset}]
        BY <4>2
      <4> QED
        BY <4>1, <4>2, <4>3, OverrunAssumption
    <3>2. CASE ~(r.n = 0 /\ r.op = "read")
      BY <1>2, <3>2, OverrunAssumption DEF Nothing
    <3> QED
      BY <3>1, <3>2
  <2> QED
    BY <2>1, <2>2 DEF IInv, ReadsStayInBuffer
<1>3. CASE r.n > 0 /\ r.op = "read" /\ Read(r)
  <2>1. TypeOK'
    BY <1>1, <1>3, SameFile DEF Read
  <2>2. answer' = Overrun => Overruns(r)
    BY <1>1, <1>3, ReadAnswer
  <2>3. ReadsStayInBuffer'
    BY <1>1, <1>3, <2>2 DEF ReadsStayInBuffer
  <2> QED
    BY <2>1, <2>3 DEF IInv
<1>4. CASE r.n > 0 /\ r.op = "write" /\ \E buf \in [0..(r.n - 1) -> Bytes] : Write(r, buf)
  <2>1. PICK buf \in [0..(r.n - 1) -> Bytes] : Write(r, buf)
    BY <1>4
  <2>2. PICK bs \in SUBSET (first_block(r)..last_block(r)) :
           /\ \A b \in bs : b < MaxBlocks
           /\ Stored(r, bs)
           /\ answer' = Error \/ (answer' = Done /\ Store(r, buf, last_block(r) + 1, {}))
    BY <1>1, <1>4, <2>1, WriteFacts
  <2>3. TypeOK'
    BY <1>1, <1>4, <2>2, WriteType
  <2>4. answer' # Overrun
    BY <2>2, OverrunAssumption
  <2> QED
    BY <2>3, <2>4 DEF IInv, ReadsStayInBuffer
<1> QED
  BY <1>2, <1>3, <1>4 DEF Call

LEMMA Inductive == Spec => []IInv
<1>1. IInv /\ Return => IInv'
  <2> SUFFICES ASSUME IInv, Return
               PROVE  IInv'
    OBVIOUS
  <2>1. TypeOK'
    BY SameFile DEF IInv, Return
  <2> QED
    BY <2>1, OverrunAssumption DEF IInv, Return, ReadsStayInBuffer
<1>2. IInv /\ UNCHANGED vars => IInv'
  BY DEF IInv, TypeOK, ReadsStayInBuffer, vars
<1>3. IInv /\ [Next]_vars => IInv'
  BY <1>1, <1>2, CallInv DEF Next
<1> QED
  BY <1>3, InvInit, PTL DEF Spec

\* The bytes of the file, its blocks and its size keep their types: bytes that are not
\* zero lie in blocks that were written, and these begin below the size, although
\* sfs_write() (sfs.c:791-846) sets the size first and may fail on any block.
THEOREM FileTypes == Spec => []TypeOK
<1>1. IInv => TypeOK
  BY DEF IInv
<1> QED
  BY <1>1, Inductive, PTL

\* ReadsStayInBuffer: no read but those in Overruns makes sfs_read() (sfs.c:737, 748)
\* write outside the caller's buffer, whatever the sizes of blocks, files and requests.
THEOREM ReadsKeepToBuffer == Spec => []ReadsStayInBuffer
<1>1. IInv => ReadsStayInBuffer
  BY DEF IInv
<1> QED
  BY <1>1, Inductive, PTL

-----------------------------------------------------------------------------
(* The file as an array of bytes. *)

\* An exact request exchanges its bytes in place, and the rest of its last block stays.
InPlace(r) ==
  /\ first_block_offset(r) = 0 /\ r.off = first_block(r) * BlockSize
  /\ \A b \in first_block(r)..last_block(r), j \in 0..(BlockSize - 1) :
       /\ j \in Exchanged(r, b) <=> b * BlockSize + j < r.off + r.n
       /\ j \in Exchanged(r, b) => BufferIndex(r, b, j) = (b * BlockSize + j) - r.off
       /\ j \notin Exchanged(r, b) => KeepsOld(r, b, j)

LEMMA ExactFacts ==
  ASSUME NEW r \in Requests, r.n > 0, Exact(r)
  PROVE  InPlace(r) /\ last_block(r) < MaxBlocks /\ r.off + r.n <= MaxBytes /\ ~Overruns(r)
<1> DEFINE f == first_block(r)
           l == last_block(r)
<1>1. /\ r.off \in Nat /\ r.n \in Nat /\ r.off + r.n <= MaxBytes /\ r.off % BlockSize = 0
      /\ \/ r.off = 0 /\ r.n % BlockSize = 0
         \/ r.n < BlockSize
  BY RequestFacts DEF Exact
<1>2. BlockSize \in Nat /\ BlockSize >= 1 /\ MaxBlocks \in Nat
      /\ MaxBytes = MaxBlocks * BlockSize /\ MaxBytes \in Nat
  BY BlockSizeFacts
<1>3. /\ f \in Nat /\ f * BlockSize \in Nat /\ l \in Nat /\ l * BlockSize \in Nat /\ f <= l
      /\ last_block_len(r) \in 1..BlockSize
      /\ r.off + r.n = l * BlockSize + last_block_len(r)
      /\ r.off = f * BlockSize + first_block_offset(r)
  BY CutLemma DEF Cut
<1>4. first_block_offset(r) = 0 /\ r.off = f * BlockSize
  BY <1>1, <1>3 DEF first_block_offset
<1>5. l < MaxBlocks
  <2> SUFFICES ASSUME MaxBlocks <= l PROVE FALSE
    BY <1>2, <1>3
  <2>1. MaxBlocks * BlockSize <= l * BlockSize
    BY <1>2, <1>3, Monotone
  <2> QED
    BY <1>1, <1>2, <1>3, <2>1
<1>6. \A b : slice_a(r, b) = 0
  BY <1>4 DEF slice_a
<1>7. ~Overruns(r)
  <2> SUFFICES ASSUME NEW b \in (r.off \div BlockSize)..((r.off + r.n) \div BlockSize),
                      r.off \div BlockSize > 0, r.off <= b * BlockSize,
                      (b + 1) * BlockSize <= r.off + r.n
               PROVE  FALSE
    BY <1>1 DEF Overruns
  <2>1. r.off # 0
    <3>1. f * BlockSize = 0 => f = 0
      <4> SUFFICES ASSUME f >= 1 PROVE f * BlockSize >= 1
        BY <1>3
      <4>1. 1 * BlockSize <= f * BlockSize
        BY <1>2, <1>3, Monotone
      <4> QED
        BY <1>2, <1>3, <4>1
    <3>2. f > 0
      BY DEF first_block
    <3> QED
      BY <1>3, <1>4, <3>1, <3>2
  <2>2. r.n < BlockSize
    BY <1>1, <2>1
  <2>3. f = r.off \div BlockSize
    BY DEF first_block
  <2>4. b \in Int
    OBVIOUS
  <2>5. (b + 1) * BlockSize = b * BlockSize + BlockSize /\ b * BlockSize \in Int
    BY <1>2, <2>4
  <2> QED
    BY <1>1, <1>2, <2>2, <2>5
<1>8. \A b \in f..l : b \in Nat /\ b * BlockSize \in Nat
                      /\ b * BlockSize + slice_b(r, b) <= r.off + r.n
                      /\ slice_b(r, b) \in 1..BlockSize
  BY SliceFacts
<1>9. CASE r.off = 0 /\ r.n % BlockSize = 0
  <2>1. last_block_len(r) = BlockSize
    BY <1>1, <1>9 DEF last_block_len
  <2>2. \A b : slice_b(r, b) = BlockSize
    BY <2>1 DEF slice_b
  <2>3. \A b : Full(r, b) /\ Exchanged(r, b) = 0..(BlockSize - 1)
    BY <1>6, <2>2 DEF Full, Exchanged
  <2>4. \A b, j : BufferIndex(r, b, j) = (b * BlockSize + j) - r.off
    BY <1>4, <1>9, <2>3, Zenon DEF BufferIndex
  <2>5. \A b \in f..l, j \in 0..(BlockSize - 1) : b * BlockSize + j < r.off + r.n
    BY <1>1, <1>2, <1>8, <2>2
  <2> HIDE DEF f, l
  <2>6. InPlace(r)
    BY <1>4, <2>3, <2>4, <2>5 DEF InPlace, f, l
  <2> QED
    BY <1>1, <1>5, <1>7, <2>6 DEF l
<1>10. CASE r.n < BlockSize
  <2>1. (r.off + r.n) \div BlockSize = f /\ (r.off + r.n) % BlockSize = r.n
    <3> DEFINE e == r.off + r.n
    <3>1. e = f * BlockSize + r.n
      BY <1>4, Zenon
    <3>2. e \in Int /\ f \in Int /\ r.n \in 0..(BlockSize - 1)
      BY <1>1, <1>2, <1>3, <1>10
    <3> HIDE DEF f, e
    <3>3. e \div BlockSize = f /\ e % BlockSize = r.n
      BY <1>2, <3>1, <3>2, Quotient
    <3> QED
      BY <3>3 DEF e
  <2>2. last_block_len(r) = r.n /\ r.n # BlockSize
    BY <1>1, <1>2, <1>10, <2>1 DEF last_block_len
  <2>3. l = f
    <3>1. l = f - 0
      BY <2>1, <2>2, Zenon DEF last_block
    <3> QED
      BY <1>3, <3>1
  <2>4. \A b \in f..l : b = l /\ slice_b(r, b) = r.n
    <3>1. \A b \in f..l : b = l
      BY <1>3, <2>3
    <3> QED
      BY <2>2, <3>1 DEF slice_b
  <2>5. \A b \in f..l : ~Full(r, b) /\ EndsInside(r, b) /\ Exchanged(r, b) = 0..(r.n - 1)
    BY <1>6, <2>2, <2>4 DEF Full, EndsInside, Exchanged
  <2>6. ASSUME NEW b \in f..l, NEW j \in 0..(BlockSize - 1)
        PROVE  /\ j \in Exchanged(r, b) <=> b * BlockSize + j < r.off + r.n
               /\ j \in Exchanged(r, b) => BufferIndex(r, b, j) = (b * BlockSize + j) - r.off
               /\ j \notin Exchanged(r, b) => KeepsOld(r, b, j)
    <3>1. b * BlockSize = r.off
      BY <1>4, <2>3, <2>4
    <3>2. BufferIndex(r, b, j) = j - first_block_offset(r)
      BY <2>5, Zenon DEF BufferIndex
    <3>3. BufferIndex(r, b, j) = (b * BlockSize + j) - r.off
      BY <1>1, <1>2, <1>4, <3>1, <3>2
    <3>4. j \in Exchanged(r, b) <=> b * BlockSize + j < r.off + r.n
      <4>1. j \in Exchanged(r, b) <=> j \in 0..(r.n - 1)
        BY <2>5, Zenon
      <4> QED
        BY <1>1, <1>2, <3>1, <4>1
    <3> QED
      BY <2>5, <3>3, <3>4 DEF KeepsOld
  <2>7. InPlace(r)
    BY <1>4, <2>6 DEF InPlace
  <2> QED
    BY <1>1, <1>5, <1>7, <2>7
<1> QED
  BY <1>1, <1>9, <1>10

\* The bytes of a request lie in its blocks.
LEMMA BlockOfByte ==
  ASSUME NEW r \in Requests, r.n > 0, NEW p \in Nat, r.off <= p, p < r.off + r.n
  PROVE  p \div BlockSize \in first_block(r)..last_block(r)
<1> DEFINE f == first_block(r)
           l == last_block(r)
           b == p \div BlockSize
<1>1. /\ f \in Nat /\ f * BlockSize \in Nat /\ l \in Nat /\ l * BlockSize \in Nat
      /\ last_block_len(r) \in 1..BlockSize
      /\ r.off + r.n = l * BlockSize + last_block_len(r)
      /\ r.off = f * BlockSize + first_block_offset(r) /\ first_block_offset(r) \in 0..(BlockSize - 1)
      /\ BlockSize \in Nat /\ BlockSize >= 1 /\ r.off \in Nat /\ r.n \in Nat
  BY CutLemma, BlockSizeFacts DEF Cut
<1>2. p = b * BlockSize + (p % BlockSize) /\ b \in Nat /\ b * BlockSize \in Int
      /\ p % BlockSize \in 0..(BlockSize - 1)
  <2>1. p \in Int
    OBVIOUS
  <2> QED
    BY <1>1, <2>1, Division, Zenon
<1> HIDE DEF f, l, b
<1>3. f <= b
  <2> SUFFICES ASSUME b + 1 <= f PROVE FALSE
    BY <1>1, <1>2
  <2>1. (b + 1) * BlockSize <= f * BlockSize /\ (b + 1) * BlockSize = b * BlockSize + BlockSize
    BY <1>1, <1>2, Monotone
  <2> QED
    BY <1>1, <1>2, <2>1
<1>4. b <= l
  <2> SUFFICES ASSUME l + 1 <= b PROVE FALSE
    BY <1>1, <1>2
  <2>1. (l + 1) * BlockSize <= b * BlockSize /\ (l + 1) * BlockSize = l * BlockSize + BlockSize
    BY <1>1, <1>2, Monotone
  <2> QED
    BY <1>1, <1>2, <2>1
<1>5. b \in f..l
  BY <1>1, <1>2, <1>3, <1>4
<1> QED
  BY <1>5 DEF f, l, b

\* A write reaches no byte but those in its blocks.
LEMMA TouchedLemma ==
  ASSUME NEW r \in Requests, r.n > 0
  PROVE  Touched(r) = BytesOf(first_block(r)..last_block(r))
BY CutLemma DEF Cut, Touched, first_block

\* An exact read moves byte off + k of the file to index k of the buffer, for every k.
LEMMA ExactMoves ==
  ASSUME NEW r \in Requests, r.n > 0, Exact(r)
  PROVE  /\ \A k, p : <<k, p>> \in Moves(r) => k \in 0..(r.n - 1) /\ p = r.off + k
         /\ \A k \in 0..(r.n - 1) : <<k, r.off + k>> \in Moves(r)
<1>1. InPlace(r) /\ last_block(r) < MaxBlocks /\ r.off + r.n <= MaxBytes /\ ~Overruns(r)
  BY ExactFacts
<1>2. r.off \in Nat /\ r.n \in Nat /\ BlockSize \in Nat /\ BlockSize >= 1
      /\ MaxBytes \in Nat /\ MaxBlocks \in Nat /\ last_block(r) \in Nat /\ first_block(r) \in Nat
  BY CutLemma, BlockSizeFacts DEF Cut
<1>3. ASSUME NEW k, NEW p, <<k, p>> \in Moves(r)
      PROVE  k \in 0..(r.n - 1) /\ p = r.off + k
  <2>1. PICK b \in {c \in first_block(r)..last_block(r) : c < MaxBlocks} :
          <<k, p>> \in {<<BufferIndex(r, b, j), b * BlockSize + j>> : j \in Exchanged(r, b)}
    BY <1>3 DEF Moves
  <2>2. PICK j \in Exchanged(r, b) : <<k, p>> = <<BufferIndex(r, b, j), b * BlockSize + j>>
    BY <2>1
  <2>3. k = BufferIndex(r, b, j) /\ p = b * BlockSize + j /\ b < MaxBlocks
        /\ b \in first_block(r)..last_block(r)
    BY <2>1, <2>2
  <2>4. k \in 0..(r.n - 1)
    BY <1>1, <2>3, InBuffer
  <2>5. slice_b(r, b) \in 1..BlockSize /\ b * BlockSize \in Nat
    BY <2>3, SliceFacts
  <2>6. j \in 0..(BlockSize - 1)
    BY <1>2, <2>5 DEF Exchanged
  <2>7. k = (b * BlockSize + j) - r.off
    BY <1>1, <2>3, <2>6, Zenon DEF InPlace
  <2> QED
    BY <1>2, <2>3, <2>4, <2>5, <2>6, <2>7
<1>4. ASSUME NEW k \in 0..(r.n - 1)
      PROVE  <<k, r.off + k>> \in Moves(r)
  <2> DEFINE p == r.off + k
             b == p \div BlockSize
             j == p % BlockSize
  <2>1. p \in Nat /\ r.off <= p /\ p < r.off + r.n /\ p \in 0..(MaxBytes - 1)
    BY <1>1, <1>2
  <2> HIDE DEF p
  <2>2. b \in first_block(r)..last_block(r)
    BY <2>1, BlockOfByte
  <2>3. p = b * BlockSize + j /\ j \in 0..(BlockSize - 1)
    BY <2>1, ByteFacts
  <2> HIDE DEF b, j
  <2>4. j \in Exchanged(r, b) /\ BufferIndex(r, b, j) = p - r.off
    <3>1. b * BlockSize + j < r.off + r.n
      BY <2>1, <2>3
    <3> QED
      BY <1>1, <2>2, <2>3, <3>1, Zenon DEF InPlace
  <2>5. k = p - r.off
    BY <1>2 DEF p
  <2>6. b \in {c \in first_block(r)..last_block(r) : c < MaxBlocks}
    BY <1>1, <1>2, <2>2
  <2>7. <<k, p>> \in {<<BufferIndex(r, b, x), b * BlockSize + x>> : x \in Exchanged(r, b)}
    BY <2>3, <2>4, <2>5, Zenon
  <2>8. <<k, p>> \in Moves(r)
    BY <2>6, <2>7, Zenon DEF Moves
  <2> QED
    BY <2>8 DEF p
<1> QED
  BY <1>3, <1>4

\* An answer of the whole length is one that the abstract read may give.
LEMMA ReturnsAll ==
  ASSUME TypeOK, NEW r \in Requests, r.op = "read", Exact(r), UNCHANGED <<content, stored, size>>,
         answer' = [k \in 0..(r.n - 1) |-> content[r.off + k]]
  PROVE  File!Read(r)
<1>1. r.off \in Nat /\ r.n \in Nat /\ MaxBytes \in Nat /\ r.n \in 0..r.n
  BY RequestFacts, BlockSizeFacts
<1>2. r.n > 0 => r.off + r.n <= MaxBytes
  BY <1>1 DEF Exact
<1>3. \A k \in 0..(r.n - 1) : r.off + k \in 0..(MaxBytes - 1)
  BY <1>1, <1>2
<1>4. answer' \in [0..(r.n - 1) -> Bytes]
  BY <1>3 DEF TypeOK
<1>5. \A k \in 0..(r.n - 1) : k < r.n /\ answer'[k] = content[r.off + k]
  BY <1>1
<1> QED
  BY <1>1, <1>4, <1>5 DEF File!Read

LEMMA NothingStep ==
  ASSUME TypeOK, NEW r \in Requests, Nothing(r), request = Idle, request' = r
  PROVE  File!Call(r)
<1>1. UNCHANGED <<content, stored, size>> /\ r.off \in Nat /\ r.n \in Nat
      /\ r.op \in {"read", "write"} /\ DOMAIN content = 0..(MaxBytes - 1)
      /\ content = [p \in DOMAIN content |-> content[p]]
  BY RequestFacts DEF Nothing, TypeOK
<1>2. CASE r.n # 0
  BY <1>1, <1>2 DEF Nothing, File!Call, File!Refuse
<1>3. CASE r.n = 0
  <2>1. Exact(r) /\ 0..(r.n - 1) = {} /\ r.off..((r.off + r.n) - 1) = {}
    BY <1>1, <1>3 DEF Exact
  <2>2. CASE r.op = "read"
    <3>1. answer' = [k \in {} |-> Unset]
      BY <1>3, <2>2 DEF Nothing
    <3>2. answer' = [k \in 0..(r.n - 1) |-> content[r.off + k]]
      BY <2>1, <3>1
    <3> QED
      BY <1>1, <1>3, <2>1, <2>2, <3>2, ReturnsAll DEF File!Call
  <2>3. CASE r.op = "write"
    <3> DEFINE buf == [k \in {} |-> Unset]
    <3>1. answer' = Done
      BY <1>3, <2>3 DEF Nothing
    <3>2. buf \in [0..(r.n - 1) -> Bytes]
      BY <2>1
    <3>3. content' = [p \in DOMAIN content |->
                   IF p \in r.off..(File!End(r) - 1) THEN buf[p - r.off] ELSE content[p]]
      BY <1>1, <2>1 DEF File!End
    <3>4. size' = File!Grown(r)
      BY <1>1, <1>3 DEF File!Grown
    <3>5. File!Write(r, buf)
      BY <2>1, <2>3, <3>1, <3>3, <3>4 DEF File!Write
    <3> QED
      BY <3>2, <3>5 DEF File!Call
  <2> QED
    BY <1>1, <2>2, <2>3
<1> QED
  BY <1>2, <1>3

LEMMA ReadStep ==
  ASSUME TypeOK, NEW r \in Requests, r.n > 0, r.op = "read", Read(r),
         request = Idle, request' = r
  PROVE  File!Call(r)
<1>1. UNCHANGED <<content, stored, size>>
  BY DEF Read
<1>2. CASE ~Exact(r)
  BY <1>1, <1>2 DEF File!Call, File!Garble
<1>3. CASE Exact(r)
  <2>1. \A m \in Moves(r) : m[1] \in 0..(r.n - 1)
    BY <1>3, ExactFacts, ReadOverruns
  <2>2. ~(last_block(r) >= MaxBlocks)
    <3>1. last_block(r) \in Nat /\ MaxBlocks \in Nat
      BY CutLemma, BlockSizeFacts DEF Cut
    <3> QED
      BY <1>3, <3>1, ExactFacts
  <2>3. answer' = [k \in 0..(r.n - 1) |->
                     IF \E m \in Moves(r) : m[1] = k THEN content[Latest(r, k)] ELSE Unset]
    BY <2>1, <2>2 DEF Read
  <2>4. ASSUME NEW k \in 0..(r.n - 1)
        PROVE  (IF \E m \in Moves(r) : m[1] = k THEN content[Latest(r, k)] ELSE Unset)
                 = content[r.off + k]
    <3> DEFINE m == <<k, r.off + k>>
    <3>1. m \in Moves(r) /\ m[1] = k
      BY <1>3, ExactMoves
    <3> HIDE DEF m
    <3>2. <<k, Latest(r, k)>> \in Moves(r)
      BY <3>1, LatestLemma
    <3>3. Latest(r, k) = r.off + k
      BY <1>3, <3>2, ExactMoves
    <3> QED
      BY <3>1, <3>3
  <2>5. answer' = [k \in 0..(r.n - 1) |-> content[r.off + k]]
    BY <2>3, <2>4
  <2> QED
    BY <1>1, <1>3, <2>5, ReturnsAll DEF File!Call
<1> QED
  BY <1>2, <1>3

\* The bytes of an exact write that succeeds.
LEMMA ExactStore ==
  ASSUME TypeOK, NEW r \in Requests, r.n > 0, Exact(r), NEW buf \in [0..(r.n - 1) -> Bytes],
         Store(r, buf, last_block(r) + 1, {})
  PROVE  content' = [p \in DOMAIN content |->
                       IF p \in r.off..((r.off + r.n) - 1) THEN buf[p - r.off] ELSE content[p]]
<1> DEFINE done == first_block(r)..((last_block(r) + 1) - 1)
           wild == {p \in BytesOf(done) : FromNowhere(r, p)} \cup BytesOf({})
<1>1. DOMAIN content = 0..(MaxBytes - 1)
  BY DEF TypeOK
<1>2. PICK junk \in [wild -> Bytes] :
        content' = [p \in DOMAIN content |->
         LET b == p \div BlockSize
             j == p % BlockSize
         IN  CASE p \in wild -> junk[p]
               [] p \notin wild /\ (b \notin done \/ KeepsOld(r, b, j)) -> content[p]
               [] OTHER -> buf[BufferIndex(r, b, j)]]
  BY DEF Store
<1>3. r.off \in Nat /\ r.n \in Nat /\ BlockSize \in Nat /\ BlockSize >= 1
      /\ last_block(r) \in Nat /\ first_block(r) \in Nat
  BY CutLemma, BlockSizeFacts DEF Cut
<1>4. done = first_block(r)..last_block(r)
  BY <1>3
<1>5. InPlace(r)
  BY ExactFacts
<1>6. ASSUME NEW p \in 0..(MaxBytes - 1)
      PROVE  content'[p] = IF p \in r.off..((r.off + r.n) - 1) THEN buf[p - r.off] ELSE content[p]
  <2> DEFINE b == p \div BlockSize
             j == p % BlockSize
  <2>1. content'[p] = CASE p \in wild -> junk[p]
                        [] p \notin wild /\ (b \notin done \/ KeepsOld(r, b, j)) -> content[p]
                        [] OTHER -> buf[BufferIndex(r, b, j)]
    BY <1>1, <1>2
  <2>2. p \in wild => /\ b \in done /\ ~KeepsOld(r, b, j)
                      /\ j \in Exchanged(r, b) => BufferIndex(r, b, j) \notin 0..(r.n - 1)
    BY DEF BytesOf, FromNowhere
  <2>3. p \in Nat /\ p = b * BlockSize + j /\ b \in Nat /\ b * BlockSize \in Int
        /\ j \in 0..(BlockSize - 1)
    BY ByteFacts
  <2>4. r.off <= p /\ p < r.off + r.n => b \in done
    BY <1>4, <2>3, BlockOfByte
  <2> HIDE DEF b, j, done, wild
  <2>5. CASE p \in r.off..((r.off + r.n) - 1)
    <3>1. p < r.off + r.n /\ b \in done /\ p - r.off \in 0..(r.n - 1)
      BY <1>3, <2>3, <2>4, <2>5
    <3>2. j \in Exchanged(r, b) /\ BufferIndex(r, b, j) = p - r.off
      BY <1>4, <1>5, <2>3, <3>1, Zenon DEF InPlace
    <3>3. ~KeepsOld(r, b, j) /\ p \notin wild
      BY <2>2, <3>1, <3>2 DEF KeepsOld
    <3>4. content'[p] = buf[BufferIndex(r, b, j)]
      BY <2>1, <3>1, <3>3
    <3> QED
      BY <2>5, <3>2, <3>4, Zenon
  <2>6. CASE p \notin r.off..((r.off + r.n) - 1)
    <3>1. b \notin done \/ KeepsOld(r, b, j)
      <4> SUFFICES ASSUME b \in done
                   PROVE  KeepsOld(r, b, j)
        OBVIOUS
      <4>1. first_block(r) * BlockSize <= b * BlockSize
        <5>1. first_block(r) <= b
          BY <1>3, <1>4
        <5> QED
          BY <1>3, <2>3, <5>1, Monotone
      <4>2. r.off = first_block(r) * BlockSize
        BY <1>5 DEF InPlace
      <4>3. ~(p < r.off + r.n)
        BY <1>3, <2>3, <2>6, <4>1, <4>2
      <4> QED
        BY <1>4, <1>5, <2>3, <4>3, Zenon DEF InPlace
    <3> QED
      BY <2>1, <2>2, <2>6, <3>1
  <2> QED
    BY <2>5, <2>6
<1> QED
  BY <1>1, <1>2, <1>6

LEMMA WriteStep ==
  ASSUME TypeOK, NEW r \in Requests, r.n > 0, r.op = "write",
         NEW buf \in [0..(r.n - 1) -> Bytes], Write(r, buf), request = Idle, request' = r
  PROVE  File!Call(r)
<1>1. PICK bs \in SUBSET (first_block(r)..last_block(r)) :
           /\ \A b \in bs : b < MaxBlocks
           /\ Stored(r, bs)
           /\ answer' = Error \/ (answer' = Done /\ Store(r, buf, last_block(r) + 1, {}))
  BY WriteFacts
<1>2. size' = File!Grown(r)
  BY <1>1 DEF Stored, File!Grown, File!End
<1>3. CASE Exact(r) /\ answer' # Error
  <2>1. answer' = Done /\ Store(r, buf, last_block(r) + 1, {})
    BY <1>1, <1>3
  <2>2. content' = [p \in DOMAIN content |->
                     IF p \in r.off..((r.off + r.n) - 1) THEN buf[p - r.off] ELSE content[p]]
    BY <1>3, <2>1, ExactStore
  <2>3. File!Write(r, buf)
    BY <1>2, <1>3, <2>1, <2>2 DEF File!Write, File!End
  <2> QED
    BY <2>3 DEF File!Call
<1>4. CASE ~(Exact(r) /\ answer' # Error)
  <2>1. DOMAIN content = 0..(MaxBytes - 1) /\ DOMAIN content' = 0..(MaxBytes - 1)
        /\ \A p \in DOMAIN content : content'[p] \in Bytes
    BY <1>1, Zenon DEF TypeOK, Stored
  <2>2. ASSUME NEW p \in DOMAIN content, content'[p] # content[p]
        PROVE  p \in Touched(r)
    <3>1. p \div BlockSize \in bs
      BY <1>1, <2>1, <2>2, Zenon DEF Stored
    <3>2. p \div BlockSize \in first_block(r)..last_block(r)
      BY <1>1, <3>1
    <3> QED
      BY <2>1, <3>2, TouchedLemma DEF BytesOf
  <2>3. File!Damage(r)
    BY <1>2, <1>4, <2>1, <2>2 DEF File!Damage
  <2> QED
    BY <2>3 DEF File!Call
<1> QED
  BY <1>3, <1>4

\* ImplementsByteFile: whatever the sizes of blocks, files and requests, sfs_read() and
\* sfs_write() (sfs.c:677-846) treat the file as an array of bytes for the requests in
\* Exact, and a write changes no byte of a block that it has no part of.
THEOREM DataImplementsByteFile == Spec => ImplementsByteFile
<1>1. Init => File!Init
  BY DEF Init, File!Init
<1>2. IInv /\ [Next]_vars => [File!Next]_File!vars
  <2> SUFFICES ASSUME IInv, [Next]_vars
               PROVE  [File!Next]_File!vars
    OBVIOUS
  <2>1. TypeOK
    BY DEF IInv
  <2>2. ASSUME NEW r \in Requests, Call(r)
        PROVE  File!Next
    <3>1. request = Idle /\ request' = r
      BY <2>2 DEF Call
    <3>2. File!Call(r)
      BY <2>1, <2>2, <3>1, NothingStep, ReadStep, WriteStep DEF Call
    <3> QED
      BY <3>2 DEF File!Next
  <2>3. CASE Return
    BY <2>3 DEF Return, File!Next, File!Return
  <2>4. CASE UNCHANGED vars
    BY <2>4 DEF vars, File!vars
  <2> QED
    BY <2>2, <2>3, <2>4 DEF Next
<1> QED
  BY <1>1, <1>2, Inductive, PTL DEF Spec, ImplementsByteFile, File!Spec
=============================================================================
