------------------------------ MODULE FileData ------------------------------
(***************************************************************************)
(* The data path of one open file: how sfs_read() and sfs_write() of sfs.c *)
(* cut a request into blocks, and which bytes of the caller's buffer they  *)
(* exchange with which bytes of the file.                                  *)
(*                                                                         *)
(* The blocks of the file are an array with holes, which is what           *)
(* InodeBlocks shows of sfs_fs_inode_block_read() and _write() as long as  *)
(* its histories stale and tainted are false.  A call holds the lock from  *)
(* its beginning to its end, so it is one step.  A buffer index that lies  *)
(* outside the caller's buffer is undefined behaviour: a byte read there   *)
(* is any byte, and after a byte was written there nothing more is said.   *)
(***************************************************************************)
EXTENDS Integers, FiniteSets

CONSTANTS
  BlockSize,   \* BLOCK_SIZE
  MaxBlocks,   \* the blocks that an inode can have
  MaxEnd,      \* bound on the end of a request
  Bytes,       \* the values of a byte
  Unset,       \* a byte of the buffer that sfs_read() left alone
  Idle, Done, Error,
  Overrun      \* the answer of a call that wrote outside the buffer

ASSUME SizesAssumption ==
  /\ BlockSize \in Nat \ {0} /\ MaxBlocks \in Nat \ {0} /\ MaxEnd \in Nat
  /\ 0 \in Bytes
\* An overrun is no answer that a call gives.
ASSUME OverrunAssumption ==
  /\ Overrun \notin {Idle, Done, Error}
  /\ \A n \in 0..MaxEnd : Overrun \notin [0..(n - 1) -> Bytes \cup {Unset}]

VARIABLES
  content,     \* content[p]: byte p of the file; 0 in a hole
  stored,      \* the blocks of the file that are not holes
  size,        \* inode.size
  request,     \* the call that was answered last, or Idle
  answer       \* what it left in the buffer, or Done, Error or Overrun

vars == <<content, stored, size, request, answer>>

MaxBytes == MaxBlocks * BlockSize
Requests == {r \in [op : {"read", "write"}, off : 0..MaxEnd, n : 0..MaxEnd] :
               r.off + r.n <= MaxEnd}

\* A file that was just created.
Init == /\ content = [p \in 0..(MaxBytes - 1) |-> 0]
        /\ stored = {}
        /\ size = 0
        /\ request = Idle /\ answer = Idle

-----------------------------------------------------------------------------
(* How a request is cut. *)

first_block(r) == r.off \div BlockSize
first_block_offset(r) == r.off % BlockSize
last_block_len(r) == IF (r.off + r.n) % BlockSize = 0 THEN BlockSize
                     ELSE (r.off + r.n) % BlockSize

\* Plausible bug: the block behind a request that ends on a boundary is its last.
LastBlockUncorrected(r) == (r.off + r.n) \div BlockSize

last_block(r) == (r.off + r.n) \div BlockSize - (IF last_block_len(r) = BlockSize THEN 1 ELSE 0)

slice_a(r, b) == IF b = first_block(r) THEN first_block_offset(r) ELSE 0
slice_b(r, b) == IF b = last_block(r) THEN last_block_len(r) ELSE BlockSize

Full(r, b) == slice_a(r, b) = 0 /\ slice_b(r, b) = BlockSize
EndsInside(r, b) == slice_a(r, b) = 0 /\ slice_b(r, b) # BlockSize

\* The index in the caller's buffer that is used for byte j of block b: the buffer
\* is moved back by the first offset; a full block is found at its number in the
\* file, a tail at the beginning.
BufferIndex(r, b, j) == (IF Full(r, b) THEN b * BlockSize + j ELSE j) - first_block_offset(r)

\* The bytes of block b that are exchanged with the buffer: none of a block that
\* the request begins inside.
Exchanged(r, b) == IF slice_a(r, b) = 0 THEN 0..(slice_b(r, b) - 1) ELSE {}

-----------------------------------------------------------------------------
(* The calls. *)

\* Plausible bug: the offset is forgotten.
GrownToLength(r) == IF r.n > size THEN r.n ELSE size

Grown(r) == IF r.off + r.n > size THEN r.off + r.n ELSE size

\* Plausible bug: a tail is written without reading the block first.
KeepsOldBlind(r, b, j) == FALSE

\* The bytes of a block that are written back as they were read: behind a tail.
KeepsOld(r, b, j) == EndsInside(r, b) /\ j \notin Exchanged(r, b)

\* The bytes that are written from nowhere: outside the buffer, or from tmp_block,
\* which nobody has filled for a block that the request begins inside.
FromNowhere(r, p) ==
  LET b == p \div BlockSize
      j == p % BlockSize
  IN  ~KeepsOld(r, b, j) /\ (j \in Exchanged(r, b) => BufferIndex(r, b, j) \notin 0..(r.n - 1))

BytesOf(bs) == {p \in 0..(MaxBytes - 1) : p \div BlockSize \in bs}

\* The blocks up to and without block stop are written with the bytes of buf, and
\* those in torn with any bytes.
Store(r, buf, stop, torn) ==
  LET done == first_block(r)..(stop - 1)
      wild == {p \in BytesOf(done) : FromNowhere(r, p)} \cup BytesOf(torn)
  IN
  /\ \E junk \in [wild -> Bytes] :
       content' = [p \in DOMAIN content |->
         LET b == p \div BlockSize
             j == p % BlockSize
         IN  CASE p \in wild -> junk[p]
               [] p \notin wild /\ (b \notin done \/ KeepsOld(r, b, j)) -> content[p]
               [] OTHER -> buf[BufferIndex(r, b, j)]]
  /\ stored' = stored \cup done \cup torn
  /\ size' = Grown(r)

\* Block stop cannot be written: the file has no such block, the disk is full, or a
\* block of the disk cannot be read or written.  The size and the blocks before it have
\* already changed.  When the last step of sfs_fs_inode_block_write() is the one that
\* fails, block stop belongs to the file: a new one has the bytes of its former use, an
\* old one may be written in part.
WriteFails(r, buf) ==
  \E stop \in first_block(r)..last_block(r) : \E torn \in SUBSET {stop} :
    /\ \A b \in first_block(r)..(stop - 1) : b < MaxBlocks
    /\ \A b \in torn : b < MaxBlocks
    /\ Store(r, buf, stop, torn)
    /\ answer' = Error

\* sfs_write()
Write(r, buf) ==
  \/ /\ last_block(r) < MaxBlocks
     /\ Store(r, buf, last_block(r) + 1, {})
     /\ answer' = Done
  \/ WriteFails(r, buf)

\* What sfs_read() moves: pairs of an index in the buffer and a byte of the file,
\* of the blocks that the file can have.
Moves(r) == UNION {{<<BufferIndex(r, b, j), b * BlockSize + j>> : j \in Exchanged(r, b)} :
                     b \in {c \in first_block(r)..last_block(r) : c < MaxBlocks}}

\* The last byte that is moved to an index stays; tails come after full blocks.
Latest(r, k) == CHOOSE p \in 0..(MaxBytes - 1) :
                  <<k, p>> \in Moves(r) /\ \A q \in 0..(MaxBytes - 1) : <<k, q>> \in Moves(r) => q <= p

\* sfs_read(): the whole length is returned, wherever the file ends.
Read(r) ==
  /\ answer' = CASE \E m \in Moves(r) : m[1] \notin 0..(r.n - 1) -> Overrun
                 [] last_block(r) >= MaxBlocks -> Error
                 [] OTHER -> [k \in 0..(r.n - 1) |->
                                IF \E m \in Moves(r) : m[1] = k THEN content[Latest(r, k)] ELSE Unset]
  /\ UNCHANGED <<content, stored, size>>

\* A call of length 0 returns at once; one whose descriptor is not open, or whose
\* inode cannot be read or written, fails before it changes anything, and a read fails
\* when a block of the file cannot be read.
Nothing(r) ==
  /\ answer' = IF r.n = 0 THEN (IF r.op = "read" THEN [k \in {} |-> Unset] ELSE Done) ELSE Error
  /\ UNCHANGED <<content, stored, size>>

Call(r) ==
  /\ request = Idle /\ request' = r
  /\ \/ Nothing(r)
     \/ r.n > 0 /\ r.op = "read" /\ Read(r)
     \/ r.n > 0 /\ r.op = "write" /\ \E buf \in [0..(r.n - 1) -> Bytes] : Write(r, buf)

\* The answer is delivered.  Nothing follows an overrun.
Return == /\ request # Idle /\ answer # Overrun
          /\ request' = Idle /\ answer' = Idle
          /\ UNCHANGED <<content, stored, size>>

Next == (\E r \in Requests : Call(r)) \/ Return

Spec == Init /\ [][Next]_vars
-----------------------------------------------------------------------------
(* Properties. *)

\* Every variable has its type; holes are zero and the bytes written lie below size,
\* up to the end of their block.
TypeOK ==
  /\ content \in [0..(MaxBytes - 1) -> Bytes]
  /\ stored \subseteq 0..(MaxBlocks - 1)
  /\ size \in 0..MaxEnd
  /\ request \in Requests \cup {Idle}
  /\ \A p \in DOMAIN content : content[p] # 0 => p \div BlockSize \in stored
  /\ \A b \in stored : b * BlockSize < size

\* The requests whose bytes sfs_read() and sfs_write() find at their places: whole
\* blocks from the beginning of the file, or a part of one block from its beginning.
Exact(r) ==
  \/ r.n = 0
  \/ /\ r.off + r.n <= MaxBytes
     /\ r.off % BlockSize = 0
     /\ \/ r.off = 0 /\ r.n % BlockSize = 0
        \/ r.n < BlockSize

Touched(r) == IF r.n = 0 THEN {} ELSE BytesOf((r.off \div BlockSize)..((r.off + r.n - 1) \div BlockSize))

File == INSTANCE ByteFile

\* The file is an array of bytes for the requests in Exact, mixed with any others:
\* the bytes below the end of the file are stored and returned one for one, zeroes come
\* from holes, and whatever else is written, a block that a request has no part of keeps
\* its bytes.  A write that fails half way (sfs.c:841) has its size already.  What a
\* read returns behind the end of the file is the matter of ReadsStopAtEnd.
ImplementsByteFile == File!Spec

\* Which reads write outside the caller's buffer: those that begin behind the first
\* block and have a whole block, and those that begin inside a block and end inside
\* a later one.
Overruns(r) ==
  LET first == r.off \div BlockSize
      WholeBlock(b) == b < MaxBlocks /\ r.off <= b * BlockSize /\ (b + 1) * BlockSize <= r.off + r.n
      end == (r.off + r.n) \div BlockSize
  IN  \/ first > 0 /\ \E b \in first..end : WholeBlock(b)
      \/ /\ r.off % BlockSize # 0 /\ (r.off + r.n) % BlockSize # 0
         /\ first < end /\ end < MaxBlocks

\* sfs_read() (sfs.c:737, 748) stays in the caller's buffer for all other reads.
ReadsStayInBuffer == answer = Overrun => request.op = "read" /\ Overruns(request)

\* "Read should return exactly the number of bytes requested except on EOF or error"
\* (sfs.c:668): no byte behind the end of the file is returned as one of its bytes.
\* sfs_read() never looks at the size and returns the whole length (sfs.c:753).
ReadsStopAtEnd ==
  request # Idle /\ request.op = "read" /\ answer \notin {Error, Overrun}
    => \A k \in DOMAIN answer : request.off + k < size

\* "Read should return exactly the number of bytes requested" (sfs.c:668), in the buffer
\* that the caller gave for them: no other memory is written.  The addresses at
\* sfs.c:737 and 748 are not relative to the offset of the request.
ReadsFillOnlyTheBuffer == answer # Overrun
=============================================================================
