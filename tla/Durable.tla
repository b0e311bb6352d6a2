------------------------------ MODULE Durable -------------------------------
(***************************************************************************)
(* What a crash leaves of the directory, the inode table and the inode     *)
(* free list, which the handlers of sfs.c change together but which reach  *)
(* the disk in different ways: superblock and directory blocks are written *)
(* at once, inodes wait in the write-back cache of fs.c until another      *)
(* block of the table is needed.                                           *)
(*                                                                         *)
(* A handler runs under the lock from its beginning to its end, so what it *)
(* will do is known when it begins: it is a sequence of the elementary     *)
(* operations below, and the process may die between any two of them.      *)
(* Names are left out: a directory entry is found by its block, which      *)
(* EntriesDistinct of Sfs justifies.  The size of a file in use is taken   *)
(* to be 0, and links of the root, data blocks, I/O errors and a lack of   *)
(* memory are left to the other modules.                                   *)
(***************************************************************************)
EXTENDS Integers, Sequences

CONSTANTS
  NumInodes,     \* superblock.inodes
  PerBlock,      \* inodes in a block of the table
  MaxDirBlocks,  \* blocks of the directory, one entry each
  MaxOpen,       \* bound on the descriptors of one file
  LinkBound      \* bound on the links of a file, which crashes let grow

ASSUME SizesAssumption ==
  /\ NumInodes \in Nat /\ NumInodes >= 2
  /\ PerBlock \in Nat \ {0}
  /\ MaxDirBlocks \in Nat /\ MaxOpen \in Nat \ {0} /\ LinkBound \in Nat

Root == 1
Inodes == 1..NumInodes
Files == 2..NumInodes
Slots == 0..(MaxDirBlocks - 1)
BlockOf(i) == (i - 1) \div PerBlock + 1

VARIABLES
  table,        \* table[i]: inode i on the disk
  head,         \* superblock.free_inode_head, on the disk and in memory
  dirent,       \* dirent[k]: the inumber in block k of the directory, on the disk
  inodes,       \* inodes[i]: inode i as the cached block or the disk has it
  cached,       \* inode_cache.block_number, 0 if nothing is cached
  dirty,        \* inode_cache.dirty
  open,         \* open[i]: the descriptors of file i
  todo,         \* what the handler that is running has left to do
  tainted       \* history: a crash came at a bad moment

vars == <<table, head, dirent, inodes, cached, dirty, open, todo, tainted>>

\* A formatted disk, just mounted.
Init ==
  /\ table = [i \in Inodes |-> IF i = Root THEN [links |-> 1, size |-> 0]
                               ELSE [links |-> 0, size |-> i + 1]]
  /\ head = 2
  /\ dirent = [k \in Slots |-> 0]
  /\ inodes = table
  /\ cached = 0 /\ dirty = FALSE
  /\ open = [i \in Files |-> 0]
  /\ todo = <<>>
  /\ tainted = FALSE

-----------------------------------------------------------------------------
(* The elementary operations, and what they do. *)

Read(i) == [op |-> "read", i |-> i]
Write(i, links, size) == [op |-> "write", i |-> i, inode |-> [links |-> links, size |-> size]]
SetHead(i) == [op |-> "head", i |-> i]
Entry(k, i) == [op |-> "entry", i |-> i, k |-> k]
Opened(i) == [op |-> "opened", i |-> i]
Released(i) == [op |-> "released", i |-> i]
Abort == [op |-> "abort"]

\* Plausible bug: the cached block is replaced without being written back.
CacheForgets(i) == table' = table

\* The block of inode i is cached; another, dirty one is written back first.
Cache(i) == table' = IF cached # BlockOf(i) /\ dirty THEN inodes ELSE table

\* sfs_fs_read_inode()
DoRead(o) ==
  /\ Cache(o.i)
  /\ cached' = BlockOf(o.i)
  /\ dirty' = (dirty /\ cached = BlockOf(o.i))
  /\ inodes' = IF cached = BlockOf(o.i) THEN inodes ELSE table'
  /\ UNCHANGED <<head, dirent, open>>

\* Plausible bug: a block that was loaded for the inode is not marked dirty.
DoWriteClean(o) ==
  /\ Cache(o.i)
  /\ cached' = BlockOf(o.i)
  /\ dirty' = (dirty /\ cached = BlockOf(o.i))
  /\ inodes' = [IF cached = BlockOf(o.i) THEN inodes ELSE table' EXCEPT ![o.i] = o.inode]
  /\ UNCHANGED <<head, dirent, open>>

\* sfs_fs_write_inode()
DoWrite(o) ==
  /\ Cache(o.i)
  /\ cached' = BlockOf(o.i)
  /\ dirty' = TRUE
  /\ inodes' = [IF cached = BlockOf(o.i) THEN inodes ELSE table' EXCEPT ![o.i] = o.inode]
  /\ UNCHANGED <<head, dirent, open>>

\* write_superblock()
DoHead(o) ==
  /\ head' = o.i
  /\ UNCHANGED <<table, dirent, inodes, cached, dirty, open>>

\* sfs_fs_inode_block_write() of a block of the directory
DoEntry(o) ==
  /\ dirent' = [dirent EXCEPT ![o.k] = o.i]
  /\ UNCHANGED <<table, head, inodes, cached, dirty, open>>

\* sfs_filedescriptor_allocate() and _free()
DoFd(o, d) ==
  /\ open' = [open EXCEPT ![o.i] = @ + d]
  /\ UNCHANGED <<table, head, dirent, inodes, cached, dirty>>

\* The next operation of the handler that is running.  Nothing follows an assertion that
\* fails, until the disk is mounted again.
Step ==
  /\ todo # <<>>
  /\ LET o == Head(todo) IN
       \/ o.op = "read" /\ DoRead(o)
       \/ o.op = "write" /\ DoWrite(o)
       \/ o.op = "head" /\ DoHead(o)
       \/ o.op = "entry" /\ DoEntry(o)
       \/ o.op = "opened" /\ DoFd(o, 1)
       \/ o.op = "released" /\ DoFd(o, -1)
  /\ todo' = Tail(todo)
  /\ UNCHANGED tainted

-----------------------------------------------------------------------------
(* The handlers. *)

Begin(ops) == /\ todo = <<>> /\ todo' = ops
              /\ UNCHANGED <<table, head, dirent, inodes, cached, dirty, open, tainted>>

Links(i) == inodes[i].links
RootSize == inodes[Root].size
WriteRoot(size) == Write(Root, Links(Root), size)
Entries == {k \in Slots : k < RootSize /\ dirent[k] # 0}
Holes == {k \in Slots : k < RootSize /\ dirent[k] = 0}

\* sfs_dir_root() and the iteration, which writes the access time for every block.
Lookup == <<Read(Root)>> \o (IF RootSize > 0 THEN <<WriteRoot(RootSize)>> ELSE <<>>)

\* Plausible bug: the count drops by two.
DropTwo(i) == <<Write(i, Links(i) - 2, 0)>>

\* One link less, and sfs_fs_inode_deallocate() of the inode with the last one: its
\* size is the link of the free list.
Drop(i) == IF Links(i) = 1 THEN <<Write(i, 0, head), SetHead(i)>>
           ELSE <<Write(i, Links(i) - 1, 0)>>

\* sfs_fs_inode_allocate(), and the inode as sfs_create() first writes it.
Allocate(i) == Lookup \o <<Read(i), SetHead(inodes[i].size), Write(i, 1, 0)>>

\* What sfs_fs_inode_block_write() does to the root when a block is added to the
\* directory: it is written if its pointer to the block, or to the index, is missing.
Pointer == {<<>>, <<WriteRoot(RootSize)>>}

\* sfs_create() of a new name: an inode is taken from the free list and written with
\* one link; sfs_dir_link() puts it into a hole, or into a block that is first
\* allocated and then counted (the root is written).
Create ==
  LET i == head
  IN
  /\ i \in Files
  /\ \/ /\ Holes # {}
        /\ Begin(Allocate(i)
                 \o <<Entry(CHOOSE k \in Holes : \A j \in Holes : k <= j, i), WriteRoot(RootSize)>>
                 \o <<Write(i, 2, 0), Opened(i)>>)
     \/ /\ Holes = {} /\ RootSize \in Slots
        /\ \E pointer \in Pointer :
             Begin(Allocate(i) \o pointer \o <<Entry(RootSize, i), WriteRoot(RootSize + 1)>>
                   \o <<Write(i, 2, 0), Opened(i)>>)

\* sfs_create() when sfs_dir_link() fails: the name is too long, or the directory is
\* full and has no block, or no pointer, for one more.  The inode stays as it is.
CreateFails ==
  /\ head \in Files
  /\ \E pointer \in Pointer :
       /\ Holes # {} => pointer = <<>>
       /\ Begin(Allocate(head) \o pointer)

\* sfs_create() when the list has led behind the table, to a block of zeroes: the list
\* ends, and sfs_fs_write_inode() of the inode 0 fails its assertion.
CreateBehindTable ==
  /\ head = NumInodes + 1
  /\ Begin(Lookup \o <<Read(head), SetHead(0), Abort>>)

\* sfs_open(), and sfs_create() of a name that exists.
Open(k) ==
  LET i == dirent[k] IN
  /\ open[i] < MaxOpen /\ Links(i) < LinkBound
  /\ Begin(Lookup \o <<Read(i), Write(i, Links(i) + 1, 0), Opened(i)>>)

\* sfs_unlink(): the entry is cleared last.
Unlink(k) ==
  LET i == dirent[k] IN
  Begin(Lookup \o <<Read(i)>> \o Drop(i) \o <<WriteRoot(RootSize), Entry(k, 0)>>)

\* sfs_release()
Release(i) == /\ open[i] > 0
              /\ Begin(<<Read(i)>> \o Drop(i) \o <<Released(i)>>)

\* A call that does not find its name, or must not (EEXIST), or has no inode for it
\* because the list is empty (EDQUOT).
Miss == Begin(Lookup)

\* sfs_getattr()
GetAttr(k) == Begin(Lookup \o <<Read(dirent[k])>>)

\* sfs_readdir() of a directory with entries: the iteration reads the inode of every
\* entry, and writes the root's for every block.
ReadDir ==
  /\ Entries # {}
  /\ Begin(<<Read(Root)>> \o [n \in 1..(2 * RootSize) |->
              IF n % 2 = 0 /\ dirent[n \div 2 - 1] # 0 THEN Read(dirent[n \div 2 - 1])
              ELSE WriteRoot(RootSize)])

\* sfs_read() and sfs_write(), which write the inode with its times.
Access(i) == open[i] > 0 /\ Begin(<<Read(i), Write(i, Links(i), 0)>>)

\* The process ends and the disk is mounted again; descriptors are gone.
Mount == /\ inodes' = table'
         /\ cached' = 0 /\ dirty' = FALSE
         /\ open' = [i \in Files |-> 0]
         /\ todo' = <<>>
         /\ UNCHANGED <<head, dirent>>

\* sfs_fs_close()
Close == /\ todo = <<>>
         /\ table' = IF dirty THEN inodes ELSE table
         /\ Mount
         /\ UNCHANGED tainted

-----------------------------------------------------------------------------
(* When a crash does harm. *)

\* Inodes that were allocated or freed, or whose place on the free list changed,
\* and that have not been written back since.
Unsaved == {i \in Files : inodes[i] # table[i] /\ 0 \in {inodes[i].links, table[i].links}}

\* An entry names an inode that is on the free list already.
HalfUnlinked == \E k \in Entries : Links(dirent[k]) = 0

Exposed == Unsaved # {} \/ HalfUnlinked

Crash == /\ table' = table
         /\ Mount
         /\ tainted' = (tainted \/ Exposed)

Handler == \/ Create \/ CreateFails \/ CreateBehindTable \/ Miss \/ ReadDir
           \/ \E k \in Entries : Open(k) \/ Unlink(k) \/ GetAttr(k)
           \/ \E i \in Files : Release(i) \/ Access(i)

Next == Handler \/ Step \/ Close \/ Crash

Spec == Init /\ [][Next]_vars

\* The states to look at: nothing is said about what follows a crash that did harm.
Untainted == ~tainted
-----------------------------------------------------------------------------
(* Properties. *)

\* Every variable has its type; only inodes of a dirty cached
\* block differ from the disk.
TypeOK ==
  /\ table \in [Inodes -> [links : Nat, size : Nat]]
  /\ inodes \in [Inodes -> [links : Nat, size : Nat]]
  /\ head \in 0..(NumInodes + 1)
  /\ dirent \in [Slots -> {0} \cup Files]
  /\ cached \in 0..BlockOf(NumInodes + 1)
  /\ dirty \in BOOLEAN /\ tainted \in BOOLEAN
  /\ open \in [Files -> 0..MaxOpen]
  /\ \A i \in Inodes : inodes[i] # table[i] => dirty /\ BlockOf(i) = cached

\* The free list that the disk has: the first NumInodes inodes on it.
DiskList ==
  LET at[n \in 0..NumInodes] ==
        IF n = 0 THEN head
        ELSE IF at[n - 1] \in Files THEN table[at[n - 1]].size ELSE 0
  IN  at

DiskEntries == {k \in Slots : k < table[Root].size /\ dirent[k] # 0}

\* The disk as a crash would leave it, with several crashes and unlinks, evictions
\* and creations before: the free list ends and has only free inodes, an entry names
\* an inode that is in use, and no two entries name the same one.  It is so at every
\* step of every handler, except while an inode that was allocated or freed waits in
\* the cache (fs.c:268, 288: the head is saved before it) and inside an unlink whose
\* entry is still there (dir.c:137).
DiskSurvivesCrash ==
  ~tainted /\ ~Exposed =>
    /\ DiskList[NumInodes] \notin Files
    /\ \A n \in DOMAIN DiskList : DiskList[n] \in Files => table[DiskList[n]].links = 0
    /\ \A k \in DiskEntries : table[dirent[k]].links > 0
    /\ \A k, j \in DiskEntries : dirent[k] = dirent[j] => k = j

\* A crash takes back a creation that has returned only if the new inode lies in the
\* block of the root and that block has stayed in the cache: the size of the root,
\* which waits in the cache too (dir.c:203), is written back before the inode is.
NamesSurviveCrash ==
  ~tainted /\ todo = <<>> =>
    \A k \in Entries \ DiskEntries : BlockOf(dirent[k]) = BlockOf(Root) /\ cached = BlockOf(Root) /\ dirty
=============================================================================
