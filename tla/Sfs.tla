-------------------------------- MODULE Sfs ---------------------------------
(***************************************************************************)
(* The life of a file in sfs: the FUSE handlers of sfs.c, with the inode   *)
(* free list of fs.c and the root directory of dir.c that they call.       *)
(*                                                                         *)
(* Every handler runs under the one mutex of struct sfs_state, so a        *)
(* handler is one action.  A call that returns an error before it changes  *)
(* anything (EEXIST, ENOENT, EACCES, ENAMETOOLONG, EDQUOT) is a stuttering *)
(* step and has no action; times, modes and owners are left out.           *)
(*                                                                         *)
(* The inode table is the logical one that module InodeCache provides, and *)
(* the blocks of the directory are the ones inode_block_read/write         *)
(* provide; one directory block holds one entry, because a struct          *)
(* sfs_dir_entry takes 264 of its 512 bytes.  Sizes are in blocks.         *)
(***************************************************************************)
EXTENDS Integers, FiniteSets

CONSTANTS
  NumInodes,     \* superblock.inodes
  MaxDirBlocks,  \* SFS_NDIR_BLOCKS + SFS_NIND_BLOCKS
  Names,         \* names of directory entries
  NoName,        \* the name field of an entry that was never written
  Fds,           \* the handles that may be open at once (bound)
  MaxSize,       \* bound on the size of a file
  LinkMod,       \* 2^32, the modulus of the uint32_t field links
  LinkBound,     \* bound on links that the counting handlers respect
  Faults         \* the environment's failures that may happen

ASSUME SizesAssumption ==
  /\ NumInodes \in Nat /\ NumInodes >= 2
  /\ MaxDirBlocks \in Nat
  /\ MaxSize \in Nat
ASSUME LinksAssumption ==
  /\ LinkMod \in Nat /\ LinkBound \in Nat
  /\ 2 <= LinkBound /\ LinkBound < LinkMod
ASSUME FdsAssumption == IsFiniteSet(Fds)
ASSUME NamesAssumption == NoName \notin Names
ASSUME FaultsAssumption == Faults \subseteq {"ENOMEM", "ENOSPC", "SIGTERM"}

Root == 1
Inodes == 1..NumInodes
Files == 2..NumInodes
Slots == 0..(MaxDirBlocks - 1)

\* format_fs() gives the last free inode the successor NumInodes + 1: the first
\* inode of the block behind the table, which nothing ever writes.
Unformatted == NumInodes + 1

VARIABLES
  links,            \* links[i]: the link count of inode i
  size,             \* size[i]: blocks of inode i; the next free inode if i is free
  free_inode_head,  \* superblock.free_inode_head
  dirent,           \* dirent[k]: the entry in block k of the root directory
  fd,               \* fd[f]: the inumber in the descriptor of handle f, 0 if closed
  dirfd,            \* the handles that opendir, not open or create, returned
  up,               \* the process is running (no assert has failed)
  leaked            \* history: the files with a link whose owner is gone: a call
                    \* that failed after counting it, or a handle never released

vars == <<links, size, free_inode_head, dirent, fd, dirfd, up, leaked>>

TypeOK ==
  /\ links \in [Inodes -> 0..(LinkMod - 1)]
  /\ size \in [Inodes -> Nat]
  /\ size[Root] <= MaxDirBlocks
  /\ free_inode_head \in 0..Unformatted
  /\ dirent \in [Slots -> [inumber : 0..NumInodes, name : Names \cup {NoName}]]
  /\ fd \in [Fds -> 0..NumInodes]
  /\ dirfd \subseteq Fds
  /\ up \in BOOLEAN
  /\ leaked \subseteq Files

\* A freshly formatted disk: inode 1 is the empty root directory with one link,
\* the others are threaded on the free list through their size.
Init ==
  /\ links = [i \in Inodes |-> IF i = Root THEN 1 ELSE 0]
  /\ size = [i \in Inodes |-> IF i = Root THEN 0 ELSE i + 1]
  /\ free_inode_head = 2
  /\ dirent = [k \in Slots |-> [inumber |-> 0, name |-> NoName]]
  /\ fd = [f \in Fds |-> 0]
  /\ dirfd = {}
  /\ up = TRUE
  /\ leaked = {}

-----------------------------------------------------------------------------
(* The directory. *)

\* Plausible bug: the iteration stops one block too early.
MatchesTooShort(n) == {k \in Slots : /\ k < size[Root] - 1
                                     /\ dirent[k].inumber # 0
                                     /\ dirent[k].name = n}

\* The entries that an iteration looking for n stops at.
Matches(n) == {k \in Slots : /\ k < size[Root]
                             /\ dirent[k].inumber # 0
                             /\ dirent[k].name = n}

\* The entries that sfs_dir_link() may overwrite.
Holes == {k \in Slots : k < size[Root] /\ dirent[k].inumber = 0}

First(k, S) == k \in S /\ \A j \in S : k <= j

-----------------------------------------------------------------------------
(* Helpers of the handlers. *)

\* Plausible bug: the count is a signed integer.
DecrementSigned(x) == x - 1

\* --inode.links on a uint32_t
Decrement(x) == (x - 1) % LinkMod

\* sfs_filedescriptor_allocate() and fd->inumber = i; without memory the handler
\* returns -ENOMEM and undoes nothing.
AllocateFd(i) ==
  \/ \E f \in Fds : /\ fd[f] = 0
                    /\ fd' = [fd EXCEPT ![f] = i]
                    /\ leaked' = leaked
  \/ "ENOMEM" \in Faults /\ fd' = fd /\ leaked' = leaked \cup {i}

\* Plausible bug: the descriptor is taken before the link count is raised, and
\* the count is forgotten.
AddLinkForgotten(i) == links' = links

\* The handler found i by name: one more link for the descriptor.
AddLink(i) == /\ links[i] < LinkBound
              /\ links' = [links EXCEPT ![i] = @ + 1]

\* Plausible bug: the head of the free list is not saved in the freed inode.
DeallocateInodeLosesList(i) ==
  /\ size' = [size EXCEPT ![i] = 0]
  /\ free_inode_head' = i

\* Plausible bug: the superblock keeps the old head.
DeallocateInodeKeepsHead(i) ==
  /\ size' = [size EXCEPT ![i] = free_inode_head]
  /\ free_inode_head' = free_inode_head

\* sfs_fs_inode_deallocate(): push i on the free list, its size is the link.  The
\* blocks that it gives back are not state of this module (see FreeBlocks).
DeallocateInode(i) ==
  /\ size' = [size EXCEPT ![i] = free_inode_head]
  /\ free_inode_head' = i

\* Plausible bug: off by one in the test, the inode goes with its last but one link.
DropLinkEarly(i) ==
  /\ links' = [links EXCEPT ![i] = Decrement(@)]
  /\ \/ Decrement(links[i]) <= 1 /\ DeallocateInode(i)
     \/ Decrement(links[i]) > 1 /\ UNCHANGED <<size, free_inode_head>>

\* One link less; the inode is deallocated with its last link.
DropLink(i) ==
  /\ links' = [links EXCEPT ![i] = Decrement(@)]
  /\ \/ Decrement(links[i]) = 0 /\ DeallocateInode(i)
     \/ Decrement(links[i]) # 0 /\ UNCHANGED <<size, free_inode_head>>

-----------------------------------------------------------------------------
(* The handlers. *)

\* sfs_open(), and sfs_create() of a name that exists, opened without O_EXCL.
Open(n) ==
  /\ up
  /\ \E k \in Slots : /\ First(k, Matches(n))
                      /\ AddLink(dirent[k].inumber)
                      /\ AllocateFd(dirent[k].inumber)
  /\ UNCHANGED <<size, free_inode_head, dirent, dirfd, up>>

\* Plausible bug: the descriptor's link is counted twice.
LinkAtCountsTwice(k, n, h) ==
  /\ dirent' = [dirent EXCEPT ![k] = [inumber |-> h, name |-> n]]
  /\ links' = [links EXCEPT ![h] = 3]
  /\ AllocateFd(h)

\* The entry of the new inode h goes into block k of the directory.
LinkAt(k, n, h) ==
  /\ dirent' = [dirent EXCEPT ![k] = [inumber |-> h, name |-> n]]
  /\ links' = [links EXCEPT ![h] = 2]
  /\ AllocateFd(h)

\* sfs_create() of a new name.  The inode is popped from the free list and gets
\* one link for the descriptor; sfs_dir_link() then takes the first hole, or adds
\* a block, and raises the count to 2.  When no block can be added the handler
\* fails with the inode allocated.
Create(n) ==
  LET h == free_inode_head IN
  /\ up
  /\ Matches(n) = {}
  /\ h \in Files
  /\ free_inode_head' = size[h]
  /\ \/ /\ \E k \in Slots : First(k, Holes) /\ LinkAt(k, n, h)
        /\ size' = [size EXCEPT ![h] = 0]
     \/ /\ Holes = {}
        /\ size[Root] < MaxDirBlocks
        /\ LinkAt(size[Root], n, h)
        /\ size' = [size EXCEPT ![h] = 0, ![Root] = @ + 1]
     \/ /\ Holes = {}
        /\ size[Root] = MaxDirBlocks \/ "ENOSPC" \in Faults
        /\ links' = [links EXCEPT ![h] = 1]
        /\ size' = [size EXCEPT ![h] = 0]
        /\ leaked' = leaked \cup {h}
        /\ UNCHANGED <<dirent, fd>>
  /\ UNCHANGED <<dirfd, up>>

\* sfs_create() when the free list has come to the inode behind the table.  That
\* inode reads as zeroes, for mount.sh makes the disk file of zeroes and nothing
\* writes that block (other old contents are not modelled): the head becomes 0, and
\* the handler, about to write inode number 0, fails the assertion of
\* sfs_fs_write_inode().
CreateBehindTable(n) ==
  /\ up
  /\ Matches(n) = {}
  /\ free_inode_head = Unformatted
  /\ free_inode_head' = 0
  /\ up' = FALSE
  /\ UNCHANGED <<links, size, dirent, fd, dirfd, leaked>>

\* sfs_unlink()
Unlink(n) ==
  /\ up
  /\ \E k \in Slots : /\ First(k, Matches(n))
                      /\ DropLink(dirent[k].inumber)
                      /\ dirent' = [dirent EXCEPT ![k].inumber = 0]
  /\ UNCHANGED <<fd, dirfd, up, leaked>>

\* sfs_release()
Release(f) ==
  /\ up
  /\ fd[f] # 0 /\ f \notin dirfd
  /\ DropLink(fd[f])
  /\ fd' = [fd EXCEPT ![f] = 0]
  /\ UNCHANGED <<dirent, dirfd, up, leaked>>

\* sfs_write(): the size grows before any block is written, and stays if the
\* write then fails; the blocks are not state of this module.
Write(f) ==
  /\ up
  /\ fd[f] # 0 /\ f \notin dirfd
  /\ \E s \in 1..MaxSize : /\ s > size[fd[f]]
                           /\ size' = [size EXCEPT ![fd[f]] = s]
  /\ UNCHANGED <<links, free_inode_head, dirent, fd, dirfd, up, leaked>>

\* sfs_opendir("/"): no link is counted for the descriptor.
OpenDir ==
  /\ up
  /\ \E f \in Fds : /\ fd[f] = 0
                    /\ fd' = [fd EXCEPT ![f] = Root]
                    /\ dirfd' = dirfd \cup {f}
  /\ UNCHANGED <<links, size, free_inode_head, dirent, up, leaked>>

\* sfs_releasedir(): the link is dropped all the same, and never deallocates.
ReleaseDir(f) ==
  /\ up
  /\ f \in dirfd
  /\ links' = [links EXCEPT ![fd[f]] = Decrement(@)]
  /\ fd' = [fd EXCEPT ![f] = 0]
  /\ dirfd' = dirfd \ {f}
  /\ UNCHANGED <<size, free_inode_head, dirent, up, leaked>>

\* SIGTERM with handles open: sfs_destroy() saves everything, the next sfs_init()
\* starts with an empty descriptor pool, and nobody released the handles.
Remount ==
  /\ up
  /\ "SIGTERM" \in Faults
  /\ fd' = [f \in Fds |-> 0]
  /\ dirfd' = {}
  /\ leaked' = leaked \cup ({fd[f] : f \in Fds} \cap Files)
  /\ UNCHANGED <<links, size, free_inode_head, dirent, up>>

Next ==
  \/ \E n \in Names : Create(n) \/ CreateBehindTable(n) \/ Open(n) \/ Unlink(n)
  \/ \E f \in Fds : Release(f) \/ Write(f) \/ ReleaseDir(f)
  \/ OpenDir
  \/ Remount

Spec == Init /\ [][Next]_vars

\* "For every open() call there will be exactly one release() call" (sfs.c:608):
\* the kernel releases every handle in the end.
Fairness == \A f \in Fds : WF_vars(Release(f))

FairSpec == Spec /\ Fairness
-----------------------------------------------------------------------------
(* Properties. *)

InUse(i) == links[i] # 0

\* The references to inode i that the link count stands for: directory entries
\* and open descriptors.
Entries(i) == {k \in Slots : dirent[k].inumber = i}
Handles(i) == {f \in Fds : fd[f] = i}
References(i) == Cardinality(Entries(i)) + Cardinality(Handles(i))

\* No inode is deallocated under a name or an open descriptor: whatever fails in
\* create, open and unmount, the link count kept by sfs_create, sfs_open,
\* sfs_unlink and sfs_release is never below the number of references.
LinksCoverReferences == \A i \in Files : links[i] >= References(i)

\* The link count of a file is the number of its entries and open descriptors,
\* unless a call failed after counting (no descriptor in sfs_open or sfs_create,
\* no directory block in sfs_create) or the filesystem was unmounted under an open
\* handle: those are all the ways to lose a link, and they touch that file only.
LinksExact == \A i \in Files \ leaked : links[i] = References(i)

\* The free list of sfs_fs_inode_allocate and sfs_fs_inode_deallocate threads,
\* through the size fields, every inode with no links and no other, and ends.
FreeListExact ==
  LET chain[j \in 0..NumInodes] ==
        IF j = 0 THEN free_inode_head
        ELSE IF chain[j - 1] \in Files THEN size[chain[j - 1]] ELSE 0
  IN  /\ {chain[j] : j \in 0..NumInodes} \cap Files = {i \in Files : ~InUse(i)}
      /\ chain[NumInodes] \notin Files

\* Two live entries of the directory have different names and different inodes:
\* the search of sfs_create finds every live entry, and sfs_fs_inode_allocate
\* never returns an inode that has a name.
EntriesDistinct ==
  \A j, k \in Slots :
     /\ dirent[j].inumber # 0 /\ dirent[k].inumber # 0
     /\ \/ dirent[j].name = dirent[k].name
        \/ dirent[j].inumber = dirent[k].inumber
     => j = k

\* A file with no name left is deallocated once the kernel has released its
\* handles, unless it has lost a link (or an assertion stopped the process first).
UnlinkedFilesAreReclaimed ==
  \A i \in Files : (InUse(i) /\ Entries(i) = {}) ~> (~InUse(i) \/ i \in leaked \/ ~up)

\* The assertion of sfs_fs_write_inode() stops the process only when every inode is
\* taken: the free list never comes to its end behind the table too early.
StopsOnlyWhenFull == ~up => \A i \in Files : InUse(i)

\* sfs implements FileSpace: a name or handle keeps meaning the same file, with
\* the size its writers gave it, until it is removed; a new file is never one
\* that still exists, although inodes and their size fields are recycled.
NameOf(n) == LET S == Matches(n)
             IN  IF S = {} THEN 0
                 ELSE dirent[CHOOSE k \in S : First(k, S)].inumber
Abstract == INSTANCE FileSpace WITH
  None <- 0,
  names <- [n \in Names |-> NameOf(n)],
  handle <- fd,
  bytes <- [i \in Files |-> IF References(i) = 0 THEN 0 ELSE size[i]]
ImplementsFileSpace == Abstract!Spec

\* sfs.c:374, "return -EDQUOT;  // no more inodes": a create that finds every inode
\* taken is refused, and the filesystem goes on.
FullIsReported == up

\* fs.c:103, "always have 1 link on root (convention it seems)": opening and releasing
\* the root directory leaves its link count as it was.
RootHasOneLink == links[Root] = 1
=============================================================================
