# Verification of sfs

sfs is a small ext2-like filesystem: a FUSE daemon that keeps a flat root
directory and the files in it in a disk file of 512-byte blocks. This directory
holds TLA+ models of it, TLC configurations that check them on small instances,
and TLAPS proofs of the main results for instances of every size. Paths such as
`sfs.c:608` are below `src/src/`.

## Inventory

| part | state | operations | calls |
|---|---|---|---|
| FUSE handlers (`sfs.c`) | one mutex, `struct sfs_state` | init, destroy, getattr, create, unlink, open, release, read, write, opendir, readdir, releasedir; mkdir and rmdir do nothing | directory, inodes, blocks, descriptor pool |
| root directory (`dir.c`) | blocks of inode 1, one entry per block | iterate, link, unlink an entry | inode blocks, inode table |
| inode free list (`fs.c`) | `superblock.free_inode_head`, next pointers in the `size` of free inodes | inode_allocate, inode_deallocate | inode table, superblock, free blocks |
| inode table (`fs.c`) | table on disk, cache of one block (`struct inode_cache`), superblock | open_disk, close, read_inode, write_inode | blocks of the disk |
| free block list (`fs.c`) | `superblock.free_blocks_head`, index nodes inside free blocks | allocate_block, free_block | blocks of the disk |
| blocks of an inode (`fs.c`) | 12 direct pointers, one indirect block of 64 | inode_block_read, _write, _remove | free block list |
| formatting (`fs.c`) | superblock, table, index | format_fs | blocks of the disk |
| descriptor pool (`filedescriptor.c`) | slabs of slots, free list inside free slots | pool_init, pool_deinit, allocate, get_from_fd, free | - |
| block device (`block.c`) | the disk file | block_read, block_write | - |
| logging, argument parsing, FUSE header, tokenizer (unused) | - | - | - |

How the parts interact: libfuse calls a handler from one of its threads; the
handler takes the mutex for its whole duration; a file's identity is its inode
number, kept in the directory entry and in the descriptor that `fi->fh` refers
to; the link count of an inode counts both kinds of reference, and the inode is
deallocated with the last one.

What is hard here:

* *reference counting across calls*: names and handles of one file go away in any
  order, and create and open fail after they have counted;
* *recycled memory*: a free inode's size, a free block's contents and a free
  descriptor's inode number are list pointers, on lists that every later call
  trusts;
* *the write-back cache*: one block, evicted by any access to another, with the
  superblock written through beside it;
* *failures in the middle*: lack of memory or of blocks, failing reads and
  writes, the death of the process, unmounting with files open;
* *limits*: the full inode table, the full directory, the full disk, the full
  slab;
* *write orders*: the superblock, directory blocks, index blocks and data are
  written at once, inodes when their block is evicted, and the process may die
  between any two writes;
* *off-by-one arithmetic*: the layout of a new disk and the slicing of requests.

Correct means: a name or a handle denotes the same file until it is removed; an
inode, block or descriptor is never free and in use at once, and none is lost
while nothing fails; a read returns what was written; a failure costs what was
being changed and nothing else.

## Modules

| module | models | implements |
|---|---|---|
| `Sfs` | handlers, root directory, inode free list | `FileSpace` |
| `InodeCache` | inode table behind its cache, superblock, open and close | `InodeStore` |
| `Durable` | what handlers, directory, free list and cache leave on the disk, step by step | |
| `FreeBlocks` | free block list | `BlockPool` |
| `InodeBlocks` | blocks of an inode, extends `FreeBlocks` | `BlockPool` |
| `FileData` | data path of read and write | `ByteFile` |
| `Format` | opening and formatting a disk | |
| `FdPool` | descriptor pool | `FdTable` |
| `MC...` | the instances for TLC | |
| `SfsProofs`, `InodeCacheProofs`, `DurableProofs`, `FileDataProofs`, `FormatProofs`, `FdPoolProofs` | theorems about the module of that name | |
| `BlockProofs` | theorems about `FreeBlocks` and `InodeBlocks` | |
| `ThreadedLists` | lemmas about lists that are threaded through free elements | |

The abstract modules on the right say what a part promises to the part above it:
`Sfs` treats the inode table as `InodeStore` provides it, and its descriptors as
`FdTable` does; `FileData` treats the blocks of a file as the array with holes
that `ReadsReturnWrites` of `InodeBlocks` shows them to be; the initial states of
`Sfs`, `InodeCache` and `FreeBlocks` are what `Format` shows a new disk to have, if
the disk file was zeroed before, as `mount.sh` makes it (`fallocate`, `mkfile -n`).

### Sfs

`links`, `size` and `free_inode_head` are the inode table and the list threaded
through it; `dirent[k]` is the entry in block `k` of the directory (a
`struct sfs_dir_entry` takes 264 bytes, so a block holds one); `fd[f]` is the
inode number in the descriptor of handle `f`; `dirfd` are the handles that
opendir returned. One action is one handler, because a handler holds the mutex
from beginning to end. Calls that fail before they change anything are
stuttering steps.

`Create` pops the free list, gives the inode a link for the descriptor, and
links it into the first hole of the directory, or into a new block, with a second
link. Where no block can be added the inode stays allocated; where no descriptor
can be allocated (`AllocateFd`) the links stay counted: the code undoes nothing,
and neither does the model. `CreateBehindTable` is the same handler at the end
of the free list, which `format_fs` lets point behind the table, to a block that
nothing has written and that is zero on such a disk file. `OpenDir`
counts no link, and `ReleaseDir` drops one: so the code. `Remount` is a SIGTERM
with handles open, which runs `sfs_destroy`, and the next `sfs_init`.

`Faults` selects the failures: `ENOMEM` (no descriptor), `ENOSPC` (no block for
the directory), `SIGTERM`. A write changes the size only; data blocks are not
state of this module. Times, modes and owners are left out.

### InodeCache

`table` and `superblock` are on the disk, `block_number`, `dirty` and `data` are
`struct inode_cache`, `reply` is what the last call returned.
`Logical`, the cached block over the table, is the refinement mapping. `InodeStore`
has beside the table the saved one, which may differ in the inodes of one block; its
one lossy action, `Lose`, is the end of a process by a crash or a failed close, and
puts the table back to the saved one. A write-back that fails loses nothing. Each call
writes at most one block before it changes anything in memory, so a crash inside
a call is a crash before or after it. `Faults` selects crashes, failing reads
and writes, and the indeterminate dirty flag: `sfs_fs_open_disk` takes the cache
from `malloc` and sets only its block number.

### FreeBlocks

`disk[b]` are the words of block `b`, counted from the first block that
`format_fs` gives to the list; `head` and `sb_head` are the head in memory and
on the disk; `held` are the blocks in use, whose words are whatever their owner
wrote. The initial state is the index that `format_fs` writes, in which the last
node, when it is not full, was never written: its words are any of `Leftovers`, of
which only 0 is possible on a zeroed disk file. `BlockPool` has the pool in memory
and the stored one that a crash brings back; a block leaves them only by an
allocation, which may fail, and a failing write leaves the stored pool behind by the
one block of the call. Allocation and
freeing have a disjunct for each prefix of their writes that a failure may leave,
except one: `TornAppend`, the append that stops between its two writes, is kept
out of `Next` and is in `TornSpec` only, because it breaks the list.

### InodeBlocks

The module extends `FreeBlocks`, whose list it uses without failing writes
(`Faults` is empty); the `held` blocks now belong to inodes. `InodesInit`,
`InodesNext` and `InodesSpec` are of the whole, `Init` and the actions of `FreeBlocks` of
the list in it. `ptr[i]` are the pointers of inode `i` as the
cache has them, `saved` those on the disk: the inodes of the instance lie in one
block of the table, which `SaveInodes` writes as a whole, as eviction and close do.
`sfs_fs_inode_block_write` is cut at its writes: a block for a direct pointer or
for the index (`AllocateDirect`, `AllocateIndex`), a block named in the index
(`AllocateLink`, then `WriteIndex`), the data, if the number is in the range of blocks
(`WriteData`); deallocation frees the
inode first and the direct blocks one by one. `InodesCrash` may come between any two.

`written` is the block that the last writer of a block of a file put there (or,
when it died before its data were written, the block that was there); `lost` are the
blocks that nobody will give back: the indirect block of a deallocated inode and
what it names (`fs.c:294` stops at the direct pointers), and what a crash cut off.
`EveryBlockIsAccountedFor` says that there are no others; that the first kind is lost
contradicts `fs.h:100` and is the run `inode_blocks_leak`.
Two things corrupt files, and the model says exactly when: `stale`, an index block
was used that was not zero (`fs.c:515` does not zero it), and `tainted`, a crash
came while a deallocation had given back blocks and was not saved. Nothing is
claimed of the states behind them (`Healthy` is the constraint of the run); with
either of the two left out of `Healthy`, TLC finds shared blocks and wrong reads.

### Durable

A handler runs under the lock, so its operations on the disk are known when it
begins: it puts a sequence of them into `todo`, in the order of the code, and
`Step` does one after the other, unless a `Crash` comes first. The operations are
a read or write of an inode through the cache (which writes back another dirty
block), of the superblock's list head, and of a directory block. `table`, `head`
and `dirent` are on the disk; `inodes`, `cached`, `dirty` are the cache. `Exposed`
names the two windows in which a crash does harm: an inode that was allocated or
freed waits in the cache (`Unsaved`), or an unlink has freed an inode that an entry
still names (`HalfUnlinked`). `DiskSurvivesCrash` says there are no others; it fails
when either is left out. `Create` writes the root before the entry only if the new
block needed a pointer or the index (`Pointer`); `CreateFails` has taken the inode from
the list and written it when `sfs_dir_link` fails, and `CreateBehindTable` ends in the
assertion of `sfs_fs_write_inode`, from which only a new process goes on. Names and
data blocks are left out, and so are I/O errors and lack of memory.

### FileData

One call is one action. `BufferIndex` is where the code looks in the caller's
buffer for a byte of a block: at the number of the block *in the file* for a full
block, at the beginning for a last partial block, nowhere for a block that the
request begins inside. A byte taken from outside the buffer, or from the
uninitialised `tmp_block`, is any byte; a byte stored outside is `Overrun`, and
nothing is said afterwards. A write may fail at each of its blocks (`WriteFails`):
those before are stored, the one that failed is as it was or has any bytes. `Exact` are the
requests that come out right: whole blocks from offset 0, or a first part of one
block. For these `ByteFile` is an array of bytes, of which a read promises those
below the size; all other writes damage only blocks that they have a part of. What a
read returns behind the end of the file is the subject of `FileDataEof.cfg`.

### Format

One step is one turn of a loop of `format_fs`, with the names of its variables;
the disk may have any size in `Sizes`. `Stop` is the death of the process or a
failing write, after which the disk is opened again.

### FdPool

A slot is a union: `word[s]` is the inode number of an open descriptor, or the
pointer to the next free slot. `open` are the numbers the kernel holds; it
releases what it opened and nothing else.

## Runs

All bounds are in the `.cfg` files. Passing runs:

| run | instance | shows |
|---|---|---|
| `sfs` | 2 files, directory of 2 blocks, 3 names, 2 handles, all failures, with fairness | no inode is freed or reused while referenced; links are lost only where a call fails or a handle is never released (`leaked`); the free list is exact, so that the assertion at its end stops the process only when all inodes are taken; names and inodes of entries differ; refinement of `FileSpace`; an unlinked file is reclaimed |
| `inode_cache_losses` | 3 blocks of 2 inodes, crashes and failing writes | a clean block matches the disk; reads return the last write; a call that returns 0 loses nothing, a failed write-back loses nothing either, a crash one block at most, never the superblock |
| `inode_cache_faults` | the same, all failures | only the dirty block is written, to its place |
| `durable` | 3 files, 2 inodes in a block, directory of 3 blocks, crashes everywhere | the disk is sound at every step outside the two windows; which creations a crash takes back |
| `free_blocks` | 5 blocks of 3 words, failing writes and crashes | the list is well formed, no block is free and in use; refinement of `BlockPool`: no step but a failing allocation or a crash loses a block |
| `inode_blocks` | 2 inodes of 2 direct pointers and an index, 3 blocks, crashes | no block has two owners; none is lost but where said; reads return the last of two values written; the block calls refine `BlockPool` |
| `file_data` | 2 blocks of 2 bytes, all requests within 6 bytes | refinement of `ByteFile`; which reads leave the buffer |
| `format` | every disk of 1 to 40 blocks of 4 words, stopped twice | the signature comes last; the layout; which sizes fail the assertion; formatting ends |
| `fd_pool` | 3 slabs of 2 slots | numbers, free list, the pool grows only when it is full, refinement of `FdTable` |

Why the bounds are enough: in `sfs` there are more names than directory
blocks and, with handles on unlinked files, more demands than inodes, so that
holes, a directory at its limit, recycled inodes and the exhausted list all occur, and
two handles may share a file. A create that finds the directory full while an inode
is free needs a third file; it does what one without a block for the directory does
(`ENOSPC`), and `SfsLarge.cfg`, three files without liveness and with names and handles
as symmetry sets, has it too: TLC passes it in a minute and a half. The invariants
and the refinement are proved for every size. `LinkBound` keeps counts that failures inflate
finite; counts of files are exact below it. In the cache a block has a neighbour
inode to lose and two other blocks to be evicted by. Five blocks of three words
make two index nodes, one not full, and lists that empty and grow again. In
the pool slabs fill and empty in every order. Three blocks for two inodes that
want up to four each run out and are recycled as data, index and list node; one
word of the index is used, since a second adds only states. Two patterns of data
tell an overwritten block from an old one and one file's block from another's; they
are block numbers, so that old data can be taken for an index. In `durable` the root
shares its block with one file and not with the two others; `LinkBound` is needed
because crashes leave links behind. Two blocks of two bytes have a first and a last
block; requests within six bytes begin and end on and off boundaries, and those
that reach past the largest file have a first, a middle and a last block. Forty sizes repeat every residue that the layout
depends on (4 words, 8 blocks to a block of the table; the code has 64 and 16).
The inodes are a symmetry set in `inode_blocks`, which checks no liveness.

Runs that find a disagreement between the code and what it says of itself:

| run | the repository says | the code |
|---|---|---|
| `inode_cache_reformat` | `fs.c:187` "mark unsetup field values" | an indeterminate dirty flag and a crash cost the superblock |
| `free_blocks_torn` | `fs.h:161` allocation "finds a free block" | a free that stops half way makes the list offer blocks in use |
| `inode_blocks_leak` | `fs.h:100` "deallocates \|inode\| and its blocks" | the index block and what it names stay allocated (`fs.c:294`) |

Others have a configuration of their own beside the runs, each with one property of
the module that TLC finds violated at once (`tlc -config X.cfg MCM`):

| configuration | module | property | the repository says | the code |
|---|---|---|---|---|
| `InodeCacheUnread` | `MCInodeCache` | `ReadsReturnInodes` | `fs.h:107` a read returns the inode, or -1 | a block that could not be read stays in the cache with zeroes and is read successfully the next time (`fs.c:327`, `fs.c:361`) |
| `SfsFull` | `MCSfs` | `FullIsReported` | `sfs.c:374` "no more inodes" is EDQUOT | the free list ends behind the table (`fs.c:111`), and the create fails the assertion of `fs.c:345` |
| `SfsRoot` | `MCSfs` | `RootHasOneLink` | `fs.c:103` "always have 1 link on root" | opendir counts no link and releasedir drops one (`sfs.c:1075`) |
| `FreeBlocksOld` | `MCFreeBlocks` | `OnlyFreeBlocksAreOffered` | `fs.h:161` as above | on a disk file that was not zeroed the partial last node, never written (`fs.c:157`), offers blocks in use |
| `InodeBlocksStale` | `MCInodeBlocks` | `BlocksWereAllocated` | `fs.h:143` a missing block "will be allocated" | the words of an index block that was not zeroed are taken for blocks (`fs.c:515`) |
| `FileDataEof` | `MCFileData` | `ReadsStopAtEnd` | `sfs.c:668` the number of bytes requested "except on EOF" | the size is never looked at (`sfs.c:753`) |
| `FileDataOverrun` | `MCFileData` | `ReadsFillOnlyTheBuffer` | `sfs.c:668` exactly the bytes requested | a whole block goes to its number in the file, behind the buffer (`sfs.c:737`) |
| `FormatLeaks` | `MCFormat` | `NoBlockIsLeaked` | `fs.c:166` "makes sure we don't somehow leak blocks" | the block behind the table and the blocks of a partial last node are lost |
| `FormatAborts` | `MCFormat` | `LargeEnoughDisksAreFormatted` | `fs.c:62`, `fs.c:167` fewer than three blocks are too small | three blocks, and sizes with one free block more than full nodes describe (`Unformattable`), fail the assertion |

What holds in spite of these disagreements is what the passing runs say.

Met in reading only: `get_from_fd` yields a slot for every number in an
existing slab, where `filedescriptor.h:39` promises NULL for an invalid one (the
kernel passes none); `pool_deinit` frees every slab but the last, where
`filedescriptor.h:27` says that it frees the memory.

Fairness: `FairSpec` of `Sfs` assumes weak fairness of `Release` for each handle,
which is the kernel's promise quoted at `sfs.c:608` ("For every open() call there
will be exactly one release() call"). No handler is assumed to be called
otherwise. The property allows for a process that an assertion has stopped.
`Format` assumes weak fairness of the steps of `format_fs`, a loop that waits for
nobody; opening the disk is not assumed.

Deadlock checking is off where an assertion, a mount, an overrun or the end of the
pool is the end of what is modelled, and on elsewhere.

## Proofs

The theorems hold for every value of the constants: numbers of inodes, directory
blocks, names, handles and table blocks, sizes of disks, blocks, files, requests
and slabs, and every subset of the failures where none is excluded by name.

### Lists

Free inodes, index nodes and free descriptors are lists threaded through the free
elements. That each element leads to a free one is not enough: such links may form
a cycle beside the list, and then elements are lost. `ThreadedLists` therefore
says `Listed(F, next, h, End)`: an enumeration of the set `F`, each element once,
follows `next` from the head `h` to a value of `End`. Its lemmas say what the
operations of the code do to `F`: a pop removes the head (`ListPop`), a push adds one
(`ListPush`), an append adds one at the end (`ListAppend`), and a change to the
successor of an element outside `F` does nothing (`ListFrame`). `ListWalk` connects
`Listed` with the recursive functions by which the invariants follow a list:
after `n` steps the function has reached the n-th element. The induction is by
the least number principle, on sets (`NatInSet`), since the induction theorems of
the library cannot be instantiated.

### Sfs

Type correctness; `LinksCoverReferences`, no file is freed under a name or handle;
`LinksExact`, nothing but the named failures costs a link;
`EntriesDistinct`. None is inductive alone; with them goes `FreeListSound`, that each
free inode leads to another or to the end. A
freed inode goes on the free list, so the list is sound only if what is freed is
not referenced, which is what the counts are for; the count of a new inode is
right only if the popped inode had no references, which is what the list is for.
The inductive invariant `IInv` joins them with two facts about kinds: handles
that are not of directories stand for files (`HandleKinds`), and live entries
lie below the size of the directory and name files (`EntryKinds`). One lemma per
handler shows that it preserves `IInv`; the counting of references rests on
`CountUpdate`, about finite sets that differ in one element.

`FreeListExact` and `StopsOnlyWhenFull` need in addition that the inodes without
links are `Listed`, which every handler preserves by the lemmas above. The
refinement of `FileSpace` maps entries to names and inodes to files and goes handler
by handler; it uses `EntriesDistinct` (a name has one entry) and
`LinksCoverReferences` (a new file takes an inode that nothing refers to).

### InodeCache

Type correctness and `OnlyTheDirtyBlockIsWritten` under every
failure; `CleanCacheMatchesDisk` while blocks can be read; under `Benign` (blocks
can be read, and the dirty flag is indeterminate only if nothing crashes or fails to
be written) the refinement of `InodeStore` and that a closed disk keeps its
signature. `UnsavedInOneBlock` is what the saved table of `InodeStore` needs: the
disk differs from the table in inodes of the cached block only. The refinement says more than the run can: it includes the
indeterminate dirty flag, harmless to the table while nothing crashes. `Sane` is
the inductive strengthening for the last two. That
`Benign` is needed is what the run `inode_cache_reformat` shows; a failing read
breaks `CleanCacheMatchesDisk` in one step.

### FreeBlocks

Between a write of a node and the write of the superblock there are two lists: the
one that the process follows and the one a crash would find. The inductive
invariant is that there are sets `H` and `S` of nodes such that `H` is listed from
`head` and `S` from `sb_head`, and that `H \cup S` is `Tidy`: no node is in use, and
the slots of the nodes name blocks that are neither in use nor nodes, none of them
twice. The two lists may share nodes, or not. From it follow `ListIsSound`,
`NoHeldBlockIsFree` for both lists, and the refinement of `BlockPool`, whose `pool` and
`stored` are what the two lists offer. `TornAppend` is not part of `Spec`, and the
disk file was zeroed (`Leftovers = {0}`); `free_blocks_torn` and
`FreeBlocksOld.cfg` show why.

### InodeBlocks

Type correctness always; while no file is corrupted (`Healthy`) that no block is
shared, that all are accounted for, that reads return writes, and the refinement of
`BlockPool`. The invariants are claimed of healthy states and a corrupted state never
becomes healthy (`HealthBefore`), so they are theorems of `InodesSpec`; the
refinement says something of every step and is proved of behaviours with
`[]Healthy`, those that the constraint of the run leaves.

Every place where an inode can have a block has a number (`Places`: the direct
pointers, the index, the words of the index), and `Own[i][k]` is the block there. The
invariant `Sound` says of it:

* `ListOK`: the list is that of `FreeBlocks`, by the invariant of its proofs; a call
  writes only blocks in use, so it stays so (`WriteStep`);
* `Exclusive`: no block is at two places of live inodes;
* `Accounted`: the blocks in use are those at such places, the lost ones and those of the
  call, three sets without a common block. With `Exclusive` it makes a write to one
  place invisible at all others;
* `CallOK`: a call that links a block has in memory the index of the disk with the new
  block in a word that is 0; a call that frees has no block twice in front of it;
* `SavedOK`: unless a deallocation waits to be saved, a pointer in the table on the disk
  is 0 or the current one. It is why a crash only forgets blocks: each place is then
  empty or as it was (`FewerOwners`);
* `ReadOK`: a hole was never written, and every block but the one a call is writing has
  what was written. For a block that a crash leaves behind between its link and its
  data this is what it held before.

There is a lemma for each action (`DirectSound`, ..., `CrashSound`). An index block must
be zero when it is taken (`~stale`), or `Exclusive` fails at once; `IndexSound` is where
this is used, and `CrashSound` where `~tainted` is. `InodeBlocks` extends `FreeBlocks`
rather than instantiating it because the prover cannot cite theorems through an
instance.

### Durable

`DiskSurvivesCrash` and `NamesSurviveCrash` for any number of crashes, and type
correctness, of the states before a crash has done harm. What a crash may find at some
step depends on what the handler has done and has not, so the inductive invariant
`DInv` is about the rest of it, `todo`:

* `FreeOK`: the inodes of a set `F` without links are `Listed` from the head, through the
  sizes as a read would return them, cached or not;
* `TodoOK`: the rest is a case of `Rest` for one file, behind operations that change no
  link and no free inode (`Behind`, `Harmless`), or there is nothing but such operations.
  Every other file is `Covered`: its links are at least its entry and its descriptors. The
  cases of `Rest` are the places where a handler can be, from `Taking` an inode to
  `Opening` it and from `Freeing` or `Dropping` a link to `Forgetting` what it was for, each
  with what the links of the file cover there. `Ending` is the rest of a create that
  fails: what it has taken is lost, and nothing else is touched;
* `Apart`, `RootOK`: entries name different inodes, and the directory on the disk is not
  longer than the one in the cache;
* `NamesOK`: an entry that the directory on the disk does not reach names an inode in
  the block of the root, or one that the handler will still write. It is this write that
  makes the cache write the size of the root back (`DirStep`).

The elementary operations are described once, with the cache (`Does`): of the inodes, a
read changes nothing and a write one. A step lemma leads from each case of `Rest` to the
next (`StepTaking`, `StepStoring`, ...), a lemma for each handler shows that its sequence
is one of the cases (`BeginCreate`, ...), and `MountSound` that outside the windows
the disk is a state between two handlers again; `SavedFree` is where `~Exposed` is used.
`DiskListExists` shows that the recursive `DiskList` is what its equation says, from the
listing of `F`.

### FdPool

The inductive invariant says that slot numbers count the slots in the order of the
slabs, that open numbers are those of slots in memory, which hold their inode
number, and that all other slots are `Listed` from the head. `GrowsOnlyWhenFull`
and the refinement of `FdTable` follow.

### FileData

`CutLemma` gives the quotient and remainder facts of how a request is cut, for every
block size; `InBuffer` derives that an index outside the buffer implies `Overruns`,
and `ExactFacts` that an exact request exchanges its bytes in place and keeps the
rest of its last block. The refinement of `ByteFile` maps each call to a call:
exact ones to reads and writes, failed or other writes to `Damage`, whose bounds
`StoreFacts` shows, wherever the write stopped. Nothing beside `TypeOK` has to be carried from call to call.

### Format

The inductive invariant says what has been written at each turn of the loops: the
blocks of the table below `i`; of the index, all nodes before the current one, and
in memory the names up to the current position, which determines `i` (`Filling`).
Between attempts a node is as it was before or complete (`NodesSound`), and a disk
with the signature is `Complete`. `LayoutIsRight` says that there are as many nodes
as blocks need; that the last one is begun by some block, unless the size is
`Unformattable`, is `LastNode`. `LostBlocks`, which blocks of a new disk are lost
(`FormatLeaks.cfg` shows that some are), follows by counting.

### Assumptions

Assumptions on constants are named `ASSUME`s of the component modules, which TLC
evaluates in every run: the table has a file's inode besides the root, link counts
stay below their modulus (the handlers' guard `LinkBound` bounds the model; 2^32
handles of one file are out of reach of the code, too), the handle set is finite, a
disk has a block to read the superblock from (`Sizes`), what a block held before
formatting is neither a superblock nor an index node (`OldAssumption`), and the
marks of the models are no values of the program (`OverrunAssumption`). The theorems
about `InodeBlocks` have `Faults = {}` as a hypothesis: no write fails there, and its
crashes are its own; those about `FreeBlocks` hold for all `Faults`. Both have
`Leftovers = {0}`, a zeroed disk file; `Sfs` and `Durable` rely on the same zeroes where
the free inode list leads behind the table.

### Only model-checked

* Liveness (`UnlinkedFilesAreReclaimed`, `FormattingEnds`), which the prover does
  not handle.
* The runs and configurations that find a disagreement.

## Plan

1. `Sfs`, `InodeCache`, `FreeBlocks`, `FdPool`, their abstract specifications,
   runs, and the first theorems: done.
2. `InodeBlocks`, `Format`, `FileData`, `Durable`, and `LinksExact` under every
   failure with its proof: done.
3. Proofs about `FdPool`, `FreeBlocks`, `FileData`, `Format`, the exact free list of
   `Sfs` and its refinement of `FileSpace`: done.
4. The invariants of `InodeBlocks` and its refinement of `BlockPool`, over the lemmas of
   `FreeBlocks`: done.
5. The invariants of `Durable`: done.

## Not modelled

* I/O errors inside the handlers of `Sfs` and the calls of `InodeBlocks`, where the
  process goes on after half an operation. `Durable` and `InodeBlocks` cut the same
  operations at the same places by crashes; what a handler does afterwards with a
  filesystem that a failed write has left inconsistent is not described.
* The mutex itself. That a handler unlocks on each of its returns can be read off
  the code; sfs_opendir does not at lines 885, 908 and 927, which need a path other
  than `/`, and the kernel opens directories only, of which there is no other.
* What getattr and readdir copy into the caller's buffers, and that getattr reads
  the directory entry from memory it has freed (`sfs.c:184`): nothing in this code
  allocates in between, so what is read there is up to the allocator.
* `sfs_fs_inode_block_remove` and `sfs_fs_inode_get_block_number`, which nothing
  calls; the unused tokenizer; mkdir and rmdir, which do nothing.
* Logging, argument parsing, the vendored `fuse.h`, permissions and times, and the
  width of block and inode numbers, which the disk size bounds far below 2^64.
