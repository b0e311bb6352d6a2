----------------------------- MODULE SfsProofs ------------------------------
(***************************************************************************)
(* Proofs about Sfs, for any number of inodes, names, handles and          *)
(* directory blocks, whichever of the failures happen.                     *)
(***************************************************************************)
EXTENDS Sfs, ThreadedLists, FiniteSetTheorems, TLAPS

-----------------------------------------------------------------------------
(* Counting references. *)

\* Finite sets that differ at x at most.
LEMMA CountUpdate ==
  ASSUME NEW G, NEW H, NEW x, IsFiniteSet(G), G \ {x} = H \ {x}
  PROVE  /\ x \notin G /\ x \in H => Cardinality(H) = Cardinality(G) + 1
         /\ x \in G /\ x \notin H => Cardinality(H) = Cardinality(G) - 1
         /\ (x \in G <=> x \in H) => Cardinality(H) = Cardinality(G)
<1>1. ASSUME x \notin G, x \in H
      PROVE  Cardinality(H) = Cardinality(G) + 1
  <2>1. H = G \cup {x}
    BY <1>1
  <2> QED BY <1>1, <2>1, FS_AddElement
<1>2. ASSUME x \in G, x \notin H
      PROVE  Cardinality(H) = Cardinality(G) - 1
  <2>1. H = G \ {x}
    BY <1>2
  <2> QED BY <1>2, <2>1, FS_RemoveElement
<1>3. ASSUME x \in G <=> x \in H
      PROVE  Cardinality(H) = Cardinality(G)
  <2>1. H = G
    BY <1>3
  <2> QED BY <2>1
<1> QED BY <1>1, <1>2, <1>3

\* The sets that are counted are finite.
LEMMA SlotsFinite == IsFiniteSet(Slots)
BY SizesAssumption, FS_Interval DEF Slots

\* Their cardinalities are natural numbers.
LEMMA CountsAreNat ==
  ASSUME NEW i
  PROVE  /\ IsFiniteSet(Entries(i)) /\ IsFiniteSet(Handles(i))
         /\ Cardinality(Entries(i)) \in Nat /\ Cardinality(Handles(i)) \in Nat
         /\ Cardinality(Entries(i)') \in Nat /\ Cardinality(Handles(i)') \in Nat
<1>1. /\ IsFiniteSet(Entries(i)) /\ IsFiniteSet(Handles(i))
      /\ IsFiniteSet(Entries(i)') /\ IsFiniteSet(Handles(i)')
  BY SlotsFinite, FdsAssumption, FS_Subset DEF Entries, Handles
<1> QED BY <1>1, FS_CardinalityType

\* The effect of one assignment to a descriptor.
LEMMA HandlesUpdate ==
  ASSUME TypeOK, NEW f \in Fds, NEW v, NEW j,
         fd' = [fd EXCEPT ![f] = v]
  PROVE  /\ fd[f] # j /\ v = j => Cardinality(Handles(j)') = Cardinality(Handles(j)) + 1
         /\ fd[f] = j /\ v # j => Cardinality(Handles(j)') = Cardinality(Handles(j)) - 1
         /\ fd[f] # j /\ v # j => Cardinality(Handles(j)') = Cardinality(Handles(j))
<1>1. fd'[f] = v /\ \A y \in Fds \ {f} : fd'[y] = fd[y]
  BY DEF TypeOK
<1>2. /\ Handles(j) \ {f} = Handles(j)' \ {f}
      /\ f \in Handles(j) <=> fd[f] = j
      /\ f \in Handles(j)' <=> v = j
  BY <1>1 DEF Handles
<1> QED BY <1>2, CountUpdate, CountsAreNat

\* The effect of one assignment to a directory entry.
LEMMA EntriesUpdate ==
  ASSUME NEW k \in Slots, NEW v, NEW j, dirent'[k].inumber = v,
         \A y \in Slots : y # k => dirent'[y] = dirent[y]
  PROVE  /\ dirent[k].inumber # j /\ v = j => Cardinality(Entries(j)') = Cardinality(Entries(j)) + 1
         /\ dirent[k].inumber = j /\ v # j => Cardinality(Entries(j)') = Cardinality(Entries(j)) - 1
         /\ dirent[k].inumber # j /\ v # j => Cardinality(Entries(j)') = Cardinality(Entries(j))
<1>1. /\ Entries(j) \ {k} = Entries(j)' \ {k}
      /\ k \in Entries(j) <=> dirent[k].inumber = j
      /\ k \in Entries(j)' <=> v = j
  BY DEF Entries
<1> QED BY <1>1, CountUpdate, CountsAreNat

-----------------------------------------------------------------------------
(* The inductive invariant. *)

\* Only opendir's handles stand for the root directory.
HandleKinds == \A f \in Fds : f \in dirfd <=> fd[f] = Root

\* The root directory is not an entry of itself, and blocks that it has not got
\* yet hold no entry.
EntryKinds == \A k \in Slots : /\ dirent[k].inumber # Root
                               /\ dirent[k].inumber # 0 => k < size[Root]

\* The free list, without following it: it starts at a free inode or at its end, a
\* free inode leads to a free inode or to the end, and no free inode has two
\* predecessors (the head has none).
FreeOrEnd(i) == i \in {0, Unformatted} \/ (i \in Files /\ ~InUse(i))
FreeListSound ==
  /\ FreeOrEnd(free_inode_head)
  /\ \A i \in Files : ~InUse(i) =>
        /\ FreeOrEnd(size[i])
        /\ size[i] \in Files => size[i] # free_inode_head
  /\ \A i, j \in Files :
        ~InUse(i) /\ ~InUse(j) /\ size[i] = size[j] /\ size[i] \in Files => i = j

IInv == /\ TypeOK
        /\ HandleKinds
        /\ EntryKinds
        /\ LinksCoverReferences
        /\ LinksExact
        /\ FreeListSound
        /\ EntriesDistinct

\* Constants of the layout.
LEMMA Layout == /\ Root \in Inodes /\ Root \notin Files /\ Root # 0
                /\ Files \subseteq Inodes /\ 0 \notin Inodes
                /\ Inodes \subseteq 0..Unformatted /\ Inodes \subseteq 0..NumInodes
                /\ \A i \in Inodes : i # Root => i \in Files
                /\ Unformatted \notin Inodes /\ Unformatted \in Nat /\ NumInodes \in Nat
                /\ 0 \in 0..NumInodes /\ 0 \in 0..Unformatted /\ 2 \in Files
BY SizesAssumption DEF Root, Inodes, Files, Unformatted

\* An inode with a name or a handle has a link.
LEMMA ReferencedInUse ==
  ASSUME IInv, NEW i \in Files, Entries(i) # {} \/ Handles(i) # {}
  PROVE  links[i] >= 1 /\ links[i] \in Nat
<1>1. \A S : IsFiniteSet(S) /\ S # {} => Cardinality(S) # 0
  BY FS_EmptySet
<1>2. References(i) >= 1 /\ References(i) \in Nat
  BY <1>1, CountsAreNat DEF References
<1>3. links[i] \in Nat
  BY Layout, LinksAssumption DEF IInv, TypeOK
<1> QED BY <1>2, <1>3 DEF IInv, LinksCoverReferences

\* Dropping a link of a referenced file keeps the free list, and touches neither
\* other counts nor the directory.
LEMMA DropLinkSafe ==
  ASSUME IInv, NEW i \in Files, links[i] >= 1, DropLink(i)
  PROVE  /\ links' \in [Inodes -> 0..(LinkMod - 1)]
         /\ size' \in [Inodes -> Nat]
         /\ size'[Root] = size[Root]
         /\ free_inode_head' \in 0..Unformatted
         /\ links'[i] = links[i] - 1
         /\ \A j \in Inodes : j # i => links'[j] = links[j]
         /\ FreeListSound'
<1>1. i \in Inodes /\ links[i] \in 0..(LinkMod - 1)
  BY Layout DEF IInv, TypeOK
<1>2. Decrement(links[i]) = links[i] - 1 /\ links[i] - 1 \in 0..(LinkMod - 1)
  BY <1>1, LinksAssumption DEF Decrement
<1>3. links' = [links EXCEPT ![i] = links[i] - 1]
  BY <1>2 DEF DropLink
<1>4. /\ links' \in [Inodes -> 0..(LinkMod - 1)]
      /\ links'[i] = links[i] - 1
      /\ \A j \in Inodes : j # i => links'[j] = links[j]
  BY <1>1, <1>2, <1>3 DEF IInv, TypeOK
<1>5. CASE links[i] - 1 # 0 /\ UNCHANGED <<size, free_inode_head>>
  <2>1. \A j \in Files : InUse(j)' <=> InUse(j)
    BY <1>1, <1>4, <1>5, Layout DEF InUse
  <2>2. FreeListSound'
    BY <1>5, <2>1 DEF IInv, FreeListSound, FreeOrEnd
  <2> QED BY <1>4, <1>5, <2>2 DEF IInv, TypeOK
<1>6. CASE links[i] - 1 = 0 /\ DeallocateInode(i)
  <2>1. /\ ~InUse(i)' /\ InUse(i)
        /\ \A j \in Files : j # i => (InUse(j)' <=> InUse(j))
    BY <1>1, <1>4, <1>6, Layout DEF InUse
  <2>2. /\ free_inode_head' = i
        /\ size'[i] = free_inode_head
        /\ \A j \in Inodes : j # i => size'[j] = size[j]
    BY <1>1, <1>6 DEF DeallocateInode, IInv, TypeOK
  <2>3. size' \in [Inodes -> Nat] /\ free_inode_head' \in 0..Unformatted /\ size'[Root] = size[Root]
    BY <1>1, <1>6, <2>2, Layout DEF DeallocateInode, IInv, TypeOK
  <2> DEFINE FreeNow(j) == j \in {0, Unformatted} \/ (j \in Files /\ links'[j] = 0)
  <2>4. FreeNow(free_inode_head')
    BY <2>1, <2>2 DEF InUse
  <2>5. \A j : FreeOrEnd(j) => FreeNow(j) /\ j # i
    BY <2>1, Layout DEF FreeOrEnd, InUse
  <2>6. ASSUME NEW j \in Files, links'[j] = 0
        PROVE  FreeNow(size'[j]) /\ (size'[j] \in Files => size'[j] # free_inode_head')
    <3>1. CASE j = i
      BY <2>2, <2>5, <3>1 DEF IInv, FreeListSound
    <3>2. CASE j # i
      <4>1. FreeOrEnd(size[j]) /\ size'[j] = size[j]
        BY <2>1, <2>2, <2>6, <3>2, Layout DEF IInv, FreeListSound, InUse
      <4> QED BY <2>2, <2>5, <4>1
    <3> QED BY <3>1, <3>2
  <2>7. ASSUME NEW j \in Files, NEW k \in Files,
               links'[j] = 0, links'[k] = 0, size'[j] = size'[k], size'[j] \in Files
        PROVE  j = k
    <3>1. ASSUME NEW l \in Files, l # i, links'[l] = 0
          PROVE  ~InUse(l) /\ size'[l] = size[l]
      BY <2>1, <2>2, <3>1, Layout DEF InUse
    <3> QED BY <2>2, <2>7, <3>1 DEF IInv, FreeListSound
  <2>8. FreeListSound'
    BY <2>4, <2>6, <2>7 DEF FreeListSound, FreeOrEnd, InUse
  <2> QED BY <1>4, <2>3, <2>8
<1> QED BY <1>2, <1>5, <1>6 DEF DropLink

\* A new handle of a file adds one reference to it at most, and exactly one unless
\* the file is counted as leaked.
LEMMA AllocateFdSafe ==
  ASSUME IInv, NEW i \in Files, AllocateFd(i), dirfd' = dirfd
  PROVE  /\ fd' \in [Fds -> 0..NumInodes]
         /\ HandleKinds'
         /\ leaked \subseteq leaked' /\ leaked' \subseteq Files
         /\ Cardinality(Handles(i)') <= Cardinality(Handles(i)) + 1
         /\ i \notin leaked' => Cardinality(Handles(i)') = Cardinality(Handles(i)) + 1
         /\ \A j \in Files : j # i => Cardinality(Handles(j)') = Cardinality(Handles(j))
<1>0. leaked \subseteq Files
  BY DEF IInv, TypeOK
<1>1. CASE fd' = fd /\ leaked' = leaked \cup {i}
  <2>1. \A j : Handles(j)' = Handles(j)
    BY <1>1 DEF Handles
  <2>2. fd' \in [Fds -> 0..NumInodes] /\ HandleKinds'
    BY <1>1 DEF IInv, TypeOK, HandleKinds
  <2>3. Cardinality(Handles(i)) <= Cardinality(Handles(i)) + 1
    BY CountsAreNat
  <2> QED BY <1>0, <1>1, <2>1, <2>2, <2>3
<1>2. CASE /\ leaked' = leaked
           /\ \E f \in Fds : fd[f] = 0 /\ fd' = [fd EXCEPT ![f] = i]
  <2>0. PICK f \in Fds : fd[f] = 0 /\ fd' = [fd EXCEPT ![f] = i]
    BY <1>2
  <2>1. fd' \in [Fds -> 0..NumInodes]
    BY <2>0, Layout DEF IInv, TypeOK
  <2>2. HandleKinds'
    BY <2>0, Layout DEF IInv, TypeOK, HandleKinds
  <2>3. Cardinality(Handles(i)') = Cardinality(Handles(i)) + 1
    BY <2>0, HandlesUpdate, Layout DEF IInv
  <2>4. ASSUME NEW j \in Files, j # i
        PROVE  Cardinality(Handles(j)') = Cardinality(Handles(j))
    <3>1. TypeOK /\ fd[f] # j /\ i # j
      BY <2>0, <2>4, Layout DEF IInv
    <3> QED BY <2>0, <3>1, HandlesUpdate
  <2>5. Cardinality(Handles(i)) + 1 <= Cardinality(Handles(i)) + 1
    BY CountsAreNat
  <2> QED BY <1>0, <1>2, <2>1, <2>2, <2>3, <2>4, <2>5
<1> QED BY <1>1, <1>2 DEF AllocateFd

\* A step that adds at least as many links to a file as references, and exactly as
\* many if the file is not leaked, keeps the counts right.
LEMMA CountsFollow ==
  ASSUME IInv, leaked \subseteq leaked',
         \A j \in Files :
            LET before == Cardinality(Entries(j)) + Cardinality(Handles(j))
                after  == Cardinality(Entries(j)') + Cardinality(Handles(j)')
            IN  /\ links'[j] \in Nat
                /\ links'[j] + before >= links[j] + after
                /\ j \notin leaked' => links'[j] + before = links[j] + after
  PROVE  LinksCoverReferences' /\ LinksExact'
<1>1. ASSUME NEW j \in Files
      PROVE  /\ links'[j] >= Cardinality(Entries(j)') + Cardinality(Handles(j)')
             /\ j \notin leaked' => links'[j] = Cardinality(Entries(j)') + Cardinality(Handles(j)')
  <2>1. /\ links[j] >= Cardinality(Entries(j)) + Cardinality(Handles(j))
        /\ j \notin leaked => links[j] = Cardinality(Entries(j)) + Cardinality(Handles(j))
    BY DEF IInv, LinksCoverReferences, LinksExact, References
  <2>2. /\ Cardinality(Entries(j)) \in Nat /\ Cardinality(Handles(j)) \in Nat
        /\ Cardinality(Entries(j)') \in Nat /\ Cardinality(Handles(j)') \in Nat
    BY CountsAreNat
  <2>3. links[j] \in Nat
    BY Layout, LinksAssumption DEF IInv, TypeOK
  <2> QED BY <2>1, <2>2, <2>3
<1> QED BY <1>1 DEF LinksCoverReferences, LinksExact, References

\* A step that touches neither links nor references of files.
LEMMA CountsFrame ==
  ASSUME IInv, leaked' = leaked,
         \A j \in Files : /\ links'[j] = links[j]
                          /\ Cardinality(Entries(j)') = Cardinality(Entries(j))
                          /\ Cardinality(Handles(j)') = Cardinality(Handles(j))
  PROVE  LinksCoverReferences' /\ LinksExact'
BY DEF IInv, LinksCoverReferences, LinksExact, References

\* The free list only depends on the free inodes.
LEMMA FreeListFrame ==
  ASSUME IInv, free_inode_head' = free_inode_head,
         \A j \in Files : links'[j] = 0 <=> links[j] = 0,
         \A j \in Files : links[j] = 0 => size'[j] = size[j]
  PROVE  FreeListSound'
BY DEF IInv, FreeListSound, FreeOrEnd, InUse

\* An entry that a search finds names a file that is in use.
LEMMA MatchIsFile ==
  ASSUME IInv, NEW n \in Names, NEW k \in Slots, First(k, Matches(n))
  PROVE  /\ dirent[k].inumber \in Files
         /\ dirent[k].inumber # 0
         /\ links[dirent[k].inumber] >= 1
<1>1. dirent[k].inumber # 0
  BY DEF First, Matches
<1>2. dirent[k].inumber \in Files
  BY <1>1, SizesAssumption DEF IInv, TypeOK, EntryKinds, Files, Root
<1>3. Entries(dirent[k].inumber) # {}
  BY DEF Entries
<1> QED BY <1>1, <1>2, <1>3, ReferencedInUse

\* A handle that open or create returned stands for a file that is in use.
LEMMA HandleIsFile ==
  ASSUME IInv, NEW f \in Fds, fd[f] # 0, f \notin dirfd
  PROVE  fd[f] \in Files /\ links[fd[f]] >= 1
<1>1. fd[f] \in Files
  BY SizesAssumption DEF IInv, TypeOK, HandleKinds, Files, Root
<1>2. Handles(fd[f]) # {}
  BY DEF Handles
<1> QED BY <1>1, <1>2, ReferencedInUse

\* sfs_open() raises the count before it takes the descriptor.
LEMMA OpenStep == ASSUME IInv, NEW n \in Names, Open(n) PROVE IInv'
<1>1. PICK k \in Slots : /\ First(k, Matches(n))
                         /\ AddLink(dirent[k].inumber)
                         /\ AllocateFd(dirent[k].inumber)
  BY DEF Open
<1>2. PICK i \in Files : i = dirent[k].inumber
  BY <1>1, MatchIsFile
<1>3. /\ UNCHANGED <<size, free_inode_head, dirent, dirfd, up>>
      /\ AddLink(i) /\ AllocateFd(i)
      /\ links[i] >= 1 /\ i \in Inodes
  BY <1>1, <1>2, MatchIsFile, Layout DEF Open
<1>4. /\ links' \in [Inodes -> 0..(LinkMod - 1)]
      /\ links'[i] = links[i] + 1
      /\ \A j \in Inodes : j # i => links'[j] = links[j]
      /\ \A j \in Inodes : links[j] \in Nat
  BY <1>2, <1>3, LinksAssumption DEF AddLink, IInv, TypeOK
<1>5. /\ fd' \in [Fds -> 0..NumInodes]
      /\ HandleKinds'
      /\ leaked \subseteq leaked' /\ leaked' \subseteq Files
      /\ Cardinality(Handles(i)') <= Cardinality(Handles(i)) + 1
      /\ i \notin leaked' => Cardinality(Handles(i)') = Cardinality(Handles(i)) + 1
      /\ \A j \in Files : j # i => Cardinality(Handles(j)') = Cardinality(Handles(j))
  BY <1>2, <1>3, AllocateFdSafe
<1>6. \A j : Entries(j)' = Entries(j)
  BY <1>3 DEF Entries
<1>7. LinksCoverReferences' /\ LinksExact'
  <2>1. ASSUME NEW j \in Files
        PROVE  LET before == Cardinality(Entries(j)) + Cardinality(Handles(j))
                   after  == Cardinality(Entries(j)') + Cardinality(Handles(j)')
               IN  /\ links'[j] \in Nat
                   /\ links'[j] + before >= links[j] + after
                   /\ j \notin leaked' => links'[j] + before = links[j] + after
    <3>1. /\ Cardinality(Entries(j)) \in Nat /\ Cardinality(Handles(j)) \in Nat
          /\ Cardinality(Handles(j)') \in Nat
          /\ j \in Inodes
      BY CountsAreNat, Layout
    <3> QED BY <1>4, <1>5, <1>6, <3>1
  <2> QED BY <1>5, <2>1, CountsFollow
<1>8. FreeListSound'
  BY <1>3, <1>4, FreeListFrame, Layout
<1> QED BY <1>3, <1>4, <1>5, <1>7, <1>8 DEF IInv, TypeOK, EntryKinds, EntriesDistinct

\* The count of file i went down by one, and so did its references.
LEMMA OneLess ==
  ASSUME IInv, NEW i \in Files, leaked' = leaked,
         links[i] >= 1, links'[i] = links[i] - 1,
         \A j \in Inodes : j # i => links'[j] = links[j],
         Cardinality(Entries(i)') + Cardinality(Handles(i)')
           = Cardinality(Entries(i)) + Cardinality(Handles(i)) - 1,
         \A j \in Files : j # i => /\ Cardinality(Entries(j)') = Cardinality(Entries(j))
                                  /\ Cardinality(Handles(j)') = Cardinality(Handles(j))
  PROVE  LinksCoverReferences' /\ LinksExact'
<1>1. ASSUME NEW j \in Files
      PROVE  LET before == Cardinality(Entries(j)) + Cardinality(Handles(j))
                 after  == Cardinality(Entries(j)') + Cardinality(Handles(j)')
             IN  /\ links'[j] \in Nat
                 /\ links'[j] + before >= links[j] + after
                 /\ j \notin leaked' => links'[j] + before = links[j] + after
  <2>1. j \in Inodes /\ links[j] \in Nat
    BY Layout, LinksAssumption DEF IInv, TypeOK
  <2>2. Cardinality(Entries(j)) \in Nat /\ Cardinality(Handles(j)) \in Nat
    BY CountsAreNat
  <2> QED BY <2>1, <2>2
<1> QED BY <1>1, CountsFollow

\* sfs_unlink() drops one link and one entry.
LEMMA UnlinkStep == ASSUME IInv, NEW n \in Names, Unlink(n) PROVE IInv'
<1>1. PICK k \in Slots : /\ First(k, Matches(n))
                         /\ DropLink(dirent[k].inumber)
                         /\ dirent' = [dirent EXCEPT ![k].inumber = 0]
  BY DEF Unlink
<1>2. PICK i \in Files : i = dirent[k].inumber
  BY <1>1, MatchIsFile
<1>3. /\ UNCHANGED <<fd, dirfd, up, leaked>>
      /\ DropLink(i) /\ links[i] >= 1 /\ i \in Inodes /\ i # 0
  BY <1>1, <1>2, MatchIsFile, Layout DEF Unlink
<1>4. /\ links' \in [Inodes -> 0..(LinkMod - 1)]
      /\ size' \in [Inodes -> Nat]
      /\ size'[Root] = size[Root]
      /\ free_inode_head' \in 0..Unformatted
      /\ links'[i] = links[i] - 1
      /\ \A j \in Inodes : j # i => links'[j] = links[j]
      /\ FreeListSound'
  BY <1>2, <1>3, DropLinkSafe
<1> DEFINE e == [dirent[k] EXCEPT !.inumber = 0]
<1>5. /\ dirent' = [dirent EXCEPT ![k] = e]
      /\ dirent' \in [Slots -> [inumber : 0..NumInodes, name : Names \cup {NoName}]]
      /\ dirent'[k].inumber = 0
      /\ \A l \in Slots : l # k => dirent'[l] = dirent[l]
  <2>1. dirent' = [dirent EXCEPT ![k] = e]
    BY <1>1 DEF IInv, TypeOK
  <2>2. /\ dirent[k] \in [inumber : 0..NumInodes, name : Names \cup {NoName}]
        /\ dirent \in [Slots -> [inumber : 0..NumInodes, name : Names \cup {NoName}]]
    BY DEF IInv, TypeOK
  <2>3. e \in [inumber : 0..NumInodes, name : Names \cup {NoName}] /\ e.inumber = 0
    BY <2>2, Layout
  <2> HIDE DEF e
  <2> QED BY <2>1, <2>2, <2>3
<1>6. /\ Cardinality(Entries(i)') = Cardinality(Entries(i)) - 1
      /\ \A j \in Files : j # i => Cardinality(Entries(j)') = Cardinality(Entries(j))
  BY <1>2, <1>3, <1>5, EntriesUpdate, Layout
<1>7. \A j : Handles(j)' = Handles(j)
  BY <1>3 DEF Handles
<1>8. LinksCoverReferences' /\ LinksExact'
  <2>1. Cardinality(Entries(i)') + Cardinality(Handles(i)')
           = Cardinality(Entries(i)) + Cardinality(Handles(i)) - 1
    BY <1>6, <1>7, CountsAreNat
  <2> QED BY <1>2, <1>3, <1>4, <1>6, <1>7, <2>1, OneLess
<1>9. EntryKinds' /\ EntriesDistinct'
  BY <1>4, <1>5, Layout DEF IInv, EntryKinds, EntriesDistinct
<1> QED BY <1>3, <1>4, <1>5, <1>8, <1>9 DEF IInv, TypeOK, HandleKinds

\* sfs_release() drops one link and one descriptor.
LEMMA ReleaseStep == ASSUME IInv, NEW f \in Fds, Release(f) PROVE IInv'
<1>1. PICK i \in Files : i = fd[f]
  BY HandleIsFile DEF Release
<1>2. /\ UNCHANGED <<dirent, dirfd, up, leaked>>
      /\ DropLink(i) /\ links[i] >= 1 /\ i \in Inodes /\ i # 0
      /\ fd' = [fd EXCEPT ![f] = 0]
  BY <1>1, HandleIsFile, Layout DEF Release
<1>3. /\ links' \in [Inodes -> 0..(LinkMod - 1)]
      /\ size' \in [Inodes -> Nat]
      /\ size'[Root] = size[Root]
      /\ free_inode_head' \in 0..Unformatted
      /\ links'[i] = links[i] - 1
      /\ \A j \in Inodes : j # i => links'[j] = links[j]
      /\ FreeListSound'
  BY <1>1, <1>2, DropLinkSafe
<1>4. fd' \in [Fds -> 0..NumInodes] /\ HandleKinds'
  BY <1>1, <1>2, Layout DEF IInv, TypeOK, HandleKinds
<1>5. /\ Cardinality(Handles(i)') = Cardinality(Handles(i)) - 1
      /\ \A j \in Files : j # i => Cardinality(Handles(j)') = Cardinality(Handles(j))
  BY <1>1, <1>2, HandlesUpdate, Layout DEF IInv
<1>6. \A j : Entries(j)' = Entries(j)
  BY <1>2 DEF Entries
<1>7. LinksCoverReferences' /\ LinksExact'
  <2>1. Cardinality(Entries(i)') + Cardinality(Handles(i)')
           = Cardinality(Entries(i)) + Cardinality(Handles(i)) - 1
    BY <1>5, <1>6, CountsAreNat
  <2> QED BY <1>1, <1>2, <1>3, <1>5, <1>6, <2>1, OneLess
<1> QED BY <1>2, <1>3, <1>4, <1>7 DEF IInv, TypeOK, EntryKinds, EntriesDistinct

\* sfs_write() changes the size of an inode in use, never a link of the free list.
LEMMA WriteStep == ASSUME IInv, NEW f \in Fds, Write(f) PROVE IInv'
<1>1. PICK i \in Files : i = fd[f]
  BY HandleIsFile DEF Write
<1>2. links[i] >= 1 /\ i \in Inodes /\ i # Root
  BY <1>1, HandleIsFile, Layout DEF Write
<1>3. PICK s \in 1..MaxSize : size' = [size EXCEPT ![i] = s]
  BY <1>1 DEF Write
<1>4. UNCHANGED <<links, free_inode_head, dirent, fd, dirfd, up, leaked>>
  BY DEF Write
<1>5. size' \in [Inodes -> Nat] /\ \A j \in Inodes : j # i => size'[j] = size[j]
  BY <1>2, <1>3, SizesAssumption DEF IInv, TypeOK
<1>6. FreeListSound'
  BY <1>2, <1>4, <1>5, FreeListFrame, Layout
<1>7. LinksCoverReferences' /\ LinksExact'
  BY <1>4, CountsFrame DEF Entries, Handles
<1> QED BY <1>2, <1>4, <1>5, <1>6, <1>7, Layout DEF IInv, TypeOK, HandleKinds, EntryKinds, EntriesDistinct

\* sfs_opendir() touches no file.
LEMMA OpenDirStep == ASSUME IInv, OpenDir PROVE IInv'
<1>1. PICK f \in Fds : /\ fd[f] = 0
                       /\ fd' = [fd EXCEPT ![f] = Root]
                       /\ dirfd' = dirfd \cup {f}
  BY DEF OpenDir
<1>2. UNCHANGED <<links, size, free_inode_head, dirent, up, leaked>>
  BY DEF OpenDir
<1>3. fd' \in [Fds -> 0..NumInodes] /\ HandleKinds' /\ dirfd' \subseteq Fds
  BY <1>1, Layout DEF IInv, TypeOK, HandleKinds
<1>4. ASSUME NEW j \in Files
      PROVE  Cardinality(Handles(j)') = Cardinality(Handles(j)) /\ Entries(j)' = Entries(j)
  <2>1. TypeOK /\ fd[f] # j /\ Root # j
    BY <1>1, Layout DEF IInv
  <2> QED BY <1>1, <1>2, <2>1, HandlesUpdate DEF Entries
<1>5. LinksCoverReferences' /\ LinksExact'
  BY <1>2, <1>4, CountsFrame
<1>6. FreeListSound'
  BY <1>2, FreeListFrame
<1> QED BY <1>2, <1>3, <1>5, <1>6 DEF IInv, TypeOK, EntryKinds, EntriesDistinct

\* sfs_releasedir() touches no file, whatever it does to the root.
LEMMA ReleaseDirStep == ASSUME IInv, NEW f \in Fds, ReleaseDir(f) PROVE IInv'
<1>1. /\ fd[f] = Root
      /\ links' = [links EXCEPT ![Root] = Decrement(links[Root])]
      /\ fd' = [fd EXCEPT ![f] = 0]
      /\ dirfd' = dirfd \ {f}
      /\ UNCHANGED <<size, free_inode_head, dirent, up, leaked>>
  BY DEF ReleaseDir, IInv, HandleKinds
<1>2. Decrement(links[Root]) \in 0..(LinkMod - 1)
  <2>1. links[Root] \in 0..(LinkMod - 1)
    BY Layout DEF IInv, TypeOK
  <2> QED BY <2>1, LinksAssumption DEF Decrement
<1>3. /\ links' \in [Inodes -> 0..(LinkMod - 1)]
      /\ \A j \in Files : links'[j] = links[j]
  BY <1>1, <1>2, Layout DEF IInv, TypeOK
<1>4. fd' \in [Fds -> 0..NumInodes] /\ HandleKinds' /\ dirfd' \subseteq Fds
  BY <1>1, Layout DEF IInv, TypeOK, HandleKinds
<1>5. ASSUME NEW j \in Files
      PROVE  Cardinality(Handles(j)') = Cardinality(Handles(j)) /\ Entries(j)' = Entries(j)
  <2>1. TypeOK /\ fd[f] # j /\ 0 # j
    BY <1>1, Layout DEF IInv
  <2> QED BY <1>1, <2>1, HandlesUpdate DEF Entries
<1>6. LinksCoverReferences' /\ LinksExact'
  BY <1>1, <1>3, <1>5, CountsFrame
<1>7. FreeListSound'
  BY <1>1, <1>3, FreeListFrame
<1> QED BY <1>1, <1>3, <1>4, <1>6, <1>7 DEF IInv, TypeOK, EntryKinds, EntriesDistinct

\* A SIGTERM takes references away, and leaves the counts.
LEMMA RemountStep == ASSUME IInv, Remount PROVE IInv'
<1>1. /\ fd' = [f \in Fds |-> 0] /\ dirfd' = {}
      /\ leaked' = leaked \cup ({fd[f] : f \in Fds} \cap Files)
      /\ UNCHANGED <<links, size, free_inode_head, dirent, up>>
  BY DEF Remount
<1>2. /\ fd' \in [Fds -> 0..NumInodes] /\ HandleKinds' /\ dirfd' \subseteq Fds
      /\ leaked' \subseteq Files
  BY <1>1, Layout DEF IInv, TypeOK, HandleKinds
<1>3. LinksCoverReferences' /\ LinksExact'
  <2>1. ASSUME NEW j \in Files
        PROVE  LET before == Cardinality(Entries(j)) + Cardinality(Handles(j))
                   after  == Cardinality(Entries(j)') + Cardinality(Handles(j)')
               IN  /\ links'[j] \in Nat
                   /\ links'[j] + before >= links[j] + after
                   /\ j \notin leaked' => links'[j] + before = links[j] + after
    <3>1. Handles(j)' = {} /\ Entries(j)' = Entries(j)
      BY <1>1, Layout DEF Handles, Entries
    <3>2. j \notin leaked' => Handles(j) = {}
      BY <1>1 DEF Handles
    <3>3. /\ Cardinality(Handles(j)') = 0
          /\ j \notin leaked' => Cardinality(Handles(j)) = 0
      BY <3>1, <3>2, FS_EmptySet
    <3>4. links[j] \in Nat /\ links'[j] = links[j]
      BY <1>1, Layout, LinksAssumption DEF IInv, TypeOK
    <3>5. Cardinality(Entries(j)) \in Nat /\ Cardinality(Handles(j)) \in Nat
      BY CountsAreNat
    <3> QED BY <3>1, <3>3, <3>4, <3>5
  <2> QED BY <1>1, <2>1, CountsFollow
<1>4. FreeListSound'
  BY <1>1, FreeListFrame
<1> QED BY <1>1, <1>2, <1>3, <1>4 DEF IInv, TypeOK, EntryKinds, EntriesDistinct

\* The failing sfs_create() ends the free list.
LEMMA CreateBehindTableStep ==
  ASSUME IInv, NEW n \in Names, CreateBehindTable(n) PROVE IInv'
<1>1. /\ free_inode_head' = 0 /\ up' = FALSE
      /\ UNCHANGED <<links, size, dirent, fd, dirfd, leaked>>
  BY DEF CreateBehindTable
<1>2. FreeListSound'
  BY <1>1, Layout DEF IInv, FreeListSound, FreeOrEnd, InUse
<1>3. LinksCoverReferences' /\ LinksExact' /\ HandleKinds' /\ EntryKinds' /\ EntriesDistinct'
  BY <1>1 DEF IInv, LinksCoverReferences, LinksExact, References, Entries, Handles, HandleKinds, EntryKinds, EntriesDistinct
<1>4. TypeOK'
  BY <1>1, Layout, Zenon DEF IInv, TypeOK
<1> QED BY <1>2, <1>3, <1>4 DEF IInv

\* Popping the head of the free list.
LEMMA PopFreeList ==
  ASSUME IInv, NEW h \in Files, h = free_inode_head, free_inode_head' = size[h],
         links'[h] # 0,
         \A j \in Files : j # h => links'[j] = links[j] /\ size'[j] = size[j]
  PROVE  FreeListSound' /\ free_inode_head' \in 0..Unformatted
<1>1. links[h] = 0
  BY Layout DEF IInv, FreeListSound, FreeOrEnd, InUse
<1>2. FreeOrEnd(size[h]) /\ size[h] # h
  BY <1>1, Layout DEF IInv, FreeListSound, InUse, FreeOrEnd
<1>3. free_inode_head' \in 0..Unformatted
  BY <1>2, SizesAssumption DEF FreeOrEnd, Unformatted, Files
<1>4. ASSUME NEW j \in Files, links'[j] = 0
      PROVE  /\ j # h /\ links[j] = 0 /\ size'[j] = size[j]
             /\ FreeOrEnd(size[j]) /\ size[j] # h
             /\ size[j] \in Files => size[j] # size[h]
  <2>1. j # h /\ links[j] = 0 /\ size'[j] = size[j]
    BY <1>4
  <2> QED BY <1>1, <2>1, Layout DEF IInv, FreeListSound, InUse, FreeOrEnd
<1>5. \A x : FreeOrEnd(x) /\ x # h => x \in {0, Unformatted} \/ (x \in Files /\ links'[x] = 0)
  BY DEF FreeOrEnd, InUse
<1>6. \A j, k \in Files :
         links'[j] = 0 /\ links'[k] = 0 /\ size'[j] = size'[k] /\ size'[j] \in Files => j = k
  BY <1>4 DEF IInv, FreeListSound, InUse
<1>7. FreeListSound'
  <2> DEFINE FreeNow(x) == x \in {0, Unformatted} \/ (x \in Files /\ links'[x] = 0)
  <2>1. FreeNow(free_inode_head')
    BY <1>2, <1>5
  <2>2. ASSUME NEW j \in Files, links'[j] = 0
        PROVE  FreeNow(size'[j]) /\ (size'[j] \in Files => size'[j] # free_inode_head')
    BY <1>4, <1>5, <2>2
  <2> QED BY <1>6, <2>1, <2>2 DEF FreeListSound, FreeOrEnd, InUse
<1> QED BY <1>3, <1>7

\* An inode on the free list has no references.
LEMMA FreeIsUnreferenced ==
  ASSUME IInv, NEW h \in Files, links[h] = 0
  PROVE  /\ Entries(h) = {} /\ Handles(h) = {}
         /\ Cardinality(Entries(h)) = 0 /\ Cardinality(Handles(h)) = 0
<1>1. Entries(h) = {} /\ Handles(h) = {}
  BY ReferencedInUse
<1> QED BY <1>1, FS_EmptySet

\* The new entry of the new inode, in a block of the directory that held none.
LEMMA LinkAtSafe ==
  ASSUME IInv, NEW n \in Names, NEW h \in Files, NEW k \in Slots,
         links[h] = 0, Matches(n) = {}, dirent[k].inumber = 0,
         LinkAt(k, n, h), dirfd' = dirfd
  PROVE  /\ links' \in [Inodes -> 0..(LinkMod - 1)]
         /\ links'[h] = 2 /\ \A j \in Files : j # h => links'[j] = links[j]
         /\ dirent' \in [Slots -> [inumber : 0..NumInodes, name : Names \cup {NoName}]]
         /\ dirent'[k].inumber = h /\ \A l \in Slots : l # k => dirent'[l] = dirent[l]
         /\ fd' \in [Fds -> 0..NumInodes] /\ leaked' \subseteq Files
         /\ HandleKinds' /\ EntriesDistinct' /\ LinksCoverReferences' /\ LinksExact'
<1>1. /\ links' = [links EXCEPT ![h] = 2]
      /\ dirent' = [dirent EXCEPT ![k] = [inumber |-> h, name |-> n]]
      /\ AllocateFd(h)
  BY DEF LinkAt
<1>2. /\ links' \in [Inodes -> 0..(LinkMod - 1)]
      /\ links'[h] = 2 /\ \A j \in Files : j # h => links'[j] = links[j]
  BY <1>1, Layout, LinksAssumption DEF IInv, TypeOK
<1>3. /\ dirent' \in [Slots -> [inumber : 0..NumInodes, name : Names \cup {NoName}]]
      /\ dirent'[k].inumber = h /\ dirent'[k].name = n
      /\ \A l \in Slots : l # k => dirent'[l] = dirent[l]
  <2>1. [inumber |-> h, name |-> n] \in [inumber : 0..NumInodes, name : Names \cup {NoName}]
    BY Layout
  <2> QED BY <1>1, <2>1 DEF IInv, TypeOK
<1>4. /\ fd' \in [Fds -> 0..NumInodes] /\ HandleKinds'
      /\ leaked \subseteq leaked' /\ leaked' \subseteq Files
      /\ Cardinality(Handles(h)') <= Cardinality(Handles(h)) + 1
      /\ h \notin leaked' => Cardinality(Handles(h)') = Cardinality(Handles(h)) + 1
      /\ \A j \in Files : j # h => Cardinality(Handles(j)') = Cardinality(Handles(j))
  BY <1>1, AllocateFdSafe
<1>5. /\ Cardinality(Entries(h)') = Cardinality(Entries(h)) + 1
      /\ \A j \in Files : j # h => Cardinality(Entries(j)') = Cardinality(Entries(j))
  BY <1>3, EntriesUpdate, Layout
<1>6. LinksCoverReferences' /\ LinksExact'
  <2>1. ASSUME NEW j \in Files
        PROVE  LET before == Cardinality(Entries(j)) + Cardinality(Handles(j))
                   after  == Cardinality(Entries(j)') + Cardinality(Handles(j)')
               IN  /\ links'[j] \in Nat
                   /\ links'[j] + before >= links[j] + after
                   /\ j \notin leaked' => links'[j] + before = links[j] + after
    <3>1. /\ Cardinality(Entries(j)) \in Nat /\ Cardinality(Handles(j)) \in Nat
          /\ Cardinality(Entries(j)') \in Nat /\ Cardinality(Handles(j)') \in Nat
      BY CountsAreNat
    <3>2. links[j] \in Nat
      BY Layout, LinksAssumption DEF IInv, TypeOK
    <3> QED BY <1>2, <1>4, <1>5, <3>1, <3>2
  <2> QED BY <1>4, <2>1, CountsFollow
<1>7. \A l \in Slots : dirent[l].inumber # 0 => dirent[l].inumber # h /\ dirent[l].name # n
  <2>1. \A l \in Slots : dirent[l].inumber # h
    BY FreeIsUnreferenced DEF Entries
  <2>2. \A l \in Slots : dirent[l].inumber # 0 => dirent[l].name # n
    BY DEF Matches, IInv, EntryKinds
  <2> QED BY <2>1, <2>2
<1>8. EntriesDistinct'
  BY <1>3, <1>7 DEF IInv, EntriesDistinct
<1> QED BY <1>2, <1>3, <1>4, <1>6, <1>8

\* sfs_create() takes a free inode and counts both of its references.
LEMMA CreateStep == ASSUME IInv, NEW n \in Names, Create(n) PROVE IInv'
<1>1. PICK h \in Files : h = free_inode_head
  BY DEF Create
<1>2. /\ Matches(n) = {} /\ free_inode_head' = size[h] /\ UNCHANGED <<dirfd, up>>
      /\ links[h] = 0 /\ h \in Inodes /\ h # Root /\ h # 0
  BY <1>1, Layout DEF Create, IInv, FreeListSound, FreeOrEnd, InUse
<1>3. ASSUME NEW k \in Slots, dirent[k].inumber = 0, LinkAt(k, n, h),
             size' \in [Inodes -> Nat], size'[Root] <= MaxDirBlocks, k < size'[Root],
             size'[Root] >= size[Root],
             \A j \in Files : j # h => size'[j] = size[j]
      PROVE  IInv'
  <2>1. /\ links' \in [Inodes -> 0..(LinkMod - 1)]
        /\ links'[h] = 2 /\ \A j \in Files : j # h => links'[j] = links[j]
        /\ dirent' \in [Slots -> [inumber : 0..NumInodes, name : Names \cup {NoName}]]
        /\ dirent'[k].inumber = h /\ \A l \in Slots : l # k => dirent'[l] = dirent[l]
        /\ fd' \in [Fds -> 0..NumInodes] /\ leaked' \subseteq Files
        /\ HandleKinds' /\ EntriesDistinct' /\ LinksCoverReferences' /\ LinksExact'
    BY <1>2, <1>3, LinkAtSafe
  <2>2. FreeListSound' /\ free_inode_head' \in 0..Unformatted
    BY <1>1, <1>2, <1>3, <2>1, PopFreeList
  <2>3. EntryKinds'
    <3> SUFFICES ASSUME NEW l \in Slots
                 PROVE  /\ dirent'[l].inumber # Root
                        /\ dirent'[l].inumber # 0 => l < size'[Root]
      BY DEF EntryKinds
    <3>1. CASE l = k
      BY <1>2, <1>3, <2>1, <3>1
    <3>2. CASE l # k
      <4>1. dirent[l].inumber # Root /\ (dirent[l].inumber # 0 => l < size[Root])
        BY DEF IInv, EntryKinds
      <4>2. l \in Int /\ size[Root] \in Int /\ size'[Root] \in Int
        BY <1>3, Layout DEF IInv, TypeOK, Slots
      <4> QED BY <1>3, <2>1, <3>2, <4>1, <4>2
    <3> QED BY <3>1, <3>2
  <2> QED BY <1>2, <1>3, <2>1, <2>2, <2>3 DEF IInv, TypeOK
<1>4. size \in [Inodes -> Nat] /\ size[Root] <= MaxDirBlocks /\ Root \in Inodes /\ Root \notin Files
  BY Layout DEF IInv, TypeOK
<1>5. CASE /\ \E k \in Slots : First(k, Holes) /\ LinkAt(k, n, h)
           /\ size' = [size EXCEPT ![h] = 0]
  <2>1. PICK k \in Slots : First(k, Holes) /\ LinkAt(k, n, h)
    BY <1>5
  <2>2. dirent[k].inumber = 0 /\ k < size[Root]
    BY <2>1 DEF First, Holes
  <2>3. /\ size' \in [Inodes -> Nat] /\ size'[Root] = size[Root]
        /\ \A j \in Files : j # h => size'[j] = size[j]
    BY <1>2, <1>4, <1>5, Layout
  <2>4. size'[Root] >= size[Root]
    BY <1>4, <2>3
  <2> QED BY <1>3, <1>4, <2>1, <2>2, <2>3, <2>4
<1>6. CASE /\ size[Root] < MaxDirBlocks
           /\ LinkAt(size[Root], n, h)
           /\ size' = [size EXCEPT ![h] = 0, ![Root] = @ + 1]
  <2>1. PICK k \in Slots : k = size[Root]
    BY <1>4, <1>6, SizesAssumption DEF Slots
  <2>2. /\ size' \in [Inodes -> Nat] /\ size'[Root] = size[Root] + 1
        /\ \A j \in Files : j # h => size'[j] = size[j]
    BY <1>2, <1>4, <1>6, Layout
  <2>3. /\ k < size'[Root] /\ size'[Root] <= MaxDirBlocks /\ size'[Root] >= size[Root]
        /\ ~(k < size[Root])
    BY <1>4, <1>6, <2>1, <2>2, SizesAssumption
  <2>4. dirent[k].inumber = 0
    BY <2>3 DEF IInv, EntryKinds
  <2> QED BY <1>3, <1>6, <2>1, <2>2, <2>3, <2>4
<1>7. CASE /\ links' = [links EXCEPT ![h] = 1]
           /\ size' = [size EXCEPT ![h] = 0]
           /\ leaked' = leaked \cup {h}
           /\ UNCHANGED <<dirent, fd>>
  <2>1. /\ links' \in [Inodes -> 0..(LinkMod - 1)]
        /\ links'[h] = 1 /\ \A j \in Files : j # h => links'[j] = links[j]
    BY <1>2, <1>7, Layout, LinksAssumption DEF IInv, TypeOK
  <2>2. /\ size' \in [Inodes -> Nat] /\ size'[Root] = size[Root]
        /\ \A j \in Files : j # h => size'[j] = size[j]
    BY <1>2, <1>4, <1>7, Layout
  <2>3. FreeListSound' /\ free_inode_head' \in 0..Unformatted
    BY <1>1, <1>2, <2>1, <2>2, PopFreeList
  <2>4. LinksCoverReferences' /\ LinksExact'
    <3>1. \A j : Entries(j)' = Entries(j) /\ Handles(j)' = Handles(j)
      BY <1>7 DEF Entries, Handles
    <3>2. ASSUME NEW j \in Files
          PROVE  LET before == Cardinality(Entries(j)) + Cardinality(Handles(j))
                     after  == Cardinality(Entries(j)') + Cardinality(Handles(j)')
                 IN  /\ links'[j] \in Nat
                     /\ links'[j] + before >= links[j] + after
                     /\ j \notin leaked' => links'[j] + before = links[j] + after
      <4>1. Cardinality(Entries(j)) \in Nat /\ Cardinality(Handles(j)) \in Nat
        BY CountsAreNat
      <4>2. links[j] \in Nat
        BY Layout, LinksAssumption DEF IInv, TypeOK
      <4> QED BY <1>2, <1>7, <2>1, <3>1, <4>1, <4>2
    <3> QED BY <1>7, <3>2, CountsFollow
  <2> QED BY <1>2, <1>7, <2>1, <2>2, <2>3, <2>4
          DEF IInv, TypeOK, HandleKinds, EntryKinds, EntriesDistinct
<1> QED BY <1>1, <1>5, <1>6, <1>7 DEF Create

\* IInv is inductive.
LEMMA Inductive == Spec => []IInv
<1>1. Init => IInv
  <2> SUFFICES ASSUME Init
               PROVE  IInv
    OBVIOUS
  <2>1. TypeOK
    <3>1. links \in [Inodes -> 0..(LinkMod - 1)]
      BY LinksAssumption DEF Init
    <3>2. size \in [Inodes -> Nat] /\ size[Root] <= MaxDirBlocks
      BY Layout, SizesAssumption DEF Init, Inodes
    <3>3. free_inode_head \in 0..Unformatted
      BY SizesAssumption DEF Init, Unformatted
    <3>4. dirent \in [Slots -> [inumber : 0..NumInodes, name : Names \cup {NoName}]]
      BY Layout DEF Init
    <3>5. fd \in [Fds -> 0..NumInodes] /\ dirfd \subseteq Fds
      BY Layout DEF Init
    <3>6. up \in BOOLEAN /\ leaked \subseteq Files
      BY Zenon DEF Init
    <3> QED BY <3>1, <3>2, <3>3, <3>4, <3>5, <3>6 DEF TypeOK
  <2>2. HandleKinds /\ EntryKinds /\ EntriesDistinct
    BY Layout DEF Init, HandleKinds, EntryKinds, EntriesDistinct
  <2>3. LinksCoverReferences /\ LinksExact
    <3> SUFFICES ASSUME NEW j \in Files
                 PROVE  links[j] = Cardinality(Entries(j)) + Cardinality(Handles(j))
      BY CountsAreNat DEF LinksCoverReferences, LinksExact, References
    <3>1. Entries(j) = {} /\ Handles(j) = {} /\ links[j] = 0
      BY Layout DEF Init, Entries, Handles
    <3>2. Cardinality(Entries(j)) = 0 /\ Cardinality(Handles(j)) = 0
      BY <3>1, FS_EmptySet
    <3> QED BY <3>1, <3>2
  <2>4. FreeListSound
    BY SizesAssumption DEF Init, FreeListSound, FreeOrEnd, InUse, Files, Inodes, Root, Unformatted
  <2> QED BY <2>1, <2>2, <2>3, <2>4 DEF IInv
<1>2. IInv /\ [Next]_vars => IInv'
  <2> SUFFICES ASSUME IInv, [Next]_vars
               PROVE  IInv'
    OBVIOUS
  <2>1. CASE Next
    BY <2>1, CreateStep, CreateBehindTableStep, OpenStep, UnlinkStep, ReleaseStep,
       WriteStep, OpenDirStep, ReleaseDirStep, RemountStep DEF Next
  <2>2. CASE UNCHANGED vars
    BY <2>2 DEF vars, IInv, TypeOK, HandleKinds, EntryKinds, LinksCoverReferences,
                LinksExact, References, Entries, Handles, FreeListSound, FreeOrEnd, InUse, EntriesDistinct
  <2> QED BY <2>1, <2>2
<1> QED BY <1>1, <1>2, PTL DEF Spec

\* Type correctness; the directory never outgrows its blocks.
THEOREM TypeCorrect == Spec => []TypeOK
BY Inductive, PTL DEF IInv

\* Whatever fails, an inode is never deallocated under a name or an open handle:
\* sfs_create, sfs_open, sfs_unlink and sfs_release keep the link count at or above
\* the number of references.
THEOREM NoFileIsFreedInUse == Spec => []LinksCoverReferences
BY Inductive, PTL DEF IInv

\* The link count of a file is exact unless sfs_create or sfs_open failed after
\* counting a link of it, or it was open when sfs_destroy ran.
THEOREM LinksAreExact == Spec => []LinksExact
BY Inductive, PTL DEF IInv

\* No name and no inode appears twice in the directory.
THEOREM DirectoryCorrect == Spec => []EntriesDistinct
BY Inductive, PTL DEF IInv

-----------------------------------------------------------------------------
(* The free inodes as a list. *)

FreeFiles == {i \in Files : ~InUse(i)}
ListEnds == {0, Unformatted}

\* The list that starts at the head and follows the sizes has every free inode
\* once, and ends.  FreeListSound, which looks at neighbours only, would allow
\* a cycle of free inodes beside the list.
FreeListed == Listed(FreeFiles, size, free_inode_head, ListEnds)

\* What an action must leave alone to keep the list.
LEMMA FreeListedFrame ==
  ASSUME FreeListed, free_inode_head' = free_inode_head,
         \A j \in Files : links'[j] = 0 <=> links[j] = 0,
         \A j \in Files : links[j] = 0 => size'[j] = size[j]
  PROVE  FreeListed'
<1>1. FreeFiles' = FreeFiles
  BY DEF FreeFiles, InUse
<1>2. \A j \in FreeFiles : size'[j] = size[j]
  BY DEF FreeFiles, InUse
<1>3. Listed(FreeFiles, size', free_inode_head, ListEnds)
  BY <1>2, ListFrame DEF FreeListed
<1> QED
  BY <1>1, <1>3 DEF FreeListed, ListEnds

\* Dropping the last link pushes the inode on the list.
LEMMA DropLinkListed ==
  ASSUME IInv, FreeListed, NEW i \in Files, links[i] >= 1, DropLink(i)
  PROVE  FreeListed'
<1>1. /\ links'[i] = links[i] - 1 /\ i \in Inodes
      /\ \A j \in Inodes : j # i => links'[j] = links[j]
  BY DropLinkSafe, Layout
<1>2. links[i] \in Nat /\ Decrement(links[i]) = links[i] - 1
  BY Layout, LinksAssumption DEF IInv, TypeOK, Decrement
<1>3. CASE links[i] - 1 # 0 /\ UNCHANGED <<size, free_inode_head>>
  BY <1>1, <1>2, <1>3, FreeListedFrame, Layout
<1>4. CASE links[i] - 1 = 0 /\ DeallocateInode(i)
  <2>0. links'[i] = 0 /\ links[i] # 0 /\ \A j \in Files : j # i => links'[j] = links[j]
    BY <1>1, <1>2, <1>4, Layout
  <2>1. i \notin FreeFiles /\ FreeFiles' = FreeFiles \cup {i}
    BY <2>0 DEF FreeFiles, InUse
  <2>2. /\ free_inode_head' = i /\ size'[i] = free_inode_head
        /\ \A j \in FreeFiles : size'[j] = size[j]
    BY <1>1, <1>4, <2>1, Layout DEF DeallocateInode, IInv, TypeOK, FreeFiles
  <2>3. i \notin ListEnds
    BY Layout DEF ListEnds
  <2>4. Listed(FreeFiles \cup {i}, size', i, ListEnds)
    BY <2>1, <2>2, <2>3, ListPush DEF FreeListed
  <2> QED
    BY <2>1, <2>2, <2>4 DEF FreeListed, ListEnds
<1> QED
  BY <1>2, <1>3, <1>4 DEF DropLink

\* Creating a file pops the list.
LEMMA CreateListed ==
  ASSUME IInv, FreeListed, NEW n \in Names, Create(n)
  PROVE  FreeListed'
<1> DEFINE h == free_inode_head
<1>1. h \in Files /\ free_inode_head' = size[h] /\ h \in Inodes /\ h # Root
  BY Layout DEF Create
<1>2. h \notin ListEnds
  BY <1>1, Layout DEF ListEnds
<1>3. links' = [links EXCEPT ![h] = 2] \/ links' = [links EXCEPT ![h] = 1]
  BY DEF Create, LinkAt
<1>4. \/ size' = [size EXCEPT ![h] = 0]
      \/ size' = [size EXCEPT ![h] = 0, ![Root] = size[Root] + 1]
  BY <1>1 DEF Create, IInv, TypeOK
<1>5. FreeFiles' = FreeFiles \ {h}
  BY <1>1, <1>3, Layout DEF FreeFiles, InUse, IInv, TypeOK
<1>6. \A j \in FreeFiles \ {h} : size'[j] = size[j]
  BY <1>1, <1>4, Layout DEF FreeFiles, IInv, TypeOK
<1>7. Listed(FreeFiles \ {h}, size', size[h], ListEnds)
  BY <1>2, <1>6, ListPop DEF FreeListed
<1> QED
  BY <1>1, <1>5, <1>7 DEF FreeListed, ListEnds

\* The list is kept by every step, and an assertion fails only at its end.
LEMMA ListInductive == Spec => [](FreeListed /\ StopsOnlyWhenFull)
<1>1. Init => FreeListed /\ StopsOnlyWhenFull
  <2> SUFFICES ASSUME Init
               PROVE  FreeListed
    BY DEF Init, StopsOnlyWhenFull
  <2> DEFINE n == NumInodes - 1
             s == [k \in 1..(n + 1) |-> k + 1]
  <2>1. n \in Nat /\ FreeFiles = 2..NumInodes /\ free_inode_head = 2
    BY SizesAssumption, Layout DEF Init, FreeFiles, InUse, Files
  <2>2. \A k \in 2..NumInodes : size[k] = k + 1
    BY SizesAssumption DEF Init, Inodes, Root
  <2>3. ListEnds = {0, NumInodes + 1}
    BY DEF ListEnds, Unformatted
  <2>4. Listing(n, s, 2..NumInodes, size, 2, {0, NumInodes + 1})
    <3>1. s \in [1..(n + 1) -> 2..NumInodes \cup {0, NumInodes + 1}]
      BY SizesAssumption
    <3>2. s[1] = 2 /\ s[n + 1] = NumInodes + 1
      BY SizesAssumption
    <3>3. \A k \in 1..n : s[k] \in 2..NumInodes /\ size[s[k]] = s[k + 1]
      BY SizesAssumption, <2>2
    <3>4. ASSUME NEW x \in 2..NumInodes
          PROVE  \E k \in 1..n : s[k] = x
      <4>1. x - 1 \in 1..n /\ s[x - 1] = x
        BY SizesAssumption
      <4> QED
        BY <4>1
    <3>5. \A k, l \in 1..n : s[k] = s[l] => k = l
      BY SizesAssumption
    <3>6. 2..NumInodes \cap {0, NumInodes + 1} = {}
      BY SizesAssumption
    <3> HIDE DEF n, s
    <3> QED
      BY <2>1, <3>1, <3>2, <3>3, <3>4, <3>5, <3>6 DEF Listing
  <2> QED
    BY <2>1, <2>3, <2>4 DEF FreeListed, Listed
<1>2. IInv /\ FreeListed /\ StopsOnlyWhenFull /\ [Next]_vars => (FreeListed /\ StopsOnlyWhenFull)'
  <2> SUFFICES ASSUME IInv, FreeListed, StopsOnlyWhenFull, [Next]_vars
               PROVE  FreeListed' /\ StopsOnlyWhenFull'
    OBVIOUS
  <2>0. \A i \in Files : i \in Inodes /\ i # Root /\ links[i] \in Nat
    BY Layout, LinksAssumption DEF IInv, TypeOK
  <2>1. ASSUME NEW n \in Names, Create(n)
        PROVE  FreeListed' /\ StopsOnlyWhenFull'
    BY <2>1, CreateListed DEF Create, StopsOnlyWhenFull
  <2>2. ASSUME NEW n \in Names, CreateBehindTable(n)
        PROVE  FreeListed' /\ StopsOnlyWhenFull'
    <3>1. free_inode_head \in ListEnds /\ free_inode_head' = 0 /\ UNCHANGED <<links, size>>
      BY <2>2 DEF CreateBehindTable, ListEnds
    <3>2. FreeFiles = {}
      BY <3>1, ListEmpty DEF FreeListed
    <3>3. FreeFiles' = {} /\ free_inode_head' \in ListEnds
      BY <3>1, <3>2 DEF FreeFiles, InUse, ListEnds
    <3>4. Listed({}, size', free_inode_head', ListEnds)
      BY <3>3, ListNil
    <3> QED
      BY <3>3, <3>4 DEF FreeListed, ListEnds, StopsOnlyWhenFull, FreeFiles
  <2>3. ASSUME NEW n \in Names, Open(n)
        PROVE  FreeListed' /\ StopsOnlyWhenFull'
    <3>1. PICK k \in Slots : First(k, Matches(n)) /\ AddLink(dirent[k].inumber)
      BY <2>3 DEF Open
    <3>2. PICK i \in Files : i = dirent[k].inumber /\ links[i] >= 1
      BY <3>1, MatchIsFile
    <3>3. links' = [links EXCEPT ![i] = links[i] + 1]
      BY <3>1, <3>2 DEF AddLink
    <3>4. \A j \in Files : links'[j] = 0 <=> links[j] = 0
      BY <2>0, <3>2, <3>3 DEF IInv, TypeOK
    <3> QED
      BY <2>3, <3>4, FreeListedFrame DEF Open, StopsOnlyWhenFull
  <2>4. ASSUME NEW n \in Names, Unlink(n)
        PROVE  FreeListed' /\ StopsOnlyWhenFull'
    <3>1. PICK k \in Slots : First(k, Matches(n)) /\ DropLink(dirent[k].inumber)
      BY <2>4 DEF Unlink
    <3>2. PICK i \in Files : i = dirent[k].inumber /\ links[i] >= 1
      BY <3>1, MatchIsFile
    <3> QED
      BY <2>4, <3>1, <3>2, DropLinkListed DEF Unlink, StopsOnlyWhenFull
  <2>5. ASSUME NEW f \in Fds, Release(f)
        PROVE  FreeListed' /\ StopsOnlyWhenFull'
    BY <2>5, HandleIsFile, DropLinkListed DEF Release, StopsOnlyWhenFull
  <2>6. ASSUME NEW f \in Fds, Write(f)
        PROVE  FreeListed' /\ StopsOnlyWhenFull'
    <3>1. fd[f] \in Files /\ links[fd[f]] >= 1
      BY <2>6, HandleIsFile DEF Write
    <3>2. \A j \in Files : links[j] = 0 => size'[j] = size[j]
      BY <2>0, <2>6, <3>1 DEF Write, IInv, TypeOK
    <3> QED
      BY <2>6, <3>2, FreeListedFrame DEF Write, StopsOnlyWhenFull
  <2>7. CASE OpenDir
    BY <2>7, FreeListedFrame DEF OpenDir, StopsOnlyWhenFull
  <2>8. ASSUME NEW f \in Fds, ReleaseDir(f)
        PROVE  FreeListed' /\ StopsOnlyWhenFull'
    <3>1. fd[f] = Root
      BY <2>8 DEF ReleaseDir, IInv, HandleKinds
    <3>2. \A j \in Files : links'[j] = links[j]
      BY <2>0, <2>8, <3>1 DEF ReleaseDir, IInv, TypeOK
    <3> QED
      BY <2>8, <3>2, FreeListedFrame DEF ReleaseDir, StopsOnlyWhenFull
  <2>9. CASE Remount
    BY <2>9, FreeListedFrame DEF Remount, StopsOnlyWhenFull
  <2>10. CASE UNCHANGED vars
    BY <2>10, FreeListedFrame DEF vars, StopsOnlyWhenFull, InUse
  <2> QED
    BY <2>1, <2>2, <2>3, <2>4, <2>5, <2>6, <2>7, <2>8, <2>9, <2>10 DEF Next
<1> QED
  BY <1>1, <1>2, Inductive, PTL DEF Spec

\* c is the walk along the list that FreeListExact defines by recursion.
IsWalk(c) == c = [j \in 0..NumInodes |->
                    IF j = 0 THEN free_inode_head
                    ELSE IF c[j - 1] \in Files THEN size[c[j - 1]] ELSE 0]

LEMMA ListRange ==
  /\ NumInodes \in Nat /\ 0 \in ListEnds /\ ListEnds \cap Files = {}
  /\ FreeFiles \subseteq 1..NumInodes /\ FreeFiles \subseteq Files
BY SizesAssumption DEF ListEnds, FreeFiles, Files, Unformatted

\* There is such a walk ...
LEMMA WalkExists ==
  ASSUME FreeListed
  PROVE  \E c : IsWalk(c)
<1>0. PICK n \in Nat : \E s : Listing(n, s, FreeFiles, size, free_inode_head, ListEnds)
  BY DEF FreeListed, Listed
<1>1. PICK s : Listing(n, s, FreeFiles, size, free_inode_head, ListEnds)
  BY <1>0
<1> DEFINE g == [j \in 0..NumInodes |-> IF j <= n THEN s[j + 1] ELSE 0]
<1>2. ASSUME NEW j \in 0..NumInodes
      PROVE  g[j] = IF j = 0 THEN free_inode_head
                    ELSE IF g[j - 1] \in Files THEN size[g[j - 1]] ELSE 0
  <2>1. CASE j = 0
    BY <1>1, <2>1, ListRange DEF Listing
  <2>2. CASE j # 0 /\ j <= n
    <3>1. j - 1 \in 0..NumInodes /\ j - 1 <= n /\ (j - 1) + 1 = j /\ j \in 1..n
      BY <2>2, ListRange
    <3>2. g[j - 1] = s[j] /\ g[j] = s[j + 1]
      BY <2>2, <3>1
    <3>3. s[j] \in FreeFiles /\ size[s[j]] = s[j + 1]
      BY <1>1, <3>1 DEF Listing
    <3> HIDE DEF g
    <3> QED
      BY <2>2, <3>2, <3>3, ListRange
  <2>3. CASE j # 0 /\ j = n + 1
    <3>1. g[j - 1] = s[n + 1] /\ g[j] = 0
      BY <2>3, ListRange
    <3>2. s[n + 1] \in ListEnds
      BY <1>1 DEF Listing
    <3> HIDE DEF g
    <3> QED
      BY <2>3, <3>1, <3>2, ListRange
  <2>4. CASE j > n + 1
    <3>1. g[j - 1] = 0 /\ g[j] = 0
      BY <2>4, ListRange
    <3> HIDE DEF g
    <3> QED
      BY <2>4, <3>1, ListRange
  <2> QED
    BY <2>1, <2>2, <2>3, <2>4, ListRange
<1>3. IsWalk(g)
  BY <1>2, Zenon DEF IsWalk
<1> QED
  BY <1>3

\* ... and it meets the free inodes, and no others.
LEMMA WalkIsList ==
  ASSUME FreeListed, NEW c, IsWalk(c)
  PROVE  /\ {c[j] : j \in 0..NumInodes} \cap Files = FreeFiles
         /\ c[NumInodes] \notin Files
<1>0. PICK n \in Nat : \E s : Listing(n, s, FreeFiles, size, free_inode_head, ListEnds)
  BY DEF FreeListed, Listed
<1>1. PICK s : Listing(n, s, FreeFiles, size, free_inode_head, ListEnds)
  BY <1>0
<1>2. n <= NumInodes
  BY <1>1, ListLength, ListRange
<1>3. Follows(c, NumInodes, FreeFiles, size, free_inode_head, ListEnds)
  <2>1. /\ c[0] = free_inode_head
        /\ \A j \in 1..NumInodes : c[j] = IF c[j - 1] \in Files THEN size[c[j - 1]] ELSE 0
    BY ListRange DEF IsWalk
  <2>2. \A j \in 1..NumInodes : c[j - 1] \in FreeFiles => c[j] = size[c[j - 1]]
    BY <2>1, ListRange
  <2>3. \A j \in 1..NumInodes : c[j - 1] \in ListEnds => c[j] \in ListEnds
    BY <2>1, ListRange
  <2> QED
    BY <2>1, <2>2, <2>3, ListRange DEF Follows
<1>4. \A j \in 0..NumInodes : (j <= n => c[j] = s[j + 1]) /\ (j > n => c[j] \in ListEnds)
  BY <1>1, <1>3, ListWalk
<1>5. ASSUME NEW j \in 0..NumInodes, c[j] \in Files
      PROVE  c[j] \in FreeFiles
  <2>1. j <= n /\ c[j] = s[j + 1]
    BY <1>4, <1>5, ListRange
  <2>2. j # n
    BY <1>1, <1>5, <2>1, ListRange DEF Listing
  <2>3. j + 1 \in 1..n
    BY <2>1, <2>2
  <2> QED
    BY <1>1, <2>1, <2>3 DEF Listing
<1>6. ASSUME NEW x \in FreeFiles
      PROVE  \E j \in 0..NumInodes : c[j] = x
  <2>1. PICK k \in 1..n : s[k] = x
    BY <1>1 DEF Listing
  <2>2. k - 1 \in 0..NumInodes /\ k - 1 <= n /\ (k - 1) + 1 = k
    BY <1>2, ListRange
  <2>3. c[k - 1] = x
    BY <1>4, <2>1, <2>2
  <2> QED
    BY <2>2, <2>3
<1>7. c[NumInodes] \notin Files
  <2>1. CASE n = NumInodes
    BY <1>1, <1>4, <2>1, ListRange DEF Listing
  <2>2. CASE n < NumInodes
    BY <1>4, <2>2, ListRange
  <2> QED
    BY <1>2, <2>1, <2>2, ListRange
<1> QED
  BY <1>5, <1>6, <1>7, ListRange

\* The free list of sfs_fs_inode_allocate and sfs_fs_inode_deallocate, followed to
\* its end, has every inode without links and no other.
THEOREM FreeListIsExact == Spec => []FreeListExact
<1>1. ASSUME FreeListed
      PROVE  FreeListExact
  <2> DEFINE chain == CHOOSE c : IsWalk(c)
  <2>1. IsWalk(chain)
    BY <1>1, WalkExists
  <2>2. {chain[j] : j \in 0..NumInodes} \cap Files = FreeFiles /\ chain[NumInodes] \notin Files
    <3> HIDE DEF chain
    <3> QED
      BY <1>1, <2>1, WalkIsList
  <2> QED
    BY <2>2 DEF FreeListExact, FreeFiles, IsWalk
<1> QED
  BY <1>1, ListInductive, PTL

\* The assertion of sfs_fs_write_inode() stops the process only when every inode is
\* in use: sfs_create never comes to the end of the table too early.
THEOREM AssertionMeansFull == Spec => []StopsOnlyWhenFull
BY ListInductive, PTL

-----------------------------------------------------------------------------
(* The refinement of FileSpace. *)

\* A live entry was written with a name.
LiveNames == \A k \in Slots : dirent[k].inumber # 0 => dirent[k].name \in Names

LEMMA NamesInductive == Spec => []LiveNames
<1>1. Init => LiveNames
  BY DEF Init, LiveNames
<1>2. IInv /\ LiveNames /\ [Next]_vars => LiveNames'
  <2> SUFFICES ASSUME IInv, LiveNames, [Next]_vars
               PROVE  LiveNames'
    OBVIOUS
  <2>1. ASSUME NEW k, NEW n \in Names, NEW h,
               dirent' = [dirent EXCEPT ![k] = [inumber |-> h, name |-> n]]
        PROVE  LiveNames'
    BY <2>1 DEF IInv, TypeOK, LiveNames
  <2>2. ASSUME NEW n \in Names, Create(n)
        PROVE  LiveNames'
    <3>1. CASE UNCHANGED dirent
      BY <3>1 DEF LiveNames
    <3>2. CASE ~UNCHANGED dirent
      <4>1. \E k : LinkAt(k, n, free_inode_head)
        BY <2>2, <3>2 DEF Create
      <4> QED
        BY <2>1, <4>1 DEF LinkAt
    <3> QED
      BY <3>1, <3>2
  <2>3. ASSUME NEW n \in Names, Unlink(n)
        PROVE  LiveNames'
    <3>1. PICK k \in Slots : dirent' = [dirent EXCEPT ![k].inumber = 0]
      BY <2>3 DEF Unlink
    <3> QED
      BY <3>1 DEF IInv, TypeOK, LiveNames
  <2>4. CASE UNCHANGED dirent
    BY <2>4 DEF LiveNames
  <2> QED
    BY <2>2, <2>3, <2>4 DEF Next, vars, CreateBehindTable, Open, Release, Write, OpenDir,
                            ReleaseDir, Remount
<1> QED
  BY <1>1, <1>2, Inductive, PTL DEF Spec

\* A file that a name or a handle refers to.
Referenced(i) == Entries(i) # {} \/ Handles(i) # {}

\* The state of FileSpace, in terms of entries and handles: a name means the inode
\* of its entry, and the files that exist are those that are referenced.
AbstractFacts ==
  /\ \A k \in Slots : dirent[k].inumber # 0 =>
        dirent[k].name \in Names /\ NameOf(dirent[k].name) = dirent[k].inumber
  /\ \A n \in Names : NameOf(n) # 0 =>
        \E k \in Slots : dirent[k].inumber = NameOf(n) /\ dirent[k].name = n
  /\ \A i \in Files : References(i) = 0 <=> ~Referenced(i)
  /\ \A i \in Files : i \in Abstract!Existing <=> Referenced(i)

LEMMA AbstractState == IInv /\ LiveNames => AbstractFacts
<1> SUFFICES ASSUME IInv, LiveNames
             PROVE  AbstractFacts
  OBVIOUS
<1>1. ASSUME NEW k \in Slots, dirent[k].inumber # 0
      PROVE  dirent[k].name \in Names /\ NameOf(dirent[k].name) = dirent[k].inumber
  <2> DEFINE n == dirent[k].name
  <2>1. Matches(n) = {k}
    BY <1>1 DEF Matches, IInv, EntryKinds, EntriesDistinct
  <2>2. \E j \in Matches(n) : First(j, Matches(n))
    <3>1. k <= k
      BY SizesAssumption DEF Slots
    <3> QED
      BY <2>1, <3>1 DEF First
  <2>3. (CHOOSE j \in Matches(n) : First(j, Matches(n))) = k
    BY <2>1, <2>2
  <2> QED
    BY <1>1, <2>1, <2>3 DEF NameOf, LiveNames
<1>2. ASSUME NEW n \in Names, NameOf(n) # 0
      PROVE  \E k \in Slots : dirent[k].inumber = NameOf(n) /\ dirent[k].name = n
  <2>1. PICK k \in Matches(n) : TRUE
    BY <1>2 DEF NameOf
  <2>2. k \in Slots /\ dirent[k].inumber # 0 /\ dirent[k].name = n
    BY <2>1 DEF Matches
  <2> QED
    BY <1>1, <2>2
<1>3. ASSUME NEW i \in Files
      PROVE  References(i) = 0 <=> ~Referenced(i)
  <2>1. \A S : IsFiniteSet(S) => (Cardinality(S) = 0 <=> S = {})
    BY FS_EmptySet
  <2> QED
    BY <2>1, CountsAreNat DEF References, Referenced
<1>4. ASSUME NEW i \in Files
      PROVE  i \in Abstract!Existing <=> Referenced(i)
  <2>1. (\E n \in Names : NameOf(n) = i) <=> Entries(i) # {}
    BY <1>1, <1>2, Layout DEF Entries
  <2>2. (\E f \in Fds : fd[f] = i) <=> Handles(i) # {}
    BY DEF Handles
  <2>3. i \in Abstract!Existing <=> (\E n \in Names : NameOf(n) = i) \/ (\E f \in Fds : fd[f] = i)
    BY DEF Abstract!Existing
  <2> QED
    BY <2>1, <2>2, <2>3 DEF Referenced
<1> QED
  BY <1>1, <1>2, <1>3, <1>4 DEF AbstractFacts

LEMMA AbstractStateNext == IInv' /\ LiveNames' => AbstractFacts'
BY AbstractState, PTL

\* What the variables of FileSpace stand for.
NamesMap == [n \in Names |-> NameOf(n)]
BytesMap == [i \in Files |-> IF References(i) = 0 THEN 0 ELSE size[i]]

\* The facts that the lemmas on the single handlers rest on, before and after.
Facts == IInv /\ IInv' /\ AbstractFacts /\ AbstractFacts'

\* A directory that is not changed keeps its names.
LEMMA SameNames ==
  ASSUME Facts, dirent' = dirent
  PROVE  NamesMap' = NamesMap
<1> SUFFICES ASSUME NEW n \in Names
             PROVE  NameOf(n)' = NameOf(n)
  BY DEF NamesMap
<1>1. ASSUME NameOf(n) # 0
      PROVE  NameOf(n)' = NameOf(n)
  BY <1>1 DEF Facts, AbstractFacts
<1>2. ASSUME NameOf(n)' # 0
      PROVE  NameOf(n)' = NameOf(n)
  BY <1>2 DEF Facts, AbstractFacts
<1> QED
  BY <1>1, <1>2

\* References that come and go, and the sizes of the files that keep some.
LEMMA SameBytes ==
  ASSUME Facts, \A i \in Files : Referenced(i)' <=> Referenced(i),
         \A i \in Files : Referenced(i) => size'[i] = size[i]
  PROVE  BytesMap' = BytesMap
<1> SUFFICES ASSUME NEW i \in Files
             PROVE  (IF References(i)' = 0 THEN 0 ELSE size'[i])
                       = (IF References(i) = 0 THEN 0 ELSE size[i])
  BY DEF BytesMap
<1>1. (References(i)' = 0 <=> ~Referenced(i)') /\ (References(i) = 0 <=> ~Referenced(i))
  BY DEF Facts, AbstractFacts
<1> QED
  BY <1>1

LEMMA ReclaimedBytes ==
  ASSUME Facts, \A i \in Files : Referenced(i)' => Referenced(i) /\ size'[i] = size[i]
  PROVE  BytesMap' = [i \in Files |-> IF i \in Abstract!Existing' THEN BytesMap[i] ELSE 0]
<1> SUFFICES ASSUME NEW i \in Files
             PROVE  (IF References(i)' = 0 THEN 0 ELSE size'[i])
                       = IF i \in Abstract!Existing'
                         THEN (IF References(i) = 0 THEN 0 ELSE size[i]) ELSE 0
  BY DEF BytesMap
<1>1. (References(i)' = 0 <=> ~Referenced(i)') /\ (References(i) = 0 <=> ~Referenced(i))
  BY DEF Facts, AbstractFacts
<1>2. i \in Abstract!Existing' <=> Referenced(i)'
  BY DEF Facts, AbstractFacts
<1> QED
  BY <1>1, <1>2

\* Whatever drops one link of i, which loses one reference, drops its size only if
\* it was the last reference.
LEMMA DropKeepsSize ==
  ASSUME Facts, NEW i \in Files, links[i] >= 1, DropLink(i)
  PROVE  \A j \in Files : Referenced(j)' => size'[j] = size[j]
<1> SUFFICES ASSUME NEW j \in Files, Referenced(j)'
             PROVE  size'[j] = size[j]
  OBVIOUS
<1>1. j \in Inodes /\ size \in [Inodes -> Nat] /\ links[i] \in 0..(LinkMod - 1) /\ i \in Inodes
  BY Layout DEF Facts, IInv, TypeOK
<1>2. links'[j] # 0
  <2>1. References(j)' # 0
    BY DEF Facts, AbstractFacts
  <2>2. References(j)' \in Nat
    BY CountsAreNat DEF References
  <2>3. links'[j] >= References(j)' /\ links'[j] \in Nat
    BY <1>1, LinksAssumption DEF Facts, IInv, LinksCoverReferences, TypeOK
  <2> QED
    BY <2>1, <2>2, <2>3
<1>3. CASE DeallocateInode(i) /\ Decrement(links[i]) = 0
  <2>1. links'[i] = 0
    BY <1>1, <1>3 DEF DropLink, Facts, IInv, TypeOK
  <2> QED
    BY <1>1, <1>2, <1>3, <2>1 DEF DeallocateInode
<1> QED
  BY <1>3 DEF DropLink

\* A descriptor for i is a handle of FileSpace.
LEMMA HandleOpened ==
  ASSUME NEW i, AllocateFd(i)
  PROVE  Abstract!OpenHandle(i)
BY DEF AllocateFd, Abstract!OpenHandle

\* It refers to i and to nothing else that was not referred to.
LEMMA HandleReferences ==
  ASSUME TypeOK, NEW i \in Files, AllocateFd(i), NEW j \in Files
  PROVE  /\ Handles(j) \subseteq Handles(j)'
         /\ j # i => Handles(j)' = Handles(j)
<1>1. CASE fd' = fd
  BY <1>1 DEF Handles
<1>2. ASSUME NEW f \in Fds, fd[f] = 0, fd' = [fd EXCEPT ![f] = i]
      PROVE  /\ Handles(j) \subseteq Handles(j)'
             /\ j # i => Handles(j)' = Handles(j)
  BY <1>2, Layout DEF Handles, TypeOK
<1> QED
  BY <1>1, <1>2 DEF AllocateFd

LEMMA OpenRefines ==
  ASSUME Facts, NEW n \in Names, Open(n)
  PROVE  Abstract!Open(n)
<1>1. PICK k \in Slots : First(k, Matches(n)) /\ AllocateFd(dirent[k].inumber)
  BY DEF Open
<1>2. PICK i \in Files : i = dirent[k].inumber /\ i # 0
  BY <1>1, MatchIsFile DEF Facts
<1>3. dirent[k].name = n
  BY <1>1 DEF First, Matches
<1>4. NameOf(n) = i /\ i \in Files
  BY <1>2, <1>3 DEF Facts, AbstractFacts
<1>5. NamesMap' = NamesMap
  BY SameNames DEF Open
<1>6. ASSUME NEW j \in Files
      PROVE  Referenced(j)' <=> Referenced(j)
  <2>1. Entries(j)' = Entries(j)
    BY DEF Open, Entries
  <2>2. k \in Entries(i)
    BY <1>2 DEF Entries
  <2>3. Handles(j) \subseteq Handles(j)' /\ (j # i => Handles(j)' = Handles(j))
    BY <1>1, <1>2, HandleReferences DEF Facts, IInv
  <2> QED
    BY <2>1, <2>2, <2>3 DEF Referenced
<1>7. BytesMap' = BytesMap
  BY <1>6, SameBytes DEF Open
<1>8. Abstract!OpenHandle(NameOf(n))
  BY <1>1, <1>2, <1>4, HandleOpened
<1> QED
  BY <1>2, <1>4, <1>5, <1>7, <1>8 DEF Abstract!Open, NamesMap, BytesMap

\* The three ways in which sfs_create() of a new name ends.
LEMMA CreateRefines ==
  ASSUME Facts, NEW n \in Names, Create(n)
  PROVE  Abstract!Create(n) \/ UNCHANGED Abstract!vars
<1>1. PICK h \in Files : h = free_inode_head
  BY DEF Create
<1>2. /\ Matches(n) = {} /\ links[h] = 0 /\ h \in Inodes /\ h # Root /\ h # 0
  BY <1>1, Layout DEF Create, Facts, IInv, FreeListSound, FreeOrEnd, InUse
<1>3. ~Referenced(h) /\ NameOf(n) = 0 /\ h \notin Abstract!Existing
  <2>1. ~Referenced(h)
    BY <1>2, FreeIsUnreferenced DEF Facts, Referenced
  <2> QED
    BY <1>2, <2>1 DEF Facts, AbstractFacts, NameOf
<1>4. size'[h] = 0 /\ \A j \in Files : j # h => size'[j] = size[j]
  BY <1>1, <1>2, Layout DEF Create, Facts, IInv, TypeOK
<1>5. ASSUME NEW k, LinkAt(k, n, h), k \in Slots, dirent[k].inumber = 0
      PROVE  Abstract!Create(n)
  <2>1. dirent' = [dirent EXCEPT ![k] = [inumber |-> h, name |-> n]] /\ AllocateFd(h)
    BY <1>5 DEF LinkAt
  <2>2. /\ dirent'[k].inumber = h /\ dirent'[k].name = n
        /\ \A l \in Slots : l # k => dirent'[l] = dirent[l]
    BY <1>5, <2>1 DEF Facts, IInv, TypeOK
  <2>3. NamesMap' = [NamesMap EXCEPT ![n] = h]
    <3> SUFFICES ASSUME NEW m \in Names
                 PROVE  NameOf(m)' = IF m = n THEN h ELSE NameOf(m)
      BY DEF NamesMap
    <3>1. NameOf(n)' = h
      BY <1>2, <1>5, <2>2 DEF Facts, AbstractFacts
    <3>2. ASSUME m # n, NameOf(m) # 0
          PROVE  NameOf(m)' = NameOf(m)
      <4>1. PICK l \in Slots : dirent[l].inumber = NameOf(m) /\ dirent[l].name = m
        BY <3>2 DEF Facts, AbstractFacts
      <4>2. dirent'[l] = dirent[l]
        BY <1>5, <2>2, <3>2, <4>1
      <4> QED
        BY <3>2, <4>1, <4>2 DEF Facts, AbstractFacts
    <3>3. ASSUME m # n, NameOf(m)' # 0
          PROVE  NameOf(m)' = NameOf(m)
      <4>1. PICK l \in Slots : dirent'[l].inumber = NameOf(m)' /\ dirent'[l].name = m
        BY <3>3 DEF Facts, AbstractFacts
      <4>2. dirent'[l] = dirent[l]
        BY <2>2, <3>3, <4>1
      <4> QED
        BY <3>3, <4>1, <4>2 DEF Facts, AbstractFacts
    <3> QED
      BY <3>1, <3>2, <3>3
  <2>4. BytesMap' = BytesMap
    <3> SUFFICES ASSUME NEW j \in Files
                 PROVE  (IF References(j)' = 0 THEN 0 ELSE size'[j])
                           = (IF References(j) = 0 THEN 0 ELSE size[j])
      BY DEF BytesMap
    <3>1. CASE j = h
      BY <1>3, <1>4, <3>1 DEF Facts, AbstractFacts
    <3>2. CASE j # h
      <4>1. Entries(j)' = Entries(j)
        BY <1>2, <1>5, <2>2, <3>2, Layout DEF Entries
      <4>2. Handles(j)' = Handles(j)
        BY <2>1, <3>2, HandleReferences DEF Facts, IInv
      <4> QED
        BY <1>4, <3>2, <4>1, <4>2 DEF References
    <3> QED
      BY <3>1, <3>2
  <2>5. Abstract!OpenHandle(h)
    BY <2>1, HandleOpened
  <2> QED
    BY <1>3, <2>3, <2>4, <2>5 DEF Abstract!Create, NamesMap, BytesMap
<1>6. CASE \E k \in Slots : First(k, Holes) /\ LinkAt(k, n, h)
  BY <1>5, <1>6 DEF First, Holes
<1>7. CASE size[Root] < MaxDirBlocks /\ LinkAt(size[Root], n, h)
  <2>1. size[Root] \in Slots /\ ~(size[Root] < size[Root])
    <3>1. size[Root] \in Nat
      BY Layout, SizesAssumption DEF Facts, IInv, TypeOK
    <3> QED
      BY <1>7, <3>1, SizesAssumption DEF Slots
  <2>2. dirent[size[Root]].inumber = 0
    BY <2>1 DEF Facts, IInv, EntryKinds
  <2> QED
    BY <1>5, <1>7, <2>1, <2>2
<1>8. CASE UNCHANGED <<dirent, fd>>
  <2>1. \A j : Entries(j)' = Entries(j) /\ Handles(j)' = Handles(j)
    BY <1>8 DEF Entries, Handles
  <2>2. BytesMap' = BytesMap
    BY <1>3, <1>4, <2>1, SameBytes DEF Referenced
  <2>3. NamesMap' = NamesMap
    BY <1>8, SameNames
  <2> QED
    BY <1>8, <2>2, <2>3 DEF NamesMap, BytesMap, Abstract!vars
<1> QED
  BY <1>1, <1>6, <1>7, <1>8 DEF Create

LEMMA UnlinkRefines ==
  ASSUME Facts, NEW n \in Names, Unlink(n)
  PROVE  Abstract!Unlink(n)
<1>1. PICK k \in Slots : /\ First(k, Matches(n))
                         /\ DropLink(dirent[k].inumber)
                         /\ dirent' = [dirent EXCEPT ![k].inumber = 0]
  BY DEF Unlink
<1>2. PICK i \in Files : i = dirent[k].inumber /\ i # 0 /\ links[i] >= 1
  BY <1>1, MatchIsFile DEF Facts
<1>3. dirent[k].name = n
  BY <1>1 DEF First, Matches
<1>4. /\ dirent'[k].inumber = 0
      /\ \A l \in Slots : l # k => dirent'[l] = dirent[l]
  BY <1>1 DEF Facts, IInv, TypeOK
<1>5. NameOf(n) = i
  BY <1>2, <1>3 DEF Facts, AbstractFacts
<1>6. NamesMap' = [NamesMap EXCEPT ![n] = 0]
  <2> SUFFICES ASSUME NEW m \in Names
               PROVE  NameOf(m)' = IF m = n THEN 0 ELSE NameOf(m)
    BY DEF NamesMap
  <2>1. ASSUME NameOf(m)' # 0
        PROVE  m # n /\ NameOf(m)' = NameOf(m)
    <3>1. PICK l \in Slots : dirent'[l].inumber = NameOf(m)' /\ dirent'[l].name = m
      BY <2>1 DEF Facts, AbstractFacts
    <3>2. l # k /\ dirent'[l] = dirent[l]
      BY <1>4, <2>1, <3>1
    <3>3. m # n
      BY <1>2, <1>3, <2>1, <3>1, <3>2 DEF Facts, IInv, EntriesDistinct
    <3> QED
      BY <2>1, <3>1, <3>2, <3>3 DEF Facts, AbstractFacts
  <2>2. ASSUME m # n, NameOf(m) # 0
        PROVE  NameOf(m)' = NameOf(m)
    <3>1. PICK l \in Slots : dirent[l].inumber = NameOf(m) /\ dirent[l].name = m
      BY <2>2 DEF Facts, AbstractFacts
    <3>2. dirent'[l] = dirent[l]
      BY <1>3, <1>4, <2>2, <3>1
    <3> QED
      BY <2>2, <3>1, <3>2 DEF Facts, AbstractFacts
  <2> QED
    BY <2>1, <2>2
<1>7. ASSUME NEW j \in Files, Referenced(j)'
      PROVE  Referenced(j) /\ size'[j] = size[j]
  <2>1. Handles(j)' = Handles(j)
    BY DEF Unlink, Handles
  <2>2. Entries(j)' \subseteq Entries(j)
    BY <1>4, Layout DEF Entries
  <2>3. size'[j] = size[j]
    BY <1>1, <1>2, <1>7, DropKeepsSize
  <2> QED
    BY <1>7, <2>1, <2>2, <2>3 DEF Referenced
<1>8. BytesMap' = [j \in Files |-> IF j \in Abstract!Existing' THEN BytesMap[j] ELSE 0]
  BY <1>7, ReclaimedBytes
<1> QED
  BY <1>2, <1>5, <1>6, <1>8 DEF Unlink, Abstract!Unlink, Abstract!Reclaim, NamesMap, BytesMap

LEMMA ReleaseRefines ==
  ASSUME Facts, NEW f \in Fds, Release(f)
  PROVE  Abstract!Release(f)
<1>1. fd[f] \in Files /\ links[fd[f]] >= 1 /\ DropLink(fd[f])
  BY HandleIsFile DEF Release, Facts
<1>2. fd' = [fd EXCEPT ![f] = 0] /\ dirent' = dirent
  BY DEF Release
<1>3. ASSUME NEW j \in Files, Referenced(j)'
      PROVE  Referenced(j) /\ size'[j] = size[j]
  <2>1. Entries(j)' = Entries(j)
    BY <1>2 DEF Entries
  <2>2. Handles(j)' \subseteq Handles(j)
    BY <1>2, Layout DEF Handles, Facts, IInv, TypeOK
  <2>3. size'[j] = size[j]
    BY <1>1, <1>3, DropKeepsSize
  <2> QED
    BY <1>3, <2>1, <2>2, <2>3 DEF Referenced
<1>4. BytesMap' = [j \in Files |-> IF j \in Abstract!Existing' THEN BytesMap[j] ELSE 0]
  BY <1>3, ReclaimedBytes
<1>5. NamesMap' = NamesMap
  BY <1>2, SameNames
<1> QED
  BY <1>1, <1>2, <1>4, <1>5 DEF Abstract!Release, Abstract!Reclaim, NamesMap, BytesMap

LEMMA WriteRefines ==
  ASSUME Facts, NEW f \in Fds, Write(f)
  PROVE  Abstract!Write(f)
<1>1. PICK i \in Files : i = fd[f] /\ i \in Inodes
  BY HandleIsFile, Layout DEF Write, Facts
<1>2. PICK s \in 1..MaxSize : s > size[i] /\ size' = [size EXCEPT ![i] = s]
  BY <1>1 DEF Write
<1>3. UNCHANGED <<dirent, fd>>
  BY DEF Write
<1>4. \A j : References(j)' = References(j)
  BY <1>3 DEF References, Entries, Handles
<1>5. References(i) # 0
  <2>1. Referenced(i)
    BY <1>1 DEF Referenced, Handles
  <2> QED
    BY <2>1 DEF Facts, AbstractFacts
<1>6. BytesMap[i] = size[i] /\ BytesMap' = [BytesMap EXCEPT ![i] = s]
  BY <1>1, <1>2, <1>4, <1>5, Layout DEF BytesMap, Facts, IInv, TypeOK
<1>7. NamesMap' = NamesMap
  BY <1>3, SameNames
<1>8. \E t \in 1..MaxSize : t > BytesMap[fd[f]] /\ BytesMap' = [BytesMap EXCEPT ![fd[f]] = t]
  BY <1>1, <1>2, <1>6
<1> QED
  BY <1>1, <1>3, <1>7, <1>8 DEF Abstract!Write, NamesMap, BytesMap

\* The handlers of directories and unmounting.
LEMMA OthersRefine ==
  ASSUME Facts, OpenDir \/ (\E f \in Fds : ReleaseDir(f)) \/ Remount
  PROVE  Abstract!Next
<1>1. dirent' = dirent /\ size' = size
  BY DEF OpenDir, ReleaseDir, Remount
<1>2. NamesMap' = NamesMap
  BY <1>1, SameNames
<1>3. \A j : Entries(j)' = Entries(j)
  BY <1>1 DEF Entries
<1>4. CASE OpenDir
  <2>1. PICK f \in Fds : fd[f] = 0 /\ fd' = [fd EXCEPT ![f] = Root]
    BY <1>4 DEF OpenDir
  <2>2. \A j \in Files : Handles(j)' = Handles(j)
    BY <2>1, Layout DEF Handles, Facts, IInv, TypeOK
  <2>3. BytesMap' = BytesMap
    BY <1>1, <1>3, <2>2, SameBytes DEF Referenced
  <2> QED
    BY <1>2, <2>1, <2>3 DEF Abstract!Next, Abstract!OpenDir, Abstract!OpenHandle, NamesMap, BytesMap
<1>5. ASSUME NEW f \in Fds, ReleaseDir(f)
      PROVE  Abstract!Next
  <2>1. fd[f] = Root /\ fd' = [fd EXCEPT ![f] = 0]
    BY <1>5 DEF ReleaseDir, Facts, IInv, HandleKinds
  <2>2. \A j \in Files : Handles(j)' = Handles(j)
    BY <2>1, Layout DEF Handles, Facts, IInv, TypeOK
  <2>3. BytesMap' = BytesMap
    BY <1>1, <1>3, <2>2, SameBytes DEF Referenced
  <2> QED
    BY <1>2, <2>1, <2>3 DEF Abstract!Next, Abstract!ReleaseDir, NamesMap, BytesMap
<1>6. CASE Remount
  <2>1. fd' = [f \in Fds |-> 0]
    BY <1>6 DEF Remount
  <2>2. \A j \in Files : Handles(j)' = {}
    BY <2>1, Layout DEF Handles
  <2>3. BytesMap' = [j \in Files |-> IF j \in Abstract!Existing' THEN BytesMap[j] ELSE 0]
    BY <1>1, <1>3, <2>2, ReclaimedBytes DEF Referenced
  <2> QED
    BY <1>2, <2>1, <2>3 DEF Abstract!Next, Abstract!Remount, Abstract!Reclaim, NamesMap, BytesMap
<1> QED
  BY <1>4, <1>5, <1>6

\* sfs implements FileSpace: whatever fails, the handlers of sfs.c change names,
\* handles and sizes as a directory of files would that knows of no inodes.
THEOREM SfsImplementsFileSpace == Spec => ImplementsFileSpace
<1>1. Init => Abstract!Init
  <2> SUFFICES ASSUME Init
               PROVE  Abstract!Init
    OBVIOUS
  <2>1. \A n \in Names : NameOf(n) = 0
    BY DEF Init, NameOf, Matches
  <2>2. ASSUME NEW i \in Files
        PROVE  References(i) = 0
    <3>1. Entries(i) = {} /\ Handles(i) = {}
      BY Layout DEF Init, Entries, Handles
    <3> QED
      BY <3>1, FS_EmptySet DEF References
  <2> QED
    BY <2>1, <2>2 DEF Init, Abstract!Init
<1>2. /\ IInv /\ LiveNames /\ IInv' /\ LiveNames' /\ [Next]_vars
      => [Abstract!Next]_(Abstract!vars)
  <2> SUFFICES ASSUME Facts, [Next]_vars
               PROVE  [Abstract!Next]_(Abstract!vars)
    BY AbstractState, AbstractStateNext DEF Facts
  <2>1. ASSUME NEW n \in Names, Create(n) \/ Open(n) \/ Unlink(n)
        PROVE  [Abstract!Next]_(Abstract!vars)
    BY <2>1, CreateRefines, OpenRefines, UnlinkRefines DEF Abstract!Next
  <2>2. ASSUME NEW f \in Fds, Release(f) \/ Write(f)
        PROVE  [Abstract!Next]_(Abstract!vars)
    BY <2>2, ReleaseRefines, WriteRefines DEF Abstract!Next
  <2>3. CASE OpenDir \/ (\E f \in Fds : ReleaseDir(f)) \/ Remount
    BY <2>3, OthersRefine
  <2>4. CASE UNCHANGED <<dirent, fd, size>>
    <3>1. NamesMap' = NamesMap
      BY <2>4, SameNames
    <3>2. BytesMap' = BytesMap
      BY <2>4 DEF BytesMap, References, Entries, Handles
    <3> QED
      BY <2>4, <3>1, <3>2 DEF Abstract!vars, NamesMap, BytesMap
  <2>5. (\E n \in Names : CreateBehindTable(n)) \/ UNCHANGED vars => UNCHANGED <<dirent, fd, size>>
    BY DEF CreateBehindTable, vars
  <2> QED
    BY <2>1, <2>2, <2>3, <2>4, <2>5 DEF Next
<1> QED
  BY <1>1, <1>2, Inductive, NamesInductive, PTL DEF Spec, ImplementsFileSpace, Abstract!Spec
=============================================================================
