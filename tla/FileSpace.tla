------------------------------ MODULE FileSpace ------------------------------
(***************************************************************************)
(* What the mounted filesystem promises to its users, with no inode table, *)
(* no free list and no link counts: a flat directory of names, a table of  *)
(* open handles, and files that exist exactly as long as a name or a       *)
(* handle refers to them.  Module Sfs implements this specification.       *)
(***************************************************************************)
EXTENDS Naturals

CONSTANTS
  Names,    \* the names a directory entry may carry
  Fds,      \* the handle numbers the kernel may hold open at once
  Files,    \* the identities a file may have (inode numbers)
  Root,     \* the identity of the root directory
  None,     \* refers to no file
  MaxSize   \* bound on the size of a file, in blocks

VARIABLES
  names,    \* names[n]: the file called n, or None
  handle,   \* handle[f]: the file (or Root) behind open handle f, or None
  bytes     \* bytes[i]: the size of file i, 0 when i does not exist

vars == <<names, handle, bytes>>

\* The files that have a name or an open handle; the others do not exist.
Existing == {i \in Files : \/ \E n \in Names : names[n] = i
                          \/ \E f \in Fds : handle[f] = i}

\* A file that ceases to exist loses its size.
Reclaim == bytes' = [i \in Files |-> IF i \in Existing' THEN bytes[i] ELSE 0]

Init == /\ names = [n \in Names |-> None]
        /\ handle = [f \in Fds |-> None]
        /\ bytes = [i \in Files |-> 0]

\* A handle is opened on i, or the open fails for lack of memory.
OpenHandle(i) == \/ \E f \in Fds : /\ handle[f] = None
                                   /\ handle' = [handle EXCEPT ![f] = i]
                 \/ handle' = handle

\* A new file is never one that still exists.
Create(n) == \E i \in Files : /\ names[n] = None
                              /\ i \notin Existing
                              /\ names' = [names EXCEPT ![n] = i]
                              /\ bytes' = bytes
                              /\ OpenHandle(i)

Open(n) == /\ names[n] # None
           /\ OpenHandle(names[n])
           /\ UNCHANGED <<names, bytes>>

Unlink(n) == /\ names[n] # None
             /\ names' = [names EXCEPT ![n] = None]
             /\ handle' = handle
             /\ Reclaim

Release(f) == /\ handle[f] \in Files
              /\ handle' = [handle EXCEPT ![f] = None]
              /\ names' = names
              /\ Reclaim

Write(f) == /\ handle[f] \in Files
            /\ \E s \in 1..MaxSize : /\ s > bytes[handle[f]]
                                     /\ bytes' = [bytes EXCEPT ![handle[f]] = s]
            /\ UNCHANGED <<names, handle>>

OpenDir == OpenHandle(Root) /\ UNCHANGED <<names, bytes>>

ReleaseDir(f) == /\ handle[f] = Root
                 /\ handle' = [handle EXCEPT ![f] = None]
                 /\ UNCHANGED <<names, bytes>>

\* The filesystem is unmounted and mounted again: names stay, handles go.
Remount == /\ handle' = [f \in Fds |-> None]
           /\ names' = names
           /\ Reclaim

Next == \/ \E n \in Names : Create(n) \/ Open(n) \/ Unlink(n)
        \/ \E f \in Fds : Release(f) \/ Write(f) \/ ReleaseDir(f)
        \/ OpenDir
        \/ Remount

Spec == Init /\ [][Next]_vars
=============================================================================
