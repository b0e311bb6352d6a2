------------------------------ MODULE ByteFile ------------------------------
(***************************************************************************)
(* What a reader and a writer of a file may rely on: an array of bytes     *)
(* that reads back what was written, for the requests that are Exact.  Any *)
(* other request may be answered with anything, and a write may do harm,   *)
(* but only to the blocks that it has a part of.                           *)
(***************************************************************************)
EXTENDS Integers

CONSTANTS
  Bytes,       \* the values of a byte
  MaxBytes,    \* the largest file
  Requests,    \* records with the fields op, off and n
  Exact(_),    \* the requests whose bytes are found at their places
  Touched(_),  \* the bytes of the blocks that a request has a part of
  Idle, Done, Error  \* no call is under way, it succeeded, it failed

VARIABLES
  content,     \* content[p]: byte p of the file, 0 where nothing was written
  size,        \* the size of the file
  request,     \* the call that was answered last, or Idle
  answer       \* what it returned, or Idle

vars == <<content, size, request, answer>>

Init == /\ content = [p \in 0..(MaxBytes - 1) |-> 0]
        /\ size = 0
        /\ request = Idle /\ answer = Idle

End(r) == r.off + r.n
Grown(r) == IF r.n > 0 /\ End(r) > size THEN End(r) ELSE size

\* The n bytes buf are stored at the offset.
Write(r, buf) ==
  /\ r.op = "write" /\ Exact(r)
  /\ content' = [p \in DOMAIN content |->
                   IF p \in r.off..(End(r) - 1) THEN buf[p - r.off] ELSE content[p]]
  /\ size' = Grown(r)
  /\ answer' = Done

\* The bytes of the request that lie below the end of the file are returned.  Where the
\* answer ends behind it, and with which bytes, is left open.
Read(r) ==
  /\ r.op = "read" /\ Exact(r)
  /\ \E len \in 0..r.n :
       /\ answer' \in [0..(len - 1) -> Bytes]
       /\ \A k \in 0..(r.n - 1) :
            r.off + k < size => k < len /\ answer'[k] = content[r.off + k]
  /\ UNCHANGED <<content, size>>

\* A write that is not exact, or that fails part of the way.
Damage(r) ==
  /\ r.op = "write"
  /\ DOMAIN content' = DOMAIN content
  /\ \A p \in DOMAIN content :
       content'[p] # content[p] => p \in Touched(r) /\ content'[p] \in Bytes
  /\ size' = Grown(r)
  /\ Exact(r) => answer' = Error

\* A read that is not exact: any answer.
Garble(r) == r.op = "read" /\ ~Exact(r) /\ UNCHANGED <<content, size>>

\* A call that is refused before it does anything.
Refuse(r) == answer' = Error /\ UNCHANGED <<content, size>>

Call(r) ==
  /\ request = Idle /\ request' = r
  /\ \/ Refuse(r) \/ Garble(r) \/ Read(r) \/ Damage(r)
     \/ \E buf \in [0..(r.n - 1) -> Bytes] : Write(r, buf)

\* The caller goes on.
Return == /\ request # Idle
          /\ request' = Idle /\ answer' = Idle
          /\ UNCHANGED <<content, size>>

Next == (\E r \in Requests : Call(r)) \/ Return

Spec == Init /\ [][Next]_vars
=============================================================================
