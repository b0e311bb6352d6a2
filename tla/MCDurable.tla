----------------------------- MODULE MCDurable ------------------------------
(***************************************************************************)
(* Durable for TLC: the root and three files, two inodes in a block.       *)
(***************************************************************************)
EXTENDS Durable, TLC
=============================================================================
