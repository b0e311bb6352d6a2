------------------------------ MODULE MCFormat ------------------------------
(***************************************************************************)
(* Format for TLC: every disk of 1 to 40 blocks of four words, one block   *)
(* in eight for the inode table.                                           *)
(***************************************************************************)
EXTENDS Format, TLC

AllSizes == 1..40
=============================================================================
