--------------------------- MODULE MCInodeBlocks ----------------------------
(***************************************************************************)
(* A small instance of InodeBlocks for TLC.  The inodes are                *)
(* interchangeable.  A state with corrupted files is checked but not       *)
(* continued: the properties say nothing of what follows it.               *)
(***************************************************************************)
EXTENDS InodeBlocks, TLC

InumsSymmetry == Permutations(Inums)
=============================================================================
