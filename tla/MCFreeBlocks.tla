---------------------------- MODULE MCFreeBlocks ----------------------------
(***************************************************************************)
(* Small instances of FreeBlocks for TLC: blocks of three words, so that a *)
(* node names two blocks and the list has two nodes or more.               *)
(***************************************************************************)
EXTENDS FreeBlocks, TLC
=============================================================================
