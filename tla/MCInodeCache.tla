---------------------------- MODULE MCInodeCache ----------------------------
(***************************************************************************)
(* Small instances of InodeCache for TLC: three blocks of two inodes, so   *)
(* that a load may evict and a neighbour of the inode written may be lost. *)
(***************************************************************************)
EXTENDS InodeCache, TLC
=============================================================================
