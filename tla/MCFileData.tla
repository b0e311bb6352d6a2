----------------------------- MODULE MCFileData -----------------------------
(***************************************************************************)
(* FileData for TLC: files of two blocks of two bytes, and requests that   *)
(* end up to a block behind them.                                          *)
(***************************************************************************)
EXTENDS FileData, TLC
=============================================================================
