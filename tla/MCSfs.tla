-------------------------------- MODULE MCSfs -------------------------------
(***************************************************************************)
(* Small instances of Sfs for TLC.  Names and handles are interchangeable, *)
(* so both are symmetry sets in SfsLarge.cfg, which checks no liveness.    *)
(***************************************************************************)
EXTENDS Sfs, TLC

NamesAndFds == Permutations(Names) \cup Permutations(Fds)
=============================================================================
