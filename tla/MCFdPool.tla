------------------------------ MODULE MCFdPool ------------------------------
(***************************************************************************)
(* Small instances of FdPool for TLC: slabs of two slots, so that the pool *)
(* grows, fills and empties in every order.                                *)
(***************************************************************************)
EXTENDS FdPool, TLC
=============================================================================
