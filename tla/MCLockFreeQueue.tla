--------------------------- MODULE MCLockFreeQueue ---------------------------
(***************************************************************************)
(* An instance of LockFreeQueue for TLC.  Items are only moved, so         *)
(* permuting them is a symmetry.                                           *)
(***************************************************************************)
EXTENDS LockFreeQueue, TLC

Symmetry == Permutations(Item)
=============================================================================
