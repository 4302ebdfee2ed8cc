--------------------------- MODULE MCIntrusiveList ---------------------------
(***************************************************************************)
(* An instance of IntrusiveList for TLC.  Orders and levels are only       *)
(* compared for equality, so permuting them is a symmetry.                 *)
(***************************************************************************)
EXTENDS IntrusiveList

Symmetry == Permutations(Order) \cup Permutations(Level)
=============================================================================
