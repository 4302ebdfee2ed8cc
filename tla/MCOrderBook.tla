---------------------------- MODULE MCOrderBook ----------------------------
(***************************************************************************)
(* Instances of OrderBook for TLC.  Order ids and the slots of both pools  *)
(* are only compared for equality, so permuting them is a symmetry.        *)
(***************************************************************************)
EXTENDS BookQueries

Symmetry == Permutations(OrderId) \cup Permutations(OrderSlots)
              \cup Permutations(LevelSlots)
=============================================================================
