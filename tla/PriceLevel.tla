----------------------------- MODULE PriceLevel -----------------------------
(***************************************************************************)
(* One price level of the book (PriceLevel.hpp): the orders resting at a   *)
(* price, oldest first, and the volume they add up to.                     *)
(*                                                                         *)
(* The intrusive doubly-linked list is abstracted to the sequence of the   *)
(* order slots it links, head first; IntrusiveList is about its pointers,  *)
(* and shows that they represent the sequence.  totalVolume is a uint32_t: *)
(* every update wraps modulo QtyMod (2^32 in the code).                    *)
(***************************************************************************)
EXTENDS Naturals, Sequences, SequencesExt

CONSTANT QtyMod    \* the number of values of Quantity (Types.hpp)

ASSUME QtyModAssumption == QtyMod \in Nat \ {0}

(* PriceLevel(p)                                                           *)
NewLevel(p) == [price |-> p, totalVolume |-> 0, queue |-> <<>>]

(* Mutant of DeductVolume: a fill that forgets the level.                  *)
DeductNothing(level, qty) == level

(* totalVolume -= qty, on unsigned 32-bit integers.                        *)
DeductVolume(level, qty) ==
  [level EXCEPT !.totalVolume = (@ + QtyMod - qty) % QtyMod]

(* append(): to the tail of the list, the volume may wrap.                 *)
AppendOrder(level, slot, qty) ==
  [level EXCEPT !.queue = Append(@, slot),
                !.totalVolume = (@ + qty) % QtyMod]

(* Where an order is in the list.                                          *)
Position(level, slot) ==
  CHOOSE i \in DOMAIN level.queue : level.queue[i] = slot

(* Mutant of RemoveOrder: unlinks the head whatever order is asked for.    *)
RemoveOldest(level, slot, qty) ==
  [level EXCEPT !.queue = Tail(@),
                !.totalVolume = IF @ >= qty THEN @ - qty ELSE 0]

(* remove(): unlinks the order wherever it is; the volume it takes out is  *)
(* clamped to what totalVolume holds.                                      *)
RemoveOrder(level, slot, qty) ==
  [level EXCEPT !.queue = RemoveAt(@, Position(level, slot)),
                !.totalVolume = IF @ >= qty THEN @ - qty ELSE 0]

(* Mutants of IsEmptyLevel: a test of head = tail, and a level never freed.*)
AtMostOneOrder(level) == Len(level.queue) <= 1
NeverEmpty(level) == FALSE

(* empty(): there is no head.                                              *)
IsEmptyLevel(level) == level.queue = <<>>
=============================================================================
