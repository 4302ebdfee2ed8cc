----------------------------- MODULE ObjectPool -----------------------------
(***************************************************************************)
(* The fixed-size memory pool of the matching engine (ObjectPool.hpp).     *)
(*                                                                         *)
(* A pool is its free list: the vector of the addresses of the slots that  *)
(* hold no constructed object, used as a stack.  A slot's name stands for  *)
(* its address, so the order in which the constructor pushes the addresses *)
(* is any enumeration of the slots.                                        *)
(***************************************************************************)
EXTENDS Naturals, Sequences, FiniteSets, SequencesExt

(* ObjectPool(): every slot is free, and each is on the list once.         *)
FreshPools(Slots) == SetToSeqs(Slots)

(* allocate() throws when the list is empty ...                            *)
Exhausted(freeList) == freeList = <<>>

(* ... and otherwise constructs the object in the slot it pops off the end.*)
AllocatedSlot(freeList) == Last(freeList)
Allocate(freeList) == Front(freeList)

(* deallocate(ptr) destroys the object and pushes the slot back.           *)
Deallocate(freeList, slot) == Append(freeList, slot)

(***************************************************************************)
(* What a free list must satisfy for two objects never to share a slot:    *)
(* no slot is listed twice, and the slots listed are those that hold no    *)
(* object (heap maps a slot to its object, or to Dead).                    *)
(***************************************************************************)
FreeListMatchesHeap(freeList, heap, Dead) ==
  /\ IsInjective(freeList)
  /\ ToSet(freeList) = {s \in DOMAIN heap : heap[s] = Dead}
=============================================================================
