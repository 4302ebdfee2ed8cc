---------------------------- MODULE LockFreeQueue ----------------------------
(***************************************************************************)
(* The single-producer single-consumer ring buffer of 02_LOB_Engine        *)
(* (LockFreeQueue.hpp), under the C++ memory model.                        *)
(*                                                                         *)
(* head_ and tail_ count the pops and the pushes; head and tail are these  *)
(* counts and the atomics hold them modulo WordMod (2^64 in the code).  A  *)
(* load need not return the latest value: a thread may read any value of   *)
(* the other thread's counter that is not older than one it has read       *)
(* before (prodSeen, consSeen).  An acquire load also orders the accesses  *)
(* made before the release store it reads from before the loading thread's *)
(* own: prodHb and consHb are how far each thread is ordered after the     *)
(* other.  The slots are not atomic, so an access to a slot the other      *)
(* thread has used is a data race unless that use is so ordered.           *)
(***************************************************************************)
EXTENDS Integers, Sequences

CONSTANTS
  Item,         \* the values of T
  MovedFrom,    \* what a move, or T(), leaves in a slot; and "no item"
  Capacity,     \* the template argument
  WordMod,      \* the number of values of size_t
  MaxItems      \* the model stops pushing after so many items

(* static_assert: both are powers of 2, so the one divides the other, and  *)
(* n & MASK_ is n % Capacity.                                              *)
ASSUME QueueAssumption ==
  /\ Capacity \in Nat \ {0}
  /\ WordMod \in Nat /\ \E m \in 2 .. WordMod : WordMod = Capacity * m
  /\ MaxItems \in Nat
  /\ MovedFrom \notin Item

VARIABLES
  buffer,       \* buffer_: slot -> item, or MovedFrom
  head, tail,   \* how often head_ and tail_ were incremented
  prodPc,       \* where the producer is in emplace()
  prodItem,     \* the item it is pushing
  prodSeen,     \* the newest value of head_ it has read
  prodHb,       \* the pops its next accesses are ordered after
  pushed,       \* what its last emplace() returned
  prodSize,     \* what its size() returned, or -1 after another call
  consPc,       \* where the consumer is in pop()
  consSeen,     \* the newest value of tail_ it has read
  consHb,       \* the pushes its next accesses are ordered after
  popped,       \* what its last pop() handed out, or MovedFrom
  consSize      \* what its size() returned, or -1 after another call

prodVars == <<prodPc, prodItem, prodSeen, prodHb, pushed, prodSize>>
consVars == <<consPc, consSeen, consHb, popped, consSize>>
vars == <<buffer, head, tail, prodVars, consVars>>

Slots == 0 .. Capacity - 1
Word(n) == n % WordMod
Slot(n) == Word(n) % Capacity

(* Mutant of Full: lets one item too many in.                              *)
OverFull(t, h) == (Word(t) + WordMod - Word(h)) % WordMod > Capacity

(* currentTail - currentHead >= Capacity, on unsigned words.               *)
Full(t, h) == (Word(t) + WordMod - Word(h)) % WordMod >= Capacity

(* currentHead == currentTail.                                             *)
Empty(h, t) == Word(h) = Word(t)

(* Mutant of Acquired: the load is relaxed.                                *)
Relaxed(hb, seen) == hb

(* What an acquire load of the value seen adds to what is ordered.         *)
Acquired(hb, seen) == IF seen > hb THEN seen ELSE hb

(* Mutant of SizeOf: one slot is kept free.                                *)
SizeAndOne(t, h) == IF Word(t) >= Word(h) THEN Word(t) - Word(h) + 1 ELSE 0

(* What size() computes from the two values it loads.                      *)
SizeOf(t, h) == IF Word(t) >= Word(h) THEN Word(t) - Word(h) ELSE 0

Init ==
  /\ buffer = [i \in Slots |-> MovedFrom]
  /\ head = 0 /\ tail = 0
  /\ prodPc = "idle" /\ prodItem = MovedFrom /\ prodSeen = 0 /\ prodHb = 0
  /\ pushed = FALSE /\ prodSize = -1
  /\ consPc = "idle" /\ consSeen = 0 /\ consHb = 0
  /\ popped = MovedFrom /\ consSize = -1

-----------------------------------------------------------------------------
(***************************************************************************)
(* emplace(), called by the producer.  tail_ has no other writer: its load *)
(* returns the last value stored and is part of the first step.            *)
(***************************************************************************)
EmplaceFull(seen) ==
  /\ prodPc = "idle"
  /\ Full(tail, seen)
  /\ prodSeen' = seen
  /\ prodHb' = Acquired(prodHb, seen)
  /\ pushed' = FALSE /\ prodSize' = -1
  /\ UNCHANGED <<buffer, head, tail, prodPc, prodItem, consVars>>

EmplaceStart(item, seen) ==
  /\ prodPc = "idle" /\ tail < MaxItems
  /\ ~Full(tail, seen)
  /\ prodSeen' = seen
  /\ prodHb' = Acquired(prodHb, seen)
  /\ prodItem' = item
  /\ prodPc' = "write" /\ prodSize' = -1
  /\ UNCHANGED <<buffer, head, tail, pushed, consVars>>

(* Mutant of WriteSlot: the index is the count after the push.             *)
WriteNextSlot ==
  /\ prodPc = "write"
  /\ buffer' = [buffer EXCEPT ![Slot(tail + 1)] = prodItem]
  /\ prodPc' = "publish"
  /\ UNCHANGED <<head, tail, prodItem, prodSeen, prodHb, pushed, prodSize,
                 consVars>>

WriteSlot ==
  /\ prodPc = "write"
  /\ buffer' = [buffer EXCEPT ![Slot(tail)] = prodItem]
  /\ prodPc' = "publish"
  /\ UNCHANGED <<head, tail, prodItem, prodSeen, prodHb, pushed, prodSize,
                 consVars>>

PublishTail ==
  /\ prodPc = "publish"
  /\ tail' = tail + 1
  /\ pushed' = TRUE
  /\ prodPc' = "idle" /\ prodItem' = MovedFrom
  /\ UNCHANGED <<buffer, head, prodSeen, prodHb, prodSize, consVars>>

(* size() called by the producer: a relaxed load of head_ orders nothing.  *)
ProducerSize(seen) ==
  /\ prodPc = "idle"
  /\ prodSeen' = seen
  /\ prodSize' = SizeOf(tail, seen)
  /\ UNCHANGED <<buffer, head, tail, prodPc, prodItem, prodHb, pushed, consVars>>

-----------------------------------------------------------------------------
(***************************************************************************)
(* pop(), called by the consumer.                                          *)
(***************************************************************************)
PopEmpty(seen) ==
  /\ consPc = "idle"
  /\ Empty(head, seen)
  /\ consSeen' = seen
  /\ consHb' = Acquired(consHb, seen)
  /\ popped' = MovedFrom /\ consSize' = -1
  /\ UNCHANGED <<buffer, head, tail, consPc, prodVars>>

PopStart(seen) ==
  /\ consPc = "idle"
  /\ ~Empty(head, seen)
  /\ consSeen' = seen
  /\ consHb' = Acquired(consHb, seen)
  /\ consPc' = "read" /\ consSize' = -1
  /\ UNCHANGED <<buffer, head, tail, popped, prodVars>>

(* The slot is moved from; a racing read may yield anything.               *)
ReadSlot ==
  /\ consPc = "read"
  /\ popped' \in IF head < consHb THEN {buffer[Slot(head)]}
                                  ELSE Item \cup {MovedFrom}
  /\ buffer' = [buffer EXCEPT ![Slot(head)] = MovedFrom]
  /\ consPc' = "release"
  /\ UNCHANGED <<head, tail, consSeen, consHb, consSize, prodVars>>

ReleaseHead ==
  /\ consPc = "release"
  /\ head' = head + 1
  /\ consPc' = "idle"
  /\ UNCHANGED <<buffer, tail, consSeen, consHb, popped, consSize, prodVars>>

(* size() called by the consumer.                                          *)
ConsumerSize(seen) ==
  /\ consPc = "idle"
  /\ consSeen' = seen
  /\ consSize' = SizeOf(seen, head)
  /\ UNCHANGED <<buffer, head, tail, consPc, consHb, popped, prodVars>>

Producer ==
  \/ \E seen \in prodSeen .. head :
       \/ EmplaceFull(seen) \/ ProducerSize(seen)
       \/ \E item \in Item : EmplaceStart(item, seen)
  \/ WriteSlot
  \/ PublishTail

Consumer ==
  \/ \E seen \in consSeen .. tail :
       PopEmpty(seen) \/ PopStart(seen) \/ ConsumerSize(seen)
  \/ ReadSlot
  \/ ReleaseHead

Next == Producer \/ Consumer

Spec == Init /\ [][Next]_vars
-----------------------------------------------------------------------------
(***************************************************************************)
(* Properties.                                                             *)
(***************************************************************************)

(* Every variable has its type; what emplace() is pushing and what pop()   *)
(* has moved out of a slot are items, never the remains of a move.         *)
TypeOK ==
  /\ buffer \in [Slots -> Item \cup {MovedFrom}]
  /\ head \in Nat /\ tail \in 0 .. MaxItems
  /\ prodPc \in {"idle", "write", "publish"}
  /\ prodItem \in Item \cup {MovedFrom}
  /\ prodPc # "idle" => prodItem \in Item
  /\ prodSeen \in Nat /\ prodHb \in Nat
  /\ pushed \in BOOLEAN
  /\ prodSize \in Nat \cup {-1}
  /\ consPc \in {"idle", "read", "release"}
  /\ consSeen \in Nat /\ consHb \in Nat
  /\ popped \in Item \cup {MovedFrom}
  /\ consPc = "release" => popped \in Item
  /\ consSize \in Nat \cup {-1}

(* The counters never pass each other and never drift apart by more than   *)
(* the ring; what a thread knows of the other is never ahead of it.        *)
CountersInStep ==
  /\ head <= tail /\ tail <= head + Capacity
  /\ prodHb <= prodSeen /\ prodSeen <= head
  /\ consHb <= consSeen /\ consSeen <= tail

(* No data race on a slot: when the producer writes, the consumer's last   *)
(* read of that slot happened before; when the consumer reads, so did the  *)
(* producer's write.  A relaxed load in the place of either acquire load   *)
(* breaks it, also when the counters' values are right.                    *)
NoRace ==
  /\ prodPc = "write" => tail < prodHb + Capacity
  /\ consPc = "read" => head < consHb

(* size() never reports more than the ring holds.  The producer never      *)
(* takes the queue for emptier than it is, the consumer never for fuller:  *)
(* both may act on the answer.  The comparison in size() fails when tail_  *)
(* has wrapped and head_ has not, so this is about the time before.        *)
SizeIsSafe ==
  tail < WordMod =>
    /\ prodSize # -1 => tail - head <= prodSize /\ prodSize <= Capacity
    /\ consSize # -1 => consSize <= tail - head

(* The items inside, the one being moved out not included.                 *)
Inside ==
  LET first == IF consPc = "release" THEN head + 1 ELSE head
  IN  [i \in 1 .. tail - first |-> buffer[Slot(first + i - 1)]]

Promise == INSTANCE BoundedFifo WITH queue <- Inside, Nothing <- MovedFrom

(* Items are handed out in the order they were pushed, each once and       *)
(* unchanged, whatever the two threads have seen of each other and however *)
(* often the counters have wrapped.                                        *)
DeliversInOrder == Promise!Spec
=============================================================================
