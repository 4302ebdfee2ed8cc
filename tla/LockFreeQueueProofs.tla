------------------------- MODULE LockFreeQueueProofs -------------------------
(***************************************************************************)
(* Proofs about the ring buffer, for every capacity, word size and number  *)
(* of items.                                                               *)
(***************************************************************************)
EXTENDS LockFreeQueue, TLAPS

(***************************************************************************)
(* Facts about unsigned words and ring indices: what remains true of two   *)
(* counters when only their values modulo m are known.                     *)
(***************************************************************************)
(* A number is a multiple of m and its remainder, which is less than m.    *)
LEMMA Division ==
  ASSUME NEW m \in Nat \ {0}, NEW n \in Nat
  PROVE  /\ n % m \in 0 .. m - 1
         /\ n \div m \in Nat
         /\ n = m * (n \div m) + (n % m)
  BY SMT

LEMMA Quotient ==
  ASSUME NEW m \in Nat \ {0}, NEW n \in Nat
  PROVE  \E q \in Nat, r \in 0 .. m - 1 : n = (m * q) + r /\ r = n % m
  BY Division

(* There is one way only to write it so.                                   *)
LEMMA Remainder ==
  ASSUME NEW m \in Nat \ {0}, NEW n \in Nat, NEW q \in Nat, NEW r \in 0 .. m - 1,
         n = m * q + r
  PROVE  n % m = r
  BY SMT

LEMMA NextMultiple ==
  ASSUME NEW m \in Nat \ {0}, NEW a \in Nat, NEW b \in Nat, a > b
  PROVE  m * a >= m * b + m
  BY SMT

(* The difference of two words is the difference of the counters, wherever *)
(* they have wrapped, as long as that difference is less than m.           *)
LEMMA WordDifference ==
  ASSUME NEW m \in Nat \ {0}, NEW t \in Nat, NEW h \in Nat, h <= t, t - h < m
  PROVE  ((t % m) + m - (h % m)) % m = t - h
<1> DEFINE qt == t \div m
           qh == h \div m
           rt == t % m
           rh == h % m
<1>1. rt \in 0 .. m - 1 /\ qt \in Nat /\ t = m * qt + rt
  BY Division
<1>2. rh \in 0 .. m - 1 /\ qh \in Nat /\ h = m * qh + rh
  BY Division
<1> HIDE DEF qt, qh, rt, rh
<1>3. CASE qt = qh
  <2>1. rt + m - rh = m * 1 + (t - h) /\ t - h \in 0 .. m - 1 /\ rt + m - rh \in Nat
    BY <1>1, <1>2, <1>3
  <2>2. (rt + m - rh) % m = t - h
    BY <2>1, Remainder
  <2>3. QED
    BY <2>2 DEF rt, rh
<1>4. CASE qt = qh + 1
  <2>1. m * qt = m * qh + m
    BY <1>1, <1>2, <1>4
  <2>2. rt + m - rh = t - h /\ t - h \in 0 .. m - 1
    BY <1>1, <1>2, <2>1
  <2>3. (rt + m - rh) % m = t - h
    BY <2>2, SMT
  <2>4. QED
    BY <2>3 DEF rt, rh
<1>5. CASE qt > qh + 1
  <2>1. m * qt >= m * (qh + 1) + m
    BY <1>1, <1>2, <1>5, NextMultiple
  <2>2. m * (qh + 1) = m * qh + m
    BY <1>2
  <2>3. QED
    BY <1>1, <1>2, <2>1, <2>2
<1>6. CASE qt < qh
  <2>1. m * qh >= m * qt + m
    BY <1>1, <1>2, <1>6, NextMultiple
  <2>2. QED
    BY <1>1, <1>2, <2>1
<1>7. QED
  BY <1>1, <1>2, <1>3, <1>4, <1>5, <1>6

LEMMA Sums ==
  ASSUME NEW c \in Nat, NEW k \in Nat, NEW a \in Nat, NEW b \in Nat, NEW x \in Nat
  PROVE  ((c * k) * a) + ((c * b) + x) = (c * ((k * a) + b)) + x
  BY SMT

(* A ring whose size divides the number of words is not disturbed by the   *)
(* counter's wrapping.                                                     *)
LEMMA NestedRemainder ==
  ASSUME NEW c \in Nat \ {0}, NEW k \in Nat \ {0}, NEW m \in Nat \ {0},
         m = c * k, NEW n \in Nat
  PROVE  (n % m) % c = n % c
<1>1. PICK q \in Nat, r \in 0 .. m - 1 : n = (m * q) + r /\ r = n % m
  BY Quotient, Zenon
<1>2. r \in Nat
  OBVIOUS
<1>3. PICK p \in Nat, x \in 0 .. c - 1 : r = (c * p) + x /\ x = r % c
  BY <1>2, Quotient, Zenon
<1>4. n = (c * ((k * q) + p)) + x
  <2>1. x \in Nat
    OBVIOUS
  <2>2. n = ((c * k) * q) + ((c * p) + x)
    BY <1>1, <1>3, Zenon
  <2>3. ((c * k) * q) + ((c * p) + x) = (c * ((k * q) + p)) + x
    BY <2>1, Sums
  <2>4. QED
    BY <2>2, <2>3, Zenon
<1>5. (k * q) + p \in Nat
  BY SMT
<1>6. n % c = x
  BY <1>3, <1>4, <1>5, Remainder
<1>7. QED
  BY <1>1, <1>3, <1>6

(* Fewer than c steps apart, two counters point at different slots.        *)
LEMMA SlotsApart ==
  ASSUME NEW c \in Nat \ {0}, NEW i \in Nat, NEW j \in Nat, i < j, j < i + c
  PROVE  i % c # j % c
<1>1. i % c \in 0 .. c - 1 /\ i \div c \in Nat /\ i = c * (i \div c) + (i % c)
  BY Division
<1>2. j % c \in 0 .. c - 1 /\ j \div c \in Nat /\ j = c * (j \div c) + (j % c)
  BY Division
<1>3. SUFFICES ASSUME i % c = j % c PROVE FALSE
  OBVIOUS
<1>4. CASE j \div c > i \div c
  BY <1>1, <1>2, <1>3, <1>4, NextMultiple
<1>5. CASE j \div c < i \div c
  BY <1>1, <1>2, <1>3, <1>5, NextMultiple
<1>6. CASE j \div c = i \div c
  BY <1>1, <1>2, <1>3, <1>6
<1>7. QED
  BY <1>1, <1>2, <1>4, <1>5, <1>6

-----------------------------------------------------------------------------

(* The inductive invariant.  What the threads are ordered after bounds the *)
(* counters, and each slot between head and tail holds its item, but for   *)
(* the one being moved out.                                                *)
OrderedEnough ==
  /\ tail <= prodHb + Capacity /\ head <= consHb
  /\ prodPc # "idle" => tail < prodHb + Capacity /\ tail < MaxItems
  /\ consPc # "idle" => head < consHb

SlotsFilled ==
  /\ \A k \in head .. tail - 1 :
       (k = head /\ consPc = "release") \/ buffer[Slot(k)] \in Item
  /\ prodPc = "publish" => buffer[Slot(tail)] = prodItem

IInv == TypeOK /\ CountersInStep /\ OrderedEnough /\ SlotsFilled

-----------------------------------------------------------------------------
(* What the tests on words say of the counters.                            *)
LEMMA ConstantFacts ==
  /\ Capacity \in Nat \ {0} /\ WordMod \in Nat \ {0} /\ Capacity < WordMod
  /\ \E m \in Nat \ {0} : WordMod = Capacity * m
<1>1. PICK m \in 2 .. WordMod : WordMod = Capacity * m
  BY QueueAssumption
<1>2. Capacity \in Nat \ {0} /\ WordMod \in Nat
  BY QueueAssumption
<1>3. m \in Nat \ {0} /\ m > 1
  BY <1>1, <1>2
<1>4. Capacity * m >= Capacity * 1 + Capacity
  BY <1>2, <1>3, NextMultiple
<1>5. Capacity < WordMod
  BY <1>1, <1>2, <1>4
<1>6. QED
  BY <1>1, <1>2, <1>3, <1>5

LEMMA SlotFacts ==
  /\ \A n \in Nat : Slot(n) \in Slots /\ Slot(n) = n % Capacity
  /\ \A i, j \in Nat : i < j /\ j < i + Capacity => Slot(i) # Slot(j)
<1>1. PICK m \in Nat \ {0} : WordMod = Capacity * m
  BY ConstantFacts
<1>2. ASSUME NEW n \in Nat
      PROVE  Slot(n) = n % Capacity
  BY <1>1, ConstantFacts, NestedRemainder DEF Slot, Word
<1>3. ASSUME NEW n \in Nat
      PROVE  n % Capacity \in Slots
  BY ConstantFacts, Division DEF Slots
<1>4. ASSUME NEW i \in Nat, NEW j \in Nat, i < j, j < i + Capacity
      PROVE  i % Capacity # j % Capacity
  BY <1>4, ConstantFacts, SlotsApart
<1>5. QED
  BY <1>2, <1>3, <1>4

LEMMA FullMeans ==
  ASSUME NEW t \in Nat, NEW h \in Nat, h <= t, t <= h + Capacity
  PROVE  Full(t, h) <=> t = h + Capacity
<1>1. (Word(t) + WordMod - Word(h)) % WordMod = t - h
  <2>1. WordMod \in Nat \ {0} /\ t - h < WordMod
    BY ConstantFacts
  <2>2. QED
    BY <2>1, WordDifference DEF Word
<1>2. QED
  BY <1>1, ConstantFacts DEF Full

LEMMA EmptyMeans ==
  ASSUME NEW t \in Nat, NEW h \in Nat, h <= t, t <= h + Capacity
  PROVE  Empty(h, t) <=> h = t
<1>1. (Word(t) + WordMod - Word(h)) % WordMod = t - h
  <2>1. WordMod \in Nat \ {0} /\ t - h < WordMod
    BY ConstantFacts
  <2>2. QED
    BY <2>1, WordDifference DEF Word
<1>2. ASSUME Word(h) = Word(t) PROVE h = t
  <2>1. Word(t) + WordMod - Word(h) = WordMod * 1 + 0
    BY <1>2, ConstantFacts, Division DEF Word
  <2>2. (Word(t) + WordMod - Word(h)) % WordMod = 0
    BY <2>1, ConstantFacts, Remainder
  <2>3. QED
    BY <1>1, <2>2
<1>3. QED
  BY <1>2 DEF Empty

-----------------------------------------------------------------------------
LEMMA InitIInv == Init => IInv
<1> SUFFICES ASSUME Init PROVE IInv
  OBVIOUS
<1>1. TypeOK
  <2>1. /\ buffer \in [Slots -> Item \cup {MovedFrom}]
        /\ popped \in Item \cup {MovedFrom} /\ prodItem \in Item \cup {MovedFrom}
    BY DEF Init
  <2>2. tail \in 0 .. MaxItems
    BY QueueAssumption DEF Init
  <2>3. QED
    BY <2>1, <2>2 DEF Init, TypeOK
<1>2. CountersInStep /\ OrderedEnough
  BY ConstantFacts DEF Init, CountersInStep, OrderedEnough
<1>3. SlotsFilled
  BY DEF Init, SlotsFilled
<1>4. QED
  BY <1>1, <1>2, <1>3 DEF IInv

(* The producer's test, on a stale head_, leaves it a slot it is ordered   *)
(* after.                                                                  *)
LEMMA EmplaceStartKeepsIInv ==
  ASSUME IInv, NEW item \in Item, NEW seen \in prodSeen .. head,
         EmplaceStart(item, seen)
  PROVE  IInv'
<1> USE DEF IInv, TypeOK, CountersInStep, OrderedEnough, SlotsFilled, Slots
<1>1. /\ prodPc = "idle" /\ ~Full(tail, seen) /\ tail < MaxItems /\ prodSeen' = seen
      /\ prodHb' = Acquired(prodHb, seen) /\ prodItem' = item /\ prodPc' = "write"
      /\ prodSize' = -1
      /\ UNCHANGED <<buffer, head, tail, pushed, consPc, consSeen, consHb, popped,
                     consSize>>
  BY DEF EmplaceStart, consVars
<1>2. seen \in Nat /\ seen <= head /\ prodHb <= seen
  OBVIOUS
<1>3. seen <= tail /\ tail <= seen + Capacity
  BY <1>2, ConstantFacts
<1>4. tail < seen + Capacity
  BY <1>1, <1>2, <1>3, FullMeans, ConstantFacts
<1>5. prodHb' = seen
  BY <1>1, <1>2 DEF Acquired
<1>6. TypeOK'
  BY <1>1, <1>2, <1>5
<1>7. CountersInStep' /\ OrderedEnough'
  BY <1>1, <1>2, <1>4, <1>5, ConstantFacts
<1>8. SlotsFilled'
  BY <1>1 DEF Slot
<1>9. QED
  BY <1>6, <1>7, <1>8

LEMMA EmplaceFullKeepsIInv ==
  ASSUME IInv, NEW seen \in prodSeen .. head, EmplaceFull(seen)
  PROVE  IInv'
<1> USE DEF IInv, TypeOK, CountersInStep, OrderedEnough, SlotsFilled, Slots
<1>1. /\ prodSeen' = seen /\ prodHb' = Acquired(prodHb, seen)
      /\ pushed' = FALSE /\ prodSize' = -1
      /\ UNCHANGED <<buffer, head, tail, prodPc, prodItem, consPc, consSeen, consHb,
                     popped, consSize>>
  BY DEF EmplaceFull, consVars
<1>2. seen \in Nat /\ seen <= head /\ prodHb <= seen
  OBVIOUS
<1>3. prodHb' = seen
  BY <1>1, <1>2 DEF Acquired
<1>4. TypeOK'
  BY <1>1, <1>2, <1>3
<1>5. CountersInStep' /\ OrderedEnough'
  BY <1>1, <1>2, <1>3, ConstantFacts
<1>6. SlotsFilled'
  BY <1>1 DEF Slot
<1>7. QED
  BY <1>4, <1>5, <1>6

LEMMA PopKeepsIInv ==
  ASSUME IInv, NEW seen \in consSeen .. tail, PopEmpty(seen) \/ PopStart(seen)
  PROVE  IInv'
<1> USE DEF IInv, TypeOK, CountersInStep, OrderedEnough, SlotsFilled, Slots
<1>1. /\ consPc = "idle" /\ consSeen' = seen /\ consHb' = Acquired(consHb, seen)
      /\ consSize' = -1
      /\ UNCHANGED <<buffer, head, tail, prodPc, prodItem, prodSeen, prodHb, pushed,
                     prodSize>>
      /\ \/ popped' = MovedFrom /\ consPc' = "idle"
         \/ ~Empty(head, seen) /\ consPc' = "read" /\ popped' = popped
  BY DEF PopEmpty, PopStart, prodVars
<1>2. seen \in Nat /\ seen <= tail /\ consHb <= seen
  OBVIOUS
<1>3. consHb' = seen
  BY <1>1, <1>2 DEF Acquired
<1>4. head <= seen /\ seen <= head + Capacity
  BY <1>2, ConstantFacts
<1>5. ~Empty(head, seen) => head < seen
  BY <1>2, <1>4, EmptyMeans
<1>6. TypeOK'
  BY <1>1, <1>2, <1>3
<1>7. CountersInStep' /\ OrderedEnough'
  BY <1>1, <1>2, <1>3, <1>4, <1>5
<1>8. SlotsFilled'
  BY <1>1 DEF Slot
<1>9. QED
  BY <1>6, <1>7, <1>8

LEMMA SizeKeepsIInv ==
  ASSUME IInv,
         \/ \E seen \in prodSeen .. head : ProducerSize(seen)
         \/ \E seen \in consSeen .. tail : ConsumerSize(seen)
  PROVE  IInv'
<1> USE DEF IInv, TypeOK, CountersInStep, OrderedEnough, SlotsFilled, Slots
<1>1. \A t, h \in Nat : SizeOf(t, h) \in Nat
  BY ConstantFacts, Division DEF SizeOf, Word
<1>2. ASSUME NEW seen \in prodSeen .. head, ProducerSize(seen)
      PROVE  IInv'
  <2>1. /\ prodSeen' = seen /\ prodSize' = SizeOf(tail, seen)
        /\ UNCHANGED <<buffer, head, tail, prodPc, prodItem, prodHb, pushed, consPc,
                       consSeen, consHb, popped, consSize>>
    BY <1>2 DEF ProducerSize, consVars
  <2>2. seen \in Nat /\ seen <= head /\ prodHb <= seen /\ SizeOf(tail, seen) \in Nat
    <3>1. seen \in Nat /\ seen <= head /\ prodHb <= seen /\ tail \in Nat
      OBVIOUS
    <3>2. QED
      BY <1>1, <3>1
  <2>3. TypeOK'
    BY <2>1, <2>2
  <2>4. CountersInStep' /\ OrderedEnough' /\ SlotsFilled'
    BY <2>1, <2>2 DEF Slot
  <2>5. QED
    BY <2>3, <2>4
<1>3. ASSUME NEW seen \in consSeen .. tail, ConsumerSize(seen)
      PROVE  IInv'
  <2>1. /\ consSeen' = seen /\ consSize' = SizeOf(seen, head)
        /\ UNCHANGED <<buffer, head, tail, consPc, consHb, popped, prodPc, prodItem,
                       prodSeen, prodHb, pushed, prodSize>>
    BY <1>3 DEF ConsumerSize, prodVars
  <2>2. seen \in Nat /\ seen <= tail /\ consHb <= seen /\ SizeOf(seen, head) \in Nat
    <3>1. seen \in Nat /\ seen <= tail /\ consHb <= seen /\ head \in Nat
      OBVIOUS
    <3>2. QED
      BY <1>1, <3>1
  <2>3. TypeOK'
    BY <2>1, <2>2
  <2>4. CountersInStep' /\ OrderedEnough' /\ SlotsFilled'
    BY <2>1, <2>2 DEF Slot
  <2>5. QED
    BY <2>3, <2>4
<1>4. QED
  BY <1>2, <1>3

(* The slot written is none of those between head and tail.                *)
LEMMA WriteSlotKeepsIInv ==
  ASSUME IInv, WriteSlot
  PROVE  IInv' /\ \A k \in head .. tail - 1 : buffer'[Slot(k)] = buffer[Slot(k)]
<1> USE DEF IInv, TypeOK, CountersInStep, OrderedEnough, SlotsFilled
<1>1. /\ prodPc = "write" /\ prodPc' = "publish"
      /\ buffer' = [buffer EXCEPT ![Slot(tail)] = prodItem]
      /\ UNCHANGED <<head, tail, prodItem, prodSeen, prodHb, pushed, prodSize, consPc,
                     consSeen, consHb, popped, consSize>>
  BY DEF WriteSlot, consVars
<1>2. tail < head + Capacity /\ tail \in Nat /\ head \in Nat /\ prodItem \in Item
  BY <1>1, ConstantFacts
<1>3. Slot(tail) \in Slots
  BY <1>2, SlotFacts
<1>4. ASSUME NEW k \in head .. tail - 1
      PROVE  buffer'[Slot(k)] = buffer[Slot(k)]
  <2>1. k \in Nat /\ k < tail /\ tail < k + Capacity
    BY <1>2, ConstantFacts
  <2>2. Slot(k) \in Slots /\ Slot(k) # Slot(tail)
    BY <1>2, <2>1, SlotFacts
  <2>3. QED
    BY <1>1, <2>2
<1>5. TypeOK'
  BY <1>1, <1>2, <1>3
<1>6. CountersInStep' /\ OrderedEnough'
  BY <1>1
<1>7. SlotsFilled'
  <2>1. buffer'[Slot(tail)] = prodItem
    BY <1>1, <1>3
  <2>2. QED
    BY <1>1, <1>4, <2>1 DEF Slot
<1>8. QED
  BY <1>4, <1>5, <1>6, <1>7

LEMMA PublishTailKeepsIInv ==
  ASSUME IInv, PublishTail
  PROVE  IInv'
<1> USE DEF IInv, TypeOK, CountersInStep, OrderedEnough, SlotsFilled
<1>1. /\ prodPc = "publish" /\ prodPc' = "idle" /\ tail' = tail + 1
      /\ pushed' = TRUE /\ prodItem' = MovedFrom
      /\ UNCHANGED <<buffer, head, prodSeen, prodHb, prodSize, consPc, consSeen,
                     consHb, popped, consSize>>
  BY DEF PublishTail, consVars
<1>2. prodItem \in Item /\ buffer[Slot(tail)] = prodItem /\ tail \in Nat
  BY <1>1
<1>3. tail' \in 0 .. MaxItems
  BY <1>1, QueueAssumption
<1>4. TypeOK'
  BY <1>1, <1>3
<1>5. CountersInStep' /\ OrderedEnough'
  BY <1>1, ConstantFacts
<1>6. SlotsFilled'
  BY <1>1, <1>2 DEF Slot
<1>7. QED
  BY <1>4, <1>5, <1>6

(* The item moved out is the oldest one, and its slot is the only one that *)
(* changes.                                                                *)
LEMMA ReadSlotKeepsIInv ==
  ASSUME IInv, ReadSlot
  PROVE  /\ IInv'
         /\ head < tail /\ popped' = buffer[Slot(head)]
         /\ \A k \in head + 1 .. tail - 1 : buffer'[Slot(k)] = buffer[Slot(k)]
<1> USE DEF IInv, TypeOK, CountersInStep, OrderedEnough, SlotsFilled
<1>1. /\ consPc = "read" /\ consPc' = "release"
      /\ popped' \in IF head < consHb THEN {buffer[Slot(head)]} ELSE Item \cup {MovedFrom}
      /\ buffer' = [buffer EXCEPT ![Slot(head)] = MovedFrom]
      /\ UNCHANGED <<head, tail, consSeen, consHb, consSize, prodPc, prodItem,
                     prodSeen, prodHb, pushed, prodSize>>
  BY DEF ReadSlot, prodVars
<1>2. head \in Nat /\ tail \in Nat /\ head < consHb /\ head < tail
      /\ tail <= head + Capacity /\ Slot(head) \in Slots
  BY <1>1, SlotFacts
<1>3. popped' = buffer[Slot(head)]
  BY <1>1, <1>2
<1>4. head \in head .. tail - 1
  BY <1>2
<1>5. buffer[Slot(head)] \in Item
  BY <1>1, <1>4
<1>6. ASSUME NEW k \in Nat, head < k, k < head + Capacity
      PROVE  buffer'[Slot(k)] = buffer[Slot(k)]
  <2>1. Slot(k) \in Slots /\ Slot(k) # Slot(head)
    BY <1>2, <1>6, SlotFacts
  <2>2. QED
    BY <1>1, <2>1
<1>7. \A k \in head + 1 .. tail - 1 : buffer'[Slot(k)] = buffer[Slot(k)]
  BY <1>2, <1>6, ConstantFacts
<1>8. TypeOK'
  BY <1>1, <1>2, <1>3, <1>5
<1>9. CountersInStep' /\ OrderedEnough'
  BY <1>1, <1>2
<1>10. SlotsFilled'
  <2>1. ASSUME NEW k \in head .. tail - 1
        PROVE  k = head \/ buffer'[Slot(k)] \in Item
    <3>1. CASE k # head
      <4>1. k \in head + 1 .. tail - 1 /\ buffer[Slot(k)] \in Item
        BY <1>1, <1>2, <3>1
      <4>2. QED
        BY <1>7, <4>1
    <3>2. QED
      BY <3>1
  <2>2. ASSUME prodPc = "publish"
        PROVE  buffer'[Slot(tail)] = buffer[Slot(tail)]
    BY <1>2, <1>6, <2>2, ConstantFacts
  <2>3. QED
    BY <1>1, <2>1, <2>2 DEF Slot
<1>11. QED
  BY <1>2, <1>3, <1>7, <1>8, <1>9, <1>10

LEMMA ReleaseHeadKeepsIInv ==
  ASSUME IInv, ReleaseHead
  PROVE  IInv'
<1> USE DEF IInv, TypeOK, CountersInStep, OrderedEnough, SlotsFilled
<1>1. /\ consPc = "release" /\ consPc' = "idle" /\ head' = head + 1
      /\ UNCHANGED <<buffer, tail, consSeen, consHb, popped, consSize, prodPc,
                     prodItem, prodSeen, prodHb, pushed, prodSize>>
  BY DEF ReleaseHead, prodVars
<1>2. TypeOK'
  BY <1>1
<1>3. CountersInStep' /\ OrderedEnough'
  BY <1>1, ConstantFacts
<1>4. SlotsFilled'
  BY <1>1 DEF Slot
<1>5. QED
  BY <1>2, <1>3, <1>4

LEMMA NextKeepsIInv ==
  ASSUME IInv, [Next]_vars
  PROVE  IInv'
<1>1. CASE UNCHANGED vars
  BY <1>1 DEF vars, prodVars, consVars, IInv, TypeOK, CountersInStep, OrderedEnough,
     SlotsFilled, Slot, Slots
<1>2. CASE Producer
  BY <1>2, EmplaceFullKeepsIInv, EmplaceStartKeepsIInv, SizeKeepsIInv,
     WriteSlotKeepsIInv, PublishTailKeepsIInv DEF Producer
<1>3. CASE Consumer
  BY <1>3, PopKeepsIInv, SizeKeepsIInv, ReadSlotKeepsIInv, ReleaseHeadKeepsIInv
     DEF Consumer
<1>4. QED
  BY <1>1, <1>2, <1>3 DEF Next

LEMMA IInvInvariant == Spec => []IInv
  BY InitIInv, NextKeepsIInv, PTL DEF Spec

(* Every variable of the ring buffer keeps its type, and what pop() hands  *)
(* out is an item and never the remains of a move.                         *)
THEOREM TypeCorrect == Spec => []TypeOK
<1>1. IInv => TypeOK
  BY DEF IInv
<1>2. QED
  BY <1>1, IInvInvariant, PTL

(* The counters of the ring buffer stay in step and what a thread has read *)
(* of the other's counter never runs ahead of it.                          *)
THEOREM CountersStayInStep == Spec => []CountersInStep
<1>1. IInv => CountersInStep
  BY DEF IInv
<1>2. QED
  BY <1>1, IInvInvariant, PTL

(* The two acquire loads and the two release stores of emplace() and pop() *)
(* order every access to a slot: there is no data race, however stale the  *)
(* counters the threads read are.                                          *)
THEOREM RaceFree == Spec => []NoRace
<1>1. IInv => NoRace
  BY DEF IInv, OrderedEnough, NoRace
<1>2. QED
  BY <1>1, IInvInvariant, PTL

-----------------------------------------------------------------------------
(***************************************************************************)
(* size().  While a thread is inside emplace() or pop() it has no answer   *)
(* of size() to rely on.                                                   *)
(***************************************************************************)
SizeInv ==
  /\ SizeIsSafe
  /\ prodPc # "idle" => prodSize = -1
  /\ consPc # "idle" => consSize = -1

LEMMA SmallWord ==
  ASSUME NEW n \in Nat, n < WordMod
  PROVE  Word(n) = n
<1>1. n = WordMod * 0 + n /\ n \in 0 .. WordMod - 1
  BY ConstantFacts
<1>2. QED
  BY <1>1, ConstantFacts, Remainder DEF Word

LEMMA NextKeepsSizeInv ==
  ASSUME IInv, SizeInv, [Next]_vars
  PROVE  SizeInv'
<1> USE DEF SizeInv, SizeIsSafe
<1> USE ConstantFacts
<1>1. head \in Nat /\ tail \in Nat /\ prodSize \in Nat \cup {-1} /\ consSize \in Nat \cup {-1}
  BY DEF IInv, TypeOK
<1>2. CASE UNCHANGED vars
  BY <1>2 DEF vars, prodVars, consVars
<1>3. ASSUME NEW seen \in prodSeen .. head,
             EmplaceFull(seen) \/ \E item \in Item : EmplaceStart(item, seen)
      PROVE  SizeInv'
  BY <1>3 DEF EmplaceFull, EmplaceStart, consVars
<1>4. CASE WriteSlot
  BY <1>4 DEF WriteSlot, consVars
<1>5. CASE PublishTail
  BY <1>1, <1>5 DEF PublishTail, consVars
<1>6. ASSUME NEW seen \in prodSeen .. head, ProducerSize(seen)
      PROVE  SizeInv'
  <2>1. /\ prodPc = "idle" /\ prodSize' = SizeOf(tail, seen)
        /\ UNCHANGED <<head, tail, prodPc, consPc, consSize>>
    BY <1>6 DEF ProducerSize, consVars
  <2>2. seen \in Nat /\ seen <= head /\ head <= tail /\ tail <= seen + Capacity
    BY DEF IInv, TypeOK, CountersInStep, OrderedEnough
  <2>3. ASSUME tail < WordMod PROVE prodSize' = tail - seen
    BY <1>1, <2>1, <2>2, <2>3, SmallWord DEF SizeOf
  <2>4. QED
    BY <1>1, <2>1, <2>2, <2>3
<1>7. ASSUME NEW seen \in consSeen .. tail, PopEmpty(seen) \/ PopStart(seen)
      PROVE  SizeInv'
  BY <1>7 DEF PopEmpty, PopStart, prodVars
<1>8. CASE ReadSlot
  BY <1>8 DEF ReadSlot, prodVars
<1>9. CASE ReleaseHead
  BY <1>1, <1>9 DEF ReleaseHead, prodVars
<1>10. ASSUME NEW seen \in consSeen .. tail, ConsumerSize(seen)
       PROVE  SizeInv'
  <2>1. /\ consPc = "idle" /\ consSize' = SizeOf(seen, head)
        /\ UNCHANGED <<head, tail, consPc, prodPc, prodSize>>
    BY <1>10 DEF ConsumerSize, prodVars
  <2>2. seen \in Nat /\ seen <= tail /\ head <= seen
    BY DEF IInv, TypeOK, CountersInStep, OrderedEnough
  <2>3. ASSUME tail < WordMod PROVE consSize' = seen - head
    BY <1>1, <2>1, <2>2, <2>3, SmallWord DEF SizeOf
  <2>4. QED
    BY <1>1, <2>1, <2>2, <2>3
<1>11. QED
  BY <1>2, <1>3, <1>4, <1>5, <1>6, <1>7, <1>8, <1>9, <1>10 DEF Next, Producer, Consumer

(* Until the counters wrap, size() tells each of the two threads what it   *)
(* may act on: room for the producer, items for the consumer.              *)
THEOREM SizeNeverMisleads == Spec => []SizeIsSafe
<1>1. Init => IInv /\ SizeInv
  BY InitIInv DEF Init, SizeInv, SizeIsSafe
<1>2. IInv /\ SizeInv /\ [Next]_vars => (IInv /\ SizeInv)'
  BY NextKeepsIInv, NextKeepsSizeInv
<1>3. IInv /\ SizeInv => SizeIsSafe
  BY DEF SizeInv
<1>4. QED
  BY <1>1, <1>2, <1>3, PTL DEF Spec

-----------------------------------------------------------------------------
(***************************************************************************)
(* The ring buffer implements the bounded queue.                           *)
(***************************************************************************)
First == IF consPc = "release" THEN head + 1 ELSE head

LEMMA InsideFacts ==
  ASSUME IInv
  PROVE  /\ First \in Nat /\ tail \in Nat /\ First <= tail /\ tail <= First + Capacity
         /\ Inside = [i \in 1 .. tail - First |-> buffer[Slot(First + i - 1)]]
         /\ Inside \in Seq(Item) /\ Len(Inside) = tail - First
         /\ prodPc # "idle" => tail < First + Capacity
<1>1. /\ First \in Nat /\ tail \in Nat /\ First <= tail /\ tail <= First + Capacity
      /\ prodPc # "idle" => tail < First + Capacity
  BY ConstantFacts DEF IInv, TypeOK, CountersInStep, OrderedEnough, First
<1>2. Inside = [i \in 1 .. tail - First |-> buffer[Slot(First + i - 1)]]
  BY DEF Inside, First
<1>3. ASSUME NEW i \in 1 .. tail - First
      PROVE  buffer[Slot(First + i - 1)] \in Item
  <2>1. /\ First + i - 1 \in head .. tail - 1
        /\ ~(First + i - 1 = head /\ consPc = "release")
    BY <1>1 DEF First, IInv, TypeOK
  <2>2. QED
    BY <2>1 DEF IInv, SlotsFilled
<1>4. tail - First \in Nat
  BY <1>1
<1>5. QED
  BY <1>1, <1>2, <1>3, <1>4

(* A step that moves neither end and keeps the slots between them.         *)
LEMMA InsideUnchanged ==
  ASSUME IInv, IInv', First' = First, tail' = tail,
         \A k \in First .. tail - 1 : buffer'[Slot(k)] = buffer[Slot(k)]
  PROVE  Inside' = Inside
<1>1. ASSUME NEW i \in 1 .. tail - First
      PROVE  buffer'[Slot(First + i - 1)] = buffer[Slot(First + i - 1)]
  <2>1. First + i - 1 \in First .. tail - 1
    BY InsideFacts
  <2>2. QED
    BY <2>1
<1>2. Inside = [i \in 1 .. tail - First |-> buffer[Slot(First + i - 1)]]
  BY InsideFacts
<1>3. Inside' = [i \in 1 .. tail - First |-> buffer'[Slot(First + i - 1)]]
  BY DEF Inside, First, Slot, Word
<1>4. QED
  BY <1>1, <1>2, <1>3

LEMMA ProducerImplements ==
  ASSUME IInv, IInv', Producer
  PROVE  [Promise!Next]_(Promise!vars)
<1> USE DEF Promise!Next, Promise!vars, Promise!Put, Promise!RefusePut
<1>1. ASSUME NEW seen \in prodSeen .. head, EmplaceFull(seen)
      PROVE  [Promise!Next]_(Promise!vars)
  <2>1. pushed' = FALSE /\ UNCHANGED <<buffer, head, tail, consPc, popped>>
    BY <1>1 DEF EmplaceFull, consVars
  <2>2. Inside' = Inside
    BY <2>1, InsideUnchanged DEF First
  <2>3. QED
    BY <2>1, <2>2
<1>2. ASSUME NEW seen \in prodSeen .. head,
             ProducerSize(seen) \/ \E item \in Item : EmplaceStart(item, seen)
      PROVE  [Promise!Next]_(Promise!vars)
  <2>1. UNCHANGED <<buffer, head, tail, consPc, popped, pushed>>
    BY <1>2 DEF ProducerSize, EmplaceStart, consVars
  <2>2. Inside' = Inside
    BY <2>1, InsideUnchanged DEF First
  <2>3. QED
    BY <2>1, <2>2
<1>3. CASE WriteSlot
  <2>1. UNCHANGED <<head, tail, consPc, popped, pushed>>
    BY <1>3 DEF WriteSlot, consVars
  <2>2. \A k \in head .. tail - 1 : buffer'[Slot(k)] = buffer[Slot(k)]
    BY <1>3, WriteSlotKeepsIInv
  <2>3. \A k \in First .. tail - 1 : k \in head .. tail - 1
    BY DEF First, IInv, TypeOK
  <2>4. Inside' = Inside
    BY <2>1, <2>2, <2>3, InsideUnchanged DEF First
  <2>5. QED
    BY <2>1, <2>4
<1>4. CASE PublishTail
  <2>1. /\ prodPc = "publish" /\ tail' = tail + 1 /\ pushed' = TRUE
        /\ UNCHANGED <<buffer, head, consPc, popped>>
    BY <1>4 DEF PublishTail, consVars
  <2>2. prodItem \in Item /\ buffer[Slot(tail)] = prodItem
    BY <2>1 DEF IInv, TypeOK, SlotsFilled
  <2>3. /\ First \in Nat /\ tail \in Nat /\ First <= tail
        /\ tail < First + Capacity
        /\ Inside = [i \in 1 .. tail - First |-> buffer[Slot(First + i - 1)]]
        /\ Inside \in Seq(Item) /\ Len(Inside) = tail - First
    BY <2>1, InsideFacts
  <2>4. /\ First' = First /\ buffer' = buffer
        /\ Inside' = [i \in 1 .. tail' - First' |-> buffer'[Slot(First' + i - 1)]]
    <3>1. First' = First /\ buffer' = buffer
      BY <2>1 DEF First
    <3>2. Inside' = [i \in 1 .. tail' - First' |-> buffer'[Slot(First' + i - 1)]]
      BY DEF Inside, First, Slot, Word
    <3>3. QED
      BY <3>1, <3>2
  <2>5. Len(Inside) < Capacity
    BY <2>3, ConstantFacts
  <2>6. Inside' = Append(Inside, prodItem)
    <3> DEFINE n == tail - First
    <3>1. n \in Nat /\ tail + 1 - First = n + 1 /\ First + (n + 1) - 1 = tail
      BY <2>3
    <3>2. tail' - First' = n + 1
      BY <2>1, <2>3, <2>4
    <3>3. Append(Inside, prodItem)
            = [i \in 1 .. n + 1 |-> IF i = n + 1 THEN prodItem ELSE Inside[i]]
      BY <2>2, <2>3, <3>1
    <3>4. Inside = [i \in 1 .. n |-> buffer[Slot(First + i - 1)]]
      BY <2>3
    <3> HIDE DEF n
    <3>5. Inside' = [i \in 1 .. n + 1 |-> buffer'[Slot(First' + i - 1)]]
      BY <2>4, <3>2
    <3>6. ASSUME NEW i \in 1 .. n + 1
          PROVE  Inside'[i] = IF i = n + 1 THEN prodItem ELSE Inside[i]
      <4>1. Inside'[i] = buffer[Slot(First + i - 1)]
        BY <2>4, <3>5
      <4>2. CASE i = n + 1
        BY <2>2, <3>1, <4>1, <4>2
      <4>3. CASE i # n + 1
        BY <3>1, <3>4, <4>1, <4>3
      <4>4. QED
        BY <4>2, <4>3
    <3>7. Inside' = [i \in 1 .. n + 1 |-> Inside'[i]]
      BY <3>5
    <3>8. QED
      BY <3>3, <3>6, <3>7
  <2>7. QED
    BY <2>1, <2>2, <2>5, <2>6
<1>5. QED
  BY <1>1, <1>2, <1>3, <1>4 DEF Producer

LEMMA ConsumerImplements ==
  ASSUME IInv, IInv', Consumer
  PROVE  [Promise!Next]_(Promise!vars)
<1> USE DEF Promise!Next, Promise!vars, Promise!Get, Promise!RefuseGet
<1>1. ASSUME NEW seen \in consSeen .. tail, PopEmpty(seen)
      PROVE  [Promise!Next]_(Promise!vars)
  <2>1. popped' = MovedFrom /\ UNCHANGED <<buffer, head, tail, consPc, pushed>>
    BY <1>1 DEF PopEmpty, prodVars
  <2>2. Inside' = Inside
    BY <2>1, InsideUnchanged DEF First
  <2>3. QED
    BY <2>1, <2>2
<1>2. ASSUME NEW seen \in consSeen .. tail, PopStart(seen) \/ ConsumerSize(seen)
      PROVE  [Promise!Next]_(Promise!vars)
  <2>1. /\ UNCHANGED <<buffer, head, tail, popped, pushed>>
        /\ consPc = "idle" /\ consPc' # "release"
    BY <1>2 DEF PopStart, ConsumerSize, prodVars
  <2>2. Inside' = Inside
    BY <2>1, InsideUnchanged DEF First
  <2>3. QED
    BY <2>1, <2>2
<1>3. CASE ReadSlot
  <2>1. /\ consPc = "read" /\ consPc' = "release"
        /\ UNCHANGED <<head, tail, pushed>>
    BY <1>3 DEF ReadSlot, prodVars
  <2>2. /\ head < tail /\ popped' = buffer[Slot(head)]
        /\ \A k \in head + 1 .. tail - 1 : buffer'[Slot(k)] = buffer[Slot(k)]
    BY <1>3, ReadSlotKeepsIInv
  <2>3. head \in Nat /\ tail \in Nat /\ First = head /\ First' = head + 1
    BY <2>1 DEF First, IInv, TypeOK
  <2>4. /\ Inside = [i \in 1 .. tail - head |-> buffer[Slot(head + i - 1)]]
        /\ Inside \in Seq(Item) /\ Len(Inside) = tail - head
    BY <2>3, InsideFacts
  <2>5. Inside' = [i \in 1 .. tail - (head + 1) |-> buffer'[Slot(head + 1 + i - 1)]]
    BY <2>1 DEF Inside, Slot, Word
  <2>6. Inside # <<>> /\ popped' = Head(Inside)
    <3>1. 1 \in 1 .. tail - head /\ head + 1 - 1 = head
      BY <2>2, <2>3
    <3>2. Inside[1] = buffer[Slot(head)]
      BY <2>4, <3>1
    <3>3. Inside # <<>> /\ Head(Inside) = Inside[1]
      BY <2>2, <2>3, <2>4
    <3>4. QED
      BY <2>2, <3>2, <3>3
  <2>7. Inside' = Tail(Inside)
    <3> DEFINE n == tail - (head + 1)
    <3>1. n \in Nat /\ tail - head = n + 1
      BY <2>2, <2>3
    <3>2. Tail(Inside) = [i \in 1 .. n |-> Inside[i + 1]]
      BY <2>4, <2>6, <3>1
    <3>3. ASSUME NEW i \in 1 .. n
          PROVE  Inside'[i] = Inside[i + 1]
      <4>1. /\ i + 1 \in 1 .. tail - head /\ head + 1 + i - 1 = head + (i + 1) - 1
            /\ head + 1 + i - 1 \in head + 1 .. tail - 1
        BY <2>3, <3>1
      <4>2. Inside[i + 1] = buffer[Slot(head + (i + 1) - 1)]
        BY <2>4, <4>1
      <4>3. Inside'[i] = buffer'[Slot(head + 1 + i - 1)]
        BY <2>5
      <4>4. QED
        BY <2>2, <4>1, <4>2, <4>3
    <3>4. Inside' = [i \in 1 .. n |-> Inside'[i]]
      BY <2>5
    <3>5. QED
      BY <3>2, <3>3, <3>4
  <2>8. QED
    BY <2>1, <2>6, <2>7
<1>4. CASE ReleaseHead
  <2>1. /\ consPc = "release" /\ consPc' = "idle" /\ head' = head + 1
        /\ UNCHANGED <<buffer, tail, popped, pushed>>
    BY <1>4 DEF ReleaseHead, prodVars
  <2>2. Inside' = Inside
    BY <2>1, InsideUnchanged DEF First
  <2>3. QED
    BY <2>1, <2>2
<1>5. QED
  BY <1>1, <1>2, <1>3, <1>4 DEF Consumer

(* What the two threads see of the ring buffer is a first-in first-out     *)
(* queue of at most Capacity items: none is lost, repeated or overwritten, *)
(* although the threads work with stale counters that wrap.                *)
THEOREM ImplementsBoundedFifo == Spec => DeliversInOrder
<1>1. Init => Promise!Init
  BY DEF Init, Promise!Init, Inside
<1>2. ASSUME IInv, IInv', [Next]_vars
      PROVE  [Promise!Next]_(Promise!vars)
  <2>1. CASE UNCHANGED vars
    BY <2>1 DEF vars, prodVars, consVars, Promise!vars, Inside, Slot, Word
  <2>2. QED
    BY <1>2, <2>1, ProducerImplements, ConsumerImplements DEF Next
<1>3. QED
  BY <1>1, <1>2, IInvInvariant, PTL DEF Spec, Promise!Spec, DeliversInOrder
=============================================================================
