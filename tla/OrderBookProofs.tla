--------------------------- MODULE OrderBookProofs ---------------------------
(***************************************************************************)
(* Proofs about the matching engine for every set of ids, prices and       *)
(* quantities and pools of every size.                                     *)
(***************************************************************************)
EXTENDS BookQueries, DataLemmas

(* The inductive invariant: types, the consistency of the heap with the    *)
(* maps, and the consistency of the locals with both.                      *)
Structure == TypeOK /\ BookConsistent /\ LocalsConsistent

(* Unsigned arithmetic stays in its range.                                 *)
LEMMA ModRange ==
  ASSUME NEW m \in Nat \ {0}, NEW a \in Nat
  PROVE  a % m \in 0 .. m - 1
  BY SMT

LEMMA SideFacts ==
  /\ \A side \in Side : Opposite(side) \in Side /\ Opposite(side) # side
                        /\ Opposite(Opposite(side)) = side
  BY DEF Side, Opposite

(* A call that changes neither the heap nor the maps keeps the book        *)
(* consistent, when it leaves no level half consumed.                      *)
LEMMA BookUntouched ==
  ASSUME TypeOK, BookConsistent, UNCHANGED <<heapVars, mapVars>>, pc # "maker",
         \A id \in OrderId : orderMap[id] # Null => orderMap[id] # taker'
  PROVE  BookConsistent'
<1> USE DEF heapVars, mapVars
<1>1. PoolsConsistent'
  BY DEF BookConsistent, PoolsConsistent, FreeListMatchesHeap
<1>2. OrdersConsistent'
  BY DEF BookConsistent, OrdersConsistent
<1>3. LevelsConsistent'
  BY DEF BookConsistent, LevelsConsistent
<1>4. LevelsOwned' /\ LevelsReachable'
  BY DEF BookConsistent, LevelsOwned, LevelsReachable
<1>5. QED
  BY <1>1, <1>2, <1>3, <1>4 DEF BookConsistent

LEMMA InitStructure == Init => Structure
<1> SUFFICES ASSUME Init PROVE Structure
  OBVIOUS
<1>1. ASSUME NEW S, IsFiniteSet(S), NEW q \in FreshPools(S)
      PROVE  q \in Seq(S) /\ IsInjective(q) /\ ToSet(q) = S
  <2>1. Cardinality(S) \in Nat
    BY <1>1, FS_CardinalityType
  <2>2. /\ q \in [1 .. Cardinality(S) -> S]
        /\ \A i, j \in 1 .. Cardinality(S) : i # j => q[i] # q[j]
    BY <1>1 DEF FreshPools, SetToSeqs
  <2>3. q \in Seq(S)
    BY <2>1, <2>2
  <2>4. IsInjective(q)
    BY <2>2 DEF IsInjective
  <2>5. q \in Injection(1 .. Cardinality(S), S)
    BY <2>2, <2>4 DEF Injection
  <2>6. Cardinality(1 .. Cardinality(S)) = Cardinality(S)
    BY <2>1, FS_Interval
  <2>7. q \in Surjection(1 .. Cardinality(S), S)
    BY <1>1, <2>5, <2>6, FS_Injection
  <2>8. QED
    BY <2>2, <2>3, <2>4, <2>7 DEF Surjection, ToSet
<1>2. /\ orderFree \in Seq(OrderSlots) /\ IsInjective(orderFree)
      /\ ToSet(orderFree) = OrderSlots
  BY <1>1, OrderBookAssumption DEF Init
<1>3. /\ levelFree \in Seq(LevelSlots) /\ IsInjective(levelFree)
      /\ ToSet(levelFree) = LevelSlots
  BY <1>1, OrderBookAssumption DEF Init
<1>4. TypeOK
  <2>1. matches \in Seq(MatchEvent)
    BY DEF Init
  <2>2. 0 \in 0 .. CounterMod - 1
    BY OrderBookAssumption
  <2>3. QED
    BY <1>2, <1>3, <2>1, <2>2 DEF Init, TypeOK
<1>5. PoolsConsistent
  BY <1>2, <1>3 DEF Init, PoolsConsistent, FreeListMatchesHeap
<1>6. OrdersConsistent /\ LevelsConsistent /\ LevelsOwned /\ LevelsReachable
  BY DEF Init, OrdersConsistent, LevelsConsistent, LevelsOwned, LevelsReachable
<1>7. LocalsConsistent
  BY DEF Init, LocalsConsistent
<1>8. QED
  BY <1>4, <1>5, <1>6, <1>7 DEF Structure, BookConsistent

(* The calls of addOrder() and cancelOrder() that change nothing.          *)
LEMMA RefusalsKeepStructure ==
  ASSUME Structure, NEW id \in OrderId, NEW qty,
         RejectOrder(id, qty) \/ OrderPoolThrows(id, qty) \/ CancelUnknown(id)
  PROVE  Structure'
<1>1. /\ pc = "idle" /\ pc' = "idle" /\ UNCHANGED <<heapVars, mapVars, statVars>>
      /\ taker' = Null /\ cursor' = End /\ maker' = Null /\ matches' = <<>>
      /\ outcome' \in {"rejected", "threw", "unknown"}
  BY DEF RejectOrder, OrderPoolThrows, CancelUnknown, Return
<1>2. TypeOK'
  BY <1>1 DEF Structure, TypeOK, heapVars, mapVars, statVars
<1>3. BookConsistent'
  BY <1>1, BookUntouched DEF Structure
<1>4. LocalsConsistent'
  BY <1>1 DEF LocalsConsistent
<1>5. QED
  BY <1>2, <1>3, <1>4 DEF Structure

(* levelPool_.allocate() throws: the book stays as the matching left it.   *)
LEMMA LevelPoolThrowsKeepsStructure ==
  ASSUME Structure, LevelPoolThrows
  PROVE  Structure'
<1>1. /\ pc = "settle" /\ pc' = "idle" /\ UNCHANGED <<heapVars, mapVars, statVars>>
      /\ taker' = Null /\ cursor' = End /\ maker' = Null /\ matches' = <<>>
      /\ outcome' = "threw"
  BY DEF LevelPoolThrows, Return
<1>2. TypeOK'
  BY <1>1 DEF Structure, TypeOK, heapVars, mapVars, statVars
<1>3. \A id \in OrderId : orderMap[id] # Null => orderMap[id] # taker'
  BY <1>1
<1>4. BookConsistent'
  BY <1>1, <1>3, BookUntouched DEF Structure
<1>5. LocalsConsistent'
  BY <1>1 DEF LocalsConsistent
<1>6. QED
  BY <1>2, <1>4, <1>5 DEF Structure

(* The matching loop ends, or begins with the oldest order of a level.     *)
LEMMA StopMatchingKeepsStructure ==
  ASSUME Structure, StopMatching
  PROVE  Structure'
<1> USE DEF Structure, heapVars, mapVars, statVars
<1>1. /\ pc = "level" /\ pc' = "settle" /\ UNCHANGED <<heapVars, mapVars, statVars>>
      /\ UNCHANGED <<taker, cursor, maker, matches, outcome>>
  BY DEF StopMatching
<1>2. TypeOK'
  BY <1>1 DEF TypeOK
<1>3. \A id \in OrderId : orderMap[id] # Null => orderMap[id] # taker'
  BY <1>1 DEF BookConsistent, OrdersConsistent
<1>4. BookConsistent'
  BY <1>1, <1>3, BookUntouched
<1>5. LocalsConsistent'
  BY <1>1 DEF LocalsConsistent
<1>6. QED
  BY <1>2, <1>4, <1>5

LEMMA EnterLevelKeepsStructure ==
  ASSUME Structure, EnterLevel
  PROVE  Structure'
<1> USE DEF Structure, heapVars, mapVars, statVars
<1>1. /\ pc = "level" /\ pc' = "maker" /\ UNCHANGED <<heapVars, mapVars, statVars>>
      /\ UNCHANGED <<taker, cursor, matches, outcome>>
      /\ ~MatchingStops /\ maker' = HeadOfLevel(levels[CursorLevel])
  BY DEF EnterLevel
<1>2. taker \in OrderSlots /\ orders[taker] \in Order /\ MakerSide \in Side
  BY <1>1, SideFacts DEF LocalsConsistent, TypeOK, MakerSide, Order
<1>3. cursor \in Price /\ CursorLevel # Null /\ CursorLevel \in LevelSlots
  BY <1>1, <1>2 DEF MatchingStops, LocalsConsistent, TypeOK, CursorLevel
<1>4. /\ levels[CursorLevel] # Dead /\ levels[CursorLevel] \in Level
      /\ levels[CursorLevel].queue # <<>>
  BY <1>1, <1>2, <1>3 DEF BookConsistent, LevelsConsistent, TypeOK, CursorLevel
<1>5. /\ maker' = Head(levels[CursorLevel].queue)
      /\ maker' \in ToSet(levels[CursorLevel].queue) /\ maker' \in OrderSlots
  <2>1. levels[CursorLevel].queue \in Seq(OrderSlots)
    BY <1>4 DEF Level
  <2>2. 1 \in 1 .. Len(levels[CursorLevel].queue)
    BY <2>1, <1>4
  <2>3. maker' = levels[CursorLevel].queue[1]
    BY <1>1, <1>4, <2>1 DEF HeadOfLevel, IsEmptyLevel
  <2>4. QED
    BY <1>4, <2>1, <2>2, <2>3, ListElements
<1>6. TypeOK'
  BY <1>1, <1>5 DEF TypeOK
<1>7. \A id \in OrderId : orderMap[id] # Null => orderMap[id] # taker'
  BY <1>1 DEF BookConsistent, OrdersConsistent
<1>8. BookConsistent'
  BY <1>1, <1>7, BookUntouched
<1>9. LocalsConsistent'
  <2>1. CursorLevel' = CursorLevel /\ levels[CursorLevel]' = levels[CursorLevel]
    BY <1>1 DEF CursorLevel, MakerSide
  <2>2. maker' = HeadOfLevel(levels[CursorLevel])'
    BY <1>1, <2>1 DEF HeadOfLevel, IsEmptyLevel
  <2>3. maker' \in ToSet(levels[CursorLevel]'.queue)
    BY <1>5, <2>1
  <2>4. cursor' # End /\ CursorLevel' # Null
    BY <1>1, <1>3, <2>1, OrderBookAssumption
  <2>5. /\ taker # Null /\ orders[taker] # Dead /\ orders[taker].level = Null
        /\ orderMap[orders[taker].id] = Null
    BY <1>1 DEF LocalsConsistent
  <2>6. QED
    BY <1>1, <2>2, <2>3, <2>4, <2>5 DEF LocalsConsistent
<1>10. QED
  BY <1>6, <1>8, <1>9

(* An accepted order takes a slot nobody else holds.                       *)
LEMMA AcceptOrderKeepsStructure ==
  ASSUME Structure, NEW id \in OrderId, NEW side \in Side, NEW price \in Price,
         NEW qty \in Quantity, NEW type \in OrderType,
         AcceptOrder(id, side, price, qty, type)
  PROVE  Structure'
<1> USE DEF Structure, heapVars, mapVars, statVars
<1> DEFINE s == AllocatedSlot(orderFree)
           o == NewOrder(id, side, price, qty, type)
<1>1. /\ pc = "idle" /\ pc' = "level" /\ orderMap[id] = Null
      /\ orderFree # <<>> /\ orderFree' = Front(orderFree)
      /\ orders' = [orders EXCEPT ![s] = o] /\ taker' = s
      /\ UNCHANGED <<levels, levelFree, mapVars, statVars, maker, matches>>
      /\ cursor' \in Price \cup {End} /\ outcome' = "none"
      /\ First(Opposite(side), Occupied(Opposite(side)), cursor')
  BY DEF AcceptOrder, Exhausted, Allocate
<1>2. /\ o \in Order /\ o # Dead /\ o.level = Null /\ o.id = id /\ o.side = side
  BY OrderBookAssumption, DeadAssumption DEF NewOrder, Order, Qty
<1>3. /\ s \in ToSet(orderFree) /\ s \in OrderSlots
      /\ Front(orderFree) \in Seq(OrderSlots) /\ IsInjective(Front(orderFree))
      /\ ToSet(Front(orderFree)) = ToSet(orderFree) \ {s}
  BY <1>1, FrontList DEF TypeOK, BookConsistent, PoolsConsistent,
     FreeListMatchesHeap, AllocatedSlot
<1>4. orders[s] = Dead /\ s # Null
  BY <1>3, OrderBookAssumption DEF BookConsistent, PoolsConsistent, FreeListMatchesHeap
<1> HIDE DEF s, o
<1>5. TypeOK'
  BY <1>1, <1>2, <1>3 DEF TypeOK
<1>6. orders'[s] = o /\ \A t \in OrderSlots \ {s} : orders'[t] = orders[t]
  BY <1>1, <1>3 DEF TypeOK
<1>7. PoolsConsistent'
  BY <1>1, <1>2, <1>3, <1>6
     DEF BookConsistent, PoolsConsistent, FreeListMatchesHeap, TypeOK
<1>8. ASSUME NEW i \in OrderId, orderMap[i] # Null
      PROVE  orderMap[i] \in OrderSlots /\ orderMap[i] # s
  BY <1>4, <1>8 DEF BookConsistent, OrdersConsistent, TypeOK
<1>9. OrdersConsistent'
  BY <1>1, <1>6, <1>8 DEF BookConsistent, OrdersConsistent
<1>10. ASSUME NEW d \in Side, NEW p \in Price, book[d][p] # Null,
              NEW t \in ToSet(levels[book[d][p]].queue)
       PROVE  t \in OrderSlots /\ t # s
  <2>1. levels[book[d][p]] \in Level
    BY <1>10 DEF BookConsistent, LevelsConsistent, TypeOK
  <2>2. t \in OrderSlots
    BY <2>1, ListElements DEF Level
  <2>3. QED
    BY <1>4, <1>10, <2>2 DEF BookConsistent, LevelsConsistent
<1>11. LevelsConsistent'
  BY <1>1, <1>6, <1>10 DEF BookConsistent, LevelsConsistent
<1>12. LevelsOwned' /\ LevelsReachable'
  BY <1>1 DEF BookConsistent, LevelsOwned, LevelsReachable
<1>13. LocalsConsistent'
  <2>1. MakerSide' = Opposite(side)
    BY <1>1, <1>2, <1>6 DEF MakerSide
  <2>2. cursor' = End \/ CursorLevel' # Null
    BY <1>1, <2>1 DEF First, Occupied, CursorLevel
  <2>3. QED
    BY <1>1, <1>2, <1>4, <1>6, <2>2 DEF LocalsConsistent
<1>14. QED
  BY <1>5, <1>7, <1>9, <1>11, <1>12, <1>13 DEF BookConsistent

(* What a key of the maps leads to.                                        *)
LEMMA QueueFacts ==
  ASSUME Structure, NEW d \in Side, NEW p \in Price, book[d][p] # Null
  PROVE  LET l == book[d][p]
             q == levels[l].queue
         IN  /\ l \in LevelSlots /\ levels[l] \in Level /\ levels[l] # Dead
             /\ levels[l].price = p
             /\ q \in Seq(OrderSlots) /\ IsInjective(q) /\ ToSet(q) \subseteq OrderSlots
             /\ \A t \in ToSet(q) :
                  /\ t # taker /\ t # Null
                  /\ orders[t] \in Order /\ orders[t] # Dead
                  /\ orders[t].side = d /\ orders[t].price = p
                  /\ orders[t].level = l /\ orderMap[orders[t].id] = t
<1> DEFINE l == book[d][p]
           q == levels[l].queue
<1>1. l \in LevelSlots /\ l # Null
  BY DEF Structure, TypeOK
<1>2. /\ levels[l] # Dead /\ levels[l].price = p /\ IsInjective(q)
      /\ \A t \in ToSet(q) : /\ orders[t] # Dead
                             /\ orders[t].side = d /\ orders[t].price = p
                             /\ orders[t].level = l /\ orderMap[orders[t].id] = t
  BY DEF Structure, BookConsistent, LevelsConsistent
<1>3. levels[l] \in Level /\ q \in Seq(OrderSlots)
  BY <1>1, <1>2 DEF Structure, TypeOK, Level
<1>4. ToSet(q) \subseteq OrderSlots
  BY <1>3, ListElements
<1>5. ASSUME NEW t \in ToSet(q)
      PROVE  t # Null /\ orders[t] \in Order /\ t # taker
  <2>1. t \in OrderSlots
    BY <1>4
  <2>2. orders[t] \in Order /\ orders[t].level = l
    BY <1>2, <2>1 DEF Structure, TypeOK
  <2>3. t # Null
    BY <2>1, OrderBookAssumption
  <2>4. t # taker
    BY <1>1, <2>1, <2>2, <2>3 DEF Structure, LocalsConsistent
  <2>5. QED
    BY <2>2, <2>3, <2>4
<1>6. QED
  BY <1>1, <1>2, <1>3, <1>4, <1>5

(* The incoming order during a call.                                       *)
LEMMA TakerFacts ==
  ASSUME Structure, pc \in {"level", "maker", "settle"}
  PROVE  /\ taker \in OrderSlots /\ taker # Null
         /\ orders[taker] \in Order /\ orders[taker] # Dead
         /\ orders[taker].level = Null /\ orderMap[orders[taker].id] = Null
         /\ orders[taker].id \in OrderId /\ orders[taker].price \in Price
         /\ orders[taker].side \in Side /\ orders[taker].remaining \in Qty
         /\ MakerSide \in Side /\ MakerSide # orders[taker].side
<1>1. taker # Null
  BY DEF Structure, LocalsConsistent
<1>2. taker \in OrderSlots
  BY <1>1 DEF Structure, TypeOK
<1>3. /\ orders[taker] # Dead /\ orders[taker].level = Null
      /\ orderMap[orders[taker].id] = Null
  BY <1>1 DEF Structure, LocalsConsistent
<1>4. orders[taker] \in Order
  BY <1>2, <1>3 DEF Structure, TypeOK
<1>5. QED
  BY <1>1, <1>2, <1>3, <1>4, SideFacts DEF Order, MakerSide

(* An order that is not to rest gives its slot back.                       *)
LEMMA DiscardOrderKeepsStructure ==
  ASSUME Structure, DiscardOrder
  PROVE  Structure'
<1> USE DEF heapVars, mapVars, statVars
<1>1. /\ pc = "settle" /\ pc' = "idle" /\ taker' = Null /\ cursor' = End
      /\ maker' = Null /\ matches' = <<>> /\ outcome' = "added"
      /\ orders' = [orders EXCEPT ![taker] = Dead]
      /\ orderFree' = Append(orderFree, taker)
      /\ UNCHANGED <<levels, levelFree, mapVars, statVars>>
  BY DEF DiscardOrder, Return, Deallocate
<1>2. taker \in OrderSlots /\ orders[taker] # Dead
  BY <1>1, TakerFacts
<1>3. /\ orderFree \in Seq(OrderSlots) /\ IsInjective(orderFree)
      /\ ToSet(orderFree) = {s \in OrderSlots : orders[s] = Dead}
  BY DEF Structure, TypeOK, BookConsistent, PoolsConsistent, FreeListMatchesHeap
<1>4. /\ orderFree' \in Seq(OrderSlots) /\ IsInjective(orderFree')
      /\ ToSet(orderFree') = ToSet(orderFree) \cup {taker}
  BY <1>1, <1>2, <1>3, AppendList
<1>5. /\ orders'[taker] = Dead /\ DOMAIN orders' = OrderSlots
      /\ \A t \in OrderSlots \ {taker} : orders'[t] = orders[t]
  BY <1>1, <1>2 DEF Structure, TypeOK
<1>6. TypeOK'
  BY <1>1, <1>2, <1>4 DEF Structure, TypeOK
<1>7. PoolsConsistent'
  <2>1. ToSet(orderFree') = {s \in OrderSlots : orders'[s] = Dead}
    BY <1>2, <1>3, <1>4, <1>5
  <2>2. FreeListMatchesHeap(orderFree, orders, Dead)'
    BY <1>4, <1>5, <2>1 DEF FreeListMatchesHeap
  <2>3. FreeListMatchesHeap(levelFree, levels, Dead)'
    BY <1>1 DEF Structure, BookConsistent, PoolsConsistent, FreeListMatchesHeap
  <2>4. QED
    BY <2>2, <2>3 DEF PoolsConsistent
<1>8. OrdersConsistent'
  <2>1. ASSUME NEW id \in OrderId, orderMap[id] # Null
        PROVE  orderMap[id] \in OrderSlots /\ orderMap[id] # taker
    BY <2>1 DEF Structure, BookConsistent, OrdersConsistent, TypeOK
  <2>2. QED
    BY <1>1, <1>5, <2>1, OrderBookAssumption
       DEF Structure, BookConsistent, OrdersConsistent
<1>9. LevelsConsistent'
  BY <1>1, <1>5, QueueFacts DEF Structure, BookConsistent, LevelsConsistent
<1>10. LevelsOwned' /\ LevelsReachable'
  BY <1>1 DEF Structure, BookConsistent, LevelsOwned, LevelsReachable
<1>11. LocalsConsistent'
  BY <1>1 DEF LocalsConsistent
<1>12. QED
  BY <1>6, <1>7, <1>8, <1>9, <1>10, <1>11 DEF Structure, BookConsistent

(* PriceLevel(): an empty level of the price.                              *)
LEMMA NewLevelFacts ==
  ASSUME NEW p \in Price
  PROVE  /\ NewLevel(p) \in Level /\ NewLevel(p).price = p
         /\ NewLevel(p).queue = <<>>
<1>1. 0 \in Qty
  BY QtyModAssumption DEF Qty
<1>2. QED
  BY <1>1 DEF NewLevel, Level

(* append(): the level with one more order.                                *)
LEMMA AppendOrderFacts ==
  ASSUME NEW level \in Level, NEW slot \in OrderSlots, NEW qty \in Qty,
         IsInjective(level.queue), slot \notin ToSet(level.queue)
  PROVE  LET new == AppendOrder(level, slot, qty)
         IN  /\ new \in Level /\ new.price = level.price
             /\ new.queue # <<>> /\ IsInjective(new.queue)
             /\ ToSet(new.queue) = ToSet(level.queue) \cup {slot}
<1>1. level.queue \in Seq(OrderSlots) /\ level.totalVolume \in Qty /\ level.price \in Price
  BY DEF Level
<1>2. level.totalVolume + qty \in Nat
  BY <1>1, QtyModAssumption DEF Qty
<1>3. (level.totalVolume + qty) % QtyMod \in Qty
  BY <1>2, ModRange, QtyModAssumption DEF Qty
<1>4. /\ Append(level.queue, slot) \in Seq(OrderSlots)
      /\ Append(level.queue, slot) # <<>>
      /\ IsInjective(Append(level.queue, slot))
      /\ ToSet(Append(level.queue, slot)) = ToSet(level.queue) \cup {slot}
  BY <1>1, AppendList
<1>5. /\ AppendOrder(level, slot, qty) \in Level
      /\ AppendOrder(level, slot, qty).price = level.price
      /\ AppendOrder(level, slot, qty).queue = Append(level.queue, slot)
  BY <1>1, <1>3, <1>4 DEF AppendOrder, Level
<1>6. QED
  BY <1>4, <1>5

(* What is left of a LIMIT order joins the level of its price, an old one  *)
(* or one fresh from the pool.                                             *)
LEMMA RestOrderKeepsStructure ==
  ASSUME Structure, RestOrder
  PROVE  Structure'
<1> USE DEF heapVars, mapVars, statVars
<1> DEFINE o   == orders[taker]
           new == OwnLevel = Null
           l   == IF new THEN AllocatedSlot(levelFree) ELSE OwnLevel
           lvl == IF new THEN NewLevel(o.price) ELSE levels[l]
           put == AppendOrder(lvl, taker, o.remaining)
<1>1. /\ pc = "settle" /\ pc' = "idle" /\ taker' = Null /\ cursor' = End
      /\ maker' = Null /\ matches' = <<>> /\ outcome' = "added"
      /\ o.remaining > 0 /\ o.type = "LIMIT"
      /\ new => levelFree # <<>>
      /\ levelFree' = IF new THEN Front(levelFree) ELSE levelFree
      /\ levels' = [levels EXCEPT ![l] = put]
      /\ orders' = [orders EXCEPT ![taker].level = l]
      /\ book' = [book EXCEPT ![o.side][o.price] = l]
      /\ orderMap' = [orderMap EXCEPT ![o.id] = taker]
      /\ UNCHANGED <<orderFree, statVars>>
  BY DEF RestOrder, Return, Rests, NoLevelLeft, Exhausted, Allocate
<1>2. /\ taker \in OrderSlots /\ taker # Null /\ o \in Order /\ o # Dead
      /\ o.level = Null /\ orderMap[o.id] = Null
      /\ o.id \in OrderId /\ o.price \in Price /\ o.side \in Side /\ o.remaining \in Qty
  BY <1>1, TakerFacts
<1>3. OwnLevel = book[o.side][o.price]
  BY DEF OwnLevel
(* The free list and the heap of levels before the step.                   *)
<1>4. /\ levelFree \in Seq(LevelSlots) /\ IsInjective(levelFree)
      /\ ToSet(levelFree) = {k \in LevelSlots : levels[k] = Dead}
      /\ DOMAIN levels = LevelSlots
  BY DEF Structure, TypeOK, BookConsistent, PoolsConsistent, FreeListMatchesHeap
<1>5. ASSUME new
      PROVE  /\ l \in LevelSlots /\ levels[l] = Dead
             /\ levelFree' \in Seq(LevelSlots) /\ IsInjective(levelFree')
             /\ ToSet(levelFree') = ToSet(levelFree) \ {l}
             /\ lvl = NewLevel(o.price)
  BY <1>1, <1>4, <1>5, FrontList DEF AllocatedSlot
<1>6. ASSUME ~new
      PROVE  /\ l = book[o.side][o.price] /\ l # Null /\ l \in LevelSlots
             /\ levels[l] # Dead /\ lvl = levels[l] /\ levelFree' = levelFree
             /\ lvl \in Level /\ lvl.price = o.price /\ IsInjective(lvl.queue)
             /\ taker \notin ToSet(lvl.queue)
  <2>1. l = book[o.side][o.price] /\ l # Null /\ lvl = levels[l] /\ levelFree' = levelFree
    BY <1>1, <1>3, <1>6
  <2> DEFINE k == book[o.side][o.price]
  <2>2. /\ k \in LevelSlots /\ levels[k] # Dead /\ levels[k] \in Level
        /\ levels[k].price = o.price /\ IsInjective(levels[k].queue)
        /\ taker \notin ToSet(levels[k].queue)
    BY <1>2, <2>1, QueueFacts
  <2> HIDE DEF o, l, lvl
  <2>3. QED
    BY <2>1, <2>2
<1>7. /\ l \in LevelSlots /\ l # Null /\ lvl \in Level /\ lvl.price = o.price
      /\ IsInjective(lvl.queue) /\ taker \notin ToSet(lvl.queue)
      /\ new => ToSet(lvl.queue) = {}
  <2>1. CASE new
    <3>1. lvl \in Level /\ lvl.price = o.price /\ lvl.queue = <<>>
      BY <1>2, <1>5, <2>1, NewLevelFacts
    <3>2. IsInjective(<<>>) /\ ToSet(<<>>) = {}
      BY EmptyList
    <3>3. QED
      BY <1>5, <2>1, <3>1, <3>2, OrderBookAssumption
  <2>2. CASE ~new
    BY <1>6, <2>2
  <2>3. QED
    BY <2>1, <2>2
<1>8. /\ put \in Level /\ put # Dead /\ put.price = o.price
      /\ put.queue # <<>> /\ IsInjective(put.queue)
      /\ ToSet(put.queue) = ToSet(lvl.queue) \cup {taker}
  <2> HIDE DEF lvl, l, new
  <2>1. /\ put \in Level /\ put.price = lvl.price
        /\ put.queue # <<>> /\ IsInjective(put.queue)
        /\ ToSet(put.queue) = ToSet(lvl.queue) \cup {taker}
    BY <1>2, <1>7, AppendOrderFacts
  <2> HIDE DEF put
  <2>2. QED
    BY <1>7, <2>1, DeadAssumption
(* The state after the step, one variable at a time.                       *)
<1>9. /\ orders'[taker] \in Order /\ orders'[taker] # Dead
      /\ orders'[taker].id = o.id /\ orders'[taker].type = "LIMIT"
      /\ orders'[taker].remaining > 0
      /\ orders'[taker].side = o.side /\ orders'[taker].price = o.price
      /\ orders'[taker].level = l
      /\ \A t \in OrderSlots \ {taker} : orders'[t] = orders[t]
      /\ DOMAIN orders' = OrderSlots
  BY ZenonT(20), <1>1, <1>2, <1>7, DeadAssumption DEF Structure, TypeOK, Order
<1>10. /\ levels'[l] = put /\ DOMAIN levels' = LevelSlots
       /\ \A k \in LevelSlots \ {l} : levels'[k] = levels[k]
  BY <1>1, <1>7, <1>4
<1>11. /\ book'[o.side][o.price] = l
       /\ \A d \in Side, p \in Price :
            d # o.side \/ p # o.price => book'[d][p] = book[d][p]
  BY <1>1, <1>2 DEF Structure, TypeOK
<1>12. /\ orderMap'[o.id] = taker
       /\ \A i \in OrderId \ {o.id} : orderMap'[i] = orderMap[i]
  BY <1>1, <1>2 DEF Structure, TypeOK
<1>13. ASSUME NEW d \in Side, NEW p \in Price, book[d][p] # Null,
              d # o.side \/ p # o.price
       PROVE  book[d][p] # l /\ book[d][p] \in LevelSlots
  <2>1. CASE new
    BY <1>5, <1>13, <2>1, QueueFacts
  <2>2. CASE ~new
    BY <1>2, <1>6, <1>13, <2>2, QueueFacts DEF Structure, BookConsistent, LevelsOwned
  <2>3. QED
    BY <2>1, <2>2
<1>14. new \/ levelFree' = levelFree
  BY <1>6
<1>15. new => levels[l] = Dead /\ book[o.side][o.price] = Null
  BY <1>3, <1>5
<1>16. ~new => levels[l] # Dead /\ lvl = levels[l] /\ l = book[o.side][o.price]
  BY <1>6
<1> HIDE DEF new, l, lvl, put
<1>17. TypeOK'
  <2>1. levelFree' \in Seq(LevelSlots)
    BY <1>4, <1>5, <1>14
  <2>2. orders' \in [OrderSlots -> Order \cup {Dead}]
    BY <1>1, <1>9 DEF Structure, TypeOK
  <2>3. levels' \in [LevelSlots -> Level \cup {Dead}]
    BY <1>1, <1>8 DEF Structure, TypeOK
  <2>4. book' \in [Side -> [Price -> LevelSlots \cup {Null}]]
    BY <1>1, <1>2, <1>7 DEF Structure, TypeOK
  <2>5. orderMap' \in [OrderId -> OrderSlots \cup {Null}]
    BY <1>1, <1>2 DEF Structure, TypeOK
  <2>6. QED
    BY <1>1, <2>1, <2>2, <2>3, <2>4, <2>5 DEF Structure, TypeOK
<1>18. PoolsConsistent'
  <2>1. FreeListMatchesHeap(orderFree, orders, Dead)'
    <3>1. {s \in OrderSlots : orders'[s] = Dead} = {s \in OrderSlots : orders[s] = Dead}
      BY <1>2, <1>9
    <3>2. QED
      BY <1>1, <1>9, <3>1 DEF Structure, TypeOK, BookConsistent, PoolsConsistent,
         FreeListMatchesHeap
  <2>2. IsInjective(levelFree')
    BY <1>4, <1>5, <1>14
  <2>3. ToSet(levelFree') = {k \in LevelSlots : levels'[k] = Dead}
    <3>1. CASE new
      BY <1>4, <1>5, <1>7, <1>8, <1>10, <3>1
    <3>2. CASE ~new
      BY <1>4, <1>7, <1>8, <1>10, <1>14, <1>16, <3>2
    <3>3. QED
      BY <3>1, <3>2
  <2>4. FreeListMatchesHeap(levelFree, levels, Dead)'
    BY <1>10, <2>2, <2>3 DEF FreeListMatchesHeap
  <2>5. QED
    BY <2>1, <2>4 DEF PoolsConsistent
<1>19. OrdersConsistent'
  <2> SUFFICES ASSUME NEW i \in OrderId, orderMap'[i] # Null
               PROVE  LET s == orderMap'[i]
                      IN  /\ s # taker' /\ orders'[s] # Dead
                          /\ orders'[s].id = i /\ orders'[s].type = "LIMIT"
                          /\ orders'[s].remaining > 0 /\ orders'[s].level # Null
                          /\ book'[orders'[s].side][orders'[s].price] = orders'[s].level
                          /\ s \in ToSet(levels'[orders'[s].level].queue)
    BY DEF OrdersConsistent
  <2>1. CASE i = o.id
    BY <1>1, <1>2, <1>7, <1>8, <1>9, <1>10, <1>11, <1>12, <2>1
  <2>2. CASE i # o.id
    <3> DEFINE s == orderMap[i]
    <3>1. /\ orderMap'[i] = s /\ s \in OrderSlots /\ s # Null
          /\ s # taker /\ orders[s] # Dead
          /\ orders[s].id = i /\ orders[s].type = "LIMIT"
          /\ orders[s].remaining > 0 /\ orders[s].level # Null
          /\ book[orders[s].side][orders[s].price] = orders[s].level
          /\ s \in ToSet(levels[orders[s].level].queue)
      BY <1>12, <2>2, OrderBookAssumption
         DEF Structure, TypeOK, BookConsistent, OrdersConsistent
    <3>2. /\ orders'[s] = orders[s] /\ orders[s] \in Order
          /\ orders[s].side \in Side /\ orders[s].price \in Price
          /\ orders[s].level \in LevelSlots
      BY <1>9, <3>1 DEF Structure, TypeOK, Order
    <3>3. CASE orders[s].side = o.side /\ orders[s].price = o.price
      <4>1. ~new /\ orders[s].level = l
        BY <1>15, <1>16, <3>1, <3>3
      <4>2. s \in ToSet(put.queue)
        BY <1>8, <1>16, <3>1, <4>1
      <4>3. QED
        BY SMTT(15), <1>1, <1>10, <1>11, <3>1, <3>2, <3>3, <4>1, <4>2
    <3>4. CASE orders[s].side # o.side \/ orders[s].price # o.price
      <4>1. orders[s].level # l
        BY <1>13, <3>1, <3>2, <3>4
      <4>2. QED
        <5> DEFINE k == orders[s].level
        <5>1. levels'[k] = levels[k] /\ taker' = Null
          BY <1>1, <1>10, <3>2, <4>1
        <5>2. book'[orders[s].side][orders[s].price] = k
          BY <1>11, <3>1, <3>2, <3>4
        <5> HIDE DEF s, k
        <5>3. QED
          BY <3>1, <3>2, <5>1, <5>2 DEF k
    <3>5. QED
      BY <3>3, <3>4
  <2>3. QED
    BY <2>1, <2>2
<1>20. LevelsConsistent'
  <2> SUFFICES ASSUME NEW d \in Side, NEW p \in Price, book'[d][p] # Null
               PROVE  LET k == book'[d][p]
                          q == levels'[k].queue
                      IN  /\ levels'[k] # Dead /\ levels'[k].price = p
                          /\ q # <<>> /\ IsInjective(q)
                          /\ \A s \in ToSet(q) :
                               /\ orders'[s] # Dead
                               /\ orders'[s].side = d /\ orders'[s].price = p
                               /\ orders'[s].level = k
                               /\ orderMap'[orders'[s].id] = s
    BY DEF LevelsConsistent
  <2>1. CASE d = o.side /\ p = o.price
    <3>1. book'[d][p] = l /\ levels'[l] = put
      BY <1>10, <1>11, <2>1
    <3>2. ASSUME NEW s \in ToSet(put.queue)
          PROVE  /\ orders'[s] # Dead
                 /\ orders'[s].side = d /\ orders'[s].price = p
                 /\ orders'[s].level = l
                 /\ orderMap'[orders'[s].id] = s
      <4>1. CASE s = taker
        BY <1>9, <1>12, <2>1, <4>1
      <4>2. CASE s # taker
        <5>1. ~new /\ s \in ToSet(levels[l].queue) /\ l = book[d][p] /\ book[d][p] # Null
          BY <1>7, <1>8, <1>16, <2>1, <3>2, <4>2
        <5>2. /\ s \in OrderSlots /\ s # Null /\ orders[s] \in Order
              /\ orders[s] # Dead /\ orders[s].side = d /\ orders[s].price = p
              /\ orders[s].level = l /\ orderMap[orders[s].id] = s
          BY <5>1, QueueFacts
        <5>3. orders'[s] = orders[s] /\ orders[s].id # o.id /\ orders[s].id \in OrderId
          BY <1>2, <1>9, <4>2, <5>2 DEF Order
        <5>4. QED
          BY <1>12, <5>2, <5>3
      <4>3. QED
        BY <4>1, <4>2
    <3>3. QED
      BY <1>8, <2>1, <3>1, <3>2
  <2>2. CASE d # o.side \/ p # o.price
    <3>1. book'[d][p] = book[d][p] /\ book[d][p] # Null
      BY <1>11, <2>2
    <3>2. levels'[book[d][p]] = levels[book[d][p]]
      BY <1>10, <1>13, <2>2, <3>1
    <3>3. ASSUME NEW s \in ToSet(levels[book[d][p]].queue)
          PROVE  /\ orders'[s] = orders[s]
                 /\ orderMap'[orders[s].id] = orderMap[orders[s].id]
      <4>1. /\ s \in OrderSlots /\ s # taker /\ s # Null /\ orders[s] \in Order
            /\ orderMap[orders[s].id] = s
        BY <3>1, QueueFacts
      <4>2. orders[s].id # o.id /\ orders[s].id \in OrderId
        BY <1>2, <4>1 DEF Order
      <4>3. QED
        BY <1>9, <1>12, <4>1, <4>2
    <3>4. levels[book[d][p]].queue # <<>>
      BY <1>1, <3>1 DEF Structure, BookConsistent, LevelsConsistent
    <3>5. QED
      BY <3>1, <3>2, <3>3, <3>4, QueueFacts
  <2>3. QED
    BY <2>1, <2>2
<1>21. LevelsOwned'
  <2> SUFFICES ASSUME NEW d \in Side, NEW e \in Side, NEW p \in Price, NEW r \in Price,
                      book'[d][p] # Null, book'[d][p] = book'[e][r]
               PROVE  d = e /\ p = r
    BY DEF LevelsOwned
  <2>1. QED
    BY <1>11, <1>13 DEF Structure, BookConsistent, LevelsOwned
<1>22. LevelsReachable'
  <2> SUFFICES ASSUME NEW k \in LevelSlots, levels'[k] # Dead
               PROVE  \E d \in Side, p \in Price : book'[d][p] = k
    BY DEF LevelsReachable
  <2>1. CASE k = l
    BY <1>2, <1>11, <2>1
  <2>2. CASE k # l
    <3>1. PICK d \in Side, p \in Price : book[d][p] = k
      BY <1>10, <2>2 DEF Structure, BookConsistent, LevelsReachable
    <3>2. d # o.side \/ p # o.price
      BY <1>15, <1>16, <2>2, <3>1, OrderBookAssumption
    <3>3. QED
      BY <1>11, <3>1, <3>2
  <2>3. QED
    BY <2>1, <2>2
<1>23. LocalsConsistent'
  BY <1>1 DEF LocalsConsistent
<1>24. QED
  BY <1>17, <1>18, <1>19, <1>20, <1>21, <1>22, <1>23 DEF Structure, BookConsistent

(* remove(): the level without one of its orders.                          *)
LEMMA RemoveOrderFacts ==
  ASSUME NEW level \in Level, NEW slot \in OrderSlots, NEW qty \in Qty,
         IsInjective(level.queue), slot \in ToSet(level.queue)
  PROVE  /\ RemoveOrder(level, slot, qty) \in Level
         /\ RemoveOrder(level, slot, qty).price = level.price
         /\ IsInjective(RemoveOrder(level, slot, qty).queue)
         /\ ToSet(RemoveOrder(level, slot, qty).queue) = ToSet(level.queue) \ {slot}
         /\ RemoveOrder(level, slot, qty).queue = RemoveAt(level.queue, Position(level, slot))
         /\ Position(level, slot) \in 1 .. Len(level.queue)
         /\ level.queue[Position(level, slot)] = slot
<1> DEFINE q == level.queue
           i == Position(level, slot)
           new == RemoveOrder(level, slot, qty)
<1>1. /\ q \in Seq(OrderSlots) /\ level.totalVolume \in Qty /\ level.price \in Price
      /\ DOMAIN q = 1 .. Len(q) /\ Len(q) \in Nat
  BY DEF Level
<1>2. \E j \in DOMAIN q : q[j] = slot
  BY <1>1, ListElements
<1>3. i \in 1 .. Len(q) /\ q[i] = slot
  BY <1>1, <1>2 DEF Position
<1>4. /\ RemoveAt(q, i) \in Seq(OrderSlots) /\ IsInjective(RemoveAt(q, i))
      /\ ToSet(RemoveAt(q, i)) = ToSet(q) \ {slot}
  <2>1. IsInjective(q)
    OBVIOUS
  <2> HIDE DEF q, i
  <2>2. /\ RemoveAt(q, i) \in Seq(OrderSlots) /\ IsInjective(RemoveAt(q, i))
        /\ ToSet(RemoveAt(q, i)) = ToSet(q) \ {q[i]}
    BY <1>1, <1>3, <2>1, RemoveList
  <2>3. QED
    BY <1>3, <2>2
<1>5. (IF level.totalVolume >= qty THEN level.totalVolume - qty ELSE 0) \in Qty
  BY <1>1, QtyModAssumption DEF Qty
<1>6. new \in Level /\ new.price = level.price /\ new.queue = RemoveAt(q, i)
  BY <1>1, <1>4, <1>5 DEF RemoveOrder, Level
<1>7. QED
  BY <1>3, <1>4, <1>6

(* A cancelled order leaves its level, and the last of a level takes the   *)
(* level with it.                                                          *)
LEMMA CancelOrderKeepsStructure ==
  ASSUME Structure, NEW id \in OrderId, CancelOrder(id)
  PROVE  Structure'
<1> USE DEF heapVars, mapVars, statVars
<1> DEFINE s    == orderMap[id]
           o    == orders[s]
           l    == o.level
           lvl  == RemoveOrder(levels[l], s, o.remaining)
           gone == IsEmptyLevel(lvl)
<1>1. /\ pc = "idle" /\ s # Null
      /\ pc' = "idle" /\ taker' = Null /\ cursor' = End
      /\ maker' = Null /\ matches' = <<>> /\ outcome' = "cancelled"
      /\ orders' = [orders EXCEPT ![s] = Dead]
      /\ orderFree' = Append(orderFree, s)
      /\ orderMap' = [orderMap EXCEPT ![id] = Null]
      /\ UNCHANGED statVars
      /\ \/ /\ gone
            /\ book' = [book EXCEPT ![o.side][o.price] = Null]
            /\ levels' = [levels EXCEPT ![l] = Dead]
            /\ levelFree' = Append(levelFree, l)
         \/ /\ ~gone
            /\ levels' = [levels EXCEPT ![l] = lvl]
            /\ UNCHANGED <<book, levelFree>>
  BY DEF CancelOrder, Return, Deallocate
<1>2. /\ s \in OrderSlots /\ o # Dead /\ o.id = id
      /\ l # Null /\ book[o.side][o.price] = l /\ s \in ToSet(levels[l].queue)
  BY <1>1 DEF Structure, TypeOK, BookConsistent, OrdersConsistent
<1>3. /\ o \in Order /\ o.side \in Side /\ o.price \in Price /\ o.remaining \in Qty
      /\ l \in LevelSlots
  BY <1>2 DEF Structure, TypeOK, Order
<1>4. levels[l] \in Level /\ levels[l] # Dead /\ IsInjective(levels[l].queue)
      /\ levels[l].price = o.price
  BY <1>2, <1>3, QueueFacts
<1>5. /\ lvl \in Level /\ lvl.price = o.price /\ IsInjective(lvl.queue)
      /\ ToSet(lvl.queue) = ToSet(levels[l].queue) \ {s}
      /\ gone <=> ToSet(lvl.queue) = {}
  <2> HIDE DEF l, o, s
  <2>1. /\ levels[l] \in Level /\ s \in OrderSlots /\ o.remaining \in Qty
        /\ IsInjective(levels[l].queue) /\ s \in ToSet(levels[l].queue)
    BY <1>2, <1>3, <1>4
  <2> DEFINE before == levels[l]
             left   == o.remaining
  <2> HIDE DEF before, left
  <2>2. /\ RemoveOrder(before, s, left) \in Level
        /\ RemoveOrder(before, s, left).price = before.price
        /\ IsInjective(RemoveOrder(before, s, left).queue)
        /\ ToSet(RemoveOrder(before, s, left).queue) = ToSet(before.queue) \ {s}
    <3>1. /\ before \in Level /\ left \in Qty
          /\ IsInjective(before.queue) /\ s \in ToSet(before.queue)
      BY <2>1 DEF before, left
    <3>2. QED
      BY SMTT(15), <2>1, <3>1, RemoveOrderFacts
  <2>3. /\ lvl \in Level /\ lvl.price = o.price /\ IsInjective(lvl.queue)
        /\ ToSet(lvl.queue) = ToSet(levels[l].queue) \ {s}
    BY <1>4, <2>2 DEF before, left, lvl
  <2> HIDE DEF lvl
  <2>4. gone <=> ToSet(lvl.queue) = {}
    BY <2>3, EmptyList DEF gone, IsEmptyLevel, Level
  <2>5. QED
    BY <2>3, <2>4
<1>6. /\ orderFree \in Seq(OrderSlots) /\ IsInjective(orderFree)
      /\ ToSet(orderFree) = {t \in OrderSlots : orders[t] = Dead}
      /\ levelFree \in Seq(LevelSlots) /\ IsInjective(levelFree)
      /\ ToSet(levelFree) = {k \in LevelSlots : levels[k] = Dead}
      /\ DOMAIN orders = OrderSlots /\ DOMAIN levels = LevelSlots
  BY DEF Structure, TypeOK, BookConsistent, PoolsConsistent, FreeListMatchesHeap
<1>7. /\ orderFree' \in Seq(OrderSlots) /\ IsInjective(orderFree')
      /\ ToSet(orderFree') = ToSet(orderFree) \cup {s}
  BY <1>1, <1>2, <1>6, AppendList
<1>8. gone => /\ levelFree' \in Seq(LevelSlots) /\ IsInjective(levelFree')
              /\ ToSet(levelFree') = ToSet(levelFree) \cup {l}
  <2> HIDE DEF l, gone
  <2>1. gone => levelFree' = Append(levelFree, l)
    BY <1>1
  <2>2. l \notin ToSet(levelFree)
    BY <1>4, <1>6
  <2>3. /\ Append(levelFree, l) \in Seq(LevelSlots)
        /\ IsInjective(Append(levelFree, l))
        /\ ToSet(Append(levelFree, l)) = ToSet(levelFree) \cup {l}
    BY <1>3, <1>6, <2>2, AppendList
  <2>4. QED
    BY <2>1, <2>3
<1>9. \A i \in OrderId : i # id => orderMap[i] # s
  BY ZenonT(20), <1>1, <1>2 DEF Structure, BookConsistent, OrdersConsistent
<1>10. \A d \in Side, p \in Price :
         book[d][p] = l => d = o.side /\ p = o.price
  BY <1>2, <1>3 DEF Structure, BookConsistent, LevelsOwned
<1> HIDE DEF s, o, l, lvl, gone
(* The state after the step, one variable at a time.                       *)
<1>11. /\ orders'[s] = Dead /\ DOMAIN orders' = OrderSlots
       /\ \A t \in OrderSlots \ {s} : orders'[t] = orders[t]
  BY <1>1, <1>2, <1>6
<1>12. /\ gone => levels'[l] = Dead
       /\ ~gone => levels'[l] = lvl
       /\ \A k \in LevelSlots \ {l} : levels'[k] = levels[k]
       /\ DOMAIN levels' = LevelSlots
  BY <1>1, <1>3, <1>6
<1>13. /\ book'[o.side][o.price] = IF gone THEN Null ELSE l
       /\ \A d \in Side, p \in Price :
            d # o.side \/ p # o.price => book'[d][p] = book[d][p]
  BY <1>1, <1>2, <1>3 DEF Structure, TypeOK
<1>14. /\ orderMap'[id] = Null
       /\ \A i \in OrderId \ {id} : orderMap'[i] = orderMap[i]
  BY <1>1 DEF Structure, TypeOK
<1>15. TypeOK'
  <2>1. orders' \in [OrderSlots -> Order \cup {Dead}] /\ orderFree' \in Seq(OrderSlots)
    BY <1>1, <1>7 DEF Structure, TypeOK
  <2>2. levels' \in [LevelSlots -> Level \cup {Dead}] /\ levelFree' \in Seq(LevelSlots)
    BY <1>1, <1>5, <1>6, <1>8 DEF Structure, TypeOK
  <2>3. book' \in [Side -> [Price -> LevelSlots \cup {Null}]]
    <3>1. CASE gone
      <4>1. book' = [book EXCEPT ![o.side][o.price] = Null]
        BY <1>1, <3>1
      <4>2. book \in [Side -> [Price -> LevelSlots \cup {Null}]]
        BY DEF Structure, TypeOK
      <4>3. QED
        BY <1>3, <4>1, <4>2
    <3>2. CASE ~gone
      BY <1>1, <3>2 DEF Structure, TypeOK
    <3>3. QED
      BY <3>1, <3>2
  <2>4. orderMap' \in [OrderId -> OrderSlots \cup {Null}]
    BY <1>1 DEF Structure, TypeOK
  <2>5. QED
    BY <1>1, <2>1, <2>2, <2>3, <2>4 DEF Structure, TypeOK
<1>16. PoolsConsistent'
  <2>1. ToSet(orderFree') = {t \in OrderSlots : orders'[t] = Dead}
    BY <1>2, <1>6, <1>7, <1>11
  <2>2. ToSet(levelFree') = {k \in LevelSlots : levels'[k] = Dead} /\ IsInjective(levelFree')
    <3>1. CASE gone
      BY <1>3, <1>6, <1>8, <1>12, <3>1
    <3>2. CASE ~gone
      BY <1>1, <1>4, <1>5, <1>6, <1>12, <3>2, DeadAssumption
    <3>3. QED
      BY <3>1, <3>2
  <2>3. QED
    BY <1>7, <1>11, <1>12, <2>1, <2>2 DEF PoolsConsistent, FreeListMatchesHeap
<1>17. OrdersConsistent'
  <2> SUFFICES ASSUME NEW i \in OrderId, orderMap'[i] # Null
               PROVE  LET t == orderMap'[i]
                      IN  /\ t # taker' /\ orders'[t] # Dead
                          /\ orders'[t].id = i /\ orders'[t].type = "LIMIT"
                          /\ orders'[t].remaining > 0 /\ orders'[t].level # Null
                          /\ book'[orders'[t].side][orders'[t].price] = orders'[t].level
                          /\ t \in ToSet(levels'[orders'[t].level].queue)
    BY DEF OrdersConsistent
  <2> DEFINE t == orderMap[i]
  <2>1. i # id /\ orderMap'[i] = t /\ t # s
    BY <1>9, <1>14
  <2>2. /\ t \in OrderSlots /\ t # Null /\ orders[t] # Dead
        /\ orders[t].id = i /\ orders[t].type = "LIMIT"
        /\ orders[t].remaining > 0 /\ orders[t].level # Null
        /\ book[orders[t].side][orders[t].price] = orders[t].level
        /\ t \in ToSet(levels[orders[t].level].queue)
    BY <2>1, OrderBookAssumption
       DEF Structure, TypeOK, BookConsistent, OrdersConsistent
  <2>3. /\ orders'[t] = orders[t] /\ orders[t] \in Order
        /\ orders[t].side \in Side /\ orders[t].price \in Price
        /\ orders[t].level \in LevelSlots
    BY <1>11, <2>1, <2>2 DEF Structure, TypeOK, Order
  <2> HIDE DEF t
  <2>4. CASE orders[t].level = l
    <3>1. orders[t].side = o.side /\ orders[t].price = o.price
      BY <1>10, <2>2, <2>3, <2>4
    <3>2. t \in ToSet(lvl.queue) /\ ~gone
      BY <1>5, <2>1, <2>2, <2>4
    <3>3. QED
      BY <1>1, <1>12, <1>13, <2>1, <2>2, <2>3, <2>4, <3>1, <3>2
  <2>5. CASE orders[t].level # l
    <3>1. orders[t].side # o.side \/ orders[t].price # o.price
      BY <1>2, <2>2, <2>5
    <3>2. QED
      BY <1>1, <1>12, <1>13, <2>1, <2>2, <2>3, <2>5, <3>1
  <2>6. QED
    BY <2>4, <2>5
<1>18. LevelsConsistent'
  <2> SUFFICES ASSUME NEW d \in Side, NEW p \in Price, book'[d][p] # Null
               PROVE  LET k == book'[d][p]
                          q == levels'[k].queue
                      IN  /\ levels'[k] # Dead /\ levels'[k].price = p
                          /\ q # <<>> /\ IsInjective(q)
                          /\ \A t \in ToSet(q) :
                               /\ orders'[t] # Dead
                               /\ orders'[t].side = d /\ orders'[t].price = p
                               /\ orders'[t].level = k
                               /\ orderMap'[orders'[t].id] = t
    BY DEF LevelsConsistent
  <2> DEFINE k == book[d][p]
  <2>1. book'[d][p] = k /\ k # Null
    BY <1>2, <1>13
  <2>2. ASSUME NEW t \in ToSet(levels[k].queue), t # s
        PROVE  /\ orders'[t] # Dead
               /\ orders'[t].side = d /\ orders'[t].price = p
               /\ orders'[t].level = k
               /\ orderMap'[orders'[t].id] = t
    <3>1. /\ t \in OrderSlots /\ t # Null /\ orders[t] \in Order /\ orders[t] # Dead
          /\ orders[t].side = d /\ orders[t].price = p
          /\ orders[t].level = k /\ orderMap[orders[t].id] = t
      BY <2>1, QueueFacts
    <3>2. orders[t].id \in OrderId /\ orders[t].id # id
      BY <2>2, <3>1 DEF Order, s
    <3>3. QED
      BY <1>11, <1>14, <2>2, <3>1, <3>2
  <2>3. CASE k = l
    <3>1. ~gone /\ levels'[k] = lvl /\ d = o.side /\ p = o.price
      BY <1>10, <1>12, <1>13, <2>1, <2>3
    <3>2. lvl.queue # <<>>
      BY <3>1 DEF gone, IsEmptyLevel
    <3>3. lvl # Dead
      BY <1>5, DeadAssumption
    <3>4. QED
      BY <1>5, <2>1, <2>2, <2>3, <3>1, <3>2, <3>3
  <2>4. CASE k # l
    <3>1. /\ k \in LevelSlots /\ levels[k] # Dead /\ levels[k].price = p
          /\ IsInjective(levels[k].queue)
          /\ \A t \in ToSet(levels[k].queue) : orders[t].level = k
      BY <2>1, QueueFacts
    <3>2. levels[k].queue # <<>>
      BY <1>1, <2>1 DEF Structure, BookConsistent, LevelsConsistent
    <3>3. \A t \in ToSet(levels[k].queue) : t # s
      BY <2>4, <3>1 DEF l, o
    <3>4. levels'[k] = levels[k]
      BY <1>12, <2>4, <3>1
    <3>5. QED
      BY <2>1, <2>2, <3>1, <3>2, <3>3, <3>4
  <2>5. QED
    BY <2>3, <2>4
<1>19. LevelsOwned'
  BY <1>2, <1>13 DEF Structure, BookConsistent, LevelsOwned
<1>20. LevelsReachable'
  <2> SUFFICES ASSUME NEW k \in LevelSlots, levels'[k] # Dead
               PROVE  \E d \in Side, p \in Price : book'[d][p] = k
    BY DEF LevelsReachable
  <2>1. CASE k = l
    BY <1>3, <1>12, <1>13, <2>1
  <2>2. CASE k # l
    <3>1. PICK d \in Side, p \in Price : book[d][p] = k
      BY <1>12, <2>2 DEF Structure, BookConsistent, LevelsReachable
    <3>2. QED
      BY <1>2, <1>13, <2>2, <3>1
  <2>3. QED
    BY <2>1, <2>2
<1>21. LocalsConsistent'
  BY <1>1 DEF LocalsConsistent
<1>22. QED
  BY <1>15, <1>16, <1>17, <1>18, <1>19, <1>20, <1>21 DEF Structure, BookConsistent

(* totalVolume -= qty touches neither the price nor the list.              *)
LEMMA DeductVolumeFacts ==
  ASSUME NEW level \in Level, NEW qty \in Qty
  PROVE  /\ DeductVolume(level, qty) \in Level
         /\ DeductVolume(level, qty).price = level.price
         /\ DeductVolume(level, qty).queue = level.queue
<1>1. level.totalVolume + QtyMod - qty \in Nat
  BY QtyModAssumption DEF Level, Qty
<1>2. (level.totalVolume + QtyMod - qty) % QtyMod \in Qty
  BY <1>1, ModRange, QtyModAssumption DEF Qty
<1>3. QED
  BY <1>2 DEF DeductVolume, Level

(* The smaller of two quantities leaves at least one of them at zero.      *)
LEMMA FillFacts ==
  ASSUME NEW a \in Qty, NEW b \in Qty, a > 0, b > 0
  PROVE  /\ Smaller(a, b) \in Qty /\ Smaller(a, b) > 0
         /\ a - Smaller(a, b) \in Qty /\ b - Smaller(a, b) \in Qty
         /\ b - Smaller(a, b) # 0 => a - Smaller(a, b) = 0 /\ b - Smaller(a, b) > 0
  BY QtyModAssumption DEF Smaller, Qty

(* What the inner loop stands at before it fills makerOrder.               *)
LEMMA MakerFacts ==
  ASSUME Structure, pc = "maker", maker # Null, orders[taker].remaining > 0
  PROVE  /\ cursor \in Price /\ CursorLevel # Null /\ CursorLevel \in LevelSlots
         /\ CursorLevel = book[MakerSide][cursor]
         /\ levels[CursorLevel] \in Level /\ levels[CursorLevel] # Dead
         /\ levels[CursorLevel].price = cursor
         /\ IsInjective(levels[CursorLevel].queue)
         /\ levels[CursorLevel].queue \in Seq(OrderSlots)
         /\ maker \in ToSet(levels[CursorLevel].queue)
         /\ levels[CursorLevel].queue # <<>>
         /\ maker = levels[CursorLevel].queue[1]
         /\ maker \in OrderSlots /\ maker # taker
         /\ orders[maker] \in Order /\ orders[maker] # Dead
         /\ orders[maker].side = MakerSide /\ orders[maker].price = cursor
         /\ orders[maker].level = CursorLevel
         /\ orders[maker].id \in OrderId /\ orderMap[orders[maker].id] = maker
         /\ orders[maker].id # orders[taker].id
         /\ orders[maker].remaining > 0 /\ orders[maker].type = "LIMIT"
<1>1. /\ cursor # End /\ CursorLevel # Null
      /\ maker \in ToSet(levels[CursorLevel].queue)
      /\ maker = HeadOfLevel(levels[CursorLevel])
  BY DEF Structure, LocalsConsistent
<1>2. cursor \in Price /\ MakerSide \in Side
  BY <1>1, TakerFacts DEF Structure, TypeOK
<1>3. /\ CursorLevel = book[MakerSide][cursor] /\ CursorLevel \in LevelSlots
      /\ levels[CursorLevel] \in Level /\ levels[CursorLevel] # Dead
      /\ levels[CursorLevel].price = cursor
      /\ IsInjective(levels[CursorLevel].queue)
      /\ levels[CursorLevel].queue \in Seq(OrderSlots)
      /\ maker \in OrderSlots /\ maker # taker
      /\ orders[maker] \in Order /\ orders[maker] # Dead
      /\ orders[maker].side = MakerSide /\ orders[maker].price = cursor
      /\ orders[maker].level = CursorLevel
      /\ orderMap[orders[maker].id] = maker
  BY <1>1, <1>2, QueueFacts DEF CursorLevel
<1>4. levels[CursorLevel].queue # <<>> /\ maker = levels[CursorLevel].queue[1]
  <2> DEFINE q == levels[CursorLevel].queue
  <2>1. q # <<>> /\ maker = Head(q) /\ q \in Seq(OrderSlots)
    BY <1>1, <1>3 DEF HeadOfLevel
  <2> HIDE DEF q
  <2>2. Head(q) = q[1]
    BY <2>1
  <2>3. QED
    BY <2>1, <2>2 DEF q
<1>5. orders[maker].id \in OrderId
  BY <1>3 DEF Order
<1>6. orders[maker].remaining > 0 /\ orders[maker].type = "LIMIT"
  BY <1>3, <1>5 DEF Structure, BookConsistent, OrdersConsistent
<1>7. orders[maker].id # orders[taker].id
  BY <1>3, TakerFacts, OrderBookAssumption
<1>8. QED
  BY <1>1, <1>2, <1>3, <1>4, <1>5, <1>6, <1>7

(* The order behind the one at the head of a level.                        *)
LEMMA SecondInLevel ==
  ASSUME NEW level \in Level, IsInjective(level.queue), level.queue # <<>>
  PROVE  LET head == level.queue[1]
             next == NextInLevel(level, head)
             rest == RemoveAt(level.queue, Position(level, head))
         IN  /\ next # Null => next \in OrderSlots /\ next \in ToSet(rest)
             /\ next # Null => next \in ToSet(level.queue)
             /\ next = IF rest = <<>> THEN Null ELSE Head(rest)
<1> DEFINE q == level.queue
           head == q[1]
           rest == RemoveAt(q, 1)
<1>1. /\ q \in Seq(OrderSlots) /\ DOMAIN q = 1 .. Len(q) /\ Len(q) \in Nat \ {0}
      /\ \A i, j \in 1 .. Len(q) : q[i] = q[j] => i = j
  BY DEF Level, IsInjective
<1>2. Position(level, head) = 1
  <2>1. Position(level, head) \in 1 .. Len(q) /\ q[Position(level, head)] = head
    BY <1>1 DEF Position
  <2>2. QED
    BY <1>1, <2>1
<1>3. NextInLevel(level, head) = IF 1 < Len(q) THEN q[2] ELSE Null
  BY <1>1, <1>2 DEF NextInLevel
<1>4. /\ rest \in Seq(OrderSlots) /\ Len(rest) = Len(q) - 1
      /\ \A j \in 1 .. Len(q) - 1 : rest[j] = IF j < 1 THEN q[j] ELSE q[j + 1]
  <2> HIDE DEF q
  <2>1. 1 \in 1 .. Len(q)
    BY <1>1
  <2>2. QED
    BY <1>1, <2>1, RemoveAtList
<1> HIDE DEF rest
<1>5. CASE Len(q) = 1
  <2>1. rest = <<>>
    BY <1>4, <1>5, EmptySeq
  <2>2. QED
    BY <1>2, <1>3, <1>5, <2>1 DEF rest
<1>6. CASE Len(q) > 1
  <2>1. /\ rest # <<>> /\ Head(rest) = q[2] /\ 1 \in 1 .. Len(rest) /\ rest[1] = q[2]
        /\ 2 \in 1 .. Len(q) /\ q[2] \in OrderSlots
    BY <1>1, <1>4, <1>6
  <2>2. q[2] \in ToSet(rest) /\ q[2] \in ToSet(q)
    BY <1>1, <1>4, <2>1, ListElements
  <2>3. QED
    BY <1>2, <1>3, <1>6, <2>1, <2>2 DEF rest
<1>7. Len(q) = 1 \/ Len(q) > 1
  <2> DEFINE n == Len(q)
  <2>1. n \in Nat \ {0}
    BY <1>1
  <2> HIDE DEF n
  <2>2. n = 1 \/ n > 1
    BY <2>1
  <2>3. QED
    BY <2>2 DEF n
<1>8. QED
  BY <1>5, <1>6, <1>7

(* A fill takes the same quantity off both orders and, when the resting    *)
(* order is used up, the order out of the map, its level and its slot.     *)
LEMMA FillMakerKeepsStructure ==
  ASSUME Structure, FillMaker
  PROVE  Structure'
<1> USE DEF heapVars, mapVars, statVars
<1> DEFINE t    == orders[taker]
           m    == orders[maker]
           L    == CursorLevel
           q    == levels[L].queue
           fill == Smaller(t.remaining, m.remaining)
           left == m.remaining - fill
           lvl  == DeductVolume(levels[L], fill)
           paid == [orders EXCEPT ![taker].remaining = @ - fill,
                                  ![maker].remaining = left]
           event == [maker |-> m.id, taker |-> t.id, price |-> lvl.price, qty |-> fill]
           rest == RemoveOrder(lvl, maker, left)
<1>1. /\ pc = "maker" /\ maker # Null /\ t.remaining > 0
      /\ UNCHANGED <<levelFree, book, pc, taker, cursor, outcome>>
      /\ matches' = Append(matches, event)
      /\ totalTrades' = (totalTrades + 1) % CounterMod
      /\ totalVolume' = (totalVolume + fill) % CounterMod
      /\ maker' = NextInLevel(lvl, maker)
  BY DEF FillMaker
<1>2. \/ /\ left = 0
         /\ orderMap' = [orderMap EXCEPT ![m.id] = Null]
         /\ levels' = [levels EXCEPT ![L] = rest]
         /\ orders' = [paid EXCEPT ![maker] = Dead]
         /\ orderFree' = Append(orderFree, maker)
      \/ /\ left # 0
         /\ levels' = [levels EXCEPT ![L] = lvl]
         /\ orders' = paid
         /\ UNCHANGED <<orderMap, orderFree>>
  BY DEF FillMaker, Deallocate
<1>3. /\ taker \in OrderSlots /\ taker # Null
      /\ t \in Order /\ t # Dead /\ t.level = Null /\ orderMap[t.id] = Null
      /\ t.id \in OrderId /\ t.side \in Side /\ t.remaining \in Qty
      /\ MakerSide \in Side /\ MakerSide = Opposite(t.side)
  BY <1>1, TakerFacts DEF MakerSide
<1>4. /\ cursor \in Price /\ L # Null /\ L \in LevelSlots /\ L = book[MakerSide][cursor]
      /\ levels[L] \in Level /\ levels[L] # Dead /\ levels[L].price = cursor
      /\ IsInjective(q) /\ q \in Seq(OrderSlots) /\ maker \in ToSet(q)
      /\ q # <<>> /\ maker = q[1]
      /\ maker \in OrderSlots /\ maker # taker
      /\ m \in Order /\ m # Dead /\ m.side = MakerSide /\ m.price = cursor
      /\ m.level = L /\ m.id \in OrderId /\ orderMap[m.id] = maker
      /\ m.id # t.id /\ m.remaining > 0 /\ m.type = "LIMIT" /\ m.remaining \in Qty
  BY <1>1, MakerFacts DEF Order
<1>5. /\ fill \in Qty /\ fill > 0 /\ left \in Qty /\ t.remaining - fill \in Qty
      /\ left # 0 => t.remaining - fill = 0 /\ left > 0
  BY <1>1, <1>3, <1>4, FillFacts
<1>6. lvl \in Level /\ lvl.price = cursor /\ lvl.queue = q
  BY <1>4, <1>5, DeductVolumeFacts
<1>7. /\ rest \in Level /\ rest.price = cursor /\ IsInjective(rest.queue)
      /\ ToSet(rest.queue) = ToSet(q) \ {maker}
      /\ rest.queue = RemoveAt(lvl.queue, Position(lvl, maker))
  <2> HIDE DEF lvl, left, q, rest
  <2>1. /\ lvl \in Level /\ maker \in OrderSlots /\ left \in Qty
        /\ IsInjective(lvl.queue) /\ maker \in ToSet(lvl.queue)
    BY <1>4, <1>5, <1>6
  <2>2. /\ RemoveOrder(lvl, maker, left) \in Level
        /\ RemoveOrder(lvl, maker, left).price = lvl.price
        /\ IsInjective(RemoveOrder(lvl, maker, left).queue)
        /\ ToSet(RemoveOrder(lvl, maker, left).queue) = ToSet(lvl.queue) \ {maker}
        /\ RemoveOrder(lvl, maker, left).queue = RemoveAt(lvl.queue, Position(lvl, maker))
    BY <2>1, RemoveOrderFacts
  <2>3. QED
    BY <1>6, <2>2 DEF rest
<1>8. /\ maker' # Null => /\ maker' \in OrderSlots
                          /\ maker' \in ToSet(rest.queue) /\ maker' \in ToSet(q)
      /\ maker' = HeadOfLevel(rest)
  <2> HIDE DEF lvl, rest, q
  <2>1. /\ maker' # Null => maker' \in OrderSlots /\ maker' \in ToSet(rest.queue)
        /\ maker' # Null => maker' \in ToSet(lvl.queue)
        /\ maker' = IF rest.queue = <<>> THEN Null ELSE Head(rest.queue)
    BY <1>1, <1>4, <1>6, <1>7, SecondInLevel
  <2>2. QED
    BY <1>6, <2>1 DEF HeadOfLevel, IsEmptyLevel
<1>9. /\ orderFree \in Seq(OrderSlots) /\ IsInjective(orderFree)
      /\ ToSet(orderFree) = {s \in OrderSlots : orders[s] = Dead}
      /\ DOMAIN orders = OrderSlots /\ DOMAIN levels = LevelSlots
      /\ orders \in [OrderSlots -> Order \cup {Dead}]
      /\ levels \in [LevelSlots -> Level \cup {Dead}]
      /\ orderMap \in [OrderId -> OrderSlots \cup {Null}]
  BY DEF Structure, TypeOK, BookConsistent, PoolsConsistent, FreeListMatchesHeap
<1>10. /\ paid[taker] = [t EXCEPT !.remaining = @ - fill]
       /\ paid[maker] = [m EXCEPT !.remaining = left]
       /\ \A s \in OrderSlots : s # taker /\ s # maker => paid[s] = orders[s]
       /\ DOMAIN paid = OrderSlots
  <2> HIDE DEF fill, left
  <2>1. QED
    BY <1>3, <1>4, <1>9
<1>11. /\ [t EXCEPT !.remaining = @ - fill] \in Order
       /\ [m EXCEPT !.remaining = left] \in Order
  <2> HIDE DEF fill, left
  <2>1. QED
    BY <1>3, <1>4, <1>5 DEF Order
<1>12. \A d \in Side, p \in Price : book[d][p] = L => d = MakerSide /\ p = cursor
  BY <1>3, <1>4 DEF Structure, BookConsistent, LevelsOwned
<1>13. left = 0 => /\ orderFree' \in Seq(OrderSlots) /\ IsInjective(orderFree')
                   /\ ToSet(orderFree') = ToSet(orderFree) \cup {maker}
  <2> HIDE DEF left, m
  <2>1. left = 0 => orderFree' = Append(orderFree, maker)
    BY <1>2
  <2>2. maker \notin ToSet(orderFree)
    BY <1>4, <1>9 DEF m
  <2>3. /\ Append(orderFree, maker) \in Seq(OrderSlots)
        /\ IsInjective(Append(orderFree, maker))
        /\ ToSet(Append(orderFree, maker)) = ToSet(orderFree) \cup {maker}
    BY <1>4, <1>9, <2>2, AppendList
  <2>4. QED
    BY <2>1, <2>3
(* The state after the step, one variable at a time.                       *)
<1>14. /\ orders'[taker] \in Order /\ orders'[taker] # Dead
       /\ orders'[taker].id = t.id /\ orders'[taker].side = t.side
       /\ orders'[taker].level = Null
       /\ orders'[taker].remaining = t.remaining - fill
  <2>1. orders'[taker] = [t EXCEPT !.remaining = @ - fill]
    <3> HIDE DEF paid, left, fill, t, m
    <3>1. QED
      BY <1>2, <1>3, <1>4, <1>10
  <2> HIDE DEF fill
  <2>2. QED
    BY <1>3, <1>11, <2>1, DeadAssumption DEF Order
<1>15. /\ left = 0 => orders'[maker] = Dead
       /\ left # 0 => /\ orders'[maker] \in Order /\ orders'[maker] # Dead
                      /\ orders'[maker].id = m.id /\ orders'[maker].type = "LIMIT"
                      /\ orders'[maker].side = MakerSide /\ orders'[maker].price = cursor
                      /\ orders'[maker].level = L /\ orders'[maker].remaining > 0
       /\ \A s \in OrderSlots : s # taker /\ s # maker => orders'[s] = orders[s]
       /\ DOMAIN orders' = OrderSlots
  <2>1. /\ left = 0 => orders'[maker] = Dead
        /\ left # 0 => orders'[maker] = [m EXCEPT !.remaining = left]
        /\ \A s \in OrderSlots : s # taker /\ s # maker => orders'[s] = orders[s]
        /\ DOMAIN orders' = OrderSlots
    <3> HIDE DEF paid, left, fill, t, m
    <3>1. QED
      BY <1>2, <1>3, <1>4, <1>10
  <2> HIDE DEF left
  <2>2. QED
    BY ZenonT(20), <1>4, <1>5, <1>11, <2>1, DeadAssumption DEF Order
<1>16. /\ left = 0 => levels'[L] = rest
       /\ left # 0 => levels'[L] = lvl
       /\ \A k \in LevelSlots \ {L} : levels'[k] = levels[k]
       /\ DOMAIN levels' = LevelSlots
       /\ levels'[L] \in Level /\ levels'[L] # Dead /\ levels'[L].price = cursor
       /\ IsInjective(levels'[L].queue)
       /\ ToSet(levels'[L].queue) = IF left = 0 THEN ToSet(q) \ {maker} ELSE ToSet(q)
  <2> HIDE DEF rest, lvl, left, q, L, m, paid
  <2>1. /\ left = 0 => levels'[L] = rest
        /\ left # 0 => levels'[L] = lvl
        /\ \A k \in LevelSlots \ {L} : levels'[k] = levels[k]
        /\ DOMAIN levels' = LevelSlots
    BY <1>2, <1>4, <1>9
  <2>2. QED
    BY <1>4, <1>6, <1>7, <2>1, DeadAssumption
<1>17. /\ left = 0 => orderMap'[m.id] = Null
       /\ left # 0 => orderMap'[m.id] = maker
       /\ \A i \in OrderId : i # m.id => orderMap'[i] = orderMap[i]
  <2> HIDE DEF left, m, paid, rest, lvl
  <2>1. QED
    BY <1>2, <1>4, <1>9
<1> HIDE DEF t, m, L, q, fill, left, lvl, paid, event, rest
<1>18. MakerSide' = MakerSide /\ CursorLevel' = L
  BY <1>1, <1>3, <1>4, <1>14 DEF MakerSide, CursorLevel
<1>19. TypeOK'
  <2>1. orders' \in [OrderSlots -> Order \cup {Dead}] /\ orderFree' \in Seq(OrderSlots)
    <3>1. \A s \in OrderSlots : orders'[s] \in Order \cup {Dead}
      BY <1>9, <1>14, <1>15
    <3>2. orders' = [s \in OrderSlots |-> orders'[s]]
      BY <1>2, <1>9, <1>10 DEF paid
    <3>3. orderFree' \in Seq(OrderSlots)
      BY <1>2, <1>9, <1>13
    <3>4. QED
      BY <3>1, <3>2, <3>3
  <2>2. levels' \in [LevelSlots -> Level \cup {Dead}]
    BY <1>2, <1>6, <1>7, <1>9
  <2>3. orderMap' \in [OrderId -> OrderSlots \cup {Null}]
    BY <1>2, <1>9
  <2>4. matches' \in Seq(MatchEvent)
    <3>1. event \in MatchEvent
      BY <1>3, <1>4, <1>5, <1>6 DEF event, MatchEvent
    <3>2. QED
      BY <1>1, <3>1, AppendProperties DEF Structure, TypeOK
  <2>5. totalTrades' \in 0 .. CounterMod - 1 /\ totalVolume' \in 0 .. CounterMod - 1
    <3>1. totalTrades + 1 \in Nat /\ totalVolume + fill \in Nat
      BY <1>5, OrderBookAssumption, QtyModAssumption DEF Structure, TypeOK, Qty
    <3>2. QED
      BY <1>1, <3>1, ModRange, OrderBookAssumption
  <2>6. maker' \in OrderSlots \cup {Null}
    BY <1>8
  <2>7. QED
    BY <1>1, <2>1, <2>2, <2>3, <2>4, <2>5, <2>6 DEF Structure, TypeOK
<1>20. PoolsConsistent'
  <2>1. ToSet(orderFree') = {s \in OrderSlots : orders'[s] = Dead} /\ IsInjective(orderFree')
    <3>1. CASE left = 0
      BY <1>3, <1>4, <1>9, <1>13, <1>14, <1>15, <3>1 DEF t, m
    <3>2. CASE left # 0
      <4>1. orderFree' = orderFree
        BY <1>2, <3>2
      <4>2. QED
        BY <1>3, <1>4, <1>9, <1>14, <1>15, <3>2, <4>1 DEF t, m
    <3>3. QED
      BY <3>1, <3>2
  <2>2. {k \in LevelSlots : levels'[k] = Dead} = {k \in LevelSlots : levels[k] = Dead}
    BY <1>4, <1>16
  <2>3. QED
    BY <1>1, <1>9, <1>15, <1>16, <2>1, <2>2
       DEF Structure, BookConsistent, PoolsConsistent, FreeListMatchesHeap
<1>21. OrdersConsistent'
  <2> SUFFICES ASSUME NEW i \in OrderId, orderMap'[i] # Null
               PROVE  LET s == orderMap'[i]
                      IN  /\ s # taker' /\ orders'[s] # Dead
                          /\ orders'[s].id = i /\ orders'[s].type = "LIMIT"
                          /\ orders'[s].remaining > 0 /\ orders'[s].level # Null
                          /\ book'[orders'[s].side][orders'[s].price] = orders'[s].level
                          /\ s \in ToSet(levels'[orders'[s].level].queue)
    BY DEF OrdersConsistent
  <2>1. CASE i = m.id
    <3>1. left # 0 /\ orderMap'[i] = maker
      BY <1>17, <2>1
    <3>2. maker \in ToSet(levels'[L].queue)
      BY <1>4, <1>16, <3>1 DEF q
    <3>3. QED
      BY <1>1, <1>4, <1>15, <2>1, <3>1, <3>2
  <2>2. CASE i # m.id
    <3> DEFINE s == orderMap[i]
    <3>1. /\ orderMap'[i] = s /\ s \in OrderSlots /\ s # Null
          /\ s # taker /\ orders[s] # Dead
          /\ orders[s].id = i /\ orders[s].type = "LIMIT"
          /\ orders[s].remaining > 0 /\ orders[s].level # Null
          /\ book[orders[s].side][orders[s].price] = orders[s].level
          /\ s \in ToSet(levels[orders[s].level].queue)
      BY <1>17, <2>2, OrderBookAssumption
         DEF Structure, TypeOK, BookConsistent, OrdersConsistent
    <3> HIDE DEF s
    <3>2. s # maker
      BY <2>2, <3>1 DEF m
    <3>3. /\ orders'[s] = orders[s] /\ orders[s] \in Order /\ orders[s].level \in LevelSlots
      BY <1>9, <1>15, <3>1, <3>2 DEF Order
    <3>4. s \in ToSet(levels'[orders[s].level].queue)
      BY <1>16, <3>1, <3>2, <3>3 DEF q
    <3>5. QED
      BY <1>1, <3>1, <3>3, <3>4
  <2>3. QED
    BY <2>1, <2>2
<1>22. LevelsConsistent'
  <2> SUFFICES ASSUME NEW d \in Side, NEW p \in Price, book'[d][p] # Null
               PROVE  LET k == book'[d][p]
                          r == levels'[k].queue
                      IN  /\ levels'[k] # Dead /\ levels'[k].price = p
                          /\ r = <<>> => pc' = "maker" /\ d = MakerSide' /\ p = cursor'
                          /\ IsInjective(r)
                          /\ \A s \in ToSet(r) :
                               /\ orders'[s] # Dead
                               /\ orders'[s].side = d /\ orders'[s].price = p
                               /\ orders'[s].level = k
                               /\ orderMap'[orders'[s].id] = s
    BY DEF LevelsConsistent
  <2> DEFINE k == book[d][p]
  <2>1. book'[d][p] = k /\ k # Null
    BY <1>1
  <2>2. ASSUME NEW s \in ToSet(levels[k].queue), s # maker
        PROVE  /\ orders'[s] # Dead
               /\ orders'[s].side = d /\ orders'[s].price = p
               /\ orders'[s].level = k
               /\ orderMap'[orders'[s].id] = s
    <3>1. /\ s \in OrderSlots /\ s # taker /\ orders[s] \in Order /\ orders[s] # Dead
          /\ orders[s].side = d /\ orders[s].price = p
          /\ orders[s].level = k /\ orderMap[orders[s].id] = s
      BY <2>1, QueueFacts
    <3>2. orders[s].id \in OrderId /\ orders[s].id # m.id
      BY <1>4, <2>2, <3>1 DEF Order
    <3>3. QED
      BY <1>15, <1>17, <2>2, <3>1, <3>2
  <2>3. CASE k = L
    <3>1. d = MakerSide /\ p = cursor
      BY <1>12, <2>3
    <3>2. ASSUME left # 0
          PROVE  /\ orders'[maker] # Dead
                 /\ orders'[maker].side = d /\ orders'[maker].price = p
                 /\ orders'[maker].level = k
                 /\ orderMap'[orders'[maker].id] = maker
      BY <1>15, <1>17, <2>3, <3>1, <3>2
    <3>3. ASSUME NEW s \in ToSet(levels'[L].queue)
          PROVE  s \in ToSet(levels[k].queue) /\ (s = maker => left # 0)
      BY <1>16, <2>3 DEF q
    <3> HIDE DEF k
    <3>4. QED
      BY <1>1, <1>16, <1>18, <2>1, <2>2, <2>3, <3>1, <3>2, <3>3
  <2>4. CASE k # L
    <3>1. /\ k \in LevelSlots /\ levels[k] # Dead /\ levels[k].price = p
          /\ IsInjective(levels[k].queue)
          /\ \A s \in ToSet(levels[k].queue) : orders[s].level = k
          /\ levels[k].queue = <<>> => d = MakerSide /\ p = cursor
      BY <2>1, QueueFacts DEF Structure, BookConsistent, LevelsConsistent
    <3>2. \A s \in ToSet(levels[k].queue) : s # maker
      BY <1>4, <2>4, <3>1 DEF m
    <3>3. levels'[k] = levels[k]
      BY <1>16, <2>4, <3>1
    <3> HIDE DEF k
    <3>4. QED
      BY <1>1, <1>18, <2>1, <2>2, <3>1, <3>2, <3>3
  <2>5. QED
    BY <2>3, <2>4
<1>23. LevelsOwned' /\ LevelsReachable'
  BY <1>1, <1>4, <1>16 DEF Structure, BookConsistent, LevelsOwned, LevelsReachable
<1>24. LocalsConsistent'
  <2>1. /\ taker' # Null /\ orders'[taker'] # Dead /\ orders'[taker'].level = Null
        /\ orderMap'[orders'[taker'].id] = Null
    BY <1>1, <1>3, <1>4, <1>14, <1>17
  <2>2. cursor' # End /\ CursorLevel' # Null
    BY <1>1, <1>4, <1>18, OrderBookAssumption
  <2>3. maker' # Null => maker' \in ToSet(levels'[CursorLevel'].queue)
    BY <1>7, <1>8, <1>16, <1>18
  <2>4. orders'[taker'].remaining > 0 => maker' = HeadOfLevel(levels'[CursorLevel'])
    <3>1. CASE left = 0
      BY <1>8, <1>16, <1>18, <3>1
    <3>2. CASE left # 0
      BY <1>1, <1>5, <1>14, <3>2
    <3>3. QED
      BY <3>1, <3>2
  <2>5. HeadOfLevel(levels'[CursorLevel']) = HeadOfLevel(levels[CursorLevel])'
    BY DEF HeadOfLevel, IsEmptyLevel
  <2>6. QED
    BY <1>1, <2>1, <2>2, <2>3, <2>4, <2>5 DEF LocalsConsistent
<1>25. QED
  BY <1>19, <1>20, <1>21, <1>22, <1>23, <1>24 DEF Structure, BookConsistent

(* An exhausted level leaves the map and its slot; the iterator moves on.  *)
LEMMA LeaveLevelKeepsStructure ==
  ASSUME Structure, LeaveLevel
  PROVE  Structure'
<1> USE DEF heapVars, mapVars, statVars
<1> DEFINE L    == CursorLevel
           gone == IsEmptyLevel(levels[L])
<1>1. /\ pc = "maker" /\ pc' = "level" /\ maker' = Null
      /\ UNCHANGED <<orders, orderFree, orderMap, statVars, taker, matches, outcome>>
      /\ cursor' \in Price \cup {End}
      /\ First(MakerSide, KeysAfter(MakerSide, cursor), cursor')
  BY DEF LeaveLevel
<1>2. /\ gone => /\ levelFree' = Append(levelFree, L)
                 /\ levels' = [levels EXCEPT ![L] = Dead]
                 /\ book' = [book EXCEPT ![MakerSide][cursor] = Null]
      /\ ~gone => UNCHANGED <<levelFree, levels, book>>
  BY DEF LeaveLevel, Deallocate
<1>3. /\ taker \in OrderSlots /\ taker # Null /\ MakerSide \in Side
      /\ orders[taker] # Dead /\ orders[taker].level = Null
      /\ orderMap[orders[taker].id] = Null
  BY <1>1, TakerFacts
<1>4. /\ cursor \in Price /\ L # Null /\ L = book[MakerSide][cursor]
  BY <1>1 DEF Structure, LocalsConsistent, TypeOK, CursorLevel
<1>5. /\ L \in LevelSlots /\ levels[L] \in Level /\ levels[L] # Dead
      /\ levels[L].queue \in Seq(OrderSlots)
  BY <1>3, <1>4, QueueFacts
<1>6. /\ levelFree \in Seq(LevelSlots) /\ IsInjective(levelFree)
      /\ ToSet(levelFree) = {k \in LevelSlots : levels[k] = Dead}
      /\ DOMAIN levels = LevelSlots
      /\ levels \in [LevelSlots -> Level \cup {Dead}]
      /\ book \in [Side -> [Price -> LevelSlots \cup {Null}]]
  BY DEF Structure, TypeOK, BookConsistent, PoolsConsistent, FreeListMatchesHeap
<1>7. \A d \in Side, p \in Price : book[d][p] = L => d = MakerSide /\ p = cursor
  BY <1>3, <1>4 DEF Structure, BookConsistent, LevelsOwned
<1>8. gone => ToSet(levels[L].queue) = {}
  BY <1>5, EmptyList DEF IsEmptyLevel
<1>9. ~gone => levels[L].queue # <<>>
  BY DEF IsEmptyLevel
<1>10. MakerSide' = MakerSide
  BY <1>1 DEF MakerSide
<1> HIDE DEF L, gone
<1>11. gone => /\ levelFree' \in Seq(LevelSlots) /\ IsInjective(levelFree')
               /\ ToSet(levelFree') = ToSet(levelFree) \cup {L}
  <2>1. L \notin ToSet(levelFree)
    BY <1>5, <1>6
  <2>2. /\ Append(levelFree, L) \in Seq(LevelSlots)
        /\ IsInjective(Append(levelFree, L))
        /\ ToSet(Append(levelFree, L)) = ToSet(levelFree) \cup {L}
    BY <1>5, <1>6, <2>1, AppendList
  <2>3. QED
    BY <1>2, <2>2
<1>12. /\ gone => levels'[L] = Dead
       /\ ~gone => levels'[L] = levels[L]
       /\ \A k \in LevelSlots \ {L} : levels'[k] = levels[k]
       /\ DOMAIN levels' = LevelSlots
  BY <1>2, <1>5, <1>6
<1>13. /\ book'[MakerSide][cursor] = IF gone THEN Null ELSE L
       /\ \A d \in Side, p \in Price :
            d # MakerSide \/ p # cursor => book'[d][p] = book[d][p]
  BY <1>2, <1>3, <1>4, <1>6
<1>14. TypeOK'
  <2>1. CASE gone
    <3>1. book' \in [Side -> [Price -> LevelSlots \cup {Null}]]
      BY SMTT(15), <1>2, <1>3, <1>4, <1>6, <2>1
    <3>2. levels' \in [LevelSlots -> Level \cup {Dead}]
      BY <1>2, <1>6, <2>1
    <3>3. QED
      BY <1>1, <1>11, <2>1, <3>1, <3>2 DEF Structure, TypeOK
  <2>2. CASE ~gone
    BY <1>1, <1>2, <2>2 DEF Structure, TypeOK
  <2>3. QED
    BY <2>1, <2>2
<1>15. PoolsConsistent'
  <2>1. ToSet(levelFree') = {k \in LevelSlots : levels'[k] = Dead} /\ IsInjective(levelFree')
    <3>1. CASE gone
      BY <1>5, <1>6, <1>11, <1>12, <3>1
    <3>2. CASE ~gone
      BY <1>2, <1>6, <3>2
    <3>3. QED
      BY <3>1, <3>2
  <2>2. QED
    BY <1>1, <1>12, <2>1
       DEF Structure, BookConsistent, PoolsConsistent, FreeListMatchesHeap
<1>16. OrdersConsistent'
  <2> SUFFICES ASSUME NEW i \in OrderId, orderMap[i] # Null
               PROVE  LET s == orderMap[i]
                      IN  /\ s # taker /\ orders[s] # Dead
                          /\ orders[s].id = i /\ orders[s].type = "LIMIT"
                          /\ orders[s].remaining > 0 /\ orders[s].level # Null
                          /\ book'[orders[s].side][orders[s].price] = orders[s].level
                          /\ s \in ToSet(levels'[orders[s].level].queue)
    BY <1>1 DEF OrdersConsistent
  <2> DEFINE s == orderMap[i]
  <2>1. /\ s \in OrderSlots /\ s # Null
        /\ s # taker /\ orders[s] # Dead
        /\ orders[s].id = i /\ orders[s].type = "LIMIT"
        /\ orders[s].remaining > 0 /\ orders[s].level # Null
        /\ book[orders[s].side][orders[s].price] = orders[s].level
        /\ s \in ToSet(levels[orders[s].level].queue)
    BY OrderBookAssumption DEF Structure, TypeOK, BookConsistent, OrdersConsistent
  <2>2. /\ orders[s] \in Order /\ orders[s].level \in LevelSlots
        /\ orders[s].side \in Side /\ orders[s].price \in Price
    BY <2>1 DEF Structure, TypeOK, Order
  <2> HIDE DEF s
  <2>3. gone => orders[s].level # L
    BY <1>8, <2>1
  <2>4. levels'[orders[s].level] = levels[orders[s].level]
    BY <1>12, <2>2, <2>3
  <2>5. book'[orders[s].side][orders[s].price] = orders[s].level
    BY <1>4, <1>13, <2>1, <2>2, <2>3
  <2>6. QED
    BY <2>1, <2>4, <2>5 DEF s
<1>17. LevelsConsistent'
  <2> SUFFICES ASSUME NEW d \in Side, NEW p \in Price, book'[d][p] # Null
               PROVE  LET k == book'[d][p]
                          r == levels'[k].queue
                      IN  /\ levels'[k] # Dead /\ levels'[k].price = p
                          /\ r # <<>>
                          /\ IsInjective(r)
                          /\ \A s \in ToSet(r) :
                               /\ orders[s] # Dead
                               /\ orders[s].side = d /\ orders[s].price = p
                               /\ orders[s].level = k
                               /\ orderMap[orders[s].id] = s
    BY <1>1 DEF LevelsConsistent
  <2>1. book'[d][p] = book[d][p] /\ book[d][p] # Null /\ book[d][p] \in LevelSlots
    BY <1>4, <1>6, <1>13
  <2>2. gone => book[d][p] # L
    BY <1>7, <1>13
  <2>3. levels'[book[d][p]] = levels[book[d][p]]
    BY <1>12, <2>1, <2>2
  <2>4. levels[book[d][p]].queue # <<>>
    <3>1. CASE d = MakerSide /\ p = cursor
      BY <1>4, <1>9, <2>2, <3>1
    <3>2. CASE d # MakerSide \/ p # cursor
      BY <2>1, <3>2 DEF Structure, BookConsistent, LevelsConsistent
    <3>3. QED
      BY <3>1, <3>2
  <2>5. QED
    BY <2>1, <2>3, <2>4, QueueFacts
<1>18. LevelsOwned'
  BY <1>4, <1>13 DEF Structure, BookConsistent, LevelsOwned
<1>19. LevelsReachable'
  <2> SUFFICES ASSUME NEW k \in LevelSlots, levels'[k] # Dead
               PROVE  \E d \in Side, p \in Price : book'[d][p] = k
    BY DEF LevelsReachable
  <2>1. CASE k = L
    BY <1>3, <1>4, <1>12, <1>13, <2>1
  <2>2. CASE k # L
    <3>1. PICK d \in Side, p \in Price : book[d][p] = k
      BY <1>12, <2>2 DEF Structure, BookConsistent, LevelsReachable
    <3>2. QED
      BY <1>4, <1>13, <2>2, <3>1
  <2>3. QED
    BY <2>1, <2>2
<1>20. LocalsConsistent'
  <2>1. cursor' = End \/ CursorLevel' # Null
    <3>1. ASSUME cursor' # End PROVE book'[MakerSide][cursor'] # Null
      <4>1. cursor' \in KeysAfter(MakerSide, cursor)
        BY <1>1, <3>1 DEF First
      <4>2. cursor' \in Price /\ book[MakerSide][cursor'] # Null /\ cursor' # cursor
        BY <1>4, <4>1, OrderBookAssumption DEF KeysAfter, Occupied, Before
      <4>3. QED
        BY <1>3, <1>13, <4>2
    <3>2. QED
      BY <1>10, <3>1 DEF CursorLevel
  <2>2. QED
    BY <1>1, <1>3, <2>1 DEF LocalsConsistent
<1>21. QED
  BY <1>14, <1>15, <1>16, <1>17, <1>18, <1>19, <1>20 DEF Structure, BookConsistent

(* The destructor empties the maps and returns what they led to.           *)
LEMMA DestroyKeepsStructure ==
  ASSUME Structure, Destroy
  PROVE  Structure'
<1> USE DEF heapVars, mapVars, statVars
<1>1. /\ pc = "idle" /\ pc' = "destroyed" /\ outcome' = "none"
      /\ UNCHANGED <<statVars, taker, cursor, maker, matches>>
      /\ orderFree' = orderFree \o SetToSeq(MappedSlots)
      /\ levelFree' = levelFree \o SetToSeq(BookedLevels)
      /\ orders' = [s \in OrderSlots |-> IF s \in MappedSlots THEN Dead ELSE orders[s]]
      /\ levels' = [l \in LevelSlots |-> IF l \in BookedLevels THEN Dead ELSE levels[l]]
      /\ orderMap' = [id \in OrderId |-> Null]
      /\ book' = [side \in Side |-> [p \in Price |-> Null]]
  BY DEF Destroy
<1>2. MappedSlots \in SUBSET OrderSlots /\ \A s \in MappedSlots : orders[s] # Dead
  BY DEF MappedSlots, Structure, TypeOK, BookConsistent, OrdersConsistent
<1>3. /\ BookedLevels \in SUBSET LevelSlots /\ \A l \in BookedLevels : levels[l] # Dead
      /\ \A l \in LevelSlots : levels[l] # Dead => l \in BookedLevels
  <2>1. ASSUME NEW l \in BookedLevels
        PROVE  l \in LevelSlots /\ levels[l] # Dead
    BY QueueFacts, OrderBookAssumption DEF BookedLevels
  <2>2. ASSUME NEW l \in LevelSlots, levels[l] # Dead
        PROVE  l \in BookedLevels
    BY <2>2 DEF BookedLevels, Structure, BookConsistent, LevelsReachable
  <2>3. QED
    BY <2>1, <2>2
<1>4. /\ SetToSeq(MappedSlots) \in Seq(OrderSlots)
      /\ IsInjective(SetToSeq(MappedSlots)) /\ ToSet(SetToSeq(MappedSlots)) = MappedSlots
      /\ SetToSeq(BookedLevels) \in Seq(LevelSlots)
      /\ IsInjective(SetToSeq(BookedLevels)) /\ ToSet(SetToSeq(BookedLevels)) = BookedLevels
  BY <1>2, <1>3, EnumerationList, OrderBookAssumption
<1>5. /\ orderFree \in Seq(OrderSlots) /\ IsInjective(orderFree)
      /\ ToSet(orderFree) = {s \in OrderSlots : orders[s] = Dead}
      /\ levelFree \in Seq(LevelSlots) /\ IsInjective(levelFree)
      /\ ToSet(levelFree) = {k \in LevelSlots : levels[k] = Dead}
  BY DEF Structure, TypeOK, BookConsistent, PoolsConsistent, FreeListMatchesHeap
<1>6. /\ orderFree' \in Seq(OrderSlots) /\ IsInjective(orderFree')
      /\ ToSet(orderFree') = ToSet(orderFree) \cup MappedSlots
  <2>1. ToSet(orderFree) \cap ToSet(SetToSeq(MappedSlots)) = {}
    BY <1>2, <1>4, <1>5
  <2>2. QED
    BY <1>1, <1>4, <1>5, <2>1, ConcatList
<1>7. /\ levelFree' \in Seq(LevelSlots) /\ IsInjective(levelFree')
      /\ ToSet(levelFree') = ToSet(levelFree) \cup BookedLevels
  <2>1. ToSet(levelFree) \cap ToSet(SetToSeq(BookedLevels)) = {}
    BY <1>3, <1>4, <1>5
  <2>2. QED
    BY <1>1, <1>4, <1>5, <2>1, ConcatList
<1>8. TypeOK'
  BY <1>1, <1>6, <1>7 DEF Structure, TypeOK
<1>9. PoolsConsistent'
  <2>1. ToSet(orderFree') = {s \in OrderSlots : orders'[s] = Dead}
    BY <1>1, <1>2, <1>5, <1>6
  <2>2. ToSet(levelFree') = {l \in LevelSlots : levels'[l] = Dead}
    BY <1>1, <1>3, <1>5, <1>7
  <2>3. DOMAIN orders' = OrderSlots /\ DOMAIN levels' = LevelSlots
    BY <1>1
  <2>4. QED
    BY <1>6, <1>7, <2>1, <2>2, <2>3 DEF PoolsConsistent, FreeListMatchesHeap
<1>10. OrdersConsistent' /\ LevelsConsistent' /\ LevelsOwned'
  BY <1>1 DEF OrdersConsistent, LevelsConsistent, LevelsOwned
<1>11. LevelsReachable'
  BY <1>1, <1>3 DEF LevelsReachable
<1>12. LocalsConsistent'
  <2>1. taker' = Null
    BY <1>1 DEF Structure, LocalsConsistent
  <2>2. QED
    BY <1>1, <2>1 DEF LocalsConsistent
<1>13. QED
  BY <1>8, <1>9, <1>10, <1>11, <1>12 DEF Structure, BookConsistent

(* Every step of the program keeps the invariant.                          *)
LEMMA NextKeepsStructure ==
  ASSUME Structure, [Next]_vars
  PROVE  Structure'
<1>1. CASE UNCHANGED vars
  <2>1. UNCHANGED <<heapVars, mapVars, statVars, callVars>>
    BY <1>1 DEF vars
  <2>2. TypeOK'
    BY <2>1 DEF heapVars, mapVars, statVars, callVars, Structure, TypeOK
  <2>3. PoolsConsistent' /\ OrdersConsistent' /\ LevelsOwned' /\ LevelsReachable'
    BY <2>1 DEF heapVars, mapVars, callVars, Structure, BookConsistent, PoolsConsistent,
       FreeListMatchesHeap, OrdersConsistent, LevelsOwned, LevelsReachable
  <2>4. LevelsConsistent'
    BY <2>1 DEF heapVars, mapVars, callVars, Structure, BookConsistent, LevelsConsistent,
       MakerSide
  <2>5. LocalsConsistent'
    BY <2>1 DEF heapVars, mapVars, callVars, Structure, LocalsConsistent, MakerSide,
       CursorLevel, HeadOfLevel
  <2>6. QED
    BY <2>2, <2>3, <2>4, <2>5 DEF Structure, BookConsistent
<1>2. CASE Call
  <2>1. ASSUME NEW id \in OrderId, NEW qty \in Quantity,
               RejectOrder(id, qty) \/ OrderPoolThrows(id, qty)
        PROVE  Structure'
    BY <2>1, RefusalsKeepStructure
  <2>2. ASSUME NEW id \in OrderId, NEW qty \in Quantity, NEW side \in Side,
               NEW price \in Price, NEW type \in OrderType,
               AcceptOrder(id, side, price, qty, type)
        PROVE  Structure'
    BY <2>2, AcceptOrderKeepsStructure
  <2>3. ASSUME NEW id \in OrderId, CancelUnknown(id) PROVE Structure'
    BY <2>3, RefusalsKeepStructure
  <2>4. ASSUME NEW id \in OrderId, CancelOrder(id) PROVE Structure'
    BY <2>4, CancelOrderKeepsStructure
  <2>5. CASE Destroy
    BY <2>5, DestroyKeepsStructure
  <2>6. QED
    BY <1>2, <2>1, <2>2, <2>3, <2>4, <2>5 DEF Call
<1>3. CASE Step
  BY <1>3, StopMatchingKeepsStructure, EnterLevelKeepsStructure,
     FillMakerKeepsStructure, LeaveLevelKeepsStructure, RestOrderKeepsStructure,
     LevelPoolThrowsKeepsStructure, DiscardOrderKeepsStructure DEF Step
<1>4. QED
  BY <1>1, <1>2, <1>3 DEF Next

(* The invariant holds in every reachable state.                           *)
LEMMA StructureInvariant == Spec => []Structure
  BY InitStructure, NextKeepsStructure, PTL DEF Spec

(* Type correctness: every quantity stays in its unsigned range and every  *)
(* pointer is Null or a slot of the pool it belongs to.                    *)
THEOREM TypeCorrect == Spec => []TypeOK
<1>1. Structure => TypeOK
  BY DEF Structure
<1>2. QED
  BY <1>1, StructureInvariant, PTL

(* The two pools, orderMap_, bids_, asks_ and the levels' lists agree with *)
(* each other after any number of adds, fills, cancellations and throws:   *)
(* no slot is used twice, and no container leads to a destroyed object.    *)
THEOREM BookStaysConsistent == Spec => []BookConsistent
<1>1. Structure => BookConsistent
  BY DEF Structure
<1>2. QED
  BY <1>1, StructureInvariant, PTL

(* addOrder() never uses a dangling pointer or iterator while it matches.  *)
THEOREM LocalsNeverDangle == Spec => []LocalsConsistent
<1>1. Structure => LocalsConsistent
  BY DEF Structure
<1>2. QED
  BY <1>1, StructureInvariant, PTL

-----------------------------------------------------------------------------
(***************************************************************************)
(* The book is never crossed.  NoCrossedBook is not inductive by itself:   *)
(* that an order rests only when nothing on the other side is in its reach *)
(* follows from the position of the matching loop's iterator.              *)
(***************************************************************************)
Uncrossed == NoCrossedBook /\ CursorAtBest

LEMMA InitUncrossed == Init => Uncrossed
  BY DEF Init, Uncrossed, NoCrossedBook, CursorAtBest, Occupied, Side

(* Losing keys cannot cross a book.                                        *)
LEMMA FewerKeys ==
  ASSUME NoCrossedBook, \A d \in Side : Occupied(d)' \subseteq Occupied(d)
  PROVE  NoCrossedBook'
  BY DEF NoCrossedBook, Side

(* The loop ends with a remainder to rest only at a level out of reach,    *)
(* and then every level behind it is out of reach too.                     *)
LEMMA StopMatchingKeepsUncrossed ==
  ASSUME Structure, Uncrossed, StopMatching
  PROVE  Uncrossed'
<1>1. /\ pc = "level" /\ pc' = "settle" /\ MatchingStops
      /\ UNCHANGED <<orders, levels, book, taker, cursor>>
  BY DEF StopMatching, heapVars, mapVars
<1>2. \A d \in Side : Occupied(d)' = Occupied(d)
  BY <1>1 DEF Occupied
<1>3. NoCrossedBook'
  BY <1>2, FewerKeys DEF Uncrossed
<1>4. ASSUME Rests, NEW p \in Occupied(MakerSide)
      PROVE  TooExpensive(orders[taker].side, orders[taker].price, p)
  <2>1. /\ orders[taker].remaining > 0 /\ orders[taker].type = "LIMIT"
        /\ First(MakerSide, Occupied(MakerSide), cursor)
    BY <1>1, <1>4 DEF Rests, Uncrossed, CursorAtBest
  <2>2. /\ orders[taker].side \in Side /\ MakerSide \in Side
        /\ MakerSide = Opposite(orders[taker].side) /\ orders[taker].price \in Nat
        /\ orders[taker].remaining # 0
    <3>1. /\ orders[taker].side \in Side /\ MakerSide \in Side
          /\ orders[taker].price \in Price /\ orders[taker].remaining \in Qty
      BY <1>1, TakerFacts
    <3>2. orders[taker].remaining # 0
      BY <2>1, <3>1, QtyModAssumption DEF Qty
    <3>3. QED
      BY <3>1, <3>2, OrderBookAssumption DEF MakerSide
  <2>3. cursor \in Price /\ cursor \in Nat /\ cursor # End /\ p \in Nat
        /\ book[MakerSide][cursor] # Null
        /\ (p = cursor \/ Before(MakerSide, cursor, p))
    BY <1>4, <2>1, OrderBookAssumption DEF First, Occupied
  <2>4. levels[CursorLevel].price = cursor
    BY <2>2, <2>3, QueueFacts DEF CursorLevel
  <2>5. TooExpensive(orders[taker].side, orders[taker].price, cursor)
    BY <1>1, <2>2, <2>3, <2>4 DEF MatchingStops
  <2>6. QED
    BY <2>2, <2>3, <2>5 DEF TooExpensive, Before, Opposite, Side
<1>5. CursorAtBest'
  <2>1. Rests' = Rests /\ MakerSide' = MakerSide
        /\ orders[taker]' = orders[taker]
    BY <1>1 DEF Rests, MakerSide
  <2>2. MakerSide \in Side
    BY <1>1, TakerFacts
  <2>3. ASSUME Rests', NEW p \in Occupied(MakerSide)'
        PROVE  TooExpensive(orders[taker]'.side, orders[taker]'.price, p)
    BY <1>1, <1>4, <2>1, <2>3 DEF Occupied, MakerSide
  <2>4. QED
    BY <1>1, <2>3 DEF CursorAtBest, TooExpensive
<1>6. QED
  BY <1>3, <1>5 DEF Uncrossed

(* A step that keeps the keys of the maps and the incoming order's side    *)
(* keeps what the iterator's position says.                                *)
LEMMA EnterLevelKeepsUncrossed ==
  ASSUME Structure, Uncrossed, EnterLevel
  PROVE  Uncrossed'
<1>1. /\ pc = "level" /\ pc' = "maker" /\ ~MatchingStops
      /\ UNCHANGED <<orders, levels, book, taker, cursor>>
  BY DEF EnterLevel, heapVars, mapVars
<1>2. \A d \in Side : Occupied(d)' = Occupied(d)
  BY <1>1 DEF Occupied
<1>3. NoCrossedBook'
  BY <1>2, FewerKeys DEF Uncrossed
<1>4. MakerSide' = MakerSide /\ MakerSide \in Side
  BY <1>1, TakerFacts DEF MakerSide
<1>5. orders[taker].remaining > 0
  BY <1>1, TakerFacts, QtyModAssumption DEF MatchingStops, Qty
<1>6. First(MakerSide, Occupied(MakerSide), cursor)
  BY <1>1, <1>5 DEF Uncrossed, CursorAtBest
<1>7. Occupied(MakerSide)' = Occupied(MakerSide)
  BY <1>1, <1>4 DEF Occupied
<1>8. First(MakerSide, Occupied(MakerSide), cursor)'
  BY <1>1, <1>4, <1>6, <1>7 DEF First, Before
<1>9. CursorAtBest'
  BY <1>1, <1>8 DEF CursorAtBest
<1>10. QED
  BY <1>3, <1>9 DEF Uncrossed

LEMMA FillMakerKeepsUncrossed ==
  ASSUME Structure, Structure', Uncrossed, FillMaker
  PROVE  Uncrossed'
<1>1. pc = "maker" /\ pc' = "maker" /\ UNCHANGED <<book, taker, cursor>>
  BY DEF FillMaker
<1>2. \A d \in Side : Occupied(d)' = Occupied(d)
  BY <1>1 DEF Occupied
<1>3. NoCrossedBook'
  BY <1>2, FewerKeys DEF Uncrossed
<1>4. MakerSide' = MakerSide /\ MakerSide \in Side
  <2>1. /\ maker # Null /\ orders[taker].remaining > 0
        /\ \/ orders' = [[orders EXCEPT ![taker].remaining = @ - Smaller(orders[taker].remaining, orders[maker].remaining),
                                         ![maker].remaining = orders[maker].remaining - Smaller(orders[taker].remaining, orders[maker].remaining)]
                                      EXCEPT ![maker] = Dead]
           \/ orders' = [orders EXCEPT ![taker].remaining = @ - Smaller(orders[taker].remaining, orders[maker].remaining),
                                       ![maker].remaining = orders[maker].remaining - Smaller(orders[taker].remaining, orders[maker].remaining)]
    BY DEF FillMaker
  <2>2. maker # taker /\ maker \in OrderSlots
    BY <1>1, <2>1, MakerFacts
  <2>3. taker \in OrderSlots /\ orders[taker] \in Order /\ MakerSide \in Side
    BY <1>1, TakerFacts
  <2>4. orders'[taker].side = orders[taker].side
    BY <2>1, <2>2, <2>3 DEF Structure, TypeOK, Order
  <2>5. QED
    BY <1>1, <2>3, <2>4 DEF MakerSide
<1>5. First(MakerSide, Occupied(MakerSide), cursor)
  BY <1>1 DEF Uncrossed, CursorAtBest
<1>6. Occupied(MakerSide)' = Occupied(MakerSide)
  BY <1>1, <1>4 DEF Occupied
<1>7. First(MakerSide, Occupied(MakerSide), cursor)'
  BY <1>1, <1>4, <1>5, <1>6 DEF First, Before
<1>8. CursorAtBest'
  BY <1>1, <1>7 DEF CursorAtBest
<1>9. QED
  BY <1>3, <1>8 DEF Uncrossed

(* When the incoming order outlasts a level, the level was the best, it is *)
(* gone, and the key the iterator moves to is the best of what is left.    *)
LEMMA LeaveLevelKeepsUncrossed ==
  ASSUME Structure, Uncrossed, LeaveLevel
  PROVE  Uncrossed'
<1>1. /\ pc = "maker" /\ pc' = "level" /\ UNCHANGED <<orders, taker>>
      /\ maker = Null \/ orders[taker].remaining = 0
      /\ \/ /\ IsEmptyLevel(levels[CursorLevel])
            /\ book' = [book EXCEPT ![MakerSide][cursor] = Null]
         \/ /\ ~IsEmptyLevel(levels[CursorLevel])
            /\ UNCHANGED book
      /\ First(MakerSide, KeysAfter(MakerSide, cursor), cursor')
  BY DEF LeaveLevel
<1>2. /\ MakerSide \in Side /\ MakerSide' = MakerSide /\ cursor \in Price
      /\ CursorLevel # Null /\ CursorLevel = book[MakerSide][cursor]
      /\ book \in [Side -> [Price -> LevelSlots \cup {Null}]]
  BY <1>1, TakerFacts DEF MakerSide, CursorLevel, Structure, LocalsConsistent, TypeOK
<1>3. \A d \in Side : Occupied(d)' \subseteq Occupied(d)
  BY <1>1, <1>2 DEF Occupied
<1>4. NoCrossedBook'
  BY <1>3, FewerKeys DEF Uncrossed
<1>5. ASSUME orders[taker].remaining > 0
      PROVE  First(MakerSide, Occupied(MakerSide), cursor)'
  <2>1. maker = Null
    BY <1>1, <1>5, TakerFacts, QtyModAssumption DEF Qty
  <2>2. maker = HeadOfLevel(levels[CursorLevel])
    BY <1>1, <1>5 DEF Structure, LocalsConsistent
  <2>3. levels[CursorLevel].queue \in Seq(OrderSlots)
    BY <1>2, QueueFacts
  <2>4. IsEmptyLevel(levels[CursorLevel])
    <3>1. ASSUME levels[CursorLevel].queue # <<>>
          PROVE  Head(levels[CursorLevel].queue) # Null
      BY <2>3, <3>1, HeadTailProperties, OrderBookAssumption
    <3>2. QED
      BY <2>1, <2>2, <3>1 DEF HeadOfLevel, IsEmptyLevel
  <2>5. book' = [book EXCEPT ![MakerSide][cursor] = Null]
    BY <1>1, <2>4
  <2>6. Occupied(MakerSide)' = Occupied(MakerSide) \ {cursor}
    BY <1>2, <2>5 DEF Occupied
  <2>7. First(MakerSide, Occupied(MakerSide), cursor)
    BY <1>1 DEF Uncrossed, CursorAtBest
  <2>8. \A p \in Occupied(MakerSide) \ {cursor} : Before(MakerSide, cursor, p)
    BY <1>2, <2>7, OrderBookAssumption DEF First
  <2>9. ~Before(MakerSide, cursor, cursor)
    BY <1>2, OrderBookAssumption DEF Before
  <2>10. KeysAfter(MakerSide, cursor) = Occupied(MakerSide) \ {cursor}
    BY <2>8, <2>9 DEF KeysAfter
  <2>11. QED
    BY <1>1, <1>2, <2>6, <2>10 DEF First, Before
<1>6. CursorAtBest'
  BY <1>1, <1>5 DEF CursorAtBest
<1>7. QED
  BY <1>4, <1>6 DEF Uncrossed

(* The key a remainder rests under is out of reach of the other side.      *)
LEMMA RestOrderKeepsUncrossed ==
  ASSUME Structure, Uncrossed, RestOrder
  PROVE  Uncrossed'
<1>1. /\ pc = "settle" /\ pc' = "idle" /\ Rests
      /\ \E l : book' = [book EXCEPT ![orders[taker].side][orders[taker].price] = l]
  BY DEF RestOrder, Return
<1>2. /\ orders[taker].side \in Side /\ orders[taker].price \in Price
      /\ book \in [Side -> [Price -> LevelSlots \cup {Null}]]
  BY <1>1, TakerFacts DEF Structure, TypeOK
<1>3. \A p \in Occupied(Opposite(orders[taker].side)) :
        TooExpensive(orders[taker].side, orders[taker].price, p)
  BY <1>1 DEF Uncrossed, CursorAtBest, MakerSide
<1>4. \A d \in Side, p \in Price :
        d # orders[taker].side \/ p # orders[taker].price => book'[d][p] = book[d][p]
  BY <1>1, <1>2
<1>5. ASSUME NEW b \in Price, NEW a \in Price,
             book'["BUY"][b] # Null, book'["SELL"][a] # Null
      PROVE  b < a
  <2>1. CASE orders[taker].side = "BUY" /\ b = orders[taker].price
    <3>1. book["SELL"][a] # Null
      BY <1>4, <1>5, <2>1 DEF Side
    <3>2. TooExpensive("BUY", b, a)
      BY <1>3, <2>1, <3>1 DEF Occupied, Opposite
    <3>3. QED
      BY <3>2, OrderBookAssumption DEF TooExpensive
  <2>2. CASE orders[taker].side = "SELL" /\ a = orders[taker].price
    <3>1. book["BUY"][b] # Null
      BY <1>4, <1>5, <2>2 DEF Side
    <3>2. TooExpensive("SELL", a, b)
      BY <1>3, <2>2, <3>1 DEF Occupied, Opposite
    <3>3. QED
      BY <3>2, OrderBookAssumption DEF TooExpensive
  <2>3. CASE /\ orders[taker].side # "BUY" \/ b # orders[taker].price
             /\ orders[taker].side # "SELL" \/ a # orders[taker].price
    <3>1. book["BUY"][b] # Null /\ book["SELL"][a] # Null
      BY <1>4, <1>5, <2>3 DEF Side
    <3>2. QED
      BY <3>1 DEF Uncrossed, NoCrossedBook, Occupied
  <2>4. QED
    BY <2>1, <2>2, <2>3
<1>6. NoCrossedBook'
  BY <1>5 DEF NoCrossedBook, Occupied
<1>7. QED
  BY <1>1, <1>6 DEF Uncrossed, CursorAtBest

(* The iterator starts at the first key of the other side.                 *)
LEMMA AcceptOrderKeepsUncrossed ==
  ASSUME Structure, Uncrossed, NEW id \in OrderId, NEW side \in Side,
         NEW price \in Price, NEW qty \in Quantity, NEW type \in OrderType,
         AcceptOrder(id, side, price, qty, type)
  PROVE  Uncrossed'
<1>1. /\ pc = "idle" /\ pc' = "level" /\ UNCHANGED book
      /\ orderFree # <<>> /\ taker' = AllocatedSlot(orderFree)
      /\ orders' = [orders EXCEPT ![AllocatedSlot(orderFree)] =
                       NewOrder(id, side, price, qty, type)]
      /\ First(Opposite(side), Occupied(Opposite(side)), cursor')
  BY DEF AcceptOrder, mapVars, Exhausted
<1>2. AllocatedSlot(orderFree) \in OrderSlots
  BY <1>1, FrontList DEF AllocatedSlot, Structure, TypeOK, BookConsistent,
     PoolsConsistent, FreeListMatchesHeap
<1>3. orders'[taker'].side = side
  BY <1>1, <1>2 DEF Structure, TypeOK, NewOrder
<1>4. MakerSide' = Opposite(side)
  BY <1>3 DEF MakerSide
<1>5. \A d \in Side : Occupied(d)' = Occupied(d)
  BY <1>1 DEF Occupied
<1>6. Occupied(MakerSide)' = Occupied(Opposite(side))
  BY <1>1, <1>4 DEF Occupied
<1>7. First(MakerSide, Occupied(MakerSide), cursor)'
  BY <1>1, <1>4, <1>6 DEF First, Before
<1>8. NoCrossedBook'
  BY <1>5, FewerKeys DEF Uncrossed
<1>9. QED
  BY <1>1, <1>7, <1>8 DEF Uncrossed, CursorAtBest

(* A call that ends, or is refused, adding no key.                         *)
LEMMA EndingKeepsUncrossed ==
  ASSUME Uncrossed, pc' \in {"idle", "destroyed"},
         \A d \in Side : Occupied(d)' \subseteq Occupied(d)
  PROVE  Uncrossed'
  BY FewerKeys DEF Uncrossed, CursorAtBest

LEMMA CancelOrderKeepsUncrossed ==
  ASSUME Structure, Uncrossed, NEW id \in OrderId, CancelOrder(id)
  PROVE  Uncrossed'
<1> DEFINE o == orders[orderMap[id]]
<1>1. /\ pc' = "idle"
      /\ book' = [book EXCEPT ![o.side][o.price] = Null] \/ book' = book
  BY DEF CancelOrder, Return
<1>2. book \in [Side -> [Price -> LevelSlots \cup {Null}]]
  BY DEF Structure, TypeOK
<1> HIDE DEF o
<1>3. \A d \in Side : Occupied(d)' \subseteq Occupied(d)
  BY <1>1, <1>2 DEF Occupied
<1>4. QED
  BY <1>1, <1>3, EndingKeepsUncrossed

LEMMA NextKeepsUncrossed ==
  ASSUME Structure, Structure', Uncrossed, [Next]_vars
  PROVE  Uncrossed'
<1>1. CASE UNCHANGED vars
  BY <1>1 DEF vars, heapVars, mapVars, callVars, Uncrossed, NoCrossedBook,
     CursorAtBest, First, Occupied, Before, MakerSide, Rests, TooExpensive
<1>2. ASSUME NEW id \in OrderId, NEW qty \in Quantity, NEW side \in Side,
             NEW price \in Price, NEW type \in OrderType,
             AcceptOrder(id, side, price, qty, type)
      PROVE  Uncrossed'
  BY <1>2, AcceptOrderKeepsUncrossed
<1>3. ASSUME NEW id \in OrderId, CancelOrder(id)
      PROVE  Uncrossed'
  BY <1>3, CancelOrderKeepsUncrossed
<1>4. ASSUME NEW id \in OrderId, NEW qty \in Quantity,
             RejectOrder(id, qty) \/ OrderPoolThrows(id, qty)
      PROVE  Uncrossed'
  <2>1. pc' = "idle" /\ book' = book
    BY <1>4 DEF RejectOrder, OrderPoolThrows, Return, mapVars
  <2>2. \A d \in Side : Occupied(d)' \subseteq Occupied(d)
    BY <2>1 DEF Occupied
  <2>3. QED
    BY <2>1, <2>2, EndingKeepsUncrossed
<1>5. CASE LevelPoolThrows \/ DiscardOrder
  <2>1. pc' = "idle" /\ book' = book
    BY <1>5 DEF LevelPoolThrows, DiscardOrder, Return, mapVars
  <2>2. \A d \in Side : Occupied(d)' \subseteq Occupied(d)
    BY <2>1 DEF Occupied
  <2>3. QED
    BY <2>1, <2>2, EndingKeepsUncrossed
<1>6. CASE Destroy
  <2>1. pc' = "destroyed" /\ book' = [side \in Side |-> [p \in Price |-> Null]]
    BY <1>6 DEF Destroy
  <2>2. \A d \in Side : Occupied(d)' \subseteq Occupied(d)
    BY <2>1 DEF Occupied
  <2>3. QED
    BY <2>1, <2>2, EndingKeepsUncrossed
<1>7. ASSUME NEW id \in OrderId, CancelUnknown(id) PROVE Uncrossed'
  <2>1. pc' = "idle" /\ book' = book
    BY <1>7 DEF CancelUnknown, Return, mapVars
  <2>2. \A d \in Side : Occupied(d)' \subseteq Occupied(d)
    BY <2>1 DEF Occupied
  <2>3. QED
    BY <2>1, <2>2, EndingKeepsUncrossed
<1>8. CASE Call
  BY <1>2, <1>3, <1>4, <1>6, <1>7, <1>8 DEF Call
<1>9. CASE Step
  BY <1>5, <1>9, StopMatchingKeepsUncrossed, EnterLevelKeepsUncrossed,
     FillMakerKeepsUncrossed, LeaveLevelKeepsUncrossed, RestOrderKeepsUncrossed
     DEF Step
<1>10. QED
  BY <1>1, <1>8, <1>9 DEF Next

LEMMA UncrossedInvariant == Spec => [](Structure /\ Uncrossed)
<1>1. Structure /\ Uncrossed /\ [Next]_vars => (Structure /\ Uncrossed)'
  BY NextKeepsStructure, NextKeepsUncrossed
<1>2. Init => Structure /\ Uncrossed
  BY InitStructure, InitUncrossed
<1>3. QED
  BY <1>1, <1>2, PTL DEF Spec

(* The best bid is below the best ask, between two calls and inside one:   *)
(* an addOrder() trades with everything in its reach before it rests.      *)
THEOREM NeverCrossed == Spec => []NoCrossedBook
<1>1. Uncrossed => NoCrossedBook
  BY DEF Uncrossed
<1>2. QED
  BY <1>1, UncrossedInvariant, PTL

(* The iterator of the matching loops, moved by ++it on one path and by    *)
(* it = erase(it) on the other, is always at the best price left.          *)
THEOREM MatchesAtBestPrice == Spec => []CursorAtBest
<1>1. Uncrossed => CursorAtBest
  BY DEF Uncrossed
<1>2. QED
  BY <1>1, UncrossedInvariant, PTL

-----------------------------------------------------------------------------
(***************************************************************************)
(* The level pool.  When it is exhausted every level is on the book, and   *)
(* has an order of its own and a price of its own.                         *)
(***************************************************************************)
LevelPoolIsLarge ==
  \/ Cardinality(LevelSlots) >= Cardinality(OrderSlots)
  \/ Cardinality(LevelSlots) >= Cardinality(Price)

LEMMA PoolSuffices ==
  ASSUME Structure, Uncrossed PROVE LevelPoolSuffices
<1> SUFFICES ASSUME LevelPoolIsLarge, pc = "settle", Rests, NoLevelLeft PROVE FALSE
  BY DEF LevelPoolSuffices, LevelPoolIsLarge
<1> DEFINE q(l) == levels[l].queue
           own == orders[taker]
<1>1. /\ taker \in OrderSlots /\ own \in Order /\ own.side \in Side /\ own.price \in Price
      /\ MakerSide = Opposite(own.side)
  BY TakerFacts DEF MakerSide
<1>2. ASSUME NEW l \in LevelSlots
      PROVE  /\ \E side \in Side, p \in Price : book[side][p] = l
             /\ levels[l].price \in Price /\ q(l) # <<>> /\ q(l)[1] \in OrderSlots \ {taker}
             /\ orders[q(l)[1]].level = l
  <2>1. levels[l] # Dead
    <3>1. ToSet(levelFree) = {s \in LevelSlots : levels[s] = Dead} /\ levelFree = <<>>
      BY DEF Structure, TypeOK, BookConsistent, PoolsConsistent, FreeListMatchesHeap,
         NoLevelLeft, Exhausted
    <3> QED BY <3>1, EmptyList
  <2>2. PICK side \in Side, p \in Price : book[side][p] = l
    BY <2>1 DEF Structure, BookConsistent, LevelsReachable
  <2>3. book[side][p] # Null
    BY <2>2, OrderBookAssumption
  <2>4. /\ q(l) \in Seq(OrderSlots) /\ ToSet(q(l)) \subseteq OrderSlots
        /\ \A t \in ToSet(q(l)) : t # taker /\ orders[t].level = l
        /\ levels[l].price = p
    BY <2>2, <2>3, QueueFacts
  <2>5. q(l) # <<>>
    BY <2>2, <2>3 DEF Structure, BookConsistent, LevelsConsistent
  <2>6. q(l)[1] \in ToSet(q(l))
    BY <2>4, <2>5, ListElements
  <2> QED BY <2>2, <2>4, <2>5, <2>6
<1>3. IsFiniteSet(LevelSlots) /\ IsFiniteSet(OrderSlots) /\ IsFiniteSet(Price)
  BY OrderBookAssumption
<1>4. CASE Cardinality(LevelSlots) >= Cardinality(OrderSlots)
  <2> DEFINE f == [l \in LevelSlots |-> q(l)[1]]
  <2>1. f \in [LevelSlots -> OrderSlots \ {taker}]
    BY <1>2
  <2>2. /\ IsFiniteSet(OrderSlots \ {taker})
        /\ Cardinality(OrderSlots \ {taker}) = Cardinality(OrderSlots) - 1
        /\ Cardinality(OrderSlots) \in Nat /\ Cardinality(LevelSlots) \in Nat
    BY <1>1, <1>3, FS_RemoveElement, FS_CardinalityType
  <2>3. Cardinality(OrderSlots \ {taker}) < Cardinality(LevelSlots)
    BY <1>4, <2>2
  <2>4. PICK l, k \in LevelSlots : l # k /\ f[l] = f[k]
    <3> HIDE DEF f
    <3> QED BY <1>3, <2>1, <2>2, <2>3, FS_PigeonHole
  <2> QED BY <1>2, <2>4
<1>5. CASE Cardinality(LevelSlots) >= Cardinality(Price)
  <2> DEFINE g == [l \in LevelSlots |-> levels[l].price]
  <2>1. ASSUME NEW l \in LevelSlots
        PROVE  \E side \in Side : book[side][g[l]] = l /\ g[l] \in Occupied(side)
    <3>1. PICK side \in Side, p \in Price : book[side][p] = l
      BY <1>2
    <3>2. book[side][p] # Null
      BY <3>1, OrderBookAssumption
    <3>3. levels[l].price = p
      BY <3>1, <3>2, QueueFacts
    <3> QED BY <3>1, <3>2, <3>3 DEF Occupied
  <2>2. ASSUME NEW l \in LevelSlots PROVE g[l] # own.price
    <3>1. PICK side \in Side : book[side][g[l]] = l /\ g[l] \in Occupied(side)
      BY <2>1
    <3>2. CASE side = own.side
      BY <3>1, <3>2, OrderBookAssumption DEF NoLevelLeft, OwnLevel
    <3>3. CASE side = MakerSide
      <4>1. TooExpensive(own.side, own.price, g[l])
        BY <3>1, <3>3 DEF Uncrossed, CursorAtBest
      <4>2. own.price \in Nat /\ own.side \in Side
        BY <1>1, OrderBookAssumption
      <4> HIDE DEF own, g
      <4>3. ~TooExpensive(own.side, own.price, own.price)
        BY <4>2 DEF TooExpensive
      <4> QED BY <4>1, <4>3
    <3> QED BY <1>1, <3>2, <3>3 DEF Opposite, Side
  <2>3. g \in [LevelSlots -> Price \ {own.price}]
    BY <1>2, <2>2
  <2>4. /\ IsFiniteSet(Price \ {own.price})
        /\ Cardinality(Price \ {own.price}) = Cardinality(Price) - 1
        /\ Cardinality(Price) \in Nat /\ Cardinality(LevelSlots) \in Nat
    BY <1>1, <1>3, FS_RemoveElement, FS_CardinalityType
  <2>5. Cardinality(Price \ {own.price}) < Cardinality(LevelSlots)
    BY <1>5, <2>4
  <2> HIDE DEF g
  <2>6. PICK l, k \in LevelSlots : l # k /\ g[l] = g[k]
    BY <1>3, <2>3, <2>4, <2>5, FS_PigeonHole
  <2>7. PICK s1 \in Side : book[s1][g[l]] = l /\ g[l] \in Occupied(s1)
    BY <2>1
  <2>8. PICK s2 \in Side : book[s2][g[k]] = k /\ g[k] \in Occupied(s2)
    BY <2>1
  <2>9. s1 # s2
    BY <2>6, <2>7, <2>8
  <2>10. g[l] \in Occupied("BUY") /\ g[l] \in Occupied("SELL")
    BY <2>6, <2>7, <2>8, <2>9 DEF Side
  <2>11. g[l] < g[l] /\ g[l] \in Nat
    BY <2>10, OrderBookAssumption DEF Uncrossed, NoCrossedBook, Occupied
  <2> QED BY <2>11
<1> QED BY <1>4, <1>5 DEF LevelPoolIsLarge

(* An addOrder() never runs out of levels when the pool has as many as     *)
(* there are orders, or as there are prices.                               *)
THEOREM LevelsNeverRunOut == Spec => []LevelPoolSuffices
  BY PoolSuffices, UncrossedInvariant, PTL

-----------------------------------------------------------------------------
(***************************************************************************)
(* What becomes of the slots of the order pool.  A slot in use is the      *)
(* incoming order's, or in the map, or stranded; every step that takes an  *)
(* order off the map or ends a call destroys the order, except the throw.  *)
(***************************************************************************)
LEMMA NoOtherCallStrands ==
  ASSUME Structure, Call PROVE Stranded' \subseteq Stranded
<1> USE DEF heapVars, mapVars, statVars
<1>1. SUFFICES ASSUME NEW s \in OrderSlots, orders'[s] # Dead, s # taker',
                      \A id \in OrderId : orderMap'[id] # s
               PROVE  orders[s] # Dead /\ s # taker
                      /\ \A id \in OrderId : orderMap[id] # s
  BY <1>1 DEF Stranded
<1>2. pc = "idle"
  BY DEF Call, RejectOrder, OrderPoolThrows, AcceptOrder, CancelUnknown, CancelOrder, Destroy
<1>3. taker = Null /\ s # taker
  BY <1>2, OrderBookAssumption DEF Structure, LocalsConsistent
<1>4. CASE UNCHANGED <<orders, orderMap>>
  BY <1>1, <1>3, <1>4
<1>5. ASSUME NEW id \in OrderId, NEW side \in Side, NEW price \in Price,
             NEW qty \in Quantity, NEW type \in OrderType,
             AcceptOrder(id, side, price, qty, type)
      PROVE  UNCHANGED orderMap /\ orders'[s] = orders[s]
  BY <1>1, <1>5 DEF AcceptOrder, Structure, TypeOK
<1>6. ASSUME NEW id \in OrderId, CancelOrder(id)
      PROVE  \A i \in OrderId : orderMap[i] # s
  <2>1. /\ orders' = [orders EXCEPT ![orderMap[id]] = Dead]
        /\ orderMap' = [orderMap EXCEPT ![id] = Null]
    BY <1>6 DEF CancelOrder
  <2>2. orderMap[id] # s
    BY <1>1, <2>1 DEF Structure, TypeOK
  <2> QED BY <1>1, <2>1, <2>2 DEF Structure, TypeOK
<1>7. ASSUME NEW id \in OrderId, CancelOrder(id)
      PROVE  orders[s] = orders'[s]
  BY <1>1, <1>6, <1>7 DEF CancelOrder, Structure, TypeOK
<1>8. CASE Destroy
  <2>1. orders'[s] = IF s \in MappedSlots THEN Dead ELSE orders[s]
    BY <1>8 DEF Destroy
  <2>2. s \notin MappedSlots /\ orders[s] # Dead
    BY <1>1, <2>1
  <2> QED BY <1>3, <2>2, OrderBookAssumption DEF MappedSlots
<1>9. ASSUME NEW id \in OrderId, NEW qty \in Quantity,
             RejectOrder(id, qty) \/ OrderPoolThrows(id, qty) \/ CancelUnknown(id)
      PROVE  UNCHANGED <<orders, orderMap>>
  BY <1>9 DEF RejectOrder, OrderPoolThrows, CancelUnknown
<1>10. ASSUME NEW id \in OrderId, CancelUnknown(id)
       PROVE  UNCHANGED <<orders, orderMap>>
  BY <1>10 DEF CancelUnknown
<1> QED
  BY <1>1, <1>3, <1>4, <1>5, <1>6, <1>7, <1>8, <1>9, <1>10 DEF Call

LEMMA NoOtherStepStrands ==
  ASSUME Structure, Step, ~LevelPoolThrows PROVE Stranded' \subseteq Stranded
<1> USE DEF heapVars, mapVars, statVars
<1>1. SUFFICES ASSUME NEW s \in OrderSlots, orders'[s] # Dead, s # taker',
                      \A id \in OrderId : orderMap'[id] # s
               PROVE  orders[s] # Dead /\ s # taker
                      /\ \A id \in OrderId : orderMap[id] # s
  BY <1>1 DEF Stranded
<1>2. CASE StopMatching \/ EnterLevel \/ LeaveLevel
  <2>1. UNCHANGED <<orders, orderMap, taker>>
    BY <1>2 DEF StopMatching, EnterLevel, LeaveLevel
  <2> QED BY <1>1, <2>1
<1>3. CASE FillMaker
  <2> DEFINE m == orders[maker]
             fill == Smaller(orders[taker].remaining, m.remaining)
             paid == [orders EXCEPT ![taker].remaining = @ - fill,
                                    ![maker].remaining = m.remaining - fill]
  <2>1. /\ pc = "maker" /\ maker # Null /\ orders[taker].remaining > 0
        /\ UNCHANGED taker
        /\ \/ /\ orders' = [paid EXCEPT ![maker] = Dead]
              /\ orderMap' = [orderMap EXCEPT ![m.id] = Null]
           \/ orders' = paid /\ UNCHANGED orderMap
    BY <1>3 DEF FillMaker
  <2>2. /\ maker \in OrderSlots /\ m.id \in OrderId /\ orderMap[m.id] = maker
        /\ m # Dead /\ taker \in OrderSlots
    BY <2>1, MakerFacts, TakerFacts
  <2>3. orders \in [OrderSlots -> Order \cup {Dead}] /\ orderMap \in [OrderId -> OrderSlots \cup {Null}]
    BY DEF Structure, TypeOK
  <2>4. s # taker
    BY <1>1, <2>1
  <2>5. paid \in [OrderSlots -> {paid[t] : t \in OrderSlots}]
        /\ \A t \in OrderSlots \ {taker, maker} : paid[t] = orders[t]
    BY <2>2, <2>3
  <2> HIDE DEF paid, m
  <2>6. CASE s = maker
    <3>1. UNCHANGED orderMap
      BY <1>1, <2>1, <2>2, <2>5, <2>6
    <3> QED BY <1>1, <2>2, <2>4, <2>6, <3>1 DEF m
  <2>7. CASE s # maker
    <3>1. orders'[s] = orders[s]
      BY <2>1, <2>4, <2>5, <2>7
    <3>2. ASSUME NEW id \in OrderId PROVE orderMap[id] # s
      BY <1>1, <2>1, <2>2, <2>3, <2>7
    <3> QED BY <1>1, <2>4, <3>1, <3>2
  <2> QED BY <2>6, <2>7
<1>4. CASE RestOrder
  <2> DEFINE o == orders[taker]
  <2>1. /\ pc = "settle" /\ taker' = Null
        /\ orderMap' = [orderMap EXCEPT ![o.id] = taker]
        /\ \E l : orders' = [orders EXCEPT ![taker].level = l]
    BY <1>4 DEF RestOrder, Return
  <2>2. taker \in OrderSlots /\ o.id \in OrderId /\ orderMap[o.id] = Null
    BY <2>1, TakerFacts
  <2>3. s # taker
    BY <1>1, <2>1, <2>2 DEF Structure, TypeOK
  <2>4. orders'[s] = orders[s]
    BY <2>1, <2>2, <2>3 DEF Structure, TypeOK
  <2>5. ASSUME NEW id \in OrderId PROVE orderMap[id] # s
    BY <1>1, <2>1, <2>2, OrderBookAssumption DEF Structure, TypeOK
  <2> QED BY <1>1, <2>3, <2>4, <2>5
<1>5. CASE DiscardOrder
  <2>1. /\ pc = "settle" /\ UNCHANGED orderMap
        /\ orders' = [orders EXCEPT ![taker] = Dead]
    BY <1>5 DEF DiscardOrder
  <2>2. taker \in OrderSlots
    BY <2>1, TakerFacts
  <2>3. s # taker /\ orders'[s] = orders[s]
    BY <1>1, <2>1, <2>2 DEF Structure, TypeOK
  <2> QED BY <1>1, <2>1, <2>3
<1> QED BY <1>2, <1>3, <1>4, <1>5 DEF Step

LEMMA TheThrowStrands ==
  ASSUME Structure, LevelPoolThrows
  PROVE  outcome' = "threw" /\ Stranded' \ Stranded = {taker}
<1>1. /\ pc = "settle" /\ taker' = Null /\ outcome' = "threw"
      /\ UNCHANGED <<orders, orderMap>>
  BY DEF LevelPoolThrows, Return, heapVars, mapVars
<1>2. taker \in OrderSlots /\ orders[taker] # Dead
  BY <1>1, TakerFacts
<1>3. ASSUME NEW id \in OrderId PROVE orderMap[id] # taker
  BY <1>2, OrderBookAssumption DEF Structure, BookConsistent, OrdersConsistent
<1>4. taker \in Stranded' /\ taker \notin Stranded
  BY <1>1, <1>2, <1>3, OrderBookAssumption DEF Stranded
<1>5. ASSUME NEW s \in Stranded', s # taker PROVE s \in Stranded
  BY <1>1, <1>5 DEF Stranded
<1> QED BY <1>1, <1>4, <1>5

LEMMA StrandingStep ==
  ASSUME Structure, [Next]_vars
  PROVE  \/ LevelPoolThrows /\ outcome' = "threw" /\ Stranded' \ Stranded = {taker}
         \/ Stranded' \subseteq Stranded
<1>1. CASE UNCHANGED vars
  BY <1>1 DEF vars, heapVars, mapVars, callVars, Stranded
<1> QED
  BY <1>1, NoOtherCallStrands, NoOtherStepStrands, TheThrowStrands DEF Next

(* A slot of the order pool is lost by an addOrder() that throws for want  *)
(* of a level, the new order's own slot, and by nothing else.              *)
THEOREM OnlyThrowsStrand == Spec => StrandedByThrowOnly
<1>1. Structure /\ [Next]_vars =>
        [Stranded' \ Stranded # {} => outcome' = "threw" /\ Stranded' \ Stranded = {taker}]_vars
  BY StrandingStep
<1> QED BY <1>1, StructureInvariant, PTL DEF Spec, StrandedByThrowOnly

-----------------------------------------------------------------------------
(***************************************************************************)
(* What the destructor leaves.  It walks the map for the orders, so a      *)
(* stranded slot stays out, and the two sides for the levels, which are    *)
(* all there.                                                              *)
(***************************************************************************)
MapsEmptied ==
  pc = "destroyed" =>
    /\ \A id \in OrderId : orderMap[id] = Null
    /\ \A side \in Side, p \in Price : book[side][p] = Null

NothingLost == LevelPoolIsLarge => Stranded = {}

(* After the destructor every level is free, and every order that was not  *)
(* stranded.                                                               *)
SlotsAddUp ==
  pc = "destroyed" =>
    /\ Len(levelFree) = Cardinality(LevelSlots)
    /\ Len(orderFree) + Cardinality(Stranded) = Cardinality(OrderSlots)

LEMMA EndOfBook ==
  ASSUME Structure, MapsEmptied, [Next]_vars PROVE MapsEmptied'
<1> USE DEF MapsEmptied
<1>1. CASE Destroy
  BY <1>1 DEF Destroy
<1>2. CASE UNCHANGED vars
  BY <1>2 DEF vars, mapVars, callVars
<1>3. CASE Call /\ ~Destroy
  <2>1. pc' # "destroyed"
    BY <1>3 DEF Call, RejectOrder, OrderPoolThrows, AcceptOrder, CancelUnknown,
       CancelOrder, Return
  <2> QED BY <2>1
<1>4. CASE Step
  <2>1. pc' # "destroyed"
    BY <1>4 DEF Step, StopMatching, EnterLevel, FillMaker, LeaveLevel, RestOrder,
       LevelPoolThrows, DiscardOrder, Return
  <2> QED BY <2>1
<1> QED BY <1>1, <1>2, <1>3, <1>4 DEF Next

LEMMA NothingLostStep ==
  ASSUME Structure, Uncrossed, NothingLost, [Next]_vars PROVE NothingLost'
<1>1. SUFFICES ASSUME LevelPoolIsLarge PROVE Stranded' = {}
  BY DEF NothingLost
<1>2. ~LevelPoolThrows
  BY <1>1, PoolSuffices DEF LevelPoolSuffices, LevelPoolIsLarge, LevelPoolThrows
<1>3. Stranded' \subseteq Stranded
  BY <1>2, StrandingStep
<1> QED BY <1>1, <1>3 DEF NothingLost

LEMMA SlotsCounted ==
  ASSUME Structure, MapsEmptied PROVE SlotsAddUp
<1>1. SUFFICES ASSUME pc = "destroyed"
               PROVE  /\ Len(levelFree) = Cardinality(LevelSlots)
                      /\ Len(orderFree) + Cardinality(Stranded) = Cardinality(OrderSlots)
  BY DEF SlotsAddUp
<1>2. /\ levelFree \in Seq(LevelSlots) /\ IsInjective(levelFree)
      /\ ToSet(levelFree) = {l \in LevelSlots : levels[l] = Dead}
      /\ orderFree \in Seq(OrderSlots) /\ IsInjective(orderFree)
      /\ ToSet(orderFree) = {s \in OrderSlots : orders[s] = Dead}
  BY DEF Structure, TypeOK, BookConsistent, PoolsConsistent, FreeListMatchesHeap
<1>3. Len(levelFree) = Cardinality(ToSet(levelFree))
      /\ Len(orderFree) = Cardinality(ToSet(orderFree))
  BY <1>2, DistinctListLength
<1>4. ToSet(levelFree) = LevelSlots
  <2>1. ASSUME NEW l \in LevelSlots PROVE levels[l] = Dead
    BY <1>1, OrderBookAssumption
       DEF MapsEmptied, Structure, BookConsistent, LevelsReachable
  <2> QED BY <1>2, <2>1
<1>5. ToSet(orderFree) = OrderSlots \ Stranded
  <2>1. taker = Null /\ \A id \in OrderId : orderMap[id] = Null
    BY <1>1 DEF MapsEmptied, Structure, LocalsConsistent
  <2>2. Stranded = {s \in OrderSlots : orders[s] # Dead}
    BY <2>1, OrderBookAssumption DEF Stranded
  <2> QED BY <1>2, <2>2
<1>6. /\ Cardinality(OrderSlots \ Stranded) = Cardinality(OrderSlots) - Cardinality(Stranded)
      /\ Cardinality(OrderSlots) \in Nat /\ Cardinality(Stranded) \in Nat
  <2>1. Stranded \subseteq OrderSlots /\ OrderSlots \cap Stranded = Stranded
    BY DEF Stranded
  <2>2. IsFiniteSet(OrderSlots) /\ IsFiniteSet(Stranded)
    BY <2>1, OrderBookAssumption, FS_Subset
  <2> QED BY <2>1, <2>2, FS_Difference, FS_CardinalityType
<1> QED BY <1>3, <1>4, <1>5, <1>6

LEMMA SlotsInvariant ==
  Spec => [](Structure /\ Uncrossed /\ MapsEmptied /\ NothingLost)
<1>1. Init => MapsEmptied /\ NothingLost
  BY DEF Init, MapsEmptied, NothingLost, Stranded
<1>2. Structure /\ Uncrossed /\ MapsEmptied /\ NothingLost /\ [Next]_vars
        => MapsEmptied' /\ NothingLost'
  BY EndOfBook, NothingLostStep
<1> QED BY <1>1, <1>2, UncrossedInvariant, PTL DEF Spec

(* "Return all orders to pool", as far as it goes: the destructor returns  *)
(* every level, and every order but those a throw has stranded.            *)
THEOREM DestructorReturnsWhatItCanReach == Spec => []SlotsAddUp
  BY SlotsCounted, SlotsInvariant, PTL

(* With a level pool that cannot run out, ~OrderBook() returns every slot  *)
(* of both pools.                                                          *)
THEOREM EverySlotIsReturned == Spec => [](LevelPoolIsLarge => AllSlotsReturned)
<1>1. Structure /\ MapsEmptied /\ NothingLost => (LevelPoolIsLarge => AllSlotsReturned)
  <2> SUFFICES ASSUME Structure, MapsEmptied, NothingLost, LevelPoolIsLarge
               PROVE  AllSlotsReturned
    OBVIOUS
  <2>1. SlotsAddUp /\ Stranded = {}
    BY SlotsCounted DEF NothingLost
  <2>2. pc = "destroyed" => Len(orderFree) + 0 = Cardinality(OrderSlots) /\ Len(orderFree) \in Nat
    BY <2>1, FS_EmptySet DEF SlotsAddUp, Structure, TypeOK
  <2> QED BY <2>1, <2>2 DEF SlotsAddUp, AllSlotsReturned
<1> QED BY <1>1, SlotsInvariant, PTL

-----------------------------------------------------------------------------
(***************************************************************************)
(* Price-time priority.  The queue the caller sees behind a key is made    *)
(* of the entries of the level's orders.                                   *)
(***************************************************************************)
Entry(ords, s) == [id |-> ords[s].id, qty |-> ords[s].remaining]
Entries(ords, q) == [i \in 1 .. Len(q) |-> Entry(ords, q[i])]

EntriesOf(ords, S) == {Entry(ords, s) : s \in S}

LEMMA EntriesList ==
  ASSUME NEW S, NEW ords, NEW q \in Seq(S)
  PROVE  /\ Entries(ords, q) \in Seq(EntriesOf(ords, S))
         /\ Len(Entries(ords, q)) = Len(q)
         /\ \A i \in 1 .. Len(q) : Entries(ords, q)[i] = Entry(ords, q[i])
<1> DEFINE e == Entries(ords, q)
           T == EntriesOf(ords, S)
<1>1. Len(q) \in Nat /\ DOMAIN q = 1 .. Len(q) /\ \A i \in 1 .. Len(q) : q[i] \in S
  OBVIOUS
<1>2. e = [i \in 1 .. Len(q) |-> Entry(ords, q[i])]
  BY DEF Entries
<1>3. \A i \in 1 .. Len(q) : Entry(ords, q[i]) \in T
  BY <1>1 DEF EntriesOf
<1> HIDE DEF e, T
<1>4. e \in [1 .. Len(q) -> T]
  BY <1>2, <1>3
<1>5. e \in Seq(T)
  BY <1>1, <1>4, SeqDef
<1>6. Len(e) = Len(q)
  BY <1>1, <1>4, <1>5
<1> QED BY <1>2, <1>5, <1>6 DEF e, T

LEMMA SameEntries ==
  ASSUME NEW S, NEW a, NEW b, NEW q \in Seq(S),
         \A s \in ToSet(q) : a[s].id = b[s].id /\ a[s].remaining = b[s].remaining
  PROVE  Entries(a, q) = Entries(b, q)
<1>1. \A i \in 1 .. Len(q) : q[i] \in ToSet(q)
  BY ListElements
<1>2. \A i \in 1 .. Len(q) : Entry(a, q[i]) = Entry(b, q[i])
  BY <1>1 DEF Entry
<1> QED BY <1>2 DEF Entries

LEMMA AppendEntries ==
  ASSUME NEW S, NEW ords, NEW q \in Seq(S), NEW s \in S
  PROVE  Entries(ords, Append(q, s)) = Append(Entries(ords, q), Entry(ords, s))
<1> DEFINE T == EntriesOf(ords, S)
           e == Entries(ords, q)
           n == Entries(ords, Append(q, s))
           v == Entry(ords, s)
<1>1. v \in T
  BY DEF EntriesOf
<1>2. /\ Append(q, s) \in Seq(S) /\ Len(Append(q, s)) = Len(q) + 1 /\ Len(q) \in Nat
      /\ \A i \in 1 .. Len(q) : Append(q, s)[i] = q[i]
      /\ Append(q, s)[Len(q) + 1] = s
  BY AppendProperties
<1>3. /\ e \in Seq(T) /\ Len(e) = Len(q)
      /\ \A i \in 1 .. Len(q) : e[i] = Entry(ords, q[i])
  BY EntriesList
<1>4. /\ n \in Seq(T) /\ Len(n) = Len(q) + 1
      /\ \A i \in 1 .. Len(q) + 1 : n[i] = Entry(ords, Append(q, s)[i])
  <2> DEFINE longer == Append(q, s)
  <2>1. longer \in Seq(S) /\ Len(longer) = Len(q) + 1
    BY <1>2
  <2> HIDE DEF longer
  <2>2. /\ Entries(ords, longer) \in Seq(EntriesOf(ords, S))
        /\ Len(Entries(ords, longer)) = Len(longer)
        /\ \A i \in 1 .. Len(longer) : Entries(ords, longer)[i] = Entry(ords, longer[i])
    BY <2>1, EntriesList
  <2> QED BY <2>1, <2>2 DEF longer
<1>5. v = Entry(ords, s)
  OBVIOUS
<1> HIDE DEF T, e, n, v
<1>6. /\ Append(e, v) \in Seq(T) /\ Len(Append(e, v)) = Len(q) + 1
      /\ \A i \in 1 .. Len(q) : Append(e, v)[i] = e[i]
      /\ Append(e, v)[Len(q) + 1] = v
  BY <1>1, <1>3, AppendProperties
<1>7. ASSUME NEW i \in 1 .. Len(q) + 1 PROVE n[i] = Append(e, v)[i]
  <2> HIDE DEF v, e, n
  <2>1. CASE i = Len(q) + 1
    <3>1. n[i] = Entry(ords, s)
      BY <1>2, <1>4, <2>1
    <3> QED BY <1>5, <1>6, <2>1, <3>1
  <2>2. CASE i \in 1 .. Len(q)
    <3>1. n[i] = Entry(ords, q[i])
      BY <1>2, <1>4, <2>2
    <3> QED BY <1>3, <1>6, <2>2, <3>1
  <2>3. i = Len(q) + 1 \/ i \in 1 .. Len(q)
    BY <1>2
  <2> HIDE DEF v, e, n
  <2> QED BY <2>1, <2>2, <2>3
<1>8. n = Append(e, v)
  BY <1>4, <1>6, <1>7, SeqEqual
<1> QED BY <1>8 DEF n, e, v

LEMMA RemoveEntries ==
  ASSUME NEW S, NEW ords, NEW q \in Seq(S), NEW i \in 1 .. Len(q)
  PROVE  Entries(ords, RemoveAt(q, i)) = RemoveAt(Entries(ords, q), i)
<1> DEFINE T == EntriesOf(ords, S)
           e == Entries(ords, q)
           r == RemoveAt(q, i)
           n == Entries(ords, r)
<1>1. /\ r \in Seq(S) /\ Len(r) = Len(q) - 1 /\ Len(q) \in Nat
      /\ \A j \in 1 .. Len(q) - 1 : r[j] = IF j < i THEN q[j] ELSE q[j + 1]
  BY RemoveAtList
<1>2. /\ e \in Seq(T) /\ Len(e) = Len(q)
      /\ \A j \in 1 .. Len(q) : e[j] = Entry(ords, q[j])
  BY ZenonT(20), EntriesList
<1> HIDE DEF r
<1>3. /\ n \in Seq(T) /\ Len(n) = Len(q) - 1
      /\ \A j \in 1 .. Len(q) - 1 : n[j] = Entry(ords, r[j])
  <2>1. r \in Seq(S)
    BY <1>1
  <2>2. /\ Entries(ords, r) \in Seq(EntriesOf(ords, S))
        /\ Len(Entries(ords, r)) = Len(r)
        /\ \A j \in 1 .. Len(r) : Entries(ords, r)[j] = Entry(ords, r[j])
    BY ONLY <2>1, EntriesList
  <2> QED BY <1>1, <2>2
<1> HIDE DEF T, e, n
<1>4. /\ RemoveAt(e, i) \in Seq(T) /\ Len(RemoveAt(e, i)) = Len(q) - 1
      /\ \A j \in 1 .. Len(q) - 1 :
           RemoveAt(e, i)[j] = IF j < i THEN e[j] ELSE e[j + 1]
  BY <1>2, RemoveAtList
<1>5. ASSUME NEW j \in 1 .. Len(q) - 1 PROVE n[j] = RemoveAt(e, i)[j]
  <2>1. j \in 1 .. Len(q) /\ j + 1 \in 1 .. Len(q)
    BY <1>1
  <2>2. CASE j < i
    BY <1>1, <1>2, <1>3, <1>4, <2>1, <2>2
  <2>3. CASE ~(j < i)
    BY <1>1, <1>2, <1>3, <1>4, <2>1, <2>3
  <2> QED BY <2>2, <2>3
<1>6. n = RemoveAt(e, i)
  BY <1>3, <1>4, <1>5, SeqEqual
<1> QED BY <1>6 DEF n, e, r

LEMMA RemoveAtHead ==
  ASSUME NEW S, NEW q \in Seq(S), q # <<>>
  PROVE  RemoveAt(q, 1) = Tail(q)
<1>1. Len(q) \in Nat \ {0} /\ 1 \in 1 .. Len(q)
  BY EmptySeq
<1>2. /\ RemoveAt(q, 1) \in Seq(S) /\ Len(RemoveAt(q, 1)) = Len(q) - 1
      /\ \A j \in 1 .. Len(q) - 1 : RemoveAt(q, 1)[j] = q[j + 1]
  <2>1. /\ RemoveAt(q, 1) \in Seq(S) /\ Len(RemoveAt(q, 1)) = Len(q) - 1
        /\ \A j \in 1 .. Len(q) - 1 :
             RemoveAt(q, 1)[j] = IF j < 1 THEN q[j] ELSE q[j + 1]
    BY <1>1, RemoveAtList
  <2>2. \A j \in 1 .. Len(q) - 1 : ~(j < 1)
    BY <1>1
  <2> QED BY <2>1, <2>2
<1>3. /\ Tail(q) \in Seq(S) /\ Len(Tail(q)) = Len(q) - 1
      /\ \A j \in 1 .. Len(q) - 1 : Tail(q)[j] = q[j + 1]
  BY <1>1, HeadTailProperties
<1>4. /\ Len(RemoveAt(q, 1)) = Len(Tail(q))
      /\ \A j \in 1 .. Len(RemoveAt(q, 1)) : RemoveAt(q, 1)[j] = Tail(q)[j]
  BY <1>2, <1>3
<1> QED BY <1>2, <1>3, <1>4, SeqEqual

(* The queues as the abstract book sees them, and how a step changes one.  *)
Queues == [side \in Side |-> [p \in Price |-> QueueAt(side, p)]]

LEMMA QueueAtEntries ==
  ASSUME NEW d, NEW p
  PROVE  /\ book[d][p] # Null => QueueAt(d, p) = Entries(orders, levels[book[d][p]].queue)
         /\ book[d][p] = Null => QueueAt(d, p) = <<>>
         /\ book'[d][p] # Null => QueueAt(d, p)' = Entries(orders', levels'[book'[d][p]].queue)
         /\ book'[d][p] = Null => QueueAt(d, p)' = <<>>
  BY DEF QueueAt, Entries, Entry

LEMMA NoQueueChanges ==
  ASSUME \A d \in Side, p \in Price : QueueAt(d, p)' = QueueAt(d, p)
  PROVE  Queues' = Queues
  BY DEF Queues

LEMMA OneQueueChanges ==
  ASSUME NEW d \in Side, NEW p \in Price, NEW v, QueueAt(d, p)' = v,
         \A e \in Side, r \in Price :
           e # d \/ r # p => QueueAt(e, r)' = QueueAt(e, r)
  PROVE  Queues' = [Queues EXCEPT ![d][p] = v]
<1> DEFINE new == [Queues EXCEPT ![d][p] = v]
<1>1. DOMAIN Queues = Side /\ DOMAIN Queues' = Side /\ DOMAIN new = Side
  BY DEF Queues
<1>2. ASSUME NEW e \in Side PROVE new[e] = Queues'[e]
  <2>1. /\ Queues[e] = [r \in Price |-> QueueAt(e, r)]
        /\ Queues'[e] = [r \in Price |-> QueueAt(e, r)']
    BY DEF Queues
  <2>2. CASE e = d
    <3>1. new[e] = [Queues[d] EXCEPT ![p] = v]
      BY <1>1, <2>2
    <3>2. new[e] = [r \in Price |-> IF r = p THEN v ELSE QueueAt(e, r)]
      BY <2>1, <2>2, <3>1
    <3>3. \A r \in Price : (IF r = p THEN v ELSE QueueAt(e, r)) = QueueAt(e, r)'
      BY <2>2
    <3> QED BY <2>1, <3>2, <3>3
  <2>3. CASE e # d
    <3>1. new[e] = Queues[e]
      BY <1>1, <2>3
    <3>2. \A r \in Price : QueueAt(e, r) = QueueAt(e, r)'
      BY <2>3
    <3> QED BY <2>1, <3>1, <3>2
  <2> QED BY <2>2, <2>3
<1>3. Queues' = [e \in Side |-> Queues'[e]] /\ new = [e \in Side |-> new[e]]
  BY <1>1 DEF Queues
<1> HIDE DEF new
<1>4. Queues' = new
  BY <1>2, <1>3
<1> QED BY <1>4 DEF new

(***************************************************************************)
(* The incoming order takes what it may: a level is entered only at a      *)
(* price within the limit, and an order without one ends only on an empty  *)
(* side.                                                                   *)
(***************************************************************************)
TakesWhatItMay ==
  /\ pc = "maker" /\ orders[taker].type = "LIMIT" =>
       ~TooExpensive(orders[taker].side, orders[taker].price, cursor)
  /\ pc = "settle" /\ orders[taker].remaining > 0 /\ orders[taker].type # "LIMIT" =>
       Occupied(MakerSide) = {}

LEMMA TakesWhatItMayStep ==
  ASSUME Structure, Uncrossed, TakesWhatItMay, [Next]_vars
  PROVE  TakesWhatItMay'
<1>1. CASE UNCHANGED vars
  BY <1>1 DEF vars, heapVars, mapVars, callVars, TakesWhatItMay, Occupied, MakerSide
<1>2. CASE Call \/ LeaveLevel \/ RestOrder \/ LevelPoolThrows \/ DiscardOrder
  <2>1. pc' \in {"idle", "level", "destroyed"}
    BY <1>2 DEF Call, RejectOrder, OrderPoolThrows, AcceptOrder, CancelUnknown,
       CancelOrder, Destroy, Return, LeaveLevel, RestOrder, LevelPoolThrows, DiscardOrder
  <2> QED BY <2>1 DEF TakesWhatItMay
<1>3. CASE StopMatching
  <2>1. /\ pc = "level" /\ pc' = "settle" /\ MatchingStops
        /\ UNCHANGED <<orders, taker, book>>
    BY <1>3 DEF StopMatching, heapVars, mapVars
  <2>2. ASSUME orders[taker].remaining > 0, orders[taker].type # "LIMIT"
        PROVE  Occupied(MakerSide) = {}
    <3>1. cursor = End
      BY <2>1, <2>2, TakerFacts, QtyModAssumption DEF MatchingStops, Qty
    <3>2. First(MakerSide, Occupied(MakerSide), End)
      BY <2>1, <2>2, <3>1 DEF Uncrossed, CursorAtBest
    <3> QED BY <3>2, OrderBookAssumption DEF First, Occupied
  <2>3. Occupied(MakerSide)' = Occupied(MakerSide)
    BY <2>1 DEF Occupied, MakerSide
  <2> QED BY <2>1, <2>2, <2>3 DEF TakesWhatItMay
<1>4. CASE EnterLevel
  <2>1. /\ pc = "level" /\ pc' = "maker" /\ ~MatchingStops
        /\ UNCHANGED <<orders, taker, cursor>>
    BY <1>4 DEF EnterLevel, heapVars
  <2>2. cursor # End /\ cursor \in Price /\ CursorLevel # Null
    BY <2>1 DEF MatchingStops, Structure, TypeOK, LocalsConsistent
  <2>3. levels[CursorLevel].price = cursor
    BY <2>1, <2>2, TakerFacts, QueueFacts DEF CursorLevel
  <2> QED BY <2>1, <2>2, <2>3 DEF MatchingStops, TakesWhatItMay
<1>5. CASE FillMaker
  <2>1. pc = "maker" /\ pc' = "maker" /\ taker' = taker /\ cursor' = cursor
        /\ maker # Null /\ orders[taker].remaining > 0
    BY <1>5 DEF FillMaker
  <2>2. taker \in OrderSlots /\ maker # taker /\ orders[taker] \in Order
    BY <2>1, MakerFacts, TakerFacts
  <2>3. orders'[taker].type = orders[taker].type /\ orders'[taker].side = orders[taker].side
        /\ orders'[taker].price = orders[taker].price
    BY <1>5, <2>2 DEF FillMaker, Order, Structure, TypeOK
  <2> QED BY <2>1, <2>3 DEF TakesWhatItMay
<1> QED
  BY <1>1, <1>2, <1>3, <1>4, <1>5 DEF Next, Step

LEMMA PromiseInvariant == Spec => [](Structure /\ Uncrossed /\ TakesWhatItMay)
<1>1. Init => TakesWhatItMay
  BY DEF Init, TakesWhatItMay
<1>2. Structure /\ Uncrossed /\ TakesWhatItMay /\ [Next]_vars => TakesWhatItMay'
  BY TakesWhatItMayStep
<1> QED BY <1>1, <1>2, UncrossedInvariant, PTL DEF Spec

(* What the caller sees of the incoming order.                             *)
LEMMA IncomingFacts ==
  ASSUME Structure
  PROVE  /\ pc \in {"idle", "destroyed"} => taker = Null /\ Incoming = Null
         /\ pc \in {"level", "maker", "settle"} =>
              /\ Incoming # Null
              /\ Incoming = [id |-> orders[taker].id, side |-> orders[taker].side,
                             price |-> orders[taker].price,
                             qty |-> orders[taker].remaining,
                             type |-> orders[taker].type]
<1>1. ASSUME pc \in {"level", "maker", "settle"}
      PROVE  /\ Incoming # Null
             /\ Incoming = [id |-> orders[taker].id, side |-> orders[taker].side,
                            price |-> orders[taker].price,
                            qty |-> orders[taker].remaining,
                            type |-> orders[taker].type]
  <2>1. taker # Null /\ orders[taker] \in Order
    BY <1>1, TakerFacts
  <2> QED BY <2>1, IncomingAssumption DEF Incoming, Order
<1> QED BY <1>1 DEF Incoming, Structure, LocalsConsistent

LEMMA RestingFacts ==
  ASSUME NEW id
  PROVE  /\ Promise!Resting(id) =
              {r \in {<<d, p>> : d \in Side, p \in Price} :
                 \E i \in DOMAIN Queues[r[1]][r[2]] : Queues[r[1]][r[2]][i].id = id}
         /\ \A d \in Side, p \in Price :
              <<d, p>> \in Promise!Resting(id) <=>
                \E i \in DOMAIN QueueAt(d, p) : QueueAt(d, p)[i].id = id
<1>1. Promise!Resting(id) =
        {r \in {<<d, p>> : d \in Side, p \in Price} :
           \E i \in DOMAIN Queues[r[1]][r[2]] : Queues[r[1]][r[2]][i].id = id}
  BY DEF Promise!Resting, Promise!Side, Side, Queues
<1>2. ASSUME NEW d \in Side, NEW p \in Price
      PROVE  <<d, p>> \in Promise!Resting(id) <=>
               \E i \in DOMAIN QueueAt(d, p) : QueueAt(d, p)[i].id = id
  <2> DEFINE r == <<d, p>>
  <2>1. r \in {<<e, v>> : e \in Side, v \in Price} /\ r[1] = d /\ r[2] = p
    OBVIOUS
  <2>2. Queues[r[1]][r[2]] = QueueAt(d, p)
    BY <2>1 DEF Queues
  <2> HIDE DEF r
  <2>3. r \in Promise!Resting(id) <=>
          \E i \in DOMAIN QueueAt(d, p) : QueueAt(d, p)[i].id = id
    BY <1>1, <2>1, <2>2
  <2> QED BY <2>3 DEF r
<1> QED BY <1>1, <1>2

LEMMA RestingIsMapped ==
  ASSUME Structure, NEW id \in OrderId
  PROVE  (Promise!Resting(id) = {}) <=> orderMap[id] = Null
<1>1. ASSUME orderMap[id] # Null PROVE Promise!Resting(id) # {}
  <2> DEFINE s == orderMap[id]
             o == orders[s]
             q == levels[o.level].queue
  <2>1. /\ s \in OrderSlots /\ o # Dead /\ o.id = id /\ o.level # Null
        /\ book[o.side][o.price] = o.level /\ s \in ToSet(q)
    BY <1>1 DEF Structure, TypeOK, BookConsistent, OrdersConsistent
  <2>2. o.side \in Side /\ o.price \in Price
    BY <2>1 DEF Structure, TypeOK, Order
  <2>3. q \in Seq(OrderSlots) /\ QueueAt(o.side, o.price) = Entries(orders, q)
    BY <2>1, <2>2, QueueFacts, QueueAtEntries
  <2> HIDE DEF q
  <2>4. PICK i \in 1 .. Len(q) : q[i] = s
    BY <2>1, <2>3, ListElements
  <2>5. DOMAIN Entries(orders, q) = 1 .. Len(q) /\ Entries(orders, q)[i].id = id
    BY <2>1, <2>3, <2>4 DEF Entries, Entry
  <2>6. <<o.side, o.price>> \in Promise!Resting(id)
    BY <2>2, <2>3, <2>5, RestingFacts
  <2> QED BY <2>6
<1>2. ASSUME Promise!Resting(id) # {} PROVE orderMap[id] # Null
  <2>1. PICK d \in Side, p \in Price : \E i \in DOMAIN QueueAt(d, p) : QueueAt(d, p)[i].id = id
    <3>1. PICK r \in Promise!Resting(id) : TRUE
      BY <1>2
    <3>2. PICK d \in Side, p \in Price : r = <<d, p>>
      BY <3>1, RestingFacts
    <3> QED BY <3>1, <3>2, RestingFacts
  <2>2. book[d][p] # Null
    BY <2>1, QueueAtEntries
  <2> DEFINE q == levels[book[d][p]].queue
  <2>3. /\ q \in Seq(OrderSlots) /\ QueueAt(d, p) = Entries(orders, q)
        /\ \A t \in ToSet(q) : t # Null /\ orderMap[orders[t].id] = t
    BY <2>2, QueueFacts, QueueAtEntries
  <2> HIDE DEF q
  <2>4. PICK i \in 1 .. Len(q) : orders[q[i]].id = id
    BY <2>1, <2>3 DEF Entries, Entry
  <2> QED BY <2>3, <2>4, ListElements
<1> QED BY <1>1, <1>2

LEMMA OfferedIsOccupied ==
  ASSUME Structure, NEW d \in Side,
         \A p \in Occupied(d) : levels[book[d][p]].queue # <<>>
  PROVE  Promise!Offered(d) = Occupied(d)
<1>1. ASSUME NEW p \in Price PROVE (QueueAt(d, p) # <<>>) <=> book[d][p] # Null
  <2>1. CASE book[d][p] # Null
    <3> DEFINE q == levels[book[d][p]].queue
    <3>1. q \in Seq(OrderSlots) /\ q # <<>> /\ QueueAt(d, p) = Entries(orders, q)
      BY <2>1, QueueFacts, QueueAtEntries DEF Occupied
    <3> HIDE DEF q
    <3>2. Len(q) \in Nat \ {0} /\ Len(Entries(orders, q)) = Len(q)
      <4>1. Len(Entries(orders, q)) = Len(q)
        BY <3>1, EntriesList
      <4>2. Len(q) \in Nat \ {0}
        BY <3>1, EmptySeq
      <4> QED BY <4>1, <4>2
    <3>3. Entries(orders, q) # <<>>
      BY <3>2, EmptySeq
    <3> QED BY <2>1, <3>1, <3>3
  <2>2. CASE book[d][p] = Null
    BY <2>2, QueueAtEntries
  <2> QED BY <2>1, <2>2
<1> QED BY <1>1 DEF Promise!Offered, Occupied

(* A step that leaves the queues and the incoming order as they are.       *)
LEMMA UnseenByCaller ==
  ASSUME Queues' = Queues, Incoming' = Incoming, outcome' = outcome,
         pc # "destroyed", pc' # "destroyed"
  PROVE  UNCHANGED Promise!vars
  BY DEF Promise!vars, Queues

(***************************************************************************)
(* The calls and steps that touch no queue.                                *)
(***************************************************************************)
LEMMA HeapUntouched ==
  ASSUME UNCHANGED <<orders, levels, book>> PROVE Queues' = Queues
  BY DEF Queues, QueueAt

LEMMA IdleIsIdle ==
  ASSUME Structure, pc = "idle" PROVE Promise!Idle
  BY IncomingFacts DEF Promise!Idle

LEMMA ReturnFreesIncoming ==
  ASSUME NEW answer, Return(answer)
  PROVE  Incoming' = Null /\ outcome' = answer /\ pc' = "idle"
  BY DEF Return, Incoming

LEMMA RefusalsArePromised ==
  ASSUME Structure, NEW id \in OrderId, NEW qty
  PROVE  /\ RejectOrder(id, qty) => Promise!Refuse(id, qty)
         /\ OrderPoolThrows(id, qty) => Promise!Fail
         /\ CancelUnknown(id) => Promise!CancelNothing(id)
<1> DEFINE refusal == RejectOrder(id, qty) \/ OrderPoolThrows(id, qty) \/ CancelUnknown(id)
<1>1. ASSUME refusal
      PROVE  /\ Promise!Idle /\ Queues' = Queues /\ Incoming' = Incoming
             /\ (pc' = "destroyed") = (pc = "destroyed")
  <2>1. pc = "idle" /\ UNCHANGED <<orders, levels, book>> /\ \E answer : Return(answer)
    BY <1>1 DEF RejectOrder, OrderPoolThrows, CancelUnknown, heapVars, mapVars
  <2> QED BY <2>1, IdleIsIdle, HeapUntouched, ReturnFreesIncoming, IncomingFacts
<1>2. RejectOrder(id, qty) => Promise!Refuse(id, qty)
  <2> SUFFICES ASSUME RejectOrder(id, qty) PROVE Promise!Refuse(id, qty)
    OBVIOUS
  <2>1. outcome' = "rejected" /\ (qty = 0 \/ orderMap[id] # Null)
    BY DEF RejectOrder, Return
  <2>2. qty = 0 \/ Promise!Resting(id) # {}
    BY <2>1, RestingIsMapped
  <2> QED BY <1>1, <2>1, <2>2 DEF Promise!Refuse, Queues
<1>3. OrderPoolThrows(id, qty) => Promise!Fail
  BY <1>1 DEF OrderPoolThrows, Return, Promise!Fail, Queues
<1>4. CancelUnknown(id) => Promise!CancelNothing(id)
  BY <1>1, RestingIsMapped DEF CancelUnknown, Return, Promise!CancelNothing, Queues
<1> QED BY <1>2, <1>3, <1>4

LEMMA AcceptIsSubmit ==
  ASSUME Structure, NEW id \in OrderId, NEW side \in Side, NEW price \in Price,
         NEW qty \in Quantity, NEW type \in OrderType,
         AcceptOrder(id, side, price, qty, type)
  PROVE  Promise!Submit(id, side, price, qty, type)
<1> DEFINE s == AllocatedSlot(orderFree)
<1>1. /\ pc = "idle" /\ qty # 0 /\ orderMap[id] = Null /\ orderFree # <<>>
      /\ orders' = [orders EXCEPT ![s] = NewOrder(id, side, price, qty, type)]
      /\ taker' = s /\ pc' = "level" /\ outcome' = "none"
      /\ UNCHANGED <<levels, book>>
  BY DEF AcceptOrder, Exhausted, mapVars
<1>2. s \in OrderSlots /\ orders[s] = Dead
  <2>1. /\ orderFree \in Seq(OrderSlots) /\ IsInjective(orderFree)
        /\ ToSet(orderFree) = {t \in OrderSlots : orders[t] = Dead}
    BY DEF Structure, TypeOK, BookConsistent, PoolsConsistent, FreeListMatchesHeap
  <2> QED BY <1>1, <2>1, FrontList DEF AllocatedSlot
<1> HIDE DEF s
<1>3. Queues' = Queues
  <2>1. ASSUME NEW d \in Side, NEW p \in Price PROVE QueueAt(d, p)' = QueueAt(d, p)
    <3>1. CASE book[d][p] = Null
      BY <1>1, <3>1, QueueAtEntries
    <3>2. CASE book[d][p] # Null
      <4> DEFINE q == levels[book[d][p]].queue
      <4>1. q \in Seq(OrderSlots) /\ \A t \in ToSet(q) : t \in OrderSlots /\ orders[t] # Dead
        BY <3>2, QueueFacts
      <4>2. \A t \in ToSet(q) : orders'[t] = orders[t]
        BY <1>1, <1>2, <4>1 DEF Structure, TypeOK
      <4>3. QueueAt(d, p) = Entries(orders, q) /\ QueueAt(d, p)' = Entries(orders', q)
        BY <1>1, <3>2, QueueAtEntries
      <4> HIDE DEF q
      <4> QED BY <4>1, <4>2, <4>3, SameEntries
    <3> QED BY <3>1, <3>2
  <2> QED BY <2>1, NoQueueChanges
<1>4. Incoming' = [id |-> id, side |-> side, price |-> price, qty |-> qty, type |-> type]
  <2>1. orders'[s] = NewOrder(id, side, price, qty, type)
    BY <1>1, <1>2 DEF Structure, TypeOK
  <2> QED BY <1>1, <1>2, <2>1, OrderBookAssumption DEF Incoming, NewOrder
<1>5. qty > 0
  BY <1>1, OrderBookAssumption, QtyModAssumption
<1> QED
  BY <1>1, <1>3, <1>4, <1>5, IdleIsIdle, RestingIsMapped DEF Promise!Submit, Queues

LEMMA CursorStepsAreUnseen ==
  ASSUME Structure, StopMatching \/ EnterLevel PROVE UNCHANGED Promise!vars
<1>1. /\ UNCHANGED <<orders, levels, book, taker, outcome>>
      /\ pc # "destroyed" /\ pc' # "destroyed"
  BY DEF StopMatching, EnterLevel, heapVars, mapVars
<1>2. Queues' = Queues /\ Incoming' = Incoming
  BY <1>1, HeapUntouched DEF Incoming
<1> QED BY <1>1, <1>2, UnseenByCaller

(* Between the levels no level is empty.                                   *)
LEMMA NoEmptyLevel ==
  ASSUME Structure, pc # "maker", NEW d \in Side, NEW p \in Occupied(d)
  PROVE  levels[book[d][p]].queue # <<>>
  BY DEF Occupied, Structure, BookConsistent, LevelsConsistent

LEMMA SettledIsExhausted ==
  ASSUME Structure, Uncrossed, TakesWhatItMay, pc = "settle"
  PROVE  Promise!Exhausted
<1>1. /\ orders[taker] \in Order /\ orders[taker].side \in Side
      /\ orders[taker].price \in Price /\ orders[taker].remaining \in Qty
      /\ MakerSide \in Side /\ MakerSide = Opposite(orders[taker].side)
  BY TakerFacts DEF MakerSide
<1>2. /\ Incoming.qty = orders[taker].remaining /\ Incoming.type = orders[taker].type
      /\ Incoming.price = orders[taker].price /\ Incoming.side = orders[taker].side
  BY IncomingFacts
<1>3. Promise!Other(Incoming.side) = MakerSide
  BY <1>1, <1>2 DEF Promise!Other, Opposite
<1>4. Promise!Offered(MakerSide) = Occupied(MakerSide)
  BY <1>1, NoEmptyLevel, OfferedIsOccupied
<1>5. CASE orders[taker].remaining = 0
  BY <1>2, <1>5 DEF Promise!Exhausted
<1>6. CASE orders[taker].remaining > 0 /\ orders[taker].type # "LIMIT"
  <2>1. Promise!Offered(Promise!Other(Incoming.side)) = {}
    BY <1>3, <1>4, <1>6 DEF TakesWhatItMay
  <2> QED BY <2>1 DEF Promise!Exhausted
<1>7. CASE orders[taker].remaining > 0 /\ orders[taker].type = "LIMIT"
  <2>1. ASSUME NEW p \in Promise!Offered(Promise!Other(Incoming.side))
        PROVE  ~Promise!Takes(Incoming, p)
    <3>1. p \in Occupied(MakerSide) /\ p \in Nat /\ orders[taker].price \in Nat
      BY <1>1, <1>3, <1>4, <2>1, OrderBookAssumption DEF Occupied
    <3>2. TooExpensive(orders[taker].side, orders[taker].price, p)
      BY <1>7, <3>1 DEF Uncrossed, CursorAtBest, Rests
    <3> QED BY <1>2, <1>7, <3>1, <3>2 DEF TooExpensive, Promise!Takes
  <2> QED BY <2>1 DEF Promise!Exhausted
<1> QED BY <1>1, <1>5, <1>6, <1>7, QtyModAssumption DEF Qty

LEMMA DiscardIsFinish ==
  ASSUME Structure, Uncrossed, TakesWhatItMay, DiscardOrder
  PROVE  Promise!Finish
<1>1. /\ pc = "settle" /\ ~Rests /\ orders' = [orders EXCEPT ![taker] = Dead]
      /\ Return("added") /\ UNCHANGED <<levels, book>>
  BY DEF DiscardOrder, mapVars
<1>2. /\ Incoming # Null /\ ~(Incoming.qty > 0 /\ Incoming.type = "LIMIT")
      /\ Incoming' = Null /\ outcome' = "added" /\ pc' = "idle"
  BY <1>1, IncomingFacts, ReturnFreesIncoming DEF Rests
<1>3. Queues' = Queues
  <2>1. ASSUME NEW d \in Side, NEW p \in Price PROVE QueueAt(d, p)' = QueueAt(d, p)
    <3>1. CASE book[d][p] = Null
      BY <1>1, <3>1, QueueAtEntries
    <3>2. CASE book[d][p] # Null
      <4> DEFINE q == levels[book[d][p]].queue
      <4>1. q \in Seq(OrderSlots) /\ \A t \in ToSet(q) : t \in OrderSlots /\ t # taker
        BY <3>2, QueueFacts
      <4>2. \A t \in ToSet(q) : orders'[t] = orders[t]
        BY <1>1, <4>1 DEF Structure, TypeOK
      <4>3. QueueAt(d, p) = Entries(orders, q) /\ QueueAt(d, p)' = Entries(orders', q)
        BY <1>1, <3>2, QueueAtEntries
      <4> HIDE DEF q
      <4> QED BY <4>1, <4>2, <4>3, SameEntries
    <3> QED BY <3>1, <3>2
  <2> QED BY <2>1, NoQueueChanges
<1> QED BY <1>1, <1>2, <1>3, SettledIsExhausted DEF Promise!Finish, Queues

LEMMA DestroyIsClose ==
  ASSUME Structure, Destroy PROVE Promise!Close
<1>1. /\ pc = "idle" /\ pc' = "destroyed" /\ outcome' = "none" /\ taker' = taker
      /\ book' = [side \in Side |-> [p \in Price |-> Null]]
  BY DEF Destroy
<1>2. taker = Null /\ Incoming = Null /\ Incoming' = Null
  BY <1>1, IncomingFacts DEF Incoming
<1>3. Queues' = [side \in Side |-> [p \in Price |-> <<>>]]
  <2>1. ASSUME NEW d \in Side, NEW p \in Price PROVE QueueAt(d, p)' = <<>>
    <3>1. book'[d][p] = Null
      BY <1>1
    <3> QED BY <3>1, QueueAtEntries
  <2> QED BY <2>1 DEF Queues
<1> QED BY <1>1, <1>2, <1>3, IdleIsIdle DEF Promise!Close, Queues, Promise!Side, Side

(***************************************************************************)
(* The loops.  A fill is the trade with the first entry of the best queue; *)
(* taking an emptied level off the map is not seen at all.                 *)
(***************************************************************************)
LEMMA LeaveLevelIsUnseen ==
  ASSUME Structure, LeaveLevel PROVE UNCHANGED Promise!vars
<1> DEFINE L == CursorLevel
<1>1. /\ pc = "maker" /\ pc' = "level" /\ UNCHANGED <<orders, taker, outcome>>
      /\ \/ /\ IsEmptyLevel(levels[L])
            /\ levels' = [levels EXCEPT ![L] = Dead]
            /\ book' = [book EXCEPT ![MakerSide][cursor] = Null]
         \/ UNCHANGED <<levels, book>>
  BY DEF LeaveLevel
<1>2. /\ MakerSide \in Side /\ cursor \in Price /\ L # Null /\ L \in LevelSlots
      /\ L = book[MakerSide][cursor]
  BY <1>1, TakerFacts DEF Structure, LocalsConsistent, TypeOK, CursorLevel
<1> HIDE DEF L
<1>3. ASSUME IsEmptyLevel(levels[L]),
             levels' = [levels EXCEPT ![L] = Dead],
             book' = [book EXCEPT ![MakerSide][cursor] = Null],
             NEW d \in Side, NEW p \in Price
      PROVE  QueueAt(d, p)' = QueueAt(d, p)
  <2>1. CASE d = MakerSide /\ p = cursor
    <3>1. book'[d][p] = Null /\ QueueAt(d, p)' = <<>>
      BY <1>2, <1>3, <2>1, QueueAtEntries DEF Structure, TypeOK
    <3>2. levels[L].queue = <<>> /\ QueueAt(d, p) = Entries(orders, <<>>)
      BY <1>2, <1>3, <2>1, QueueAtEntries DEF IsEmptyLevel
    <3>3. Entries(orders, <<>>) = <<>>
      <4>1. <<>> \in Seq(OrderSlots) /\ Len(<<>>) = 0
        BY EmptySeq
      <4>2. Entries(orders, <<>>) \in Seq(EntriesOf(orders, OrderSlots))
            /\ Len(Entries(orders, <<>>)) = 0
        BY <4>1, EntriesList
      <4> QED BY <4>2, EmptySeq
    <3> QED BY <3>1, <3>2, <3>3
  <2>2. CASE d # MakerSide \/ p # cursor
    <3>1. book'[d][p] = book[d][p]
      BY <1>2, <1>3, <2>2 DEF Structure, TypeOK
    <3>2. CASE book[d][p] = Null
      BY <3>1, <3>2, QueueAtEntries
    <3>3. CASE book[d][p] # Null
      <4>1. book[d][p] # L /\ book[d][p] \in LevelSlots
        BY <1>2, <2>2, <3>3, QueueFacts DEF Structure, BookConsistent, LevelsOwned
      <4>2. levels'[book[d][p]] = levels[book[d][p]]
        BY <1>2, <1>3, <4>1 DEF Structure, TypeOK
      <4> QED BY <1>1, <3>1, <3>3, <4>2, QueueAtEntries
    <3> QED BY <3>2, <3>3
  <2> QED BY <2>1, <2>2
<1>4. Queues' = Queues
  BY <1>1, <1>3, NoQueueChanges, HeapUntouched
<1>5. Incoming' = Incoming
  BY <1>1 DEF Incoming
<1> QED BY <1>1, <1>4, <1>5, UnseenByCaller

(* What a fill does, apart from the statistics and the events.             *)
LEMMA FillMakerFacts ==
  ASSUME Structure, FillMaker
  PROVE  LET m    == orders[maker]
             fill == Smaller(orders[taker].remaining, m.remaining)
             left == m.remaining - fill
             q    == levels[CursorLevel].queue
         IN  /\ pc = "maker" /\ maker # Null /\ orders[taker].remaining > 0
             /\ UNCHANGED <<book, pc, taker, cursor, outcome>>
             /\ orders'[taker] = [orders[taker] EXCEPT !.remaining = @ - fill]
             /\ left # 0 => orders'[maker] = [m EXCEPT !.remaining = left]
             /\ \A s \in OrderSlots \ {taker, maker} : orders'[s] = orders[s]
             /\ \A l \in LevelSlots \ {CursorLevel} : levels'[l] = levels[l]
             /\ levels'[CursorLevel].queue = IF left = 0 THEN RemoveAt(q, 1) ELSE q
<1> DEFINE t    == orders[taker]
           m    == orders[maker]
           fill == Smaller(t.remaining, m.remaining)
           left == m.remaining - fill
           q    == levels[CursorLevel].queue
           lvl  == DeductVolume(levels[CursorLevel], fill)
           rest == RemoveOrder(lvl, maker, left)
           paid == [orders EXCEPT ![taker].remaining = @ - fill,
                                  ![maker].remaining = left]
<1>1. /\ pc = "maker" /\ maker # Null /\ t.remaining > 0
      /\ UNCHANGED <<book, pc, taker, cursor, outcome>>
      /\ \/ /\ left = 0
            /\ levels' = [levels EXCEPT ![CursorLevel] = rest]
            /\ orders' = [paid EXCEPT ![maker] = Dead]
         \/ /\ left # 0
            /\ levels' = [levels EXCEPT ![CursorLevel] = lvl]
            /\ orders' = paid
  BY DEF FillMaker
<1>2. /\ taker \in OrderSlots /\ maker \in OrderSlots /\ maker # taker
      /\ t \in Order /\ m \in Order /\ t.remaining \in Qty /\ m.remaining \in Qty
      /\ CursorLevel \in LevelSlots /\ levels[CursorLevel] \in Level
      /\ IsInjective(q) /\ q \in Seq(OrderSlots) /\ q # <<>> /\ maker = q[1]
      /\ maker \in ToSet(q) /\ m.remaining > 0
  BY <1>1, MakerFacts, TakerFacts DEF Order
<1>3. /\ fill \in Qty /\ left \in Qty
  BY <1>1, <1>2, FillFacts
<1>4. lvl \in Level /\ lvl.queue = q
  BY <1>2, <1>3, DeductVolumeFacts
<1>5. rest.queue = RemoveAt(q, 1)
  <2> HIDE DEF lvl, left
  <2>1. /\ rest.queue = RemoveAt(lvl.queue, Position(lvl, maker))
        /\ Position(lvl, maker) \in 1 .. Len(lvl.queue)
        /\ lvl.queue[Position(lvl, maker)] = maker
    BY <1>2, <1>3, <1>4, RemoveOrderFacts
  <2>2. Len(q) \in Nat \ {0}
    BY <1>2, EmptySeq
  <2>3. Position(lvl, maker) = 1
    BY <1>2, <1>4, <2>1, <2>2 DEF IsInjective
  <2> QED BY <1>4, <2>1, <2>3
<1>6. /\ orders \in [OrderSlots -> Order \cup {Dead}]
      /\ levels \in [LevelSlots -> Level \cup {Dead}]
  BY DEF Structure, TypeOK
<1> HIDE DEF fill, left, lvl, rest, q
<1>7. /\ paid[taker] = [t EXCEPT !.remaining = @ - fill]
      /\ paid[maker] = [m EXCEPT !.remaining = left]
      /\ \A s \in OrderSlots \ {taker, maker} : paid[s] = orders[s]
      /\ DOMAIN paid = OrderSlots
  BY <1>2, <1>6
<1> HIDE DEF paid
<1>8. CASE left = 0
  <2>1. /\ orders' = [paid EXCEPT ![maker] = Dead]
        /\ levels' = [levels EXCEPT ![CursorLevel] = rest]
    BY <1>1, <1>8
  <2>2. levels'[CursorLevel].queue = RemoveAt(q, 1)
    BY <1>2, <1>5, <1>6, <2>1
  <2>3. \A l \in LevelSlots \ {CursorLevel} : levels'[l] = levels[l]
    BY <1>6, <2>1
  <2>4. /\ orders'[taker] = paid[taker]
        /\ \A s \in OrderSlots \ {taker, maker} : orders'[s] = orders[s]
    BY <1>2, <1>7, <2>1
  <2> QED BY <1>1, <1>7, <1>8, <2>2, <2>3, <2>4 DEF fill, left, q
<1>9. CASE left # 0
  <2>1. orders' = paid /\ levels' = [levels EXCEPT ![CursorLevel] = lvl]
    BY <1>1, <1>9
  <2>2. levels'[CursorLevel].queue = q
    BY <1>2, <1>4, <1>6, <2>1
  <2>3. \A l \in LevelSlots \ {CursorLevel} : levels'[l] = levels[l]
    BY <1>6, <2>1
  <2> QED BY <1>1, <1>7, <1>9, <2>1, <2>2, <2>3 DEF fill, left, q
<1> QED BY <1>8, <1>9

LEMMA FillIsTrade ==
  ASSUME Structure, Uncrossed, TakesWhatItMay, FillMaker
  PROVE  \E p \in Price : Promise!Trade(p)
<1> DEFINE t    == orders[taker]
           m    == orders[maker]
           fill == Smaller(t.remaining, m.remaining)
           left == m.remaining - fill
           q    == levels[CursorLevel].queue
           e    == Entries(orders, q)
           sold == IF left = 0 THEN Tail(e) ELSE [e EXCEPT ![1].qty = @ - fill]
<1>1. /\ pc = "maker" /\ maker # Null /\ t.remaining > 0
      /\ UNCHANGED <<book, pc, taker, cursor, outcome>>
      /\ orders'[taker] = [t EXCEPT !.remaining = @ - fill]
      /\ left # 0 => orders'[maker] = [m EXCEPT !.remaining = left]
      /\ \A s \in OrderSlots \ {taker, maker} : orders'[s] = orders[s]
      /\ \A l \in LevelSlots \ {CursorLevel} : levels'[l] = levels[l]
      /\ levels'[CursorLevel].queue = IF left = 0 THEN RemoveAt(q, 1) ELSE q
  BY FillMakerFacts
<1>2. /\ taker \in OrderSlots /\ taker # Null /\ t \in Order /\ t.side \in Side
      /\ t.price \in Price /\ t.remaining \in Qty
      /\ MakerSide \in Side /\ MakerSide = Opposite(t.side)
  BY <1>1, TakerFacts DEF MakerSide
<1>3. /\ cursor \in Price /\ CursorLevel \in LevelSlots /\ CursorLevel # Null
      /\ CursorLevel = book[MakerSide][cursor]
      /\ IsInjective(q) /\ q \in Seq(OrderSlots) /\ q # <<>>
      /\ maker = q[1] /\ maker \in ToSet(q)
      /\ maker \in OrderSlots /\ maker # taker
      /\ m \in Order /\ m.level = CursorLevel /\ m.remaining \in Qty /\ m.remaining > 0
      /\ \A s \in ToSet(q) : s \in OrderSlots /\ s # taker
  BY <1>1, <1>2, MakerFacts, QueueFacts DEF Order
<1>4. Len(q) \in Nat \ {0} /\ DOMAIN q = 1 .. Len(q)
      /\ (\A i, j \in 1 .. Len(q) : q[i] = q[j] => i = j)
      /\ \A i \in 1 .. Len(q) : q[i] \in ToSet(q)
  <2> HIDE DEF q, fill, left, e, sold
  <2>1. Len(q) \in Nat \ {0} /\ DOMAIN q = 1 .. Len(q)
    BY <1>3, EmptySeq
  <2>2. \A i \in 1 .. Len(q) : q[i] \in ToSet(q)
    BY <1>3, ListElements
  <2>3. \A i, j \in 1 .. Len(q) : q[i] = q[j] => i = j
    BY <1>3, <2>1 DEF IsInjective
  <2> QED BY <2>1, <2>2, <2>3
<1> HIDE DEF q, fill, left, e, sold
<1>5. /\ e \in Seq(EntriesOf(orders, OrderSlots)) /\ Len(e) = Len(q)
      /\ \A i \in 1 .. Len(q) : e[i] = Entry(orders, q[i])
  <2>1. q \in Seq(OrderSlots)
    BY <1>3
  <2>2. /\ Entries(orders, q) \in Seq(EntriesOf(orders, OrderSlots))
        /\ Len(Entries(orders, q)) = Len(q)
        /\ \A i \in 1 .. Len(q) : Entries(orders, q)[i] = Entry(orders, q[i])
    BY <2>1, EntriesList
  <2> QED BY <2>2 DEF e
<1>6. e[1] = [id |-> m.id, qty |-> m.remaining]
  BY <1>3, <1>4, <1>5 DEF Entry
<1>7. /\ fill \in Qty /\ left \in Qty
      /\ fill = IF t.remaining < m.remaining THEN t.remaining ELSE m.remaining
      /\ (fill = m.remaining) <=> (left = 0)
  <2>1. fill \in Qty /\ left \in Qty
    BY <1>1, <1>2, <1>3, FillFacts DEF fill, left
  <2> HIDE DEF m
  <2>2. (fill = m.remaining) <=> (left = 0)
    BY <1>3, <2>1 DEF Qty, left
  <2> QED BY <2>1, <2>2 DEF Smaller, fill
<1>8. PICK d \in Side, c \in Price : d = MakerSide /\ c = cursor
  BY <1>2, <1>3
<1>9. book[d][c] = CursorLevel /\ book'[d][c] = CursorLevel
      /\ QueueAt(d, c) = e
      /\ QueueAt(d, c)' = Entries(orders', levels'[CursorLevel].queue)
  <2>1. book[d][c] = CursorLevel /\ book'[d][c] = CursorLevel
    BY <1>1, <1>3, <1>8
  <2> QED BY <1>3, <2>1, QueueAtEntries DEF e, q
<1> HIDE DEF t, m
<1>10. ASSUME left = 0 PROVE QueueAt(d, c)' = Tail(e)
  <2> DEFINE r == RemoveAt(q, 1)
  <2>1. r \in Seq(OrderSlots) /\ ToSet(r) = ToSet(q) \ {maker}
    BY <1>3, <1>4, RemoveList
  <2>2. levels'[CursorLevel].queue = r
    BY <1>1, <1>10
  <2>3. Entries(orders, r) = RemoveAt(e, 1)
    BY <1>3, <1>4, RemoveEntries DEF e
  <2>4. RemoveAt(e, 1) = Tail(e)
    <3>1. e # <<>>
      BY <1>4, <1>5, EmptySeq
    <3> QED BY <1>5, <3>1, RemoveAtHead
  <2> HIDE DEF r
  <2>5. Entries(orders', r) = Entries(orders, r)
    BY <1>1, <1>3, <2>1, SameEntries
  <2> QED BY <1>9, <1>10, <2>2, <2>3, <2>4, <2>5
<1>11. ASSUME left # 0 PROVE QueueAt(d, c)' = [e EXCEPT ![1].qty = @ - fill]
  <2>1. levels'[CursorLevel].queue = q
    BY <1>1, <1>11
  <2>2. Entry(orders', q[1]) = [e[1] EXCEPT !.qty = @ - fill]
    BY <1>1, <1>3, <1>6, <1>11 DEF Entry, Order, m, left
  <2>3. ASSUME NEW i \in 1 .. Len(q), i # 1
        PROVE  Entry(orders', q[i]) = e[i]
    <3>1. q[i] \in OrderSlots \ {taker, maker}
      BY <1>3, <1>4, <2>3
    <3> QED BY <1>1, <1>5, <3>1 DEF Entry
  <2> DEFINE f == [e EXCEPT ![1].qty = @ - fill]
  <2>4. f = [i \in 1 .. Len(q) |-> IF i = 1 THEN [e[1] EXCEPT !.qty = @ - fill] ELSE e[i]]
    BY <1>4, <1>5
  <2>5. Entries(orders', q) = [i \in 1 .. Len(q) |-> Entry(orders', q[i])]
    BY DEF Entries
  <2>6. Entries(orders', q) = f
    <3> DEFINE g == [i \in 1 .. Len(q) |-> Entry(orders', q[i])]
               h == [i \in 1 .. Len(q) |-> IF i = 1 THEN [e[1] EXCEPT !.qty = @ - fill] ELSE e[i]]
    <3>1. \A i \in 1 .. Len(q) : g[i] = h[i]
      BY <2>2, <2>3
    <3>2. g = h
      BY <3>1
    <3> QED BY <2>4, <2>5, <3>2
  <2> QED BY <1>9, <1>11, <2>1, <2>6
<1>12. QueueAt(d, c)' = sold
  BY <1>10, <1>11 DEF sold
<1>13. ASSUME NEW f \in Side, NEW p \in Price, f # d \/ p # c
       PROVE  QueueAt(f, p)' = QueueAt(f, p)
  <2>1. CASE book[f][p] = Null
    BY <1>1, <2>1, QueueAtEntries
  <2>2. CASE book[f][p] # Null
    <3> DEFINE k == levels[book[f][p]].queue
    <3>1. /\ book[f][p] \in LevelSlots /\ book[f][p] # CursorLevel
      BY <1>2, <1>3, <1>8, <1>13, <2>2, QueueFacts DEF Structure, BookConsistent, LevelsOwned
    <3>2. k \in Seq(OrderSlots)
          /\ \A s \in ToSet(k) : s \in OrderSlots /\ s # taker /\ orders[s].level = book[f][p]
      BY <2>2, QueueFacts
    <3>3. \A s \in ToSet(k) : orders'[s] = orders[s]
      BY <1>1, <1>3, <3>1, <3>2 DEF m
    <3>4. QueueAt(f, p) = Entries(orders, k) /\ QueueAt(f, p)' = Entries(orders', k)
      BY <1>1, <2>2, <3>1, QueueAtEntries
    <3> HIDE DEF k
    <3> QED BY <3>2, <3>3, <3>4, SameEntries
  <2> QED BY <2>1, <2>2
<1>14. Queues' = [Queues EXCEPT ![d][c] = sold]
  BY <1>12, <1>13, OneQueueChanges
(* The incoming order, and the price it takes.                             *)
<1>15. /\ Incoming # Null /\ Incoming.qty = t.remaining /\ Incoming.side = t.side
       /\ Incoming.type = t.type /\ Incoming.price = t.price
       /\ Incoming' = [Incoming EXCEPT !.qty = @ - fill]
  <2>1. Incoming # Null
        /\ Incoming = [id |-> t.id, side |-> t.side, price |-> t.price,
                       qty |-> t.remaining, type |-> t.type]
    BY <1>1, IncomingFacts DEF t
  <2>2. Incoming' = [id |-> orders'[taker].id, side |-> orders'[taker].side,
                     price |-> orders'[taker].price,
                     qty |-> orders'[taker].remaining, type |-> orders'[taker].type]
    BY <1>1, <1>2 DEF Incoming
  <2> QED BY <1>1, <1>2, <2>1, <2>2 DEF Order
<1>16. Promise!Other(Incoming.side) = d
  BY <1>2, <1>8, <1>15 DEF Promise!Other, Opposite
<1>17. Promise!Best(d, c)
  <2>1. ASSUME NEW p \in Occupied(MakerSide) PROVE levels[book[MakerSide][p]].queue # <<>>
    <3>1. CASE p = cursor
      BY <1>3, <3>1 DEF q
    <3>2. CASE p # cursor
      BY <1>2, <2>1, <3>2 DEF Occupied, Structure, BookConsistent, LevelsConsistent
    <3> QED BY <3>1, <3>2
  <2>2. Promise!Offered(MakerSide) = Occupied(MakerSide)
    BY <1>2, <2>1, OfferedIsOccupied
  <2>3. First(MakerSide, Occupied(MakerSide), cursor) /\ cursor \in Occupied(MakerSide)
    BY <1>1, <1>2, <1>3 DEF Uncrossed, CursorAtBest, Occupied
  <2> QED BY <1>8, <2>2, <2>3 DEF Promise!Best, Promise!Better, First, Before
<1>18. Promise!Takes(Incoming, c)
  <2>1. cursor \in Nat /\ t.price \in Nat
    BY <1>2, <1>3, OrderBookAssumption
  <2>2. t.type = "LIMIT" => ~TooExpensive(t.side, t.price, cursor)
    BY <1>1 DEF TakesWhatItMay, t
  <2> QED BY <1>8, <1>15, <2>1, <2>2 DEF TooExpensive, Promise!Takes
<1>19. Queues[d][c] = e
  BY <1>9 DEF Queues
<1>20. LET side == Promise!Other(Incoming.side)
           k    == Queues[side][c]
           paid == IF Incoming.qty < k[1].qty THEN Incoming.qty ELSE k[1].qty
       IN  /\ Incoming' = [Incoming EXCEPT !.qty = @ - paid]
           /\ Queues' = [Queues EXCEPT ![side][c] =
                           IF paid = k[1].qty THEN Tail(k)
                                              ELSE [k EXCEPT ![1].qty = @ - paid]]
  <2>1. e[1].qty = m.remaining
    BY <1>6
  <2>2. (IF Incoming.qty < e[1].qty THEN Incoming.qty ELSE e[1].qty) = fill
    BY <1>7, <1>15, <2>1
  <2>3. sold = IF fill = e[1].qty THEN Tail(e) ELSE [e EXCEPT ![1].qty = @ - fill]
    BY <1>7, <2>1 DEF sold
  <2> QED BY <1>14, <1>15, <1>16, <1>19, <2>2, <2>3
<1>21. Incoming.qty > 0
  BY <1>1, <1>15
<1>22. outcome' = outcome /\ (pc' = "destroyed") = (pc = "destroyed")
  BY <1>1
<1>23. Promise!Trade(c)
  BY <1>15, <1>16, <1>17, <1>18, <1>20, <1>21, <1>22 DEF Promise!Trade, Queues
<1> QED BY <1>23

(* The end of addOrder() and cancelOrder(), the calls that change a queue. *)
LEMMA RestIsFinish ==
  ASSUME Structure, Uncrossed, TakesWhatItMay, RestOrder
  PROVE  Promise!Finish
<1> DEFINE o   == orders[taker]
           new == OwnLevel = Null
           l   == IF new THEN AllocatedSlot(levelFree) ELSE OwnLevel
           lvl == IF new THEN NewLevel(o.price) ELSE levels[l]
<1>1. /\ pc = "settle" /\ Return("added")
      /\ o.remaining > 0 /\ o.type = "LIMIT"
      /\ new => levelFree # <<>>
      /\ levels' = [levels EXCEPT ![l] = AppendOrder(lvl, taker, o.remaining)]
      /\ orders' = [orders EXCEPT ![taker].level = l]
      /\ book' = [book EXCEPT ![o.side][o.price] = l]
  BY DEF RestOrder, Rests, NoLevelLeft, Exhausted
<1>2. /\ taker \in OrderSlots /\ o \in Order
      /\ o.price \in Price /\ o.side \in Side /\ o.remaining \in Qty
  BY <1>1, TakerFacts
<1>3. PICK d \in Side, c \in Price : d = o.side /\ c = o.price
  BY <1>2
<1>4. OwnLevel = book[d][c]
  BY <1>3 DEF OwnLevel
<1>5. l \in LevelSlots /\ l # Null /\ (new => levels[l] = Dead)
  <2>1. CASE new
    <3>1. /\ levelFree \in Seq(LevelSlots) /\ IsInjective(levelFree)
          /\ ToSet(levelFree) = {k \in LevelSlots : levels[k] = Dead}
      BY DEF Structure, TypeOK, BookConsistent, PoolsConsistent, FreeListMatchesHeap
    <3> QED BY <1>1, <2>1, <3>1, FrontList, OrderBookAssumption DEF AllocatedSlot
  <2>2. CASE ~new
    BY <1>4, <2>2, QueueFacts
  <2> QED BY <2>1, <2>2
<1>6. /\ lvl.queue \in Seq(OrderSlots)
      /\ \A s \in ToSet(lvl.queue) : s # taker
      /\ QueueAt(d, c) = Entries(orders, lvl.queue)
  <2>1. CASE new
    <3>1. lvl.queue = <<>> /\ lvl.queue \in Seq(OrderSlots) /\ ToSet(lvl.queue) = {}
      BY <2>1, EmptyList DEF NewLevel
    <3>2. Entries(orders, <<>>) = <<>>
      <4>1. <<>> \in Seq(OrderSlots) /\ Len(<<>>) = 0
        BY EmptySeq
      <4>2. Entries(orders, <<>>) \in Seq(EntriesOf(orders, OrderSlots))
            /\ Len(Entries(orders, <<>>)) = 0
        BY <4>1, EntriesList
      <4> QED BY <4>2, EmptySeq
    <3> QED BY <1>4, <2>1, <3>1, <3>2, QueueAtEntries
  <2>2. CASE ~new
    <3>1. lvl = levels[book[d][c]] /\ book[d][c] # Null
      BY <1>4, <2>2
    <3> QED BY <3>1, QueueFacts, QueueAtEntries
  <2> QED BY <2>1, <2>2
<1>7. AppendOrder(lvl, taker, o.remaining).queue = Append(lvl.queue, taker)
  BY <1>5 DEF AppendOrder, NewLevel, Structure, TypeOK, Level
<1>8. /\ orders \in [OrderSlots -> Order \cup {Dead}]
      /\ levels \in [LevelSlots -> Level \cup {Dead}]
      /\ book \in [Side -> [Price -> LevelSlots \cup {Null}]]
  BY DEF Structure, TypeOK
<1> DEFINE q == lvl.queue
           put == AppendOrder(lvl, taker, o.remaining)
<1> HIDE DEF l, lvl, new, q, put, o
<1>9. /\ book'[d][c] = l /\ levels'[l].queue = Append(q, taker)
      /\ \A e \in Side, p \in Price : e # d \/ p # c => book'[e][p] = book[e][p]
      /\ \A k \in LevelSlots \ {l} : levels'[k] = levels[k]
      /\ orders'[taker] = [o EXCEPT !.level = l]
      /\ \A s \in OrderSlots \ {taker} : orders'[s] = orders[s]
  <2>1. levels' = [levels EXCEPT ![l] = put] /\ put.queue = Append(q, taker)
    BY <1>1, <1>7 DEF put, q
  <2>2. orders' = [orders EXCEPT ![taker] = [o EXCEPT !.level = l]]
    BY <1>1 DEF o
  <2>3. book' = [book EXCEPT ![d][c] = l]
    BY <1>1, <1>3
  <2> QED BY <1>2, <1>5, <1>8, <2>1, <2>2, <2>3
<1>10. QueueAt(d, c)' = Append(QueueAt(d, c), [id |-> o.id, qty |-> o.remaining])
  <2>1. QueueAt(d, c)' = Entries(orders', Append(q, taker))
    <3>1. book'[d][c] # Null /\ levels'[book'[d][c]].queue = Append(q, taker)
      BY <1>5, <1>9
    <3>2. QueueAt(d, c)' = Entries(orders', levels'[book'[d][c]].queue)
      BY <3>1, QueueAtEntries
    <3> QED BY <3>1, <3>2
  <2>2. Entries(orders', Append(q, taker)) = Append(Entries(orders', q), Entry(orders', taker))
    BY <1>2, <1>6, AppendEntries DEF q
  <2>3. Entries(orders', q) = Entries(orders, q)
    <3>1. q \in Seq(OrderSlots) /\ \A s \in ToSet(q) : s \in OrderSlots \ {taker}
      BY <1>6, ListElements DEF q
    <3> QED BY <1>9, <3>1, SameEntries
  <2>4. Entry(orders', taker) = [id |-> o.id, qty |-> o.remaining]
    BY <1>2, <1>9 DEF Entry, Order
  <2> QED BY <1>6, <2>1, <2>2, <2>3, <2>4 DEF q
<1>11. ASSUME NEW e \in Side, NEW p \in Price, e # d \/ p # c
       PROVE  QueueAt(e, p)' = QueueAt(e, p)
  <2>1. CASE book[e][p] = Null
    BY <1>9, <1>11, <2>1, QueueAtEntries
  <2>2. CASE book[e][p] # Null
    <3> DEFINE k == levels[book[e][p]].queue
    <3>1. /\ book[e][p] \in LevelSlots /\ k \in Seq(OrderSlots)
          /\ levels[book[e][p]] # Dead
          /\ \A s \in ToSet(k) : s \in OrderSlots \ {taker}
      <4>1. /\ book[e][p] \in LevelSlots /\ k \in Seq(OrderSlots)
            /\ levels[book[e][p]] # Dead /\ ToSet(k) \subseteq OrderSlots
        BY <2>2, QueueFacts
      <4>2. \A s \in ToSet(k) : s \in OrderSlots /\ s # taker /\ orders[s].level = book[e][p]
        BY <2>2, QueueFacts
      <4> HIDE DEF k
      <4> QED BY <4>1, <4>2
    <3>2. book[e][p] # l
      <4>1. CASE new
        BY <1>5, <3>1, <4>1
      <4>2. CASE ~new
        <5>1. l = book[d][c] /\ book[d][c] # Null
          BY <1>4, <4>2 DEF l, new
        <5> QED BY <1>11, <2>2, <5>1 DEF Structure, BookConsistent, LevelsOwned
      <4> QED BY <4>1, <4>2
    <3>3. QueueAt(e, p) = Entries(orders, k) /\ QueueAt(e, p)' = Entries(orders', k)
      BY <1>9, <1>11, <2>2, <3>1, <3>2, QueueAtEntries
    <3> HIDE DEF k
    <3> QED BY <1>9, <3>1, <3>3, SameEntries
  <2> QED BY <2>1, <2>2
<1>12. Queues' = [Queues EXCEPT ![d][c] =
                    Append(QueueAt(d, c), [id |-> o.id, qty |-> o.remaining])]
  BY <1>10, <1>11, OneQueueChanges
<1>13. Queues[d][c] = QueueAt(d, c)
  BY DEF Queues
<1>14. /\ Incoming # Null /\ Incoming.id = o.id /\ Incoming.side = d
       /\ Incoming.price = c /\ Incoming.qty = o.remaining /\ Incoming.type = "LIMIT"
       /\ Incoming' = Null /\ outcome' = "added" /\ pc' = "idle"
  BY <1>1, <1>3, IncomingFacts, ReturnFreesIncoming DEF o
<1>15. Queues' = IF Incoming.qty > 0 /\ Incoming.type = "LIMIT"
                   THEN [Queues EXCEPT ![Incoming.side][Incoming.price] =
                           Append(@, [id |-> Incoming.id, qty |-> Incoming.qty])]
                   ELSE Queues
  BY <1>1, <1>12, <1>13, <1>14
<1> QED
  BY <1>1, <1>14, <1>15, SettledIsExhausted DEF Promise!Finish, Queues

LEMMA CancelIsCancel ==
  ASSUME Structure, NEW id \in OrderId, CancelOrder(id)
  PROVE  Promise!Cancel(id)
<1> DEFINE s   == orderMap[id]
           o   == orders[s]
           l   == o.level
           q   == levels[l].queue
           i   == Position(levels[l], s)
           lvl == RemoveOrder(levels[l], s, o.remaining)
           r   == RemoveAt(q, i)
<1>1. /\ pc = "idle" /\ s # Null /\ Return("cancelled")
      /\ orders' = [orders EXCEPT ![s] = Dead]
      /\ \/ /\ IsEmptyLevel(lvl)
            /\ book' = [book EXCEPT ![o.side][o.price] = Null]
            /\ levels' = [levels EXCEPT ![l] = Dead]
         \/ /\ ~IsEmptyLevel(lvl)
            /\ levels' = [levels EXCEPT ![l] = lvl]
            /\ UNCHANGED book
  BY DEF CancelOrder
<1>2. /\ s \in OrderSlots /\ o # Dead /\ o.id = id
      /\ l # Null /\ book[o.side][o.price] = l /\ s \in ToSet(q)
  BY <1>1 DEF Structure, TypeOK, BookConsistent, OrdersConsistent
<1>3. /\ o \in Order /\ o.side \in Side /\ o.price \in Price /\ o.remaining \in Qty
      /\ l \in LevelSlots
  BY <1>2 DEF Structure, TypeOK, Order
<1>4. PICK d \in Side, c \in Price : d = o.side /\ c = o.price
  BY <1>3
<1>5. book[d][c] = l /\ levels[l] \in Level /\ IsInjective(q) /\ q \in Seq(OrderSlots)
  BY <1>2, <1>3, <1>4, QueueFacts
<1>6. /\ lvl.queue = r /\ i \in 1 .. Len(q) /\ q[i] = s
      /\ r \in Seq(OrderSlots) /\ ToSet(r) = ToSet(q) \ {s}
  <2> DEFINE before == levels[l]
             left   == o.remaining
  <2>1. /\ before \in Level /\ s \in OrderSlots /\ left \in Qty
        /\ IsInjective(before.queue) /\ s \in ToSet(before.queue)
    BY <1>2, <1>3, <1>5
  <2> HIDE DEF before, left, s
  <2>2. /\ RemoveOrder(before, s, left).queue = RemoveAt(before.queue, Position(before, s))
        /\ Position(before, s) \in 1 .. Len(before.queue)
        /\ before.queue[Position(before, s)] = s
    BY <2>1, RemoveOrderFacts
  <2>3. lvl.queue = r /\ i \in 1 .. Len(q) /\ q[i] = s
    BY <2>2 DEF before, left
  <2> HIDE DEF q, i
  <2>4. RemoveAt(q, i) \in Seq(OrderSlots) /\ ToSet(RemoveAt(q, i)) = ToSet(q) \ {q[i]}
    BY <1>5, <2>3, RemoveList
  <2> QED BY <2>3, <2>4
<1> DEFINE e == Entries(orders, q)
<1>7. /\ orders \in [OrderSlots -> Order \cup {Dead}]
      /\ levels \in [LevelSlots -> Level \cup {Dead}]
      /\ book \in [Side -> [Price -> LevelSlots \cup {Null}]]
  BY DEF Structure, TypeOK
<1>8. QueueAt(d, c) = e
  BY <1>2, <1>5, QueueAtEntries
<1> HIDE DEF s, l, q, i, lvl, r, e
<1>9. DOMAIN e = 1 .. Len(q) /\ e[i].id = id
  BY <1>2, <1>6 DEF e, Entries, Entry
<1>10. \A t \in OrderSlots \ {s} : orders'[t] = orders[t]
  BY <1>1, <1>7
<1>11. Entries(orders', r) = RemoveAt(e, i)
  <2>1. \A t \in ToSet(r) : t \in OrderSlots \ {s}
    BY <1>6, ListElements
  <2>2. Entries(orders', r) = Entries(orders, r)
    BY <1>6, <1>10, <2>1, SameEntries
  <2>3. Entries(orders, RemoveAt(q, i)) = RemoveAt(Entries(orders, q), i)
    BY <1>5, <1>6, RemoveEntries
  <2> QED BY <2>2, <2>3 DEF r, e
<1>12. QueueAt(d, c)' = RemoveAt(e, i)
  <2>1. ASSUME IsEmptyLevel(lvl), book' = [book EXCEPT ![o.side][o.price] = Null]
        PROVE  QueueAt(d, c)' = RemoveAt(e, i)
    <3>1. book'[d][c] = Null /\ QueueAt(d, c)' = <<>>
      <4>1. book'[d][c] = Null
        BY <1>4, <1>7, <2>1
      <4> QED BY <4>1, QueueAtEntries
    <3>2. r = <<>>
      BY <1>6, <2>1 DEF IsEmptyLevel
    <3>3. Entries(orders', r) = <<>>
      <4>1. r \in Seq(OrderSlots) /\ Len(r) = 0
        BY <3>2, <1>6, EmptySeq
      <4>2. Entries(orders', r) \in Seq(EntriesOf(orders', OrderSlots))
            /\ Len(Entries(orders', r)) = 0
        BY <4>1, EntriesList
      <4> QED BY <4>2, EmptySeq
    <3> QED BY <1>11, <3>1, <3>3
  <2>2. ASSUME levels' = [levels EXCEPT ![l] = lvl], UNCHANGED book
        PROVE  QueueAt(d, c)' = RemoveAt(e, i)
    <3>1. book'[d][c] # Null /\ levels'[book'[d][c]].queue = r
      BY <1>2, <1>3, <1>5, <1>6, <1>7, <2>2
    <3>2. QueueAt(d, c)' = Entries(orders', levels'[book'[d][c]].queue)
      BY <3>1, QueueAtEntries
    <3> QED BY <1>11, <3>1, <3>2
  <2> QED BY <1>1, <2>1, <2>2
<1>13. ASSUME NEW f \in Side, NEW p \in Price, f # d \/ p # c
       PROVE  QueueAt(f, p)' = QueueAt(f, p)
  <2>1. book'[f][p] = book[f][p]
    BY <1>1, <1>4, <1>7, <1>13
  <2>2. CASE book[f][p] = Null
    BY <2>1, <2>2, QueueAtEntries
  <2>3. CASE book[f][p] # Null
    <3> DEFINE k == levels[book[f][p]].queue
    <3>1. book[f][p] \in LevelSlots /\ k \in Seq(OrderSlots) /\ ToSet(k) \subseteq OrderSlots
      BY <2>3, QueueFacts
    <3>2. ASSUME NEW t \in ToSet(k) PROVE orders[t].level = book[f][p]
      BY <2>3, <3>2, QueueFacts
    <3>3. book[f][p] # l
      BY <1>2, <1>5, <1>13, <2>3 DEF Structure, BookConsistent, LevelsOwned
    <3>4. \A t \in ToSet(k) : t # s
      BY <3>2, <3>3 DEF l
    <3>5. levels'[book[f][p]] = levels[book[f][p]]
      BY <1>1, <1>7, <3>1, <3>3
    <3>6. QueueAt(f, p) = Entries(orders, k) /\ QueueAt(f, p)' = Entries(orders', k)
      BY <2>1, <2>3, <3>5, QueueAtEntries
    <3> HIDE DEF k
    <3> QED BY <1>10, <3>1, <3>4, <3>6, SameEntries
  <2> QED BY <2>2, <2>3
<1>14. Queues' = [Queues EXCEPT ![d][c] = RemoveAt(e, i)]
  BY <1>12, <1>13, OneQueueChanges
<1>15. /\ Promise!Idle /\ Incoming' = Incoming /\ outcome' = "cancelled"
       /\ (pc' = "destroyed") = (pc = "destroyed")
  BY <1>1, IdleIsIdle, ReturnFreesIncoming, IncomingFacts
<1>16. \E j \in DOMAIN Queues[d][c] :
         /\ Queues[d][c][j].id = id
         /\ Queues' = [Queues EXCEPT ![d][c] = RemoveAt(@, j)]
  <2>1. Queues[d][c] = e
    BY <1>8 DEF Queues
  <2> QED BY <1>6, <1>9, <1>14, <2>1
<1>17. <<d, c>> \in Promise!Resting(id)
  BY <1>6, <1>8, <1>9, RestingFacts
<1>18. \E b \in Promise!Resting(id) :
         \E j \in DOMAIN Queues[b[1]][b[2]] :
           /\ Queues[b[1]][b[2]][j].id = id
           /\ Queues' = [Queues EXCEPT ![b[1]][b[2]] = RemoveAt(@, j)]
  <2> DEFINE b == <<d, c>>
  <2>1. b[1] = d /\ b[2] = c
    OBVIOUS
  <2> HIDE DEF b
  <2>2. b \in Promise!Resting(id)
    BY <1>17 DEF b
  <2>3. \E j \in DOMAIN Queues[b[1]][b[2]] :
          /\ Queues[b[1]][b[2]][j].id = id
          /\ Queues' = [Queues EXCEPT ![b[1]][b[2]] = RemoveAt(@, j)]
    BY <1>16, <2>1
  <2> QED BY <2>2, <2>3
<1>19. /\ Promise!Idle
       /\ \E b \in Promise!Resting(id) :
            \E j \in DOMAIN Queues[b[1]][b[2]] :
              /\ Queues[b[1]][b[2]][j].id = id
              /\ Queues' = [Queues EXCEPT ![b[1]][b[2]] = RemoveAt(@, j)]
       /\ outcome' = "cancelled"
       /\ UNCHANGED <<Incoming, pc = "destroyed">>
  BY <1>15, <1>18
<1> QED BY ONLY <1>19 DEF Promise!Cancel, Queues, RemoveAt, Promise!RemoveAt

(* Each step of the engine is a step of the promise or one the caller      *)
(* cannot see: all of them but the throw that a large level pool excludes. *)
LEMMA StepsArePromised ==
  ASSUME Structure, Uncrossed, TakesWhatItMay, [Next]_vars, ~LevelPoolThrows
  PROVE  [Promise!Next]_(Promise!vars)
<1>1. CASE UNCHANGED vars
  <2>1. UNCHANGED <<orders, levels, book, taker, pc, outcome>>
    BY <1>1 DEF vars, heapVars, mapVars, callVars
  <2>2. Queues' = Queues /\ Incoming' = Incoming
    BY <2>1, HeapUntouched DEF Incoming
  <2> QED BY <2>1, <2>2 DEF Promise!vars, Queues
<1>2. CASE Call
  <2>1. ASSUME NEW id \in OrderId, NEW qty \in Quantity,
               RejectOrder(id, qty) \/ OrderPoolThrows(id, qty)
        PROVE  Promise!Next
    BY <2>1, RefusalsArePromised DEF Promise!Next
  <2>2. ASSUME NEW id \in OrderId, NEW qty \in Quantity, NEW side \in Side,
               NEW price \in Price, NEW type \in OrderType,
               AcceptOrder(id, side, price, qty, type)
        PROVE  Promise!Next
    <3>1. Promise!Submit(id, side, price, qty, type)
      BY <2>2, AcceptIsSubmit
    <3> QED BY <3>1 DEF Promise!Next, OrderType, Side, Promise!Side
  <2>3. ASSUME NEW id \in OrderId, CancelUnknown(id) \/ CancelOrder(id)
        PROVE  Promise!Next
    <3>1. Promise!CancelNothing(id) \/ Promise!Cancel(id)
      BY <2>3, RefusalsArePromised, CancelIsCancel
    <3> QED BY <3>1 DEF Promise!Next
  <2>4. CASE Destroy
    BY <2>4, DestroyIsClose DEF Promise!Next
  <2> QED BY <1>2, <2>1, <2>2, <2>3, <2>4 DEF Call
<1>3. CASE Step
  <2>1. CASE StopMatching \/ EnterLevel
    BY <2>1, CursorStepsAreUnseen
  <2>2. CASE FillMaker
    BY <2>2, FillIsTrade DEF Promise!Next
  <2>3. CASE LeaveLevel
    BY <2>3, LeaveLevelIsUnseen
  <2>4. CASE RestOrder \/ DiscardOrder
    BY <2>4, RestIsFinish, DiscardIsFinish DEF Promise!Next
  <2> QED BY <1>3, <2>1, <2>2, <2>3, <2>4 DEF Step
<1> QED BY <1>1, <1>2, <1>3 DEF Next

LEMMA InitIsPromised == Init => Promise!Init
<1> SUFFICES ASSUME Init PROVE Promise!Init
  OBVIOUS
<1>1. /\ book = [side \in Side |-> [p \in Price |-> Null]]
      /\ taker = Null /\ outcome = "none" /\ pc = "idle"
  BY DEF Init
<1>2. \A d \in Side, p \in Price : QueueAt(d, p) = <<>>
  BY <1>1 DEF QueueAt
<1>3. Queues = [s \in Side |-> [p \in Price |-> <<>>]]
  BY <1>2 DEF Queues
<1>4. Incoming = Null
  BY <1>1 DEF Incoming
<1> QED BY <1>1, <1>3, <1>4 DEF Promise!Init, Queues, Side, Promise!Side

(* matchBuyOrder() and matchSellOrder() trade with the oldest order at the *)
(* best price, an order rests only when nothing it may take is left, and   *)
(* cancelOrder() keeps the turns of the others: the engine implements the  *)
(* price-time book, for every pool of levels that cannot run out.          *)
THEOREM ImplementsPriceTimePriority ==
  ASSUME LevelPoolIsLarge PROVE Spec => KeepsPriceTimePriority
<1>1. Structure /\ Uncrossed /\ TakesWhatItMay /\ [Next]_vars =>
        [Promise!Next]_(Promise!vars)
  <2> SUFFICES ASSUME Structure, Uncrossed, TakesWhatItMay, [Next]_vars
               PROVE  ~LevelPoolThrows
    BY StepsArePromised
  <2> QED BY PoolSuffices DEF LevelPoolIsLarge, LevelPoolSuffices, LevelPoolThrows
<1> QED
  BY <1>1, InitIsPromised, PromiseInvariant, PTL
  DEF Spec, KeepsPriceTimePriority, Promise!Spec

(* Whatever the pools hold, only levelPool_.allocate() throwing out of     *)
(* addOrder() breaks that promise: the incoming order is then neither      *)
(* resting, nor traded away, nor refused.                                  *)
THEOREM OnlyThrowsBreakPromise ==
  Spec => [][LevelPoolThrows \/ [Promise!Next]_(Promise!vars)]_vars
<1>1. Structure /\ Uncrossed /\ TakesWhatItMay /\ [Next]_vars =>
        [LevelPoolThrows \/ [Promise!Next]_(Promise!vars)]_vars
  BY StepsArePromised
<1> QED BY <1>1, PromiseInvariant, PTL DEF Spec
-----------------------------------------------------------------------------
(***************************************************************************)
(* Sums: what the caller is told, and what rests on the book.              *)
(***************************************************************************)

LEMMA SumIsTotal == ASSUME NEW f PROVE SumOf(f) = Total(f, DOMAIN f)
  BY DEF SumOf, Total

(* Another event.                                                          *)
LEMMA SumAppends ==
  ASSUME NEW S, NEW q \in Seq(S), NEW e \in S, \A x \in S : x.qty \in Nat
  PROVE  LET f == [i \in DOMAIN q |-> q[i].qty]
             g == [i \in DOMAIN Append(q, e) |-> Append(q, e)[i].qty]
         IN  SumOf(g) = SumOf(f) + e.qty /\ SumOf(f) \in Nat
<1> DEFINE r == Append(q, e)
           n == Len(q)
           f == [i \in DOMAIN q |-> q[i].qty]
           g == [i \in DOMAIN r |-> r[i].qty]
<1>1. /\ n \in Nat /\ DOMAIN q = 1 .. n /\ DOMAIN r = 1 .. n + 1
      /\ r[n + 1] = e /\ \A i \in 1 .. n : r[i] = q[i] /\ q[i] \in S
  BY AppendProperties
<1> HIDE DEF r, n
<1>2. SumOf(f) = Total(f, 1 .. n) /\ SumOf(g) = Total(g, 1 .. n + 1)
  <2>1. DOMAIN f = 1 .. n /\ DOMAIN g = 1 .. n + 1
    BY <1>1
  <2> HIDE DEF f, g
  <2> QED BY <2>1, SumIsTotal
<1>3. /\ \A i \in 1 .. n + 1 : g[i] \in Nat
      /\ \A i \in 1 .. n : g[i] = f[i] /\ f[i] \in Nat
      /\ g[n + 1] = e.qty /\ e.qty \in Nat
  <2>1. \A i \in 1 .. n + 1 : r[i] \in S
    <3>1. \A i \in 1 .. n + 1 : i = n + 1 \/ i \in 1 .. n
      BY <1>1
    <3> QED BY <1>1, <3>1
  <2>2. \A i \in 1 .. n : i \in 1 .. n + 1
    BY <1>1
  <2>3. n + 1 \in 1 .. n + 1
    BY <1>1
  <2> QED BY <1>1, <2>1, <2>2, <2>3
<1>4. IsFiniteSet(1 .. n) /\ IsFiniteSet(1 .. n + 1)
  BY <1>1, FS_Interval
<1>5. (1 .. n + 1) \ {n + 1} = 1 .. n /\ n + 1 \in 1 .. n + 1
  BY <1>1
<1> HIDE DEF f, g
<1>6. Total(g, 1 .. n + 1) = g[n + 1] + Total(g, 1 .. n)
  <2> DEFINE D == 1 .. n + 1
             y == n + 1
  <2>1. IsFiniteSet(D) /\ y \in D /\ \A i \in D : g[i] \in Nat
    BY <1>3, <1>4, <1>5
  <2> HIDE DEF D, y
  <2>2. Total(g, D) = g[y] + Total(g, D \ {y})
    BY <2>1, TotalTake
  <2> QED BY <1>5, <2>2 DEF D, y
<1>7. Total(g, 1 .. n) = Total(f, 1 .. n)
  BY <1>3, <1>4, TotalSame
<1>8. Total(f, 1 .. n) \in Nat
  BY <1>3, <1>4, TotalNat
<1>9. SumOf(g) = SumOf(f) + e.qty /\ SumOf(f) \in Nat
  <2> DEFINE t == Total(f, 1 .. n)
  <2>1. SumOf(g) = e.qty + t /\ SumOf(f) = t /\ t \in Nat
    BY <1>2, <1>3, <1>6, <1>7, <1>8
  <2> HIDE DEF t
  <2> QED BY <1>3, <2>1
<1> QED BY <1>9 DEF f, g, r

(***************************************************************************)
(* The events and the incoming order.  A maker is off the book when its    *)
(* event is recorded unless the incoming order is filled by it, and the    *)
(* prices follow the iterator.                                             *)
(***************************************************************************)
EventsFollow ==
  /\ taker = Null => matches = <<>>
  /\ taker # Null /\ orders[taker].remaining > 0 =>
       \A i \in DOMAIN matches : orderMap[matches[i].maker] = Null
  /\ pc \in {"level", "maker"} /\ cursor # End =>
       \A i \in DOMAIN matches : ~Before(MakerSide, cursor, matches[i].price)

Filled == SumOf([i \in DOMAIN matches |-> matches[i].qty])

(* EventsAccountForTaker, event by event.                                  *)
EventIsTrue(i) ==
  /\ matches[i].taker = orders[taker].id /\ matches[i].qty > 0
  /\ WithinLimit(orders[taker], matches[i].price)
  /\ i < Len(matches) => orderMap[matches[i].maker] = Null
  /\ \A j \in i + 1 .. Len(matches) :
       /\ matches[i].maker # matches[j].maker
       /\ ~Before(Opposite(orders[taker].side), matches[j].price, matches[i].price)

LEMMA EventByEvent ==
  EventsAccountForTaker <=>
    (taker # Null => /\ Filled = orders[taker].quantity - orders[taker].remaining
                     /\ \A i \in DOMAIN matches : EventIsTrue(i))
  BY DEF EventsAccountForTaker, EventIsTrue, Filled

AccountInv == EventsFollow /\ EventsAccountForTaker

(* Steps that record nothing and leave the incoming order where it was.    *)
LEMMA NoEventStep ==
  ASSUME AccountInv, taker' = taker, matches' = matches, orderMap' = orderMap,
         taker # Null => orders'[taker] = orders[taker],
         pc' \in {"level", "maker"} /\ cursor' # End =>
           \A i \in DOMAIN matches : ~Before(MakerSide, cursor', matches[i].price),
         taker = Null => pc' \notin {"level", "maker"}
  PROVE  AccountInv'
<1>1. taker # Null => MakerSide' = MakerSide
  BY DEF MakerSide
<1>2. EventsFollow'
  BY <1>1 DEF AccountInv, EventsFollow
<1>3. EventsAccountForTaker'
  BY DEF AccountInv, EventsAccountForTaker
<1> QED BY <1>2, <1>3 DEF AccountInv

(* The calls that end, and the one that begins.                            *)
LEMMA ReturnAccounts ==
  ASSUME taker' = Null, matches' = <<>>, pc' \in {"idle", "destroyed"}
  PROVE  AccountInv'
  BY DEF AccountInv, EventsFollow, EventsAccountForTaker

LEMMA AcceptAccounts ==
  ASSUME Structure, AccountInv, NEW id \in OrderId, NEW side \in Side, NEW price \in Price,
         NEW qty \in Quantity, NEW type \in OrderType, AcceptOrder(id, side, price, qty, type)
  PROVE  AccountInv'
<1>1. taker = Null /\ matches = <<>> /\ matches' = <<>>
  BY DEF AcceptOrder, Structure, LocalsConsistent, AccountInv, EventsFollow
<1>2. /\ taker' \in OrderSlots
      /\ orders'[taker'] = NewOrder(id, side, price, qty, type)
  <2>1. /\ orderFree \in Seq(OrderSlots) /\ orderFree # <<>> /\ IsInjective(orderFree)
        /\ orders \in [OrderSlots -> Order \cup {Dead}]
    BY DEF AcceptOrder, Exhausted, Structure, TypeOK, BookConsistent, PoolsConsistent,
           FreeListMatchesHeap
  <2>2. Last(orderFree) \in OrderSlots
    BY <2>1, FrontList
  <2> QED BY <2>1, <2>2 DEF AcceptOrder, AllocatedSlot
<1>3. orders'[taker'].quantity = qty /\ orders'[taker'].remaining = qty
  BY <1>2 DEF NewOrder
<1>4. Filled' = 0
  <2> DEFINE f == [i \in DOMAIN <<>> |-> (<<>>)[i].qty]
  <2>1. DOMAIN f = {}
    OBVIOUS
  <2> HIDE DEF f
  <2>2. SumOf(f) = 0
    BY <2>1, SumIsTotal, TotalEmpty
  <2> QED BY <1>1, <2>2 DEF Filled, f
<1>5. qty - qty = 0
  <2>1. qty \in Nat
    BY OrderBookAssumption, QtyModAssumption
  <2> QED BY <2>1
<1>6. DOMAIN matches' = {}
  BY <1>1
<1>7. EventsAccountForTaker'
  BY <1>3, <1>4, <1>5, <1>6 DEF EventsAccountForTaker, Filled
<1>8. EventsFollow'
  BY <1>1, <1>6 DEF EventsFollow
<1> QED BY <1>7, <1>8 DEF AccountInv

(* The iterator moves on, to a price that is no better.                    *)
LEMMA LeaveLevelAccounts ==
  ASSUME Structure, AccountInv, LeaveLevel
  PROVE  AccountInv'
<1>1. /\ pc = "maker" /\ taker' = taker /\ matches' = matches /\ orderMap' = orderMap
      /\ orders' = orders
      /\ First(MakerSide, KeysAfter(MakerSide, cursor), cursor')
  BY DEF LeaveLevel
<1>2. taker # Null /\ cursor \in Price /\ MakerSide \in Side
  BY <1>1, TakerFacts DEF Structure, LocalsConsistent, TypeOK
<1>3. ASSUME cursor' # End, NEW i \in DOMAIN matches
      PROVE  ~Before(MakerSide, cursor', matches[i].price)
  <2>1. cursor' \in Price /\ Before(MakerSide, cursor, cursor')
    BY <1>1, <1>3 DEF First, KeysAfter, Occupied
  <2>2. ~Before(MakerSide, cursor, matches[i].price)
    BY <1>1, <1>2, <1>3, OrderBookAssumption DEF AccountInv, EventsFollow
  <2>3. matches[i].price \in Nat /\ cursor \in Nat /\ cursor' \in Nat
    <3>1. matches[i] \in MatchEvent
      BY DEF Structure, TypeOK
    <3> QED BY <1>2, <2>1, <3>1, OrderBookAssumption DEF MatchEvent
  <2> DEFINE x == matches[i].price
             y == cursor
             z == cursor'
  <2>4. x \in Nat /\ y \in Nat /\ z \in Nat
    BY <2>3
  <2>5. ~Before(MakerSide, y, x) /\ Before(MakerSide, y, z)
    BY <2>1, <2>2
  <2> HIDE DEF x, y, z
  <2>6. ~Before(MakerSide, z, x)
    BY <1>2, <2>4, <2>5 DEF Before
  <2> QED BY <2>6 DEF x, z
<1> QED BY <1>1, <1>2, <1>3, NoEventStep

(* A fill is recorded.                                                     *)
LEMMA FillAccounts ==
  ASSUME Structure, AccountInv, TakesWhatItMay, FillMaker
  PROVE  AccountInv'
<1> DEFINE o == orders[taker]
           m == orders[maker]
           fill == Smaller(o.remaining, m.remaining)
           left == m.remaining - fill
           event == [maker |-> m.id, taker |-> o.id, price |-> cursor, qty |-> fill]
           n == Len(matches)
<1>1. /\ pc = "maker" /\ maker # Null /\ o.remaining > 0
      /\ pc' = pc /\ taker' = taker /\ cursor' = cursor
      /\ orders'[taker] = [o EXCEPT !.remaining = @ - fill]
  BY FillMakerFacts
<1>2. /\ taker \in OrderSlots /\ taker # Null /\ cursor \in Price /\ MakerSide \in Side
      /\ o \in Order /\ m \in Order /\ o.remaining \in Qty /\ m.remaining \in Qty
      /\ m.remaining > 0 /\ levels[CursorLevel] \in Level /\ levels[CursorLevel].price = cursor
      /\ m.id \in OrderId /\ o.id \in OrderId /\ orderMap[m.id] = maker
  BY <1>1, MakerFacts, TakerFacts DEF Order
<1>3. /\ fill \in Qty /\ fill > 0 /\ left \in Qty
      /\ o.remaining - fill \in Qty /\ (left # 0 => o.remaining - fill = 0)
  BY <1>1, <1>2, FillFacts
<1>4. matches' = Append(matches, event)
  <2>1. DeductVolume(levels[CursorLevel], fill).price = cursor
    BY <1>2, <1>3, DeductVolumeFacts
  <2> QED BY <2>1 DEF FillMaker
<1>5. orderMap' = IF left = 0 THEN [orderMap EXCEPT ![m.id] = Null] ELSE orderMap
  BY DEF FillMaker
<1>6. matches \in Seq(MatchEvent) /\ event \in MatchEvent /\ n \in Nat
  BY <1>2, <1>3 DEF MatchEvent, Structure, TypeOK
<1>7. /\ DOMAIN matches = 1 .. n /\ DOMAIN matches' = 1 .. n + 1 /\ Len(matches') = n + 1
      /\ matches'[n + 1] = event /\ \A i \in 1 .. n : matches'[i] = matches[i]
  <2> HIDE DEF event
  <2> QED BY <1>4, <1>6, AppendProperties
<1>8. \A i \in 1 .. n : /\ matches[i].maker \in OrderId /\ matches[i].price \in Nat
                        /\ orderMap[matches[i].maker] = Null
                        /\ ~Before(MakerSide, cursor, matches[i].price)
                        /\ EventIsTrue(i)
  <2>1. ASSUME NEW i \in 1 .. n
        PROVE  matches[i].maker \in OrderId /\ matches[i].price \in Nat
    <3>1. matches[i] \in MatchEvent
      BY <1>6, <1>7
    <3> QED BY <3>1, OrderBookAssumption DEF MatchEvent
  <2>2. cursor # End
    BY <1>2, OrderBookAssumption
  <2>3. \A i \in 1 .. n : EventIsTrue(i)
    BY <1>2, <1>7, EventByEvent DEF AccountInv
  <2> QED BY <1>1, <1>2, <1>7, <2>1, <2>2, <2>3 DEF AccountInv, EventsFollow
<1>9. /\ orders'[taker].id = o.id /\ orders'[taker].quantity = o.quantity
      /\ orders'[taker].side = o.side /\ orders'[taker].type = o.type
      /\ orders'[taker].price = o.price /\ orders'[taker].remaining = o.remaining - fill
      /\ o.quantity \in Nat
  BY <1>1, <1>2, QtyModAssumption DEF Order, Qty
<1>10. orderMap \in [OrderId -> OrderSlots \cup {Null}]
  BY DEF Structure, TypeOK
<1>11. Filled' = o.quantity - (o.remaining - fill)
  <2>1. \A x \in MatchEvent : x.qty \in Nat
    BY QtyModAssumption DEF MatchEvent, Qty
  <2>2. Filled' = Filled + event.qty /\ Filled \in Nat
    <3> HIDE DEF event
    <3> QED BY <1>4, <1>6, <2>1, SumAppends DEF Filled
  <2>3. event.qty = fill
    OBVIOUS
  <2>4. Filled = o.quantity - o.remaining
    BY <1>2, EventByEvent DEF AccountInv
  <2> DEFINE a == o.quantity
             b == o.remaining
             x == Filled
             y == Filled'
  <2>5. /\ a \in Nat /\ b \in Nat /\ fill \in Nat /\ x = a - b /\ y = x + fill
    BY <1>2, <1>3, <1>9, <2>2, <2>3, <2>4, QtyModAssumption DEF Qty
  <2> HIDE DEF a, b, x, y, fill
  <2>6. y = a - (b - fill)
    BY <2>5
  <2> QED BY <2>6 DEF a, b, x, y
<1>12. MakerSide' = MakerSide /\ MakerSide = Opposite(o.side)
  BY <1>1, <1>9 DEF MakerSide
<1>13. \A i \in 1 .. n : orderMap'[matches[i].maker] = Null
  BY <1>5, <1>8, <1>10
<1>14. left = 0 => orderMap'[m.id] = Null
  BY <1>2, <1>5, <1>10
<1>15. m.id # Null => orderMap[m.id] # Null
  BY <1>1, <1>2
<1>16. \A i \in 1 .. n : matches[i].maker # m.id
  BY <1>1, <1>2, <1>8
<1>17. ~Before(MakerSide, cursor, cursor) /\ event.price = cursor /\ event.maker = m.id
       /\ event.taker = o.id /\ event.qty = fill
  <2>1. cursor \in Nat
    BY <1>2, OrderBookAssumption
  <2> QED BY <1>2, <2>1 DEF Before
<1>18. WithinLimit(o, cursor)
  <2>1. o.type = "LIMIT" => ~TooExpensive(o.side, o.price, cursor)
    BY <1>1 DEF TakesWhatItMay
  <2>2. cursor \in Nat /\ o.price \in Nat /\ o.side \in Side
    BY <1>2, OrderBookAssumption DEF Order
  <2> DEFINE x == cursor
             y == o.price
  <2>3. x \in Nat /\ y \in Nat /\ (o.type = "LIMIT" => ~TooExpensive(o.side, y, x))
    BY <2>1, <2>2
  <2> HIDE DEF x, y
  <2>4. o.type = "LIMIT" => IF o.side = "BUY" THEN x <= y ELSE x >= y
    BY <2>3 DEF TooExpensive
  <2> QED BY <2>4 DEF WithinLimit, x, y
<1> HIDE DEF o, m, fill, left, event, n
<1>19. \A i \in 1 .. n + 1 : i \in 1 .. n \/ i = n + 1
  BY <1>6
<1>20. ASSUME NEW i \in 1 .. n PROVE EventIsTrue(i)'
  <2>1. EventIsTrue(i) /\ matches'[i] = matches[i] /\ orderMap'[matches[i].maker] = Null
    BY <1>7, <1>8, <1>13
  <2>2. WithinLimit(orders'[taker], matches[i].price)
    BY <1>9, <2>1 DEF EventIsTrue, WithinLimit, o
  <2>3. ASSUME NEW j \in i + 1 .. n + 1
        PROVE  /\ matches'[i].maker # matches'[j].maker
               /\ ~Before(MakerSide, matches'[j].price, matches'[i].price)
    <3>1. CASE j = n + 1
      BY <1>7, <1>8, <1>16, <1>17, <2>1, <3>1
    <3>2. CASE j # n + 1
      <4>1. j \in 1 .. n /\ j \in i + 1 .. n
        BY <1>6, <3>2
      <4> QED BY <1>7, <1>12, <2>1, <4>1 DEF EventIsTrue, n, o
    <3> QED BY <3>1, <3>2
  <2>4. matches'[i].taker = orders'[taker].id /\ matches'[i].qty > 0
    BY <1>9, <2>1 DEF EventIsTrue, o
  <2> QED BY <1>1, <1>7, <1>9, <1>12, <2>1, <2>2, <2>3, <2>4 DEF EventIsTrue
<1>21. ASSUME NEW i, i = n + 1 PROVE EventIsTrue(i)'
  <2>1. matches'[i] = event
    BY <1>7, <1>21
  <2>2. WithinLimit(orders'[taker'], matches'[i].price)
    BY <1>1, <1>9, <1>17, <1>18, <2>1 DEF WithinLimit
  <2>3. matches'[i].taker = orders'[taker'].id /\ matches'[i].qty > 0
    BY <1>1, <1>3, <1>9, <1>17, <2>1
  <2>4. i < Len(matches') => orderMap'[matches'[i].maker] = Null
    BY <1>6, <1>7, <1>21
  <2>5. ASSUME NEW j \in i + 1 .. Len(matches')
        PROVE  /\ matches'[i].maker # matches'[j].maker
               /\ ~Before(Opposite(orders'[taker'].side), matches'[j].price, matches'[i].price)
    BY <1>6, <1>7, <1>21
  <2> QED BY <2>2, <2>3, <2>4, <2>5 DEF EventIsTrue
<1>22. EventsAccountForTaker'
  <2>1. ASSUME NEW i \in DOMAIN matches' PROVE EventIsTrue(i)'
    <3>1. i \in 1 .. n \/ i = n + 1
      BY <1>7, <1>19
    <3>2. CASE i \in 1 .. n
      BY <1>20, <3>2
    <3>3. CASE i = n + 1
      BY <1>21, <3>3
    <3> QED BY <3>1, <3>2, <3>3
  <2>2. Filled' = orders'[taker'].quantity - orders'[taker'].remaining
    BY <1>1, <1>9, <1>11
  <2>3. (taker # Null => /\ Filled = orders[taker].quantity - orders[taker].remaining
                         /\ \A i \in DOMAIN matches : EventIsTrue(i))'
    BY <2>1, <2>2
  <2> QED BY <2>3 DEF EventsAccountForTaker, EventIsTrue, Filled
<1>23. EventsFollow'
  <2>1. ASSUME orders'[taker].remaining > 0, NEW i \in 1 .. n + 1
        PROVE  orderMap'[matches'[i].maker] = Null
    <3>1. left = 0
      <4>1. o.remaining - fill > 0
        BY <1>9, <2>1
      <4> QED BY <1>3, <4>1, QtyModAssumption DEF Qty
    <3> QED BY <1>7, <1>13, <1>14, <1>17, <1>19, <2>1, <3>1
  <2>2. \A i \in 1 .. n + 1 : ~Before(MakerSide, cursor, matches'[i].price)
    BY <1>7, <1>8, <1>17, <1>19
  <2> QED BY <1>1, <1>2, <1>7, <1>12, <2>1, <2>2 DEF EventsFollow
<1> QED BY <1>22, <1>23 DEF AccountInv

LEMMA AccountStep ==
  ASSUME Structure, AccountInv, TakesWhatItMay, [Next]_vars
  PROVE  AccountInv'
<1>1. CASE UNCHANGED vars
  BY <1>1 DEF vars, heapVars, mapVars, callVars, AccountInv, EventsFollow,
              EventsAccountForTaker, MakerSide
<1>2. ASSUME NEW id \in OrderId, NEW side \in Side, NEW price \in Price,
             NEW qty \in Quantity, NEW type \in OrderType, AcceptOrder(id, side, price, qty, type)
      PROVE  AccountInv'
  BY <1>2, AcceptAccounts
<1>3. ASSUME \/ \E id \in OrderId, qty \in Quantity :
                  RejectOrder(id, qty) \/ OrderPoolThrows(id, qty)
             \/ \E id \in OrderId : CancelUnknown(id) \/ CancelOrder(id)
             \/ RestOrder \/ LevelPoolThrows \/ DiscardOrder
      PROVE  AccountInv'
  BY <1>3, ReturnAccounts DEF RejectOrder, OrderPoolThrows, CancelUnknown, CancelOrder,
     RestOrder, LevelPoolThrows, DiscardOrder, Return
<1>4. CASE Destroy
  BY <1>4, ReturnAccounts DEF Destroy, AccountInv, EventsFollow, EventsAccountForTaker,
     Structure, LocalsConsistent
<1>5. CASE StopMatching
  <2>1. /\ taker' = taker /\ matches' = matches /\ orderMap' = orderMap /\ orders' = orders
        /\ pc = "level" /\ pc' = "settle"
    BY <1>5 DEF StopMatching, heapVars, mapVars
  <2> QED BY <2>1, NoEventStep DEF Structure, LocalsConsistent
<1>6. CASE EnterLevel
  <2>1. /\ taker' = taker /\ matches' = matches /\ orderMap' = orderMap /\ orders' = orders
        /\ pc = "level" /\ pc' = "maker" /\ cursor' = cursor
    BY <1>6 DEF EnterLevel, heapVars, mapVars
  <2>2. taker # Null
    BY <2>1, TakerFacts
  <2>3. cursor' # End =>
          \A i \in DOMAIN matches : ~Before(MakerSide, cursor', matches[i].price)
    BY <2>1 DEF AccountInv, EventsFollow
  <2> QED BY <2>1, <2>2, <2>3, NoEventStep
<1>7. CASE LeaveLevel
  BY <1>7, LeaveLevelAccounts
<1>8. CASE FillMaker
  BY <1>8, FillAccounts
<1> QED BY <1>1, <1>2, <1>3, <1>4, <1>5, <1>6, <1>7, <1>8 DEF Next, Call, Step

(***************************************************************************)
(* The events returned by addOrder() account for the order, whatever the   *)
(* book was and wherever the call stands.                                  *)
(***************************************************************************)
THEOREM EventsTellTheTruth == Spec => []EventsAccountForTaker
<1>1. Init => AccountInv
  BY DEF Init, AccountInv, EventsFollow, EventsAccountForTaker
<1>2. Structure /\ TakesWhatItMay /\ AccountInv /\ [Next]_vars => AccountInv'
  BY AccountStep
<1>3. AccountInv => EventsAccountForTaker
  BY DEF AccountInv
<1> QED BY <1>1, <1>2, <1>3, PromiseInvariant, PTL DEF Spec

-----------------------------------------------------------------------------
(***************************************************************************)
(* The quantities that rest.  The orders queued on a side are the orders   *)
(* of that side which orderMap_ knows, so a step that leaves the map and   *)
(* the orders alone leaves the sum of what waits there alone too.          *)
(***************************************************************************)
Volume(ords, S) == SumOf([s \in S |-> ords[s].remaining])

LEMMA VolumeSame ==
  ASSUME NEW a, NEW b, NEW S, \A s \in S : a[s].remaining = b[s].remaining
  PROVE  Volume(a, S) = Volume(b, S)
<1>1. [s \in S |-> a[s].remaining] = [s \in S |-> b[s].remaining]
  OBVIOUS
<1> QED BY <1>1 DEF Volume

(* One order of S loses fill, and stays only if something is left of it.   *)
LEMMA VolumeDrops ==
  ASSUME NEW a, NEW b, NEW S, IsFiniteSet(S), NEW y \in S, NEW T, NEW fill \in Nat,
         \A s \in S : a[s].remaining \in Nat,
         \A s \in S \ {y} : b[s].remaining = a[s].remaining,
         \/ T = S /\ b[y].remaining = a[y].remaining - fill /\ b[y].remaining \in Nat
         \/ T = S \ {y} /\ a[y].remaining = fill
  PROVE  Volume(b, T) = Volume(a, S) - fill
<1> DEFINE f == [s \in S |-> a[s].remaining]
           g == [s \in T |-> b[s].remaining]
           r == Total(f, S \ {y})
<1>1. /\ \A s \in S : f[s] \in Nat /\ f[s] = a[s].remaining
      /\ \A s \in T : g[s] = b[s].remaining
      /\ DOMAIN f = S /\ DOMAIN g = T /\ IsFiniteSet(S \ {y})
      /\ S \ {y} \subseteq T
  BY FS_Subset
<1>2. Volume(a, S) = Total(f, S) /\ Volume(b, T) = Total(g, T)
  <2>1. Volume(a, S) = SumOf(f) /\ Volume(b, T) = SumOf(g)
    BY DEF Volume
  <2> HIDE DEF f, g
  <2> QED BY <1>1, <2>1, SumIsTotal
<1> HIDE DEF f, g
<1>3. Total(f, S) = f[y] + r /\ r \in Nat
  BY <1>1, TotalTake, TotalNat
<1>4. Total(g, S \ {y}) = r
  BY <1>1, TotalSame
<1>5. CASE T = S /\ b[y].remaining = a[y].remaining - fill /\ b[y].remaining \in Nat
  <2>1. \A s \in S : g[s] \in Nat
    BY <1>1, <1>5
  <2>2. Total(g, T) = g[y] + r
    BY <1>4, <1>5, <2>1, TotalTake
  <2>3. g[y] = f[y] - fill /\ f[y] \in Nat
    BY <1>1, <1>5
  <2> HIDE DEF r
  <2> QED BY <1>2, <1>3, <2>2, <2>3
<1>6. CASE T = S \ {y} /\ a[y].remaining = fill
  <2>1. Total(g, T) = r /\ f[y] = fill
    BY <1>1, <1>4, <1>6
  <2> HIDE DEF r
  <2> QED BY <1>2, <1>3, <2>1
<1> QED BY <1>5, <1>6

MappedSlotsOf(side) ==
  {s \in OrderSlots : /\ orders[s] # Dead /\ orders[s].side = side
                      /\ \E id \in OrderId : orderMap[id] = s}
QueuedIsMapped == \A side \in Side : QueuedSlots(side) = MappedSlotsOf(side)

LEMMA QueuesHoldTheMapped == Structure => QueuedIsMapped
<1> SUFFICES ASSUME Structure, NEW side \in Side
             PROVE  QueuedSlots(side) = MappedSlotsOf(side)
  BY DEF QueuedIsMapped
<1>1. ASSUME NEW s \in QueuedSlots(side) PROVE s \in MappedSlotsOf(side)
  <2>1. PICK p \in Price : book[side][p] # Null /\ s \in ToSet(levels[book[side][p]].queue)
    BY <1>1 DEF QueuedSlots, Occupied
  <2>2. /\ s \in OrderSlots /\ orders[s] \in Order /\ orders[s] # Dead
        /\ orders[s].side = side /\ orderMap[orders[s].id] = s
    BY <2>1, QueueFacts
  <2> QED BY <2>2 DEF MappedSlotsOf, Order
<1>2. ASSUME NEW s \in MappedSlotsOf(side) PROVE s \in QueuedSlots(side)
  <2>1. PICK id \in OrderId : orderMap[id] = s
    BY <1>2 DEF MappedSlotsOf
  <2>2. s \in OrderSlots /\ orders[s] \in Order /\ orders[s].side = side /\ s # Null
    BY <1>2, OrderBookAssumption DEF MappedSlotsOf, Structure, TypeOK
  <2>3. /\ orders[s].level # Null /\ book[side][orders[s].price] = orders[s].level
        /\ s \in ToSet(levels[orders[s].level].queue)
    BY <2>1, <2>2 DEF Structure, BookConsistent, OrdersConsistent
  <2>4. orders[s].price \in Price
    BY <2>2 DEF Order
  <2> QED BY <2>3, <2>4 DEF QueuedSlots, Occupied
<1> QED BY <1>1, <1>2

LEMMA QueuesStillHoldTheMapped == Structure' => QueuedIsMapped'
  BY QueuesHoldTheMapped, PTL

LEMMA MappedFacts ==
  ASSUME Structure, NEW side \in Side
  PROVE  /\ IsFiniteSet(MappedSlotsOf(side)) /\ taker \notin MappedSlotsOf(side)
         /\ \A s \in MappedSlotsOf(side) : /\ s \in OrderSlots
                                           /\ orders[s] \in Order
                                           /\ orders[s].remaining \in Nat
<1>1. MappedSlotsOf(side) \subseteq OrderSlots
  BY DEF MappedSlotsOf
<1>2. IsFiniteSet(MappedSlotsOf(side))
  BY <1>1, OrderBookAssumption, FS_Subset
<1>3. taker \notin MappedSlotsOf(side)
  BY OrderBookAssumption DEF MappedSlotsOf, Structure, BookConsistent, OrdersConsistent
<1>4. ASSUME NEW s \in MappedSlotsOf(side)
      PROVE  orders[s] \in Order /\ orders[s].remaining \in Nat
  <2>1. orders[s] \in Order
    BY DEF MappedSlotsOf, Structure, TypeOK
  <2> QED BY <2>1, QtyModAssumption DEF Order, Qty
<1> QED BY <1>1, <1>2, <1>3, <1>4

LEMMA VolumeNat ==
  ASSUME NEW a, NEW S, IsFiniteSet(S), \A s \in S : a[s].remaining \in Nat
  PROVE  Volume(a, S) \in Nat
<1> DEFINE f == [s \in S |-> a[s].remaining]
<1>1. DOMAIN f = S /\ \A s \in S : f[s] \in Nat
  OBVIOUS
<1>2. Volume(a, S) = SumOf(f)
  BY DEF Volume
<1> HIDE DEF f
<1> QED BY <1>1, <1>2, SumIsTotal, TotalNat

LEMMA RestingIsVolume ==
  ASSUME QueuedIsMapped, NEW side \in Side
  PROVE  RestingVolume(side) = Volume(orders, MappedSlotsOf(side))
  BY DEF RestingVolume, Volume, QueuedIsMapped

LEMMA RestingIsVolumeNext ==
  ASSUME Structure', NEW side \in Side
  PROVE  RestingVolume(side)' = Volume(orders', MappedSlotsOf(side)')
<1>1. QueuedSlots(side)' = MappedSlotsOf(side)'
  BY QueuesStillHoldTheMapped DEF QueuedIsMapped
<1>2. RestingVolume(side)' = SumOf([s \in QueuedSlots(side)' |-> orders'[s].remaining])
  BY DEF RestingVolume
<1> QED BY <1>1, <1>2 DEF Volume

(* StopMatching, EnterLevel and LeaveLevel.                                *)
LEMMA CursorStepConserves ==
  ASSUME Structure, Structure', pc \in {"level", "maker"},
         orders' = orders, orderMap' = orderMap, taker' = taker, totalVolume' = totalVolume,
         NEW side \in Side, orders[taker].side = side
  PROVE  TradeStep(side, orders[taker].remaining - orders[taker]'.remaining)
<1>1. orders[taker].remaining - orders[taker]'.remaining = 0
  <2> DEFINE x == orders[taker].remaining
  <2>1. x \in Nat
    BY TakerFacts, QtyModAssumption DEF Qty
  <2>2. orders[taker]'.remaining = x
    OBVIOUS
  <2> HIDE DEF x
  <2> QED BY <2>1, <2>2 DEF x
<1>2. totalVolume = (totalVolume + 0) % CounterMod
  <2>1. totalVolume \in 0 .. CounterMod - 1 /\ CounterMod \in Nat \ {0}
    BY OrderBookAssumption DEF Structure, TypeOK
  <2> QED BY <2>1
<1>3. ASSUME NEW d \in Side
      PROVE  RestingVolume(d)' = RestingVolume(d) /\ RestingVolume(d) - 0 = RestingVolume(d)
  <2>1. MappedSlotsOf(d)' = MappedSlotsOf(d)
    BY DEF MappedSlotsOf
  <2>2. RestingVolume(d)' = Volume(orders, MappedSlotsOf(d))
    BY <2>1, RestingIsVolumeNext
  <2>3. RestingVolume(d) = Volume(orders, MappedSlotsOf(d))
    BY RestingIsVolume, QueuesHoldTheMapped
  <2>4. Volume(orders, MappedSlotsOf(d)) \in Nat
    BY MappedFacts, VolumeNat
  <2> QED BY <2>2, <2>3, <2>4
<1>4. Opposite(side) \in Side
  BY SideFacts
<1>5. TradeStep(side, 0)
  BY <1>2, <1>3, <1>4 DEF TradeStep
<1> QED BY <1>1, <1>5

LEMMA FillConserves ==
  ASSUME Structure, Structure', FillMaker, NEW side \in Side, orders[taker].side = side
  PROVE  TradeStep(side, orders[taker].remaining - orders[taker]'.remaining)
<1> DEFINE m    == orders[maker]
           fill == Smaller(orders[taker].remaining, m.remaining)
           left == m.remaining - fill
           d    == Opposite(side)
<1>1. /\ pc = "maker" /\ maker # Null /\ orders[taker].remaining > 0 /\ taker' = taker
      /\ orders'[taker] = [orders[taker] EXCEPT !.remaining = @ - fill]
      /\ left # 0 => orders'[maker] = [m EXCEPT !.remaining = left]
      /\ left = 0 => orders'[maker] = Dead
      /\ \A s \in OrderSlots \ {taker, maker} : orders'[s] = orders[s]
  <2>1. left = 0 => orders'[maker] = Dead
    <3>1. maker \in OrderSlots /\ orders \in [OrderSlots -> Order \cup {Dead}]
      BY MakerFacts DEF Structure, TypeOK, FillMaker
    <3> QED BY <3>1 DEF FillMaker
  <2> QED BY <2>1, FillMakerFacts
<1>2. /\ orderMap' = IF left = 0 THEN [orderMap EXCEPT ![m.id] = Null] ELSE orderMap
      /\ totalVolume' = (totalVolume + fill) % CounterMod
  BY DEF FillMaker
<1>3. /\ taker \in OrderSlots /\ maker \in OrderSlots /\ maker # taker /\ taker # Null
      /\ orders[taker] \in Order /\ m \in Order /\ m # Dead /\ m.side = MakerSide
      /\ m.id \in OrderId /\ orderMap[m.id] = maker /\ m.remaining > 0
      /\ orders[taker].remaining \in Qty /\ m.remaining \in Qty
  BY <1>1, MakerFacts, TakerFacts DEF Order
<1>4. fill \in Nat /\ left \in Qty /\ left \in Nat /\ m.remaining = fill + left
  <2> DEFINE x == m.remaining
             y == orders[taker].remaining
  <2>1. x \in Qty /\ y \in Qty /\ x > 0 /\ y > 0 /\ fill = Smaller(y, x)
    BY <1>1, <1>3
  <2> HIDE DEF x, y, fill
  <2>2. fill \in Nat /\ x - fill \in Qty /\ x - fill \in Nat /\ x = fill + (x - fill)
    BY <2>1, FillFacts, QtyModAssumption DEF Qty
  <2> QED BY <2>2 DEF x, fill
<1>5. orders[taker].remaining - orders[taker]'.remaining = fill
  <2> DEFINE y == orders[taker].remaining
  <2>1. y \in Nat /\ orders[taker]'.remaining = y - fill
    BY <1>1, <1>3, QtyModAssumption DEF Order, Qty
  <2> HIDE DEF y, fill
  <2> QED BY <1>4, <2>1 DEF y
<1>6. MakerSide = d /\ d \in Side /\ d # side
  BY SideFacts DEF MakerSide
<1>7. orderMap \in [OrderId -> OrderSlots \cup {Null}]
  BY DEF Structure, TypeOK
<1>8. left # 0 => /\ orders'[maker] # Dead /\ orders'[maker].side = m.side
                   /\ orders'[maker].remaining = left
  <2> HIDE DEF left, m
  <2>1. ASSUME left # 0 PROVE /\ orders'[maker] \in Order /\ orders'[maker].side = m.side
                              /\ orders'[maker].remaining = left
    BY <1>1, <1>3, <1>4, <2>1 DEF Order
  <2> QED BY <2>1, DeadAssumption
<1>9. ~ \E id \in OrderId : orderMap[id] = taker
  BY <1>3 DEF Structure, BookConsistent, OrdersConsistent
<1> HIDE DEF fill, left, m, d
<1>10. ASSUME NEW s \in OrderSlots, s # maker
      PROVE  (\E id \in OrderId : orderMap'[id] = s) <=> (\E id \in OrderId : orderMap[id] = s)
  <2>1. s # Null
    BY OrderBookAssumption
  <2> QED BY <1>2, <1>3, <1>7, <1>10, <2>1
<1>11. ASSUME NEW e \in Side, e # d PROVE RestingVolume(e)' = RestingVolume(e)
  <2>1. MappedSlotsOf(e)' = MappedSlotsOf(e)
    <3>1. ASSUME NEW s \in OrderSlots PROVE s \in MappedSlotsOf(e)' <=> s \in MappedSlotsOf(e)
      <4>1. CASE s = maker
        <5>1. s \notin MappedSlotsOf(e)
          BY <1>3, <1>6, <1>11, <4>1 DEF MappedSlotsOf, m
        <5>2. s \notin MappedSlotsOf(e)'
          BY <1>1, <1>3, <1>6, <1>11, <1>8, <4>1 DEF MappedSlotsOf
        <5> QED BY <5>1, <5>2
      <4>2. CASE s = taker
        BY <1>3, <1>10, <1>9, <4>2 DEF MappedSlotsOf
      <4>3. CASE s # maker /\ s # taker
        BY <1>1, <1>10, <4>3 DEF MappedSlotsOf
      <4> QED BY <4>1, <4>2, <4>3
    <3> QED BY <3>1 DEF MappedSlotsOf
  <2>2. \A s \in MappedSlotsOf(e) : orders'[s] = orders[s]
    <3>1. maker \notin MappedSlotsOf(e)
      BY <1>3, <1>6, <1>11 DEF MappedSlotsOf, m
    <3> QED BY <1>1, <3>1, MappedFacts
  <2>3. Volume(orders', MappedSlotsOf(e)) = Volume(orders, MappedSlotsOf(e))
    BY <2>2, VolumeSame
  <2> QED BY <2>1, <2>3, RestingIsVolumeNext, RestingIsVolume, QueuesHoldTheMapped
<1>12. RestingVolume(d)' = RestingVolume(d) - fill
  <2> DEFINE S == MappedSlotsOf(d)
             T == MappedSlotsOf(d)'
  <2>1. maker \in S
    BY <1>3, <1>6 DEF MappedSlotsOf, m
  <2>2. /\ IsFiniteSet(S) /\ taker \notin S
        /\ \A s \in S : s \in OrderSlots /\ orders[s].remaining \in Nat
    BY <1>6, MappedFacts
  <2>3. \A s \in S \ {maker} : orders'[s] = orders[s]
    BY <1>1, <2>2
  <2>4. ASSUME NEW s \in OrderSlots, s # maker PROVE s \in T <=> s \in S
    <3>1. CASE s = taker
      BY <1>3, <1>10, <1>9, <2>4, <3>1 DEF MappedSlotsOf
    <3>2. CASE s # taker
      BY <1>1, <1>10, <2>4, <3>2 DEF MappedSlotsOf
    <3> QED BY <3>1, <3>2
  <2>5. CASE left = 0
    <3>1. maker \notin T
      BY <1>1, <2>5 DEF MappedSlotsOf
    <3>2. T = S \ {maker}
      BY <2>4, <3>1 DEF MappedSlotsOf
    <3>3. orders[maker].remaining = fill
      BY <1>4, <2>5 DEF m
    <3> HIDE DEF S, T
    <3>4. Volume(orders', T) = Volume(orders, S) - fill
      BY <1>4, <2>1, <2>2, <2>3, <3>2, <3>3, VolumeDrops
    <3> QED BY <1>6, <3>4, RestingIsVolumeNext, RestingIsVolume, QueuesHoldTheMapped DEF S, T
  <2>6. CASE left # 0
    <3>1. orders'[maker].side = d /\ orders'[maker] # Dead /\ orders'[maker].remaining = left
      BY <1>3, <1>6, <1>8, <2>6
    <3>2. maker \in T
      BY <1>2, <1>3, <2>6, <3>1 DEF MappedSlotsOf
    <3>3. T = S
      BY <2>1, <2>4, <3>2 DEF MappedSlotsOf
    <3>4. left = orders[maker].remaining - fill
      BY <1>4 DEF m
    <3> HIDE DEF S, T
    <3>5. Volume(orders', T) = Volume(orders, S) - fill
      BY <1>4, <2>1, <2>2, <2>3, <3>1, <3>3, <3>4, VolumeDrops
    <3> QED BY <1>6, <3>5, RestingIsVolumeNext, RestingIsVolume, QueuesHoldTheMapped DEF S, T
  <2> QED BY <2>5, <2>6
<1>13. RestingVolume(side)' = RestingVolume(side)
  BY <1>6, <1>11
<1>14. TradeStep(side, fill)
  BY <1>2, <1>12, <1>13 DEF TradeStep, d
<1> QED BY <1>5, <1>14

LEMMA TradingStep ==
  ASSUME Structure, Structure', Next, pc \in {"level", "maker"},
         NEW side \in Side, orders[taker].side = side
  PROVE  TradeStep(side, orders[taker].remaining - orders[taker]'.remaining)
<1>1. CASE StopMatching \/ EnterLevel \/ LeaveLevel
  BY <1>1, CursorStepConserves
     DEF StopMatching, EnterLevel, LeaveLevel, heapVars, mapVars, statVars
<1>2. CASE FillMaker
  BY <1>2, FillConserves
<1>3. StopMatching \/ EnterLevel \/ LeaveLevel \/ FillMaker
  BY DEF Next, Call, Step, RejectOrder, OrderPoolThrows, AcceptOrder, CancelUnknown,
     CancelOrder, Destroy, RestOrder, LevelPoolThrows, DiscardOrder
<1> QED BY <1>1, <1>2, <1>3

(***************************************************************************)
(* Trading conserves quantity, however large the book is.                  *)
(***************************************************************************)
THEOREM NoQuantityIsLost == Spec => TradesConserveQuantity
<1>1. ASSUME Structure, Structure', [Next]_vars
      PROVE  [\A side \in Side :
                pc \in {"level", "maker"} /\ orders[taker].side = side =>
                  TradeStep(side, orders[taker].remaining - orders[taker]'.remaining)]_vars
  BY <1>1, TradingStep
<1> QED BY <1>1, StructureInvariant, PTL DEF Spec, TradesConserveQuantity

-----------------------------------------------------------------------------
(***************************************************************************)
(* The volume of a level.  append(), the fills and remove() keep it by     *)
(* three separate updates on 32 bits: the first two wrap, the third stops  *)
(* at zero.  It is what waits there as long as the orders the pool can     *)
(* hold cannot add up to 2^32.                                             *)
(***************************************************************************)
Fits(m) == (\A q \in Quantity : q <= m) /\ Cardinality(OrderSlots) * m < QtyMod
QuantitiesFit == \E m \in Nat : Fits(m)

Bounded(m) == \A s \in OrderSlots : orders[s] # Dead => orders[s].remaining <= m
LevelIsTrue(l) ==
  levels[l] # Dead => levels[l].totalVolume = Volume(orders, ToSet(levels[l].queue))
VolumeInv(m) == Bounded(m) /\ \A l \in LevelSlots : LevelIsTrue(l)

LEMMA LiveLevelFacts ==
  ASSUME Structure, NEW l \in LevelSlots, levels[l] # Dead
  PROVE  LET q == levels[l].queue
         IN  /\ levels[l] \in Level /\ IsInjective(q)
             /\ IsFiniteSet(ToSet(q)) /\ ToSet(q) \subseteq OrderSlots
             /\ \A t \in ToSet(q) :
                  /\ t # taker /\ orders[t] \in Order /\ orders[t] # Dead
                  /\ orders[t].level = l /\ orderMap[orders[t].id] = t
                  /\ orders[t].remaining \in Nat
<1> DEFINE q == levels[l].queue
<1>1. PICK d \in Side, p \in Price : book[d][p] = l
  BY DEF Structure, BookConsistent, LevelsReachable
<1>2. l # Null
  BY OrderBookAssumption
<1>3. /\ levels[l] \in Level /\ IsInjective(q) /\ ToSet(q) \subseteq OrderSlots
      /\ \A t \in ToSet(q) : /\ t # taker /\ orders[t] \in Order /\ orders[t] # Dead
                             /\ orders[t].level = l /\ orderMap[orders[t].id] = t
  BY <1>1, <1>2, QueueFacts
<1>4. IsFiniteSet(ToSet(q))
  BY <1>3, OrderBookAssumption, FS_Subset
<1>5. \A t \in ToSet(q) : orders[t].remaining \in Nat
  BY <1>3, QtyModAssumption DEF Order, Qty
<1> QED BY <1>3, <1>4, <1>5

(* No sum of quantities in the pool wraps.                                 *)
LEMMA VolumeFits ==
  ASSUME NEW m \in Nat, Fits(m), NEW a, NEW S \in SUBSET OrderSlots,
         \A s \in S : a[s].remaining \in Nat /\ a[s].remaining <= m
  PROVE  Volume(a, S) \in Qty
<1> DEFINE f == [s \in S |-> a[s].remaining]
           c == Cardinality(S)
           n == Cardinality(OrderSlots)
           v == Volume(a, S)
<1>1. IsFiniteSet(S) /\ c \in Nat /\ n \in Nat /\ c <= n
  BY OrderBookAssumption, FS_Subset, FS_CardinalityType
<1>2. v \in Nat
  BY <1>1, VolumeNat
<1>3. v = Total(f, S)
  <2>1. v = SumOf(f) /\ DOMAIN f = S
    BY DEF Volume
  <2> HIDE DEF f, v
  <2> QED BY <2>1, SumIsTotal
<1>4. \A s \in S : f[s] \in Nat /\ f[s] <= m
  OBVIOUS
<1> HIDE DEF f
<1>5. Total(f, S) <= c * m
  BY <1>1, <1>4, TotalBound
<1>6. n * m < QtyMod
  BY DEF Fits
<1> HIDE DEF c, n, v
<1>7. c * m <= n * m
  BY <1>1
<1>8. c * m \in Nat /\ n * m \in Nat
  BY <1>1
<1> DEFINE x == c * m
           y == n * m
<1> HIDE DEF x, y
<1>9. v <= x /\ x <= y /\ y < QtyMod /\ x \in Nat /\ y \in Nat
  BY <1>3, <1>5, <1>6, <1>7, <1>8 DEF x, y
<1>10. v \in 0 .. QtyMod - 1
  BY <1>2, <1>9, QtyModAssumption
<1> QED BY <1>10 DEF Qty, v

(* One order more.                                                         *)
LEMMA VolumeJoins ==
  ASSUME NEW a, NEW S, IsFiniteSet(S), NEW y, y \notin S,
         \A s \in S \cup {y} : a[s].remaining \in Nat
  PROVE  Volume(a, S \cup {y}) = Volume(a, S) + a[y].remaining
<1> DEFINE T == S \cup {y}
           f == [s \in S |-> a[s].remaining]
           g == [s \in T |-> a[s].remaining]
<1>1. IsFiniteSet(T) /\ y \in T /\ T \ {y} = S
  BY FS_AddElement
<1>2. /\ \A s \in T : g[s] \in Nat /\ g[s] = a[s].remaining
      /\ \A s \in S : f[s] \in Nat /\ f[s] = g[s]
      /\ DOMAIN f = S /\ DOMAIN g = T
  OBVIOUS
<1>3. Volume(a, S) = Total(f, S) /\ Volume(a, T) = Total(g, T)
  <2>1. Volume(a, S) = SumOf(f) /\ Volume(a, T) = SumOf(g)
    BY DEF Volume
  <2> HIDE DEF f, g, T
  <2> QED BY <1>2, <2>1, SumIsTotal
<1> HIDE DEF f, g, T
<1>4. Total(g, T) = g[y] + Total(g, S) /\ Total(g, S) = Total(f, S)
  <2>1. Total(g, T) = g[y] + Total(g, T \ {y})
    BY <1>1, <1>2, TotalTake
  <2>2. Total(f, S) = Total(g, S)
    BY <1>2, TotalSame
  <2> QED BY <1>1, <2>1, <2>2
<1>5. Total(f, S) \in Nat /\ g[y] \in Nat /\ g[y] = a[y].remaining
  BY <1>1, <1>2, TotalNat
<1>6. Volume(a, T) = Volume(a, S) + a[y].remaining
  <2> DEFINE u == Total(f, S)
             w == g[y]
  <2>1. Volume(a, T) = w + u /\ Volume(a, S) = u /\ w \in Nat /\ u \in Nat
    BY <1>3, <1>4, <1>5
  <2> HIDE DEF u, w
  <2>2. Volume(a, T) = Volume(a, S) + w
    BY <2>1
  <2> QED BY <1>5, <2>2 DEF w
<1> QED BY <1>6 DEF T

(* A level a step leaves alone, with the orders in it.                     *)
LEMMA LevelStaysTrue ==
  ASSUME NEW l \in LevelSlots, LevelIsTrue(l), levels'[l] = levels[l],
         levels[l] # Dead => \A s \in ToSet(levels[l].queue) :
                               orders'[s].remaining = orders[s].remaining
  PROVE  LevelIsTrue(l)'
<1> SUFFICES ASSUME levels[l] # Dead
             PROVE  levels'[l].totalVolume = Volume(orders', ToSet(levels'[l].queue))
  BY DEF LevelIsTrue
<1> DEFINE S == ToSet(levels[l].queue)
<1>1. \A s \in S : orders[s].remaining = orders'[s].remaining
  OBVIOUS
<1> HIDE DEF S
<1>2. Volume(orders, S) = Volume(orders', S)
  BY <1>1, VolumeSame
<1> QED BY <1>2 DEF S, LevelIsTrue

(* The steps that change no volume and no queue: what they do to orders    *)
(* concerns the incoming one, or a slot that was free.                     *)
LEMMA QuietVolumes ==
  ASSUME NEW m \in Nat, Structure, VolumeInv(m),
         \A l \in LevelSlots : levels'[l] = Dead \/ levels'[l] = levels[l],
         \A s \in OrderSlots : orders'[s] # Dead => orders'[s].remaining <= m,
         \A s \in OrderSlots :
           s # taker /\ orders[s] # Dead => orders'[s].remaining = orders[s].remaining
  PROVE  VolumeInv(m)'
<1>1. Bounded(m)'
  BY DEF Bounded
<1>2. ASSUME NEW l \in LevelSlots PROVE LevelIsTrue(l)'
  <2>1. CASE levels'[l] = Dead
    BY <2>1 DEF LevelIsTrue
  <2>2. CASE levels'[l] = levels[l]
    <3>1. levels[l] # Dead => \A s \in ToSet(levels[l].queue) :
                                orders'[s].remaining = orders[s].remaining
      BY LiveLevelFacts
    <3>2. LevelIsTrue(l)
      BY DEF VolumeInv
    <3> QED BY <2>2, <3>1, <3>2, LevelStaysTrue
  <2> QED BY <2>1, <2>2
<1> QED BY <1>1, <1>2 DEF VolumeInv

LEMMA AcceptKeepsVolumes ==
  ASSUME NEW m \in Nat, Fits(m), Structure, VolumeInv(m),
         NEW id \in OrderId, NEW side \in Side, NEW price \in Price, NEW qty \in Quantity,
         NEW type \in OrderType, AcceptOrder(id, side, price, qty, type)
  PROVE  VolumeInv(m)'
<1> DEFINE s == AllocatedSlot(orderFree)
           o == NewOrder(id, side, price, qty, type)
<1>1. /\ orderFree # <<>> /\ levels' = levels
      /\ orders' = [orders EXCEPT ![s] = o] /\ o.remaining = qty
  BY DEF AcceptOrder, heapVars, Exhausted, NewOrder
<1>2. s \in OrderSlots /\ orders[s] = Dead /\ orders \in [OrderSlots -> Order \cup {Dead}]
  BY <1>1, FrontList DEF AllocatedSlot, Structure, TypeOK, BookConsistent,
     PoolsConsistent, FreeListMatchesHeap
<1>3. qty <= m
  BY DEF Fits
<1> HIDE DEF s, o
<1>4. ASSUME NEW t \in OrderSlots, orders'[t] # Dead PROVE orders'[t].remaining <= m
  BY <1>1, <1>2, <1>3, <1>4 DEF VolumeInv, Bounded
<1>5. ASSUME NEW t \in OrderSlots, orders[t] # Dead PROVE orders'[t] = orders[t]
  BY <1>1, <1>2, <1>5
<1> QED BY <1>1, <1>4, <1>5, QuietVolumes

LEMMA DiscardKeepsVolumes ==
  ASSUME NEW m \in Nat, Structure, VolumeInv(m), DiscardOrder
  PROVE  VolumeInv(m)'
<1>1. pc = "settle" /\ levels' = levels /\ orders' = [orders EXCEPT ![taker] = Dead]
  BY DEF DiscardOrder
<1>2. orders \in [OrderSlots -> Order \cup {Dead}] /\ taker \in OrderSlots
  BY <1>1, TakerFacts DEF Structure, TypeOK
<1>3. \A t \in OrderSlots : t # taker => orders'[t] = orders[t]
  BY <1>1, <1>2
<1>4. \A t \in OrderSlots : orders'[t] # Dead => orders'[t].remaining <= m
  BY <1>1, <1>2 DEF VolumeInv, Bounded
<1> QED BY <1>1, <1>3, <1>4, QuietVolumes

LEMMA LeaveLevelKeepsVolumes ==
  ASSUME NEW m \in Nat, Structure, VolumeInv(m), LeaveLevel
  PROVE  VolumeInv(m)'
<1>1. orders' = orders
  BY DEF LeaveLevel
<1>2. levels' = levels \/ levels' = [levels EXCEPT ![CursorLevel] = Dead]
  BY DEF LeaveLevel
<1>3. levels \in [LevelSlots -> Level \cup {Dead}]
  BY DEF Structure, TypeOK
<1>4. \A l \in LevelSlots : levels'[l] = Dead \/ levels'[l] = levels[l]
  BY <1>2, <1>3
<1> QED BY <1>1, <1>4, QuietVolumes DEF VolumeInv, Bounded

LEMMA DestroyKeepsVolumes ==
  ASSUME NEW m \in Nat, Structure, VolumeInv(m), Destroy
  PROVE  VolumeInv(m)'
<1>1. /\ orders' = [s \in OrderSlots |-> IF s \in MappedSlots THEN Dead ELSE orders[s]]
      /\ levels' = [l \in LevelSlots |-> IF l \in BookedLevels THEN Dead ELSE levels[l]]
  BY DEF Destroy
<1>2. \A l \in LevelSlots : levels[l] # Dead => l \in BookedLevels
  BY DEF Structure, BookConsistent, LevelsReachable, BookedLevels
<1>3. \A l \in LevelSlots : levels'[l] = Dead
  BY <1>1, <1>2
<1>4. Bounded(m)'
  BY <1>1 DEF VolumeInv, Bounded
<1> QED BY <1>3, <1>4 DEF VolumeInv, LevelIsTrue

(* What the three updates do to a volume that does not wrap.               *)
LEMMA ExactUpdates ==
  ASSUME NEW level \in Level, NEW slot, NEW qty \in Qty
  PROVE  /\ level.totalVolume \in Nat
         /\ qty <= level.totalVolume =>
              /\ DeductVolume(level, qty).totalVolume = level.totalVolume - qty
              /\ RemoveOrder(level, slot, qty).totalVolume = level.totalVolume - qty
         /\ RemoveOrder(level, slot, 0).totalVolume = level.totalVolume
         /\ level.totalVolume + qty \in Qty =>
              AppendOrder(level, slot, qty).totalVolume = level.totalVolume + qty
<1> DEFINE v == level.totalVolume
<1>1. v \in 0 .. QtyMod - 1 /\ qty \in 0 .. QtyMod - 1 /\ QtyMod \in Nat \ {0}
  BY QtyModAssumption DEF Level, Qty
<1>2. /\ DeductVolume(level, qty).totalVolume = (v + QtyMod - qty) % QtyMod
      /\ RemoveOrder(level, slot, qty).totalVolume = IF v >= qty THEN v - qty ELSE 0
      /\ RemoveOrder(level, slot, 0).totalVolume = IF v >= 0 THEN v - 0 ELSE 0
      /\ AppendOrder(level, slot, qty).totalVolume = (v + qty) % QtyMod
  BY DEF Level, DeductVolume, RemoveOrder, AppendOrder
<1> HIDE DEF v
<1>3. ASSUME NEW n \in Nat \ {0}, NEW x \in 0 .. n - 1 PROVE (x + n) % n = x /\ x % n = x
  OBVIOUS
<1>4. ASSUME qty <= v PROVE (v + QtyMod - qty) % QtyMod = v - qty
  <2>1. v - qty \in 0 .. QtyMod - 1 /\ v + QtyMod - qty = (v - qty) + QtyMod
    BY <1>1, <1>4
  <2> DEFINE x == v - qty
  <2> HIDE DEF x
  <2>2. x \in 0 .. QtyMod - 1 /\ v + QtyMod - qty = x + QtyMod
    BY <2>1 DEF x
  <2>3. (x + QtyMod) % QtyMod = x
    BY <1>1, <1>3, <2>2
  <2> QED BY <2>2, <2>3 DEF x
<1>5. ASSUME v + qty \in Qty PROVE (v + qty) % QtyMod = v + qty
  BY <1>1, <1>3, <1>5 DEF Qty
<1> QED BY <1>1, <1>2, <1>4, <1>5 DEF v

LEMMA VolumeOfPart ==
  ASSUME NEW a, NEW S, IsFiniteSet(S), NEW y \in S, \A s \in S : a[s].remaining \in Nat
  PROVE  a[y].remaining <= Volume(a, S)
<1> DEFINE v == Volume(a, S \ {y})
           w == a[y].remaining
<1>1. IsFiniteSet(S \ {y}) /\ (S \ {y}) \cup {y} = S
  BY FS_Subset
<1>2. Volume(a, (S \ {y}) \cup {y}) = v + w
  BY <1>1, VolumeJoins
<1>3. v \in Nat /\ w \in Nat
  BY <1>1, VolumeNat
<1>4. Volume(a, S) = v + w
  BY <1>1, <1>2
<1> HIDE DEF v, w
<1>5. w <= Volume(a, S)
  BY <1>3, <1>4
<1> QED BY <1>5 DEF w

LEMMA VolumeOfNone == ASSUME NEW a PROVE Volume(a, {}) = 0
<1> DEFINE f == [s \in {} |-> a[s].remaining]
<1>1. Volume(a, {}) = SumOf(f) /\ DOMAIN f = {}
  BY DEF Volume
<1> HIDE DEF f
<1> QED BY <1>1, SumIsTotal, TotalEmpty

(* The level an order joins, before it does.                               *)
LEMMA JoinedLevel ==
  ASSUME Structure, pc = "settle", ~NoLevelLeft, NEW m, VolumeInv(m)
  PROVE  LET o   == orders[taker]
             new == OwnLevel = Null
             l   == IF new THEN AllocatedSlot(levelFree) ELSE OwnLevel
             lvl == IF new THEN NewLevel(o.price) ELSE levels[l]
         IN  /\ l \in LevelSlots /\ lvl \in Level /\ lvl.queue \in Seq(OrderSlots)
             /\ IsInjective(lvl.queue)
             /\ ToSet(lvl.queue) \subseteq OrderSlots /\ taker \notin ToSet(lvl.queue)
             /\ \A s \in ToSet(lvl.queue) : orders[s] \in Order /\ orders[s] # Dead
             /\ lvl.totalVolume = Volume(orders, ToSet(lvl.queue))
<1> DEFINE o   == orders[taker]
           new == OwnLevel = Null
           l   == IF new THEN AllocatedSlot(levelFree) ELSE OwnLevel
           lvl == IF new THEN NewLevel(o.price) ELSE levels[l]
<1>1. /\ o.price \in Price /\ o.side \in Side /\ OwnLevel = book[o.side][o.price]
      /\ new => levelFree # <<>>
  BY TakerFacts DEF OwnLevel, NoLevelLeft, Exhausted
<1>2. CASE new
  <2>1. l \in LevelSlots /\ lvl = NewLevel(o.price)
    BY <1>1, <1>2, FrontList DEF AllocatedSlot, Structure, TypeOK, BookConsistent,
       PoolsConsistent, FreeListMatchesHeap
  <2>2. /\ lvl \in Level /\ lvl.queue = <<>> /\ lvl.totalVolume = 0
    BY <1>1, <2>1, NewLevelFacts DEF NewLevel
  <2>3. lvl.queue \in Seq(OrderSlots) /\ IsInjective(lvl.queue) /\ ToSet(lvl.queue) = {}
    BY <2>2, EmptyList
  <2> HIDE DEF l, lvl
  <2> QED BY <2>1, <2>2, <2>3, VolumeOfNone DEF l, lvl
<1>3. CASE ~new
  <2>1. l = book[o.side][o.price] /\ l # Null /\ lvl = levels[l]
    BY <1>1, <1>3
  <2> HIDE DEF l, lvl, o
  <2>2. /\ l \in LevelSlots /\ lvl \in Level /\ levels[l] # Dead
        /\ lvl.queue \in Seq(OrderSlots) /\ IsInjective(lvl.queue)
        /\ ToSet(lvl.queue) \subseteq OrderSlots
        /\ \A s \in ToSet(lvl.queue) : s # taker /\ orders[s] \in Order /\ orders[s] # Dead
    BY <1>1, <2>1, QueueFacts DEF o
  <2>3. lvl.totalVolume = Volume(orders, ToSet(lvl.queue))
    BY <2>1, <2>2 DEF VolumeInv, LevelIsTrue
  <2> QED BY <2>2, <2>3 DEF l, lvl, o
<1> QED BY <1>2, <1>3

LEMMA RestKeepsVolumes ==
  ASSUME NEW m \in Nat, Fits(m), Structure, VolumeInv(m), RestOrder
  PROVE  VolumeInv(m)'
<1> DEFINE o   == orders[taker]
           new == OwnLevel = Null
           l   == IF new THEN AllocatedSlot(levelFree) ELSE OwnLevel
           lvl == IF new THEN NewLevel(o.price) ELSE levels[l]
           put == AppendOrder(lvl, taker, o.remaining)
           S   == ToSet(lvl.queue)
           T   == S \cup {taker}
<1>1. /\ pc = "settle" /\ ~NoLevelLeft
      /\ levels' = [levels EXCEPT ![l] = put]
      /\ orders' = [orders EXCEPT ![taker].level = l]
  BY DEF RestOrder
<1>2. taker \in OrderSlots /\ o \in Order /\ o # Dead /\ o.remaining \in Qty
  BY <1>1, TakerFacts
<1>3. /\ l \in LevelSlots /\ lvl \in Level /\ IsInjective(lvl.queue)
      /\ S \subseteq OrderSlots /\ taker \notin S
      /\ \A s \in S : orders[s] \in Order /\ orders[s] # Dead
      /\ lvl.totalVolume = Volume(orders, S)
  BY <1>1, JoinedLevel
<1>4. /\ levels \in [LevelSlots -> Level \cup {Dead}]
      /\ orders \in [OrderSlots -> Order \cup {Dead}]
  BY DEF Structure, TypeOK
<1> HIDE DEF l, lvl, S
<1>5. \A s \in OrderSlots : orders[s] # Dead =>
        /\ orders[s].remaining \in Nat /\ orders[s].remaining <= m
        /\ orders'[s].remaining = orders[s].remaining
  BY <1>1, <1>2, <1>4, QtyModAssumption DEF VolumeInv, Bounded, Order, Qty
<1>6. \A s \in OrderSlots : orders'[s] # Dead => orders'[s].remaining <= m
  BY <1>1, <1>2, <1>4, <1>5
<1>7. put.totalVolume = Volume(orders', T)
  <2>1. T \in SUBSET OrderSlots /\ \A s \in T : orders[s] # Dead
    BY <1>2, <1>3
  <2>2. IsFiniteSet(S)
    BY <1>3, OrderBookAssumption, FS_Subset
  <2> HIDE DEF T
  <2>3. \A s \in T : orders[s].remaining \in Nat /\ orders[s].remaining <= m
                     /\ orders[s].remaining = orders'[s].remaining
    BY <1>5, <2>1
  <2>4. Volume(orders, T) \in Qty
    BY <2>1, <2>3, VolumeFits
  <2>5. Volume(orders, T) = Volume(orders, S) + o.remaining
    BY <1>3, <2>2, <2>3, VolumeJoins DEF T
  <2>6. put.totalVolume = Volume(orders, T)
    BY <1>2, <1>3, <2>4, <2>5, ExactUpdates
  <2>7. Volume(orders, T) = Volume(orders', T)
    BY <2>3, VolumeSame
  <2> QED BY <2>6, <2>7
<1>8. ToSet(put.queue) = T
  <2>1. taker \notin ToSet(lvl.queue)
    BY <1>3 DEF S
  <2> QED BY <1>2, <1>3, <2>1, AppendOrderFacts DEF S
<1> HIDE DEF put, T
<1>9. ASSUME NEW k \in LevelSlots, k = l PROVE LevelIsTrue(k)'
  <2>1. levels'[k] = put
    BY <1>1, <1>4, <1>9
  <2> QED BY <1>7, <1>8, <2>1 DEF LevelIsTrue
<1>10. ASSUME NEW k \in LevelSlots, k # l PROVE LevelIsTrue(k)'
  <2>1. levels'[k] = levels[k]
    BY <1>1, <1>4, <1>10
  <2>2. levels[k] # Dead => \A s \in ToSet(levels[k].queue) :
                              orders'[s].remaining = orders[s].remaining
    BY <1>5, LiveLevelFacts
  <2>3. LevelIsTrue(k)
    BY DEF VolumeInv
  <2> QED BY <2>1, <2>2, <2>3, LevelStaysTrue
<1> QED BY <1>6, <1>9, <1>10 DEF VolumeInv, Bounded

(* An order loses fill, and stays if something is left: its level is true  *)
(* if its volume goes down by fill, and the other levels are not touched.  *)
LEMMA OneLevelLoses ==
  ASSUME NEW m \in Nat, Structure, VolumeInv(m),
         NEW l \in LevelSlots, levels[l] # Dead, NEW y \in ToSet(levels[l].queue),
         NEW fill \in Nat, fill <= orders[y].remaining,
         \A k \in LevelSlots \ {l} : levels'[k] = levels[k],
         \A s \in OrderSlots \ {taker, y} : orders'[s] = orders[s],
         orders'[y] # Dead => orders'[y].remaining = orders[y].remaining - fill,
         taker \in OrderSlots /\ orders'[taker] # Dead => orders'[taker].remaining <= m,
         levels'[l] # Dead =>
           /\ levels'[l].totalVolume = levels[l].totalVolume - fill
           /\ \/ orders'[y] # Dead /\ ToSet(levels'[l].queue) = ToSet(levels[l].queue)
              \/ /\ fill = orders[y].remaining
                 /\ ToSet(levels'[l].queue) = ToSet(levels[l].queue) \ {y}
  PROVE  VolumeInv(m)'
<1> DEFINE S == ToSet(levels[l].queue)
           r == orders[y].remaining
<1>1. /\ IsFiniteSet(S) /\ S \subseteq OrderSlots
      /\ \A t \in S : /\ t # taker /\ orders[t] # Dead /\ orders[t].level = l
                      /\ orders[t].remaining \in Nat
  BY LiveLevelFacts
<1>2. y \in OrderSlots /\ y # taker /\ orders[y] # Dead /\ r \in Nat /\ r <= m
  BY <1>1 DEF VolumeInv, Bounded
<1> DEFINE d == r - fill
<1>3. d \in Nat /\ d <= m
  BY <1>2
<1>4. Bounded(m)'
  BY <1>2, <1>3 DEF VolumeInv, Bounded
<1>5. LevelIsTrue(l)'
  <2> SUFFICES ASSUME levels'[l] # Dead
               PROVE  levels'[l].totalVolume = Volume(orders', ToSet(levels'[l].queue))
    BY DEF LevelIsTrue
  <2> DEFINE T == ToSet(levels'[l].queue)
  <2>1. levels[l].totalVolume = Volume(orders, S)
    BY DEF VolumeInv, LevelIsTrue
  <2>2. levels'[l].totalVolume = Volume(orders, S) - fill
    BY <2>1
  <2>3. \A s \in S \ {y} : orders'[s].remaining = orders[s].remaining
    BY <1>1
  <2>4. \/ T = S /\ orders'[y].remaining = orders[y].remaining - fill
               /\ orders'[y].remaining \in Nat
        \/ T = S \ {y} /\ orders[y].remaining = fill
    BY <1>3
  <2> HIDE DEF S, T, d, r
  <2>5. Volume(orders', T) = Volume(orders, S) - fill
    BY <1>1, <2>3, <2>4, VolumeDrops DEF S
  <2> QED BY <2>2, <2>5 DEF T
<1>6. ASSUME NEW k \in LevelSlots, k # l PROVE LevelIsTrue(k)'
  <2>1. levels[k] # Dead => \A s \in ToSet(levels[k].queue) :
                              orders'[s].remaining = orders[s].remaining
    <3>1. levels[k] # Dead => \A s \in ToSet(levels[k].queue) :
                                s \in OrderSlots /\ s # taker /\ orders[s].level = k
      BY LiveLevelFacts
    <3> QED BY <1>1, <1>6, <3>1
  <2>2. LevelIsTrue(k) /\ levels'[k] = levels[k]
    BY <1>6 DEF VolumeInv
  <2> QED BY <2>1, <2>2, LevelStaysTrue
<1> QED BY <1>4, <1>5, <1>6 DEF VolumeInv

LEMMA CancelKeepsVolumes ==
  ASSUME NEW m \in Nat, Structure, VolumeInv(m), NEW id \in OrderId, CancelOrder(id)
  PROVE  VolumeInv(m)'
<1> DEFINE s    == orderMap[id]
           o    == orders[s]
           l    == o.level
           lvl  == RemoveOrder(levels[l], s, o.remaining)
<1>1. /\ pc = "idle" /\ s # Null
      /\ orders' = [orders EXCEPT ![s] = Dead]
      /\ levels' = [levels EXCEPT ![l] = Dead] \/ levels' = [levels EXCEPT ![l] = lvl]
  BY DEF CancelOrder
<1>2. /\ s \in OrderSlots /\ o # Dead /\ o \in Order /\ s # taker
      /\ l # Null /\ book[o.side][o.price] = l /\ s \in ToSet(levels[l].queue)
  BY <1>1 DEF Structure, TypeOK, BookConsistent, OrdersConsistent
<1>3. o.side \in Side /\ o.price \in Price /\ o.remaining \in Qty /\ l \in LevelSlots
  BY <1>2 DEF Order
<1>4. levels[l] \in Level /\ levels[l] # Dead /\ IsInjective(levels[l].queue)
  BY <1>2, <1>3, QueueFacts
<1>5. /\ levels \in [LevelSlots -> Level \cup {Dead}]
      /\ orders \in [OrderSlots -> Order \cup {Dead}]
      /\ taker = Null
  BY <1>1 DEF Structure, TypeOK, LocalsConsistent
<1>6. \A k \in LevelSlots \ {l} : levels'[k] = levels[k]
  BY <1>1, <1>5
<1>7. orders'[s] = Dead /\ \A t \in OrderSlots \ {s} : orders'[t] = orders[t]
  BY <1>1, <1>2, <1>5
<1>8. levels'[l] = Dead \/ levels'[l] = lvl
  BY <1>1, <1>3, <1>5
<1>9. ToSet(lvl.queue) = ToSet(levels[l].queue) \ {s}
  <2> DEFINE before == levels[l]
             n == o.remaining
  <2>1. before \in Level /\ IsInjective(before.queue) /\ s \in ToSet(before.queue) /\ n \in Qty
    BY <1>2, <1>3, <1>4
  <2>2. lvl = RemoveOrder(before, s, n) /\ s \in OrderSlots
    BY <1>2
  <2> HIDE DEF before, n, s, o, l, lvl
  <2>3. ToSet(RemoveOrder(before, s, n).queue) = ToSet(before.queue) \ {s}
    BY <2>1, <2>2, RemoveOrderFacts
  <2> QED BY <2>2, <2>3 DEF before
<1>10. lvl.totalVolume = levels[l].totalVolume - o.remaining /\ o.remaining \in Nat
  <2>1. /\ IsFiniteSet(ToSet(levels[l].queue))
        /\ \A t \in ToSet(levels[l].queue) : orders[t].remaining \in Nat
    BY <1>3, <1>4, LiveLevelFacts
  <2>2. o.remaining <= Volume(orders, ToSet(levels[l].queue))
    BY <1>2, <2>1, VolumeOfPart
  <2>3. levels[l].totalVolume = Volume(orders, ToSet(levels[l].queue))
    BY <1>3, <1>4 DEF VolumeInv, LevelIsTrue
  <2>4. o.remaining <= levels[l].totalVolume
    BY <2>2, <2>3
  <2> QED BY <1>2, <1>3, <1>4, <2>1, <2>4, ExactUpdates
<1>11. o.remaining <= o.remaining
  <2> DEFINE n == o.remaining
  <2>1. n \in Nat
    BY <1>10
  <2> HIDE DEF n
  <2>2. n <= n
    BY <2>1
  <2> QED BY <2>2 DEF n
<1>12. levels'[l] # Dead => /\ levels'[l].totalVolume = levels[l].totalVolume - o.remaining
                            /\ ToSet(levels'[l].queue) = ToSet(levels[l].queue) \ {s}
  BY <1>8, <1>9, <1>10
<1> HIDE DEF l, lvl, s
<1>13. \A t \in OrderSlots \ {taker, s} : orders'[t] = orders[t]
  BY <1>7
<1>14. taker \notin OrderSlots
  BY <1>5, OrderBookAssumption
<1> QED
  BY <1>2, <1>3, <1>4, <1>6, <1>7, <1>10, <1>11, <1>12, <1>13, <1>14, OneLevelLoses

LEMMA FillKeepsVolumes ==
  ASSUME NEW m \in Nat, Structure, VolumeInv(m), FillMaker
  PROVE  VolumeInv(m)'
<1> DEFINE t    == orders[taker]
           o    == orders[maker]
           l    == CursorLevel
           fill == Smaller(t.remaining, o.remaining)
           left == o.remaining - fill
           lvl  == DeductVolume(levels[l], fill)
           rest == RemoveOrder(lvl, maker, left)
           q    == levels[l].queue
<1>1. /\ pc = "maker" /\ maker # Null /\ t.remaining > 0
      /\ \/ left = 0 /\ levels' = [levels EXCEPT ![l] = rest]
         \/ left # 0 /\ levels' = [levels EXCEPT ![l] = lvl]
      /\ left = 0 => orders'[maker] = Dead
  <2>1. /\ pc = "maker" /\ maker # Null /\ t.remaining > 0
        /\ \/ left = 0 /\ levels' = [levels EXCEPT ![l] = rest]
           \/ left # 0 /\ levels' = [levels EXCEPT ![l] = lvl]
    BY DEF FillMaker
  <2>2. maker \in OrderSlots /\ orders \in [OrderSlots -> Order \cup {Dead}]
    BY <2>1, MakerFacts DEF Structure, TypeOK
  <2>3. left = 0 => orders' = [[orders EXCEPT ![taker].remaining = @ - fill,
                                              ![maker].remaining = left] EXCEPT ![maker] = Dead]
    BY DEF FillMaker
  <2> HIDE DEF left, fill
  <2> QED BY <2>1, <2>2, <2>3
<1>2. /\ taker \in OrderSlots /\ maker \in OrderSlots /\ maker # taker
      /\ t \in Order /\ o \in Order /\ t.remaining \in Qty /\ o.remaining \in Qty
      /\ l \in LevelSlots /\ levels[l] \in Level /\ levels[l] # Dead
      /\ IsInjective(q) /\ maker \in ToSet(q) /\ o.remaining > 0 /\ t # Dead /\ o # Dead
  BY <1>1, MakerFacts, TakerFacts DEF Order
<1>3. /\ fill \in Qty /\ left \in Qty /\ t.remaining - fill \in Qty
  BY <1>1, <1>2, FillFacts
<1>4. /\ orders'[taker] = [t EXCEPT !.remaining = @ - fill]
      /\ left # 0 => orders'[maker] = [o EXCEPT !.remaining = left]
      /\ \A s \in OrderSlots \ {taker, maker} : orders'[s] = orders[s]
      /\ \A k \in LevelSlots \ {l} : levels'[k] = levels[k]
  BY FillMakerFacts
<1>5. fill \in Nat /\ fill <= o.remaining /\ (left = 0 => fill = o.remaining)
  BY <1>2, <1>3, QtyModAssumption DEF Qty, Smaller
<1>6. orders'[taker].remaining <= m
  <2>1. t.remaining <= m
    BY <1>2 DEF VolumeInv, Bounded
  <2>2. orders'[taker].remaining = t.remaining - fill
    BY <1>2, <1>4 DEF Order
  <2> DEFINE n == t.remaining
  <2>3. n \in Nat /\ n <= m
    BY <1>2, <2>1, QtyModAssumption DEF Qty
  <2> HIDE DEF n, fill
  <2>4. n - fill <= m
    BY <1>5, <2>3
  <2> QED BY <2>2, <2>4 DEF n
<1>7. orders'[maker] # Dead => left # 0 /\ orders'[maker].remaining = o.remaining - fill
  <2>1. ASSUME left # 0 PROVE orders'[maker].remaining = left
    BY <1>2, <1>4, <2>1 DEF Order
  <2> QED BY <1>1, <2>1
<1>8. left # 0 => orders'[maker] # Dead
  <2> SUFFICES ASSUME left # 0 PROVE orders'[maker] # Dead
    OBVIOUS
  <2>1. orders'[maker] = [o EXCEPT !.remaining = left]
    BY <1>4
  <2> HIDE DEF left
  <2>2. orders'[maker] \in Order
    BY <1>2, <1>3, <2>1 DEF Order
  <2> QED BY <2>2, DeadAssumption
<1>9. fill <= levels[l].totalVolume
  <2>1. /\ IsFiniteSet(ToSet(q))
        /\ \A s \in ToSet(q) : orders[s].remaining \in Nat
    BY <1>2, LiveLevelFacts
  <2>2. o.remaining <= Volume(orders, ToSet(q)) /\ Volume(orders, ToSet(q)) \in Nat
    BY <1>2, <2>1, VolumeOfPart, VolumeNat
  <2>3. levels[l].totalVolume = Volume(orders, ToSet(q))
    BY <1>2 DEF VolumeInv, LevelIsTrue
  <2> DEFINE n == o.remaining
             v == levels[l].totalVolume
  <2>4. n <= v /\ v \in Nat /\ n \in Nat /\ fill \in Nat /\ fill <= n
    BY <1>2, <1>5, <2>1, <2>2, <2>3
  <2> HIDE DEF n, v, fill
  <2>5. fill <= v
    BY <2>4
  <2> QED BY <2>5 DEF v
<1>10. /\ lvl \in Level /\ lvl.queue = q
       /\ lvl.totalVolume = levels[l].totalVolume - fill
  BY <1>2, <1>3, <1>9, DeductVolumeFacts, ExactUpdates
<1>11. left = 0 => /\ rest.totalVolume = levels[l].totalVolume - fill
                   /\ ToSet(rest.queue) = ToSet(q) \ {maker}
  <2> SUFFICES ASSUME left = 0
               PROVE  /\ rest.totalVolume = levels[l].totalVolume - fill
                      /\ ToSet(rest.queue) = ToSet(q) \ {maker}
    OBVIOUS
  <2>1. rest = RemoveOrder(lvl, maker, 0)
    OBVIOUS
  <2> HIDE DEF lvl, rest, left, fill, q
  <2>2. rest.totalVolume = lvl.totalVolume
    BY <1>10, <1>3, <2>1, ExactUpdates
  <2>3. /\ lvl \in Level /\ IsInjective(lvl.queue) /\ maker \in ToSet(lvl.queue)
        /\ maker \in OrderSlots /\ 0 \in Qty
    BY <1>2, <1>3, <1>10
  <2>4. ToSet(RemoveOrder(lvl, maker, 0).queue) = ToSet(lvl.queue) \ {maker}
    BY <2>3, RemoveOrderFacts
  <2> QED BY <1>10, <2>1, <2>2, <2>4
<1>12. levels \in [LevelSlots -> Level \cup {Dead}]
  BY DEF Structure, TypeOK
<1>13. \/ left = 0 /\ levels'[l] = rest
       \/ left # 0 /\ levels'[l] = lvl
  <2> HIDE DEF rest, lvl, left
  <2> QED BY <1>1, <1>2, <1>12
<1> HIDE DEF lvl, rest, left, fill
<1>14. /\ levels'[l].totalVolume = levels[l].totalVolume - fill
       /\ \/ orders'[maker] # Dead /\ ToSet(levels'[l].queue) = ToSet(q)
          \/ /\ fill = orders[maker].remaining
             /\ ToSet(levels'[l].queue) = ToSet(q) \ {maker}
  BY <1>5, <1>8, <1>10, <1>11, <1>13
<1> HIDE DEF l
<1> QED BY <1>2, <1>4, <1>5, <1>6, <1>7, <1>14, OneLevelLoses

LEMMA VolumesStep ==
  ASSUME NEW m \in Nat, Fits(m), Structure, VolumeInv(m), [Next]_vars
  PROVE  VolumeInv(m)'
<1>1. ASSUME UNCHANGED <<orders, levels>> PROVE VolumeInv(m)'
  BY <1>1, QuietVolumes DEF VolumeInv, Bounded
<1>2. CASE UNCHANGED vars
  BY <1>1, <1>2 DEF vars, heapVars
<1>3. ASSUME NEW id \in OrderId, NEW side \in Side, NEW price \in Price,
             NEW qty \in Quantity, NEW type \in OrderType, AcceptOrder(id, side, price, qty, type)
      PROVE  VolumeInv(m)'
  BY <1>3, AcceptKeepsVolumes
<1>4. ASSUME \/ \E id \in OrderId, qty \in Quantity :
                  RejectOrder(id, qty) \/ OrderPoolThrows(id, qty)
             \/ \E id \in OrderId : CancelUnknown(id)
             \/ StopMatching \/ EnterLevel \/ LevelPoolThrows
      PROVE  VolumeInv(m)'
  BY <1>1, <1>4 DEF RejectOrder, OrderPoolThrows, CancelUnknown, StopMatching, EnterLevel,
     LevelPoolThrows, heapVars
<1>5. ASSUME NEW id \in OrderId, CancelOrder(id) PROVE VolumeInv(m)'
  BY <1>5, CancelKeepsVolumes
<1>6. CASE Destroy
  BY <1>6, DestroyKeepsVolumes
<1>7. CASE FillMaker
  BY <1>7, FillKeepsVolumes
<1>8. CASE LeaveLevel
  BY <1>8, LeaveLevelKeepsVolumes
<1>9. CASE RestOrder
  BY <1>9, RestKeepsVolumes
<1>10. CASE DiscardOrder
  BY <1>10, DiscardKeepsVolumes
<1> QED
  BY <1>2, <1>3, <1>4, <1>5, <1>6, <1>7, <1>8, <1>9, <1>10 DEF Next, Call, Step

VolumesHold == \A m \in Nat : Fits(m) => VolumeInv(m)
VolumesAreTrue == \A l \in LevelSlots : LevelIsTrue(l)

LEMMA VolumesInvariant == Spec => [](Structure /\ VolumesHold)
<1>1. Init => VolumesHold
  BY DEF Init, VolumesHold, VolumeInv, Bounded, LevelIsTrue
<1>2. ASSUME Structure, VolumesHold, [Next]_vars PROVE VolumesHold'
  <2>1. ASSUME NEW m \in Nat, Fits(m) PROVE VolumeInv(m)'
    BY <1>2, <2>1, VolumesStep DEF VolumesHold
  <2> QED BY <2>1 DEF VolumesHold
<1> QED BY <1>1, <1>2, StructureInvariant, PTL DEF Spec

(***************************************************************************)
(* Whatever was filled, cancelled or lost to an exception, a level knows   *)
(* what waits in it (PriceLevel.hpp:34, 60 and OrderBook.cpp), if the sum  *)
(* of the quantities the order pool can hold does not overflow.            *)
(***************************************************************************)
THEOREM VolumesTellTheTruth == Spec => [](QuantitiesFit => VolumesAreTrue)
<1>1. VolumesHold => (QuantitiesFit => VolumesAreTrue)
  BY DEF VolumesHold, QuantitiesFit, VolumesAreTrue, VolumeInv
<1> QED BY <1>1, VolumesInvariant, PTL

-----------------------------------------------------------------------------
(***************************************************************************)
(* The queries.  A finite set of prices can be listed in the order of a    *)
(* side: the last of them is put behind the list of the others.            *)
(***************************************************************************)
Listings(d, S) ==
  {w \in [1 .. Cardinality(S) -> S] :
     \A i, j \in 1 .. Cardinality(S) : i < j => Before(d, w[i], w[j])}

LEMMA BeforeOrders ==
  ASSUME NEW d \in Side, NEW p \in Price, NEW q \in Price
  PROVE  /\ ~Before(d, p, p)
         /\ p # q => Before(d, p, q) \/ Before(d, q, p)
         /\ ~(Before(d, p, q) /\ Before(d, q, p))
         /\ \A r \in Price : Before(d, p, q) /\ Before(d, q, r) => Before(d, p, r)
  BY OrderBookAssumption DEF Before

LEMMA LastKey ==
  ASSUME NEW d \in Side, NEW S \in SUBSET Price, S # {}
  PROVE  \E x \in S : \A y \in S \ {x} : Before(d, y, x)
<1> DEFINE HasLast(A) == \E x \in A : \A y \in A \ {x} : Before(d, y, x)
           P == {A \in SUBSET S : A = {} \/ HasLast(A)}
<1>1. IsFiniteSet(S)
  BY OrderBookAssumption, FS_Subset
<1>2. {} \in P
  OBVIOUS
<1>3. ASSUME NEW A \in SUBSET S, A # {}, \A x \in A : A \ {x} \in P PROVE A \in P
  <2>1. PICK c \in A : TRUE
    BY <1>3
  <2>2. CASE A \ {c} = {}
    <3>1. \A y \in A \ {c} : Before(d, y, c)
      BY <2>2
    <3> QED BY <2>1, <3>1
  <2>3. CASE A \ {c} # {}
    <3>1. HasLast(A \ {c})
      BY <1>3, <2>1, <2>3
    <3>2. PICK x \in A \ {c} : \A y \in (A \ {c}) \ {x} : Before(d, y, x)
      BY <3>1
    <3>3. x \in Price /\ c \in Price /\ x # c /\ \A y \in A : y \in Price
      BY <2>1, <3>2
    <3>4. CASE Before(d, c, x)
      <4>1. \A y \in A \ {x} : Before(d, y, x)
        BY <3>2, <3>4
      <4> QED BY <3>2, <4>1
    <3>5. CASE Before(d, x, c)
      <4>1. ASSUME NEW y \in A \ {c} PROVE Before(d, y, c)
        <5>1. CASE y = x
          BY <3>5, <5>1
        <5>2. CASE y # x
          BY <3>2, <3>3, <3>5, <5>2, BeforeOrders
        <5> QED BY <5>1, <5>2
      <4> QED BY <2>1, <4>1
    <3> QED BY <3>3, <3>4, <3>5, BeforeOrders
  <2> QED BY <2>2, <2>3
<1>4. P \in SUBSET SUBSET S
  OBVIOUS
<1> HIDE DEF P
<1>5. P = SUBSET S
  BY <1>1, <1>2, <1>3, <1>4, SubsetInduction
<1>6. S \in P
  BY <1>5
<1> QED BY <1>6 DEF P

LEMMA ListingExtends ==
  ASSUME NEW d \in Side, NEW A \in SUBSET Price, IsFiniteSet(A), NEW x \in A,
         \A y \in A \ {x} : Before(d, y, x), NEW w \in Listings(d, A \ {x})
  PROVE  \E v : v \in Listings(d, A)
<1> DEFINE n == Cardinality(A \ {x})
           v == [i \in 1 .. n + 1 |-> IF i = n + 1 THEN x ELSE w[i]]
<1>1. n \in Nat /\ Cardinality(A) = n + 1
  <2>1. IsFiniteSet(A \ {x}) /\ n = Cardinality(A) - 1
    BY FS_RemoveElement
  <2>2. n \in Nat /\ Cardinality(A) \in Nat
    BY <2>1, FS_CardinalityType
  <2> HIDE DEF n
  <2> QED BY <2>1, <2>2
<1>2. /\ \A i \in 1 .. n : w[i] \in A \ {x}
      /\ \A i, j \in 1 .. n : i < j => Before(d, w[i], w[j])
  BY DEF Listings
<1> HIDE DEF n
<1>3. \A i \in 1 .. n : i \in 1 .. n + 1 /\ v[i] = w[i]
  BY <1>1
<1>4. v[n + 1] = x /\ v \in [1 .. n + 1 -> A]
  BY <1>1, <1>2
<1> HIDE DEF v
<1>5. ASSUME NEW i \in 1 .. n + 1, NEW j \in 1 .. n + 1, i < j
      PROVE  Before(d, v[i], v[j])
  <2>1. i \in 1 .. n
    BY <1>1, <1>5
  <2>2. CASE j = n + 1
    BY <1>2, <1>3, <1>4, <2>1, <2>2
  <2>3. CASE j # n + 1
    <3>1. j \in 1 .. n
      BY <1>1, <2>3
    <3> QED BY <1>2, <1>3, <1>5, <2>1, <3>1
  <2> QED BY <2>2, <2>3
<1> QED BY <1>1, <1>4, <1>5 DEF Listings

LEMMA ListingExists ==
  ASSUME NEW d \in Side, NEW S \in SUBSET Price
  PROVE  \E w : w \in Listings(d, S)
<1> DEFINE Listed(A) == \E w : w \in Listings(d, A)
           P == {A \in SUBSET S : Listed(A)}
<1>1. IsFiniteSet(S)
  BY OrderBookAssumption, FS_Subset
<1>2. {} \in P
  <2> DEFINE w == [i \in 1 .. 0 |-> i]
  <2>1. w \in [1 .. Cardinality({}) -> {}] /\ 1 .. Cardinality({}) = {}
    BY FS_EmptySet
  <2>2. w \in Listings(d, {})
    BY <2>1 DEF Listings
  <2> QED BY <2>2
<1>3. ASSUME NEW A \in SUBSET S, A # {}, \A x \in A : A \ {x} \in P PROVE A \in P
  <2>1. A \in SUBSET Price /\ IsFiniteSet(A)
    BY <1>1, FS_Subset
  <2>2. PICK x \in A : \A y \in A \ {x} : Before(d, y, x)
    BY <1>3, <2>1, LastKey
  <2>3. PICK w : w \in Listings(d, A \ {x})
    BY <1>3, <2>2
  <2>4. Listed(A)
    BY <2>1, <2>2, <2>3, ListingExtends
  <2> QED BY <2>4
<1>4. P \in SUBSET SUBSET S
  OBVIOUS
<1> HIDE DEF P
<1>5. P = SUBSET S
  BY <1>1, <1>2, <1>3, <1>4, SubsetInduction
<1>6. S \in P
  BY <1>5
<1> QED BY <1>6 DEF P

(* The walk over a side: its prices, each once, best first.                *)
LEMMA WalkFacts ==
  ASSUME NEW d \in Side
  PROVE  LET w == Walk(d)
             n == Cardinality(Occupied(d))
         IN  /\ n \in Nat /\ w \in [1 .. n -> Occupied(d)]
             /\ \A i, j \in 1 .. n : i < j => Before(d, w[i], w[j])
             /\ \A p \in Occupied(d) : \E i \in 1 .. n : w[i] = p
             /\ Occupied(d) = {} <=> n = 0
<1> DEFINE S == Occupied(d)
           n == Cardinality(S)
           w == Walk(d)
           Sorted(v) == \A i, j \in DOMAIN v : i < j => Before(d, v[i], v[j])
<1>1. S \in SUBSET Price
  BY DEF Occupied
<1>2. IsFiniteSet(S) /\ n \in Nat /\ (S = {} <=> n = 0)
  BY <1>1, OrderBookAssumption, FS_Subset, FS_CardinalityType, FS_EmptySet
<1>3. w = CHOOSE v \in [1 .. n -> S] : Sorted(v)
  BY DEF Walk
<1> HIDE DEF S, w
<1>4. \E v \in [1 .. n -> S] : Sorted(v)
  <2>1. PICK v : v \in Listings(d, S)
    BY <1>1, ListingExists
  <2>2. v \in [1 .. n -> S] /\ \A i, j \in 1 .. n : i < j => Before(d, v[i], v[j])
    BY <2>1 DEF Listings
  <2> HIDE DEF n
  <2> QED BY <2>2
<1>5. w \in [1 .. n -> S] /\ Sorted(w)
  BY <1>3, <1>4
<1>6. \A i, j \in 1 .. n : i < j => Before(d, w[i], w[j])
  BY <1>5
<1>7. w \in Surjection(1 .. n, S)
  <2>1. ASSUME NEW i \in 1 .. n, NEW j \in 1 .. n, w[i] = w[j] PROVE i = j
    <3>1. ~(i < j) /\ ~(j < i)
      BY <1>1, <1>5, <1>6, <2>1, BeforeOrders
    <3> QED BY <1>2, <3>1
  <2>2. w \in Injection(1 .. n, S)
    BY <1>5, <2>1 DEF Injection, IsInjective
  <2>3. Cardinality(1 .. n) = n
    <3>1. 1 \in Int /\ n \in Int
      BY <1>2
    <3> HIDE DEF n
    <3>2. Cardinality(1 .. n) = IF 1 > n THEN 0 ELSE n - 1 + 1
      BY <3>1, FS_Interval
    <3> QED BY <1>2, <3>2
  <2> QED BY <1>2, <2>2, <2>3, FS_Injection
<1>8. \A p \in S : \E i \in 1 .. n : w[i] = p
  BY <1>7 DEF Surjection
<1> QED BY <1>2, <1>5, <1>6, <1>8 DEF S, w

LEMMA WaitingIsVolume ==
  ASSUME Structure, NEW d \in Side, NEW p \in Price, book[d][p] # Null
  PROVE  Waiting(d, p) = Volume(orders, ToSet(levels[book[d][p]].queue))
<1> DEFINE q == levels[book[d][p]].queue
           n == Len(q)
           T == ToSet(q)
           g == [i \in 1 .. n |-> orders[q[i]].remaining]
           f == [s \in T |-> orders[s].remaining]
<1>1. /\ q \in Seq(OrderSlots) /\ IsInjective(q) /\ T \subseteq OrderSlots
      /\ \A s \in T : orders[s] \in Order
      /\ QueueAt(d, p) = Entries(orders, q)
  BY QueueFacts, QueueAtEntries
<1>2. n \in Nat /\ DOMAIN q = 1 .. n /\ T = {q[i] : i \in 1 .. n}
  BY <1>1 DEF ToSet
<1>3. [i \in DOMAIN QueueAt(d, p) |-> QueueAt(d, p)[i].qty] = g
  <2> DEFINE e == Entries(orders, q)
  <2>1. e = [i \in 1 .. n |-> Entry(orders, q[i])]
    BY DEF Entries
  <2> HIDE DEF e, q, n
  <2>2. DOMAIN e = 1 .. n /\ \A i \in 1 .. n : e[i].qty = orders[q[i]].remaining
    BY <2>1 DEF Entry
  <2>3. [i \in DOMAIN e |-> e[i].qty] = [i \in 1 .. n |-> orders[q[i]].remaining]
    BY <2>2
  <2> QED BY <1>1, <2>3 DEF e
<1>4. Waiting(d, p) = SumOf(g) /\ Volume(orders, T) = SumOf(f)
  BY <1>3 DEF Waiting, Volume
<1>5. DOMAIN g = 1 .. n /\ DOMAIN f = T
  OBVIOUS
<1>6. \A s \in T : orders[s].remaining \in Nat
  BY <1>1, QtyModAssumption DEF Order, Qty
<1>7. /\ \A i \in 1 .. n : g[i] = f[q[i]] /\ g[i] \in Nat
      /\ \A i, j \in 1 .. n : q[i] = q[j] => i = j
  <2>1. \A i, j \in 1 .. n : q[i] = q[j] => i = j
    BY <1>1, <1>2 DEF IsInjective
  <2>2. ASSUME NEW i \in 1 .. n PROVE g[i] = f[q[i]] /\ g[i] \in Nat
    <3>1. q[i] \in T
      BY <1>2
    <3> QED BY <1>6, <3>1
  <2> QED BY <2>1, <2>2
<1>8. IsFiniteSet(1 .. n)
  <2>1. 1 \in Int /\ n \in Int
    BY <1>2
  <2> HIDE DEF n
  <2> QED BY <2>1, FS_Interval
<1> HIDE DEF f, g
<1> DEFINE D == 1 .. n
<1>9. Total(g, D) = Total(f, {q[i] : i \in D})
  <2> HIDE DEF D, q, T
  <2>1. IsFiniteSet(D)
    BY <1>8 DEF D
  <2>2. /\ \A i \in D : g[i] = f[q[i]] /\ g[i] \in Nat
        /\ \A i, j \in D : q[i] = q[j] => i = j
    BY <1>7 DEF D
  <2> HIDE DEF n
  <2> QED BY <2>1, <2>2, TotalImage
<1>10. Total(g, D) = Total(f, T)
  BY <1>2, <1>9
<1> HIDE DEF T, q, n
<1>11. SumOf(g) = Total(g, D) /\ SumOf(f) = Total(f, T)
  BY <1>5, SumIsTotal
<1> QED BY <1>4, <1>10, <1>11 DEF T, q

(* Between two calls no level is empty, so that what the caller may take   *)
(* is what the maps hold, and a level's volume is what waits there.        *)
LEMMA IdleBook ==
  ASSUME Structure, VolumesAreTrue, pc = "idle", NEW d \in Side
  PROVE  /\ Promise!Offered(d) = Occupied(d)
         /\ \A p \in Occupied(d) :
              /\ Line(d, p) \in [price : Price, qty : Qty]
              /\ Line(d, p).price = p /\ Line(d, p).qty = Waiting(d, p)
<1>1. \A p \in Occupied(d) : levels[book[d][p]].queue # <<>>
  BY DEF Occupied, Structure, BookConsistent, LevelsConsistent
<1>2. Promise!Offered(d) = Occupied(d)
  BY <1>1, OfferedIsOccupied
<1>3. ASSUME NEW p \in Occupied(d)
      PROVE  /\ Line(d, p) \in [price : Price, qty : Qty]
             /\ Line(d, p).price = p /\ Line(d, p).qty = Waiting(d, p)
  <2> DEFINE l == book[d][p]
  <2>1. p \in Price /\ l # Null
    BY DEF Occupied
  <2>2. l \in LevelSlots /\ levels[l] \in Level /\ levels[l] # Dead
    BY <2>1, QueueFacts
  <2>3. levels[l].totalVolume = Volume(orders, ToSet(levels[l].queue))
    BY <2>2 DEF VolumesAreTrue, LevelIsTrue
  <2>4. Waiting(d, p) = Volume(orders, ToSet(levels[l].queue))
    BY <2>1, WaitingIsVolume
  <2> DEFINE v == levels[l].totalVolume
  <2>5. v \in Qty /\ v = Waiting(d, p) /\ Line(d, p) = [price |-> p, qty |-> v]
    BY <2>2, <2>3, <2>4 DEF Level, Line
  <2> HIDE DEF v
  <2> QED BY <2>1, <2>5
<1> QED BY <1>2, <1>3

LEMMA QuoteFacts ==
  ASSUME Structure, VolumesAreTrue, pc = "idle", NEW d \in Side
  PROVE  /\ Occupied(d) = {} => Quote(d) = Null
         /\ Occupied(d) # {} =>
              /\ Quote(d) # Null /\ Quote(d).price \in Occupied(d)
              /\ \A p \in Occupied(d) \ {Quote(d).price} : Before(d, Quote(d).price, p)
              /\ Quote(d).qty = Waiting(d, Quote(d).price)
<1>1. Occupied(d) = {} => Quote(d) = Null
  BY DEF Quote
<1>2. ASSUME Occupied(d) # {}
      PROVE  /\ Quote(d) # Null /\ Quote(d).price \in Occupied(d)
             /\ \A p \in Occupied(d) \ {Quote(d).price} : Before(d, Quote(d).price, p)
             /\ Quote(d).qty = Waiting(d, Quote(d).price)
  <2> DEFINE w == Walk(d)
             n == Cardinality(Occupied(d))
             b == w[1]
  <2>1. /\ n \in Nat /\ n # 0 /\ w \in [1 .. n -> Occupied(d)]
        /\ \A i, j \in 1 .. n : i < j => Before(d, w[i], w[j])
        /\ \A p \in Occupied(d) : \E i \in 1 .. n : w[i] = p
    BY <1>2, WalkFacts
  <2> HIDE DEF w, n
  <2>2. 1 \in 1 .. n /\ b \in Occupied(d)
    BY <2>1
  <2>3. Head(w) = b
    <3>1. w \in Seq(Occupied(d))
      BY <2>1, SeqDef
    <3> QED BY <3>1
  <2>4. Quote(d) = Line(d, b)
    BY <1>2, <2>3 DEF Quote, w
  <2>5. /\ Line(d, b) \in [price : Price, qty : Qty]
        /\ Line(d, b).price = b /\ Line(d, b).qty = Waiting(d, b)
    BY <2>2, IdleBook
  <2>6. ASSUME NEW p \in Occupied(d) \ {b} PROVE Before(d, b, p)
    <3>1. PICK i \in 1 .. n : w[i] = p
      BY <2>1
    <3>2. 1 < i
      BY <2>1, <2>6, <3>1
    <3> QED BY <2>1, <2>2, <3>1, <3>2
  <2> HIDE DEF b
  <2> QED BY <2>2, <2>4, <2>5, <2>6, NoAnswerAssumption
<1> QED BY <1>1, <1>2

LEMMA SpreadIsKnown ==
  ASSUME Structure, NoCrossedBook, VolumesAreTrue, pc = "idle",
         NEW p \in Occupied("SELL"), NEW q \in Occupied("BUY")
  PROVE  Spread # Null /\ Spread \in 1 .. p - q
<1> DEFINE a == Quote("SELL").price
           b == Quote("BUY").price
<1>1. /\ Quote("SELL") # Null /\ a \in Occupied("SELL") /\ (p = a \/ Before("SELL", a, p))
      /\ Quote("BUY") # Null /\ b \in Occupied("BUY") /\ (q = b \/ Before("BUY", b, q))
  BY QuoteFacts DEF Side
<1>2. b < a /\ a \in Nat /\ b \in Nat /\ p \in Nat /\ q \in Nat
  BY <1>1, OrderBookAssumption DEF NoCrossedBook, Occupied
<1>3. a <= p /\ q <= b
  BY <1>1, <1>2 DEF Before
<1>4. ~(a < b)
  BY <1>2
<1>5. Spread = a - b
  BY <1>1, <1>4 DEF Spread
<1> HIDE DEF a, b
<1>6. a - b \in 1 .. p - q /\ a - b \in Nat
  BY <1>2, <1>3
<1> QED BY <1>5, <1>6, NoAnswerAssumption

LEMMA IdleQuotes ==
  ASSUME Structure, NoCrossedBook, VolumesAreTrue
  PROVE  QuotesAreTrue
<1> SUFFICES ASSUME pc = "idle"
             PROVE  /\ \A side \in Side :
                         IF Quote(side) = Null
                           THEN Promise!Offered(side) = {}
                           ELSE /\ Promise!Best(side, Quote(side).price)
                                /\ Quote(side).qty = Waiting(side, Quote(side).price)
                    /\ \A p \in Promise!Offered("SELL"), q \in Promise!Offered("BUY") :
                         Spread # Null /\ Spread \in 1 .. p - q
                    /\ ActiveOrders = Cardinality({id \in OrderId : Promise!Resting(id) # {}})
  BY DEF QuotesAreTrue
<1>1. ASSUME NEW d \in Side
      PROVE  IF Quote(d) = Null
               THEN Promise!Offered(d) = {}
               ELSE /\ Promise!Best(d, Quote(d).price)
                    /\ Quote(d).qty = Waiting(d, Quote(d).price)
  <2>1. Promise!Offered(d) = Occupied(d)
    BY IdleBook
  <2> DEFINE b == Quote(d).price
  <2>2. Promise!Best(d, b) <=>
          b \in Occupied(d) /\ \A p \in Occupied(d) \ {b} : Before(d, b, p)
    BY <2>1 DEF Promise!Best, Promise!Better, Before
  <2> QED BY <2>1, <2>2, QuoteFacts
<1>2. ASSUME NEW p \in Promise!Offered("SELL"), NEW q \in Promise!Offered("BUY")
      PROVE  Spread # Null /\ Spread \in 1 .. p - q
  <2>1. p \in Occupied("SELL") /\ q \in Occupied("BUY")
    BY IdleBook DEF Side
  <2> QED BY <2>1, SpreadIsKnown
<1>3. ActiveOrders = Cardinality({id \in OrderId : Promise!Resting(id) # {}})
  <2>1. \A id \in OrderId : orderMap[id] # Null <=> Promise!Resting(id) # {}
    BY RestingIsMapped
  <2>2. {id \in OrderId : orderMap[id] # Null} = {id \in OrderId : Promise!Resting(id) # {}}
    BY <2>1
  <2> QED BY <2>2 DEF ActiveOrders
<1> QED BY <1>1, <1>2, <1>3

(***************************************************************************)
(* The printed depth.                                                      *)
(***************************************************************************)
PriceOf(lines) == {lines[i].price : i \in DOMAIN lines}
CutsRight(d, n, lines) ==
  LET left == Promise!Offered(d) \ PriceOf(lines)
  IN  /\ PriceOf(lines) \subseteq Promise!Offered(d)
      /\ \A i \in DOMAIN lines : lines[i].qty = Waiting(d, lines[i].price)
      /\ left # {} => Cardinality(PriceOf(lines)) = n
      /\ \A p \in PriceOf(lines), q \in left : Promise!Better(d, p, q)

Shown(d, n) == Smaller(n, Cardinality(Occupied(d)))

LEMMA FirstLinesFacts ==
  ASSUME Structure, VolumesAreTrue, pc = "idle", NEW d \in Side, NEW n \in Nat
  PROVE  LET f == FirstLines(d, n)
             k == Shown(d, n)
         IN  /\ k \in Nat /\ f \in Seq([price : Price, qty : Qty]) /\ Len(f) = k
             /\ DOMAIN f = 1 .. k
             /\ \A i \in 1 .. k : /\ f[i].price \in Occupied(d)
                                  /\ f[i].qty = Waiting(d, f[i].price)
             /\ \A i, j \in 1 .. k : i < j => Before(d, f[i].price, f[j].price)
             /\ \A p \in Occupied(d) :
                  \/ \E i \in 1 .. k : f[i].price = p
                  \/ k = n /\ \A i \in 1 .. k : Before(d, f[i].price, p)
<1> DEFINE f == FirstLines(d, n)
           k == Shown(d, n)
           c == Cardinality(Occupied(d))
           w == Walk(d)
           LineType == [price : Price, qty : Qty]
<1>1. /\ c \in Nat /\ w \in [1 .. c -> Occupied(d)]
      /\ \A i, j \in 1 .. c : i < j => Before(d, w[i], w[j])
      /\ \A p \in Occupied(d) : \E i \in 1 .. c : w[i] = p
  BY WalkFacts
<1>2. f = [i \in 1 .. k |-> Line(d, w[i])] /\ k = Smaller(n, c)
  BY DEF FirstLines, Shown
<1> HIDE DEF f, k, c, w
<1>3. k \in Nat /\ k <= n /\ k <= c /\ (k < c => k = n)
  BY <1>1, <1>2 DEF Smaller
<1>4. \A i \in 1 .. k : i \in 1 .. c /\ w[i] \in Occupied(d)
  BY <1>1, <1>3
<1>5. \A i \in 1 .. k : /\ f[i] \in LineType
                        /\ f[i].price = w[i] /\ f[i].qty = Waiting(d, w[i])
  BY <1>2, <1>4, IdleBook
<1> HIDE DEF LineType
<1>6. f \in [1 .. k -> LineType]
  BY <1>2, <1>5
<1>7. f \in Seq(LineType) /\ Len(f) = k /\ DOMAIN f = 1 .. k
  BY <1>3, <1>6, SeqDef
<1>8. \A i, j \in 1 .. k : i < j => Before(d, f[i].price, f[j].price)
  BY <1>1, <1>4, <1>5
<1>9. ASSUME NEW p \in Occupied(d), \A i \in 1 .. k : f[i].price # p
      PROVE  k = n /\ \A i \in 1 .. k : Before(d, f[i].price, p)
  <2>1. PICK j \in 1 .. c : w[j] = p
    BY <1>1
  <2>2. j \notin 1 .. k
    BY <1>5, <1>9, <2>1
  <2>3. \A i \in 1 .. k : i < j
    BY <1>1, <1>3, <2>2
  <2>4. k = n
    BY <1>1, <1>3, <2>2
  <2> QED BY <1>1, <1>4, <1>5, <2>1, <2>3, <2>4
<1> QED BY <1>3, <1>4, <1>5, <1>7, <1>8, <1>9 DEF f, k, LineType

(* The lines of a side, in whatever order, are cut where they should be.   *)
LEMMA CutInAnyOrder ==
  ASSUME Structure, VolumesAreTrue, pc = "idle", NEW d \in Side, NEW n \in Nat,
         NEW lines, DOMAIN lines = 1 .. Shown(d, n),
         \A i \in 1 .. Shown(d, n) : \E j \in 1 .. Shown(d, n) : lines[i] = FirstLines(d, n)[j],
         \A j \in 1 .. Shown(d, n) : \E i \in 1 .. Shown(d, n) : lines[i] = FirstLines(d, n)[j]
  PROVE  CutsRight(d, n, lines)
<1> DEFINE f == FirstLines(d, n)
           k == Shown(d, n)
           S == PriceOf(lines)
           D == 1 .. k
<1>1. /\ k \in Nat
      /\ \A i \in D : f[i].price \in Occupied(d) /\ f[i].qty = Waiting(d, f[i].price)
      /\ \A i, j \in D : i < j => Before(d, f[i].price, f[j].price)
      /\ \A p \in Occupied(d) :
           \/ \E i \in D : f[i].price = p
           \/ k = n /\ \A i \in D : Before(d, f[i].price, p)
  BY FirstLinesFacts
<1>2. Promise!Offered(d) = Occupied(d) /\ Occupied(d) \subseteq Price
  BY IdleBook DEF Occupied
<1>3. /\ DOMAIN lines = D
      /\ \A i \in D : \E j \in D : lines[i] = f[j]
      /\ \A j \in D : \E i \in D : lines[i] = f[j]
  OBVIOUS
<1> HIDE DEF f, D
<1>4. S = {f[j].price : j \in D}
  <2>1. ASSUME NEW p \in S PROVE p \in {f[j].price : j \in D}
    <3>1. PICK i \in D : p = lines[i].price
      BY <1>3 DEF PriceOf
    <3>2. PICK j \in D : lines[i] = f[j]
      BY <1>3
    <3> QED BY <3>1, <3>2
  <2>2. ASSUME NEW j \in D PROVE f[j].price \in S
    <3>1. PICK i \in D : lines[i] = f[j]
      BY <1>3
    <3> QED BY <1>3, <3>1 DEF PriceOf
  <2> HIDE DEF S
  <2> QED BY <2>1, <2>2
<1> HIDE DEF S
<1>5. S \subseteq Occupied(d)
  BY <1>1, <1>4
<1>6. ASSUME NEW i \in D PROVE lines[i].qty = Waiting(d, lines[i].price)
  <2>1. PICK j \in D : lines[i] = f[j]
    BY <1>3
  <2> QED BY <1>1, <2>1
<1>7. ASSUME NEW q \in Occupied(d) \ S
      PROVE  k = n /\ \A p \in S : Before(d, p, q)
  BY <1>1, <1>4
<1>8. Cardinality(S) = k
  <2> DEFINE h == [i \in D |-> f[i].price]
  <2>1. \A i \in D : h[i] = f[i].price /\ h[i] \in S /\ h[i] \in Price
    BY <1>1, <1>2, <1>4
  <2>2. h \in [D -> S] /\ \A p \in S : \E i \in D : h[i] = p
    BY <1>4, <2>1
  <2> HIDE DEF h
  <2>3. ASSUME NEW i \in D, NEW j \in D, h[i] = h[j] PROVE i = j
    <3>1. ~(i < j) /\ ~(j < i)
      BY <1>1, <2>1, <2>3, BeforeOrders
    <3>2. i \in Int /\ j \in Int
      BY DEF D
    <3> QED BY <3>1, <3>2
  <2>4. h \in Bijection(D, S)
    BY <2>2, <2>3 DEF Bijection, Injection, Surjection, IsInjective
  <2>5. ExistsBijection(1 .. k, S)
    BY <2>4 DEF ExistsBijection, D
  <2> HIDE DEF k
  <2> QED BY <1>1, <2>5, FS_CountingElements
<1>9. \A p, q : Promise!Better(d, p, q) = Before(d, p, q)
  BY DEF Promise!Better, Before
<1> QED BY <1>2, <1>3, <1>5, <1>6, <1>7, <1>8, <1>9 DEF CutsRight, S

LEMMA DepthIsCutRight ==
  ASSUME Structure, VolumesAreTrue, pc = "idle", NEW n \in Nat
  PROVE  /\ CutsRight("SELL", n, TopDown(FirstLines("SELL", n)))
         /\ CutsRight("BUY", n, FirstLines("BUY", n))
<1>1. CutsRight("BUY", n, FirstLines("BUY", n))
  <2>1. "BUY" \in Side /\ DOMAIN FirstLines("BUY", n) = 1 .. Shown("BUY", n)
    BY FirstLinesFacts DEF Side
  <2> QED BY <2>1, CutInAnyOrder
<1>2. CutsRight("SELL", n, TopDown(FirstLines("SELL", n)))
  <2> DEFINE f == FirstLines("SELL", n)
             k == Shown("SELL", n)
             r == TopDown(f)
  <2>1. "SELL" \in Side /\ k \in Nat /\ f \in Seq([price : Price, qty : Qty]) /\ Len(f) = k
    BY FirstLinesFacts DEF Side
  <2>2. r = Reverse(f)
    BY DEF TopDown
  <2> HIDE DEF f, k, r
  <2>3. /\ r \in Seq([price : Price, qty : Qty]) /\ Len(r) = k
        /\ \A i \in 1 .. k : (k - i) + 1 \in 1 .. k /\ r[i] = f[(k - i) + 1]
    BY <2>1, <2>2, ReverseFacts
  <2>4. DOMAIN r = 1 .. k /\ \A i \in 1 .. k : \E j \in 1 .. k : r[i] = f[j]
    BY <2>3
  <2>5. ASSUME NEW j \in 1 .. k PROVE \E i \in 1 .. k : r[i] = f[j]
    <3> DEFINE i == (k - j) + 1
    <3>1. i \in 1 .. k /\ (k - i) + 1 = j
      BY <2>1
    <3> HIDE DEF i
    <3> QED BY <2>3, <3>1
  <2> QED BY <2>1, <2>4, <2>5, CutInAnyOrder DEF f, k, r
<1> QED BY <1>1, <1>2

LEMMA DepthDescends ==
  ASSUME Structure, NoCrossedBook, VolumesAreTrue, pc = "idle", NEW n \in Nat
  PROVE  LET all == TopDown(FirstLines("SELL", n)) \o FirstLines("BUY", n)
         IN  \A i, j \in DOMAIN all : i < j => all[i].price > all[j].price
<1> DEFINE f == FirstLines("SELL", n)
           k == Shown("SELL", n)
           r == TopDown(f)
           b == FirstLines("BUY", n)
           m == Shown("BUY", n)
           T == [price : Price, qty : Qty]
           all == r \o b
<1>1. /\ k \in Nat /\ f \in Seq(T) /\ Len(f) = k
      /\ \A i \in 1 .. k : f[i].price \in Occupied("SELL")
      /\ \A i, j \in 1 .. k : i < j => Before("SELL", f[i].price, f[j].price)
  BY FirstLinesFacts DEF Side
<1>2. /\ m \in Nat /\ b \in Seq(T) /\ Len(b) = m
      /\ \A i \in 1 .. m : b[i].price \in Occupied("BUY")
      /\ \A i, j \in 1 .. m : i < j => Before("BUY", b[i].price, b[j].price)
  BY FirstLinesFacts DEF Side
<1>3. r = Reverse(f)
  BY DEF TopDown
<1> HIDE DEF f, k, b, m, r, T
<1>4. /\ r \in Seq(T) /\ Len(r) = k
      /\ \A i \in 1 .. k : (k - i) + 1 \in 1 .. k /\ r[i] = f[(k - i) + 1]
  BY <1>1, <1>3, ReverseFacts
<1>5. /\ DOMAIN all = 1 .. k + m
      /\ \A i \in 1 .. k : all[i] = r[i]
      /\ \A i \in k + 1 .. k + m : i - k \in 1 .. m /\ all[i] = b[i - k]
  <2>1. /\ DOMAIN (r \o b) = 1 .. Len(r) + Len(b)
        /\ \A i \in 1 .. Len(r) : (r \o b)[i] = r[i]
        /\ \A i \in Len(r) + 1 .. Len(r) + Len(b) :
             i - Len(r) \in 1 .. Len(b) /\ (r \o b)[i] = b[i - Len(r)]
    <3>1. r \in Seq(T) /\ b \in Seq(T)
      BY <1>2, <1>4
    <3> HIDE DEF all
    <3> QED BY <3>1, JoinedLists
  <2> QED BY <1>2, <1>4, <2>1
<1> HIDE DEF all
<1>6. \A d \in Side : Occupied(d) \subseteq Nat
  BY OrderBookAssumption DEF Occupied
<1>7. /\ \A i \in 1 .. k : all[i].price \in Occupied("SELL")
      /\ \A i \in k + 1 .. k + m : all[i].price \in Occupied("BUY")
  BY <1>1, <1>2, <1>4, <1>5
<1>8. ASSUME NEW i \in 1 .. k + m, NEW j \in 1 .. k + m, i < j
      PROVE  all[i].price > all[j].price
  <2>1. CASE j <= k
    <3> DEFINE u == (k - i) + 1
               v == (k - j) + 1
    <3>1. i \in 1 .. k /\ j \in 1 .. k /\ v < u
      BY <1>1, <1>2, <1>8, <2>1
    <3>2. u \in 1 .. k /\ v \in 1 .. k /\ all[i] = f[u] /\ all[j] = f[v]
      BY <1>4, <1>5, <3>1
    <3> HIDE DEF u, v
    <3>3. Before("SELL", f[v].price, f[u].price)
      BY <1>1, <3>1, <3>2
    <3>4. all[i].price \in Nat /\ all[j].price \in Nat
      BY <1>6, <1>7, <3>1 DEF Side
    <3> QED BY <3>2, <3>3, <3>4 DEF Before
  <2>2. CASE i > k
    <3> DEFINE u == i - k
               v == j - k
    <3>1. i \in k + 1 .. k + m /\ j \in k + 1 .. k + m /\ u < v
      BY <1>1, <1>2, <1>8, <2>2
    <3>2. u \in 1 .. m /\ v \in 1 .. m /\ all[i] = b[u] /\ all[j] = b[v]
      BY <1>5, <3>1
    <3> HIDE DEF u, v
    <3>3. Before("BUY", b[u].price, b[v].price)
      BY <1>2, <3>1, <3>2
    <3> QED BY <3>2, <3>3 DEF Before
  <2>3. CASE i <= k /\ j > k
    <3>1. i \in 1 .. k /\ j \in k + 1 .. k + m
      BY <1>1, <1>2, <2>3
    <3>2. all[j].price < all[i].price /\ all[i].price \in Nat /\ all[j].price \in Nat
      BY <1>6, <1>7, <3>1 DEF NoCrossedBook, Side
    <3> QED BY <3>2
  <2> QED BY <1>1, <1>2, <1>8, <2>1, <2>2, <2>3
<1> QED BY <1>5, <1>8 DEF all, f, b, r

LEMMA IdleDepth ==
  ASSUME Structure, NoCrossedBook, VolumesAreTrue
  PROVE  DepthReadsDown
<1> SUFFICES ASSUME pc = "idle", NEW n \in 0 .. Cardinality(Price)
             PROVE  LET depth == printBook(n)
                        all   == depth.asks \o depth.bids
                    IN  /\ \A i, j \in DOMAIN all : i < j => all[i].price > all[j].price
                        /\ CutsRight("SELL", n, depth.asks)
                        /\ CutsRight("BUY", n, depth.bids)
  BY DEF DepthReadsDown, CutsRight, PriceOf
<1>1. n \in Nat
  BY OrderBookAssumption, FS_CardinalityType
<1>2. /\ printBook(n).asks = TopDown(FirstLines("SELL", n))
      /\ printBook(n).bids = FirstLines("BUY", n)
  BY DEF printBook
<1> QED BY <1>1, <1>2, DepthIsCutRight, DepthDescends

(***************************************************************************)
(* What getBestBid(), getBestAsk(), getSpread() and getActiveOrdersCount() *)
(* answer (OrderBook.cpp:183, 190, 197, 238) is true of the promised book, *)
(* for quantities whose sum in the pool does not overflow.                 *)
(***************************************************************************)
THEOREM QuotesTellTheTruth == Spec => [](QuantitiesFit => QuotesAreTrue)
<1>1. Structure /\ Uncrossed /\ VolumesHold => (QuantitiesFit => QuotesAreTrue)
  BY IdleQuotes DEF Uncrossed, VolumesHold, QuantitiesFit, VolumesAreTrue, VolumeInv
<1> QED BY <1>1, UncrossedInvariant, VolumesInvariant, PTL

(***************************************************************************)
(* printBook() (OrderBook.cpp:241) shows the top of both sides from the    *)
(* highest ask down to the lowest bid, with what waits at each price.      *)
(***************************************************************************)
THEOREM DepthTellsTheTruth == Spec => [](QuantitiesFit => DepthReadsDown)
<1>1. Structure /\ Uncrossed /\ VolumesHold => (QuantitiesFit => DepthReadsDown)
  BY IdleDepth DEF Uncrossed, VolumesHold, QuantitiesFit, VolumesAreTrue, VolumeInv
<1> QED BY <1>1, UncrossedInvariant, VolumesInvariant, PTL
=============================================================================
