------------------------------ MODULE OrderBook ------------------------------
(***************************************************************************)
(* The matching engine of 02_LOB_Engine (OrderBook.cpp): two ordered maps  *)
(* from price to level, a map from order id to resting order, and the two  *)
(* object pools orders and levels live in.                                 *)
(*                                                                         *)
(* The engine is called by one thread.  A call of addOrder() is a sequence *)
(* of steps, one for each turn of its loops, because it can leave by an    *)
(* exception half way: pc is "idle" between two calls, and while it is not *)
(* only the call in progress can move.                                     *)
(*                                                                         *)
(* A pointer is the name of a slot of a pool, or Null.  A slot that holds  *)
(* no constructed object contains Dead, so that an access through a        *)
(* dangling pointer is an error of evaluation.                             *)
(***************************************************************************)
EXTENDS ObjectPool, PriceLevel

CONSTANTS
  OrderId,      \* the ids callers use
  Price,        \* the prices callers use, in ticks
  Quantity,     \* the quantities callers ask for
  OrderSlots,   \* the slots of orderPool_  (DEFAULT_MAX_ORDERS of them)
  LevelSlots,   \* the slots of levelPool_  (DEFAULT_MAX_LEVELS of them)
  CounterMod,   \* the number of values of the uint64_t statistics
  Null,         \* nullptr, and the absence of a key in a map
  Dead,         \* the content of a slot without an object
  End           \* the past-the-end iterator

ASSUME OrderBookAssumption ==
  /\ Price \subseteq Nat /\ IsFiniteSet(Price)
  /\ Quantity \subseteq 0 .. QtyMod - 1
  /\ CounterMod \in Nat \ {0}
  /\ IsFiniteSet(OrderSlots) /\ IsFiniteSet(LevelSlots)
  /\ Null \notin OrderSlots \cup LevelSlots
  /\ End \notin Price

Side == {"BUY", "SELL"}
OrderType == {"LIMIT", "MARKET", "CANCEL"}
Qty == 0 .. QtyMod - 1

VARIABLES
  orders,       \* orderPool_.poolStorage_: slot -> Order, or Dead
  orderFree,    \* orderPool_.freeList_
  levels,       \* levelPool_.poolStorage_: slot -> PriceLevel, or Dead
  levelFree,    \* levelPool_.freeList_
  book,         \* bids_ and asks_: side -> price -> level slot, or Null
  orderMap,     \* orderMap_: id -> order slot, or Null
  totalTrades,  \* totalTradesCount_
  totalVolume,  \* totalVolumeTraded_
  pc,           \* where the call in progress stands
  taker,        \* incomingOrder
  cursor,       \* askIt (bidIt): the price it points at, or End
  maker,        \* makerOrder
  matches,      \* the events collected for the caller
  outcome       \* how the last call ended

callVars == <<pc, taker, cursor, maker, matches, outcome>>
heapVars == <<orders, orderFree, levels, levelFree>>
mapVars  == <<book, orderMap>>
statVars == <<totalTrades, totalVolume>>
vars == <<heapVars, mapVars, statVars, callVars>>

Order == [id : OrderId, price : Price, quantity : Qty, remaining : Qty,
          side : Side, type : OrderType, level : LevelSlots \cup {Null}]
Level == [price : Price, totalVolume : Qty, queue : Seq(OrderSlots)]

(* What stands for "no object" is not an object.                           *)
ASSUME DeadAssumption == Dead \notin Order \cup Level

MatchEvent == [maker : OrderId, taker : OrderId, price : Price, qty : Qty]

NewOrder(id, side, price, qty, type) ==
  [id |-> id, price |-> price, quantity |-> qty, remaining |-> qty,
   side |-> side, type |-> type, level |-> Null]

Opposite(side) == IF side = "BUY" THEN "SELL" ELSE "BUY"

(***************************************************************************)
(* The order of the maps: bids_ from the highest price down, asks_ from    *)
(* the lowest up.  First(side, S, c): c is the first key among S, or End.  *)
(***************************************************************************)
Before(side, p, q) == IF side = "BUY" THEN p > q ELSE p < q
Occupied(side) == {p \in Price : book[side][p] # Null}

(* The keys an iterator moves to from p.  The mutant increments it once    *)
(* more after the erase() that has already moved it.                       *)
KeysPastNext(side, p) ==
  {q \in Occupied(side) :
     \E r \in Occupied(side) : Before(side, p, r) /\ Before(side, r, q)}
KeysAfter(side, p) == {q \in Occupied(side) : Before(side, p, q)}
First(side, S, c) ==
  \/ S = {} /\ c = End
  \/ c \in S /\ \A p \in S \ {c} : Before(side, c, p)

(* Mutants of TooExpensive: no price check, and a strict one.              *)
AnyPriceWillDo(side, limit, price) == FALSE
NotStrictlyBetter(side, limit, price) ==
  IF side = "BUY" THEN price >= limit ELSE price <= limit

(* The price at which a LIMIT order on side stops matching.                *)
TooExpensive(side, limit, price) ==
  IF side = "BUY" THEN price > limit ELSE price < limit

(* std::min, and the mutant that fills with std::max.                      *)
Larger(a, b) == IF a < b THEN b ELSE a
Smaller(a, b) == IF a < b THEN a ELSE b

(* Mutant of NextInLevel: order->next is read after the order is gone.     *)
HeadAgain(level, slot) == Head(level.queue)

(* The element that follows slot in a level's list (order->next).          *)
NextInLevel(level, slot) ==
  LET i == Position(level, slot)
  IN  IF i < Len(level.queue) THEN level.queue[i + 1] ELSE Null

(* level->head, and the mutant that starts from level->tail.               *)
TailOfLevel(level) == IF level.queue = <<>> THEN Null ELSE Last(level.queue)
HeadOfLevel(level) == IF level.queue = <<>> THEN Null ELSE Head(level.queue)

(***************************************************************************)
(* OrderBook(): empty maps, fresh pools.                                   *)
(***************************************************************************)
Init ==
  /\ orders = [s \in OrderSlots |-> Dead]
  /\ orderFree \in FreshPools(OrderSlots)
  /\ levels = [l \in LevelSlots |-> Dead]
  /\ levelFree \in FreshPools(LevelSlots)
  /\ book = [side \in Side |-> [p \in Price |-> Null]]
  /\ orderMap = [id \in OrderId |-> Null]
  /\ totalTrades = 0 /\ totalVolume = 0
  /\ pc = "idle" /\ taker = Null /\ cursor = End /\ maker = Null
  /\ matches = <<>> /\ outcome = "none"

(* The call ends: its locals are gone and the caller has its answer.       *)
Return(answer) ==
  /\ pc' = "idle" /\ taker' = Null /\ cursor' = End /\ maker' = Null
  /\ matches' = <<>> /\ outcome' = answer

-----------------------------------------------------------------------------
(***************************************************************************)
(* addOrder(), up to the matching loop.                                    *)
(***************************************************************************)

(* A zero quantity or the id of a resting order: an empty answer.          *)
RejectOrder(id, qty) ==
  /\ pc = "idle"
  /\ qty = 0 \/ orderMap[id] # Null
  /\ Return("rejected")
  /\ UNCHANGED <<heapVars, mapVars, statVars>>

(* orderPool_.allocate() throws before anything is changed.                *)
OrderPoolThrows(id, qty) ==
  /\ pc = "idle"
  /\ qty # 0 /\ orderMap[id] = Null
  /\ Exhausted(orderFree)
  /\ Return("threw")
  /\ UNCHANGED <<heapVars, mapVars, statVars>>

(* The order is constructed and the iterator set to the opposite best.     *)
AcceptOrder(id, side, price, qty, type) ==
  /\ pc = "idle"
  /\ qty # 0 /\ orderMap[id] = Null
  /\ ~Exhausted(orderFree)
  /\ LET s == AllocatedSlot(orderFree)
     IN  /\ orders' = [orders EXCEPT ![s] = NewOrder(id, side, price, qty, type)]
         /\ taker' = s
  /\ orderFree' = Allocate(orderFree)
  /\ \E c \in Price \cup {End} :
       /\ First(Opposite(side), Occupied(Opposite(side)), c)
       /\ cursor' = c
  /\ pc' = "level" /\ outcome' = "none"
  /\ UNCHANGED <<levels, levelFree, mapVars, statVars, maker, matches>>

-----------------------------------------------------------------------------
(***************************************************************************)
(* matchBuyOrder() and matchSellOrder(), one definition for both sides.    *)
(***************************************************************************)
MakerSide == Opposite(orders[taker].side)
CursorLevel == book[MakerSide][cursor]

(* The conditions that end the loop over the levels.                       *)
MatchingStops ==
  \/ cursor = End
  \/ orders[taker].remaining = 0
  \/ /\ cursor # End
     /\ orders[taker].type = "LIMIT"
     /\ TooExpensive(orders[taker].side, orders[taker].price,
                     levels[CursorLevel].price)

StopMatching ==
  /\ pc = "level"
  /\ MatchingStops
  /\ pc' = "settle"
  /\ UNCHANGED <<heapVars, mapVars, statVars, taker, cursor, maker, matches,
                 outcome>>

EnterLevel ==
  /\ pc = "level"
  /\ ~MatchingStops
  /\ maker' = HeadOfLevel(levels[CursorLevel])
  /\ pc' = "maker"
  /\ UNCHANGED <<heapVars, mapVars, statVars, taker, cursor, matches, outcome>>

(***************************************************************************)
(* One turn of the inner loop: both orders and the level's volume go down  *)
(* by the fill, the event is recorded, and a maker filled to the end is    *)
(* taken off the map, unlinked and returned to the pool.                   *)
(***************************************************************************)
FillMaker ==
  /\ pc = "maker"
  /\ maker # Null /\ orders[taker].remaining > 0
  /\ LET fill   == Smaller(orders[taker].remaining, orders[maker].remaining)
         left   == orders[maker].remaining - fill
         lvl    == DeductVolume(levels[CursorLevel], fill)
         paid   == [orders EXCEPT ![taker].remaining = @ - fill,
                                  ![maker].remaining = left]
         event  == [maker |-> orders[maker].id, taker |-> orders[taker].id,
                    price |-> lvl.price, qty |-> fill]
     IN  /\ matches' = Append(matches, event)
         /\ totalTrades' = (totalTrades + 1) % CounterMod
         /\ totalVolume' = (totalVolume + fill) % CounterMod
         /\ maker' = NextInLevel(lvl, maker)
         /\ \/ /\ left = 0
               /\ orderMap' = [orderMap EXCEPT ![orders[maker].id] = Null]
               /\ levels' = [levels EXCEPT ![CursorLevel] =
                                                  RemoveOrder(lvl, maker, left)]
               /\ orders' = [paid EXCEPT ![maker] = Dead]
               /\ orderFree' = Deallocate(orderFree, maker)
            \/ /\ left # 0
               /\ levels' = [levels EXCEPT ![CursorLevel] = lvl]
               /\ orders' = paid
               /\ UNCHANGED <<orderMap, orderFree>>
  /\ UNCHANGED <<levelFree, book, pc, taker, cursor, outcome>>

(***************************************************************************)
(* The inner loop is over: an empty level is returned to the pool and      *)
(* erased, and the iterator moves to the next key.                         *)
(***************************************************************************)
LeaveLevel ==
  /\ pc = "maker"
  /\ maker = Null \/ orders[taker].remaining = 0
  /\ \/ /\ IsEmptyLevel(levels[CursorLevel])
        /\ levelFree' = Deallocate(levelFree, CursorLevel)
        /\ levels' = [levels EXCEPT ![CursorLevel] = Dead]
        /\ book' = [book EXCEPT ![MakerSide][cursor] = Null]
     \/ /\ ~IsEmptyLevel(levels[CursorLevel])
        /\ UNCHANGED <<levelFree, levels, book>>
  /\ \E c \in Price \cup {End} :
       /\ First(MakerSide, KeysAfter(MakerSide, cursor), c)
       /\ cursor' = c
  /\ maker' = Null
  /\ pc' = "level"
  /\ UNCHANGED <<orders, orderFree, orderMap, statVars, taker, matches, outcome>>

-----------------------------------------------------------------------------
(***************************************************************************)
(* The end of addOrder(): what is left of a LIMIT order rests on the book. *)
(***************************************************************************)
Rests == orders[taker].remaining > 0 /\ orders[taker].type = "LIMIT"
OwnLevel == book[orders[taker].side][orders[taker].price]

(* getOrCreatePriceLevel() needs a new level and the pool has none.        *)
NoLevelLeft == OwnLevel = Null /\ Exhausted(levelFree)

(* getOrCreatePriceLevel() finds the level or takes one from the pool.     *)
RestOrder ==
  /\ pc = "settle"
  /\ Rests /\ ~NoLevelLeft
  /\ LET o   == orders[taker]
         new == OwnLevel = Null
         l   == IF new THEN AllocatedSlot(levelFree) ELSE OwnLevel
         lvl == IF new THEN NewLevel(o.price) ELSE levels[l]
     IN  /\ levelFree' = IF new THEN Allocate(levelFree) ELSE levelFree
         /\ levels' = [levels EXCEPT ![l] = AppendOrder(lvl, taker, o.remaining)]
         /\ orders' = [orders EXCEPT ![taker].level = l]
         /\ book' = [book EXCEPT ![o.side][o.price] = l]
         /\ orderMap' = [orderMap EXCEPT ![o.id] = taker]
  /\ Return("added")
  /\ UNCHANGED <<orderFree, statVars>>

(* Mutant of LevelPoolThrows: the pool waits for a level to come back.     *)
WaitsForLevel ==
  /\ pc = "settle"
  /\ Rests /\ NoLevelLeft
  /\ UNCHANGED vars

(***************************************************************************)
(* levelPool_.allocate() throws out of addOrder(): the trades stay made,   *)
(* the events are lost and the order's slot is not returned to the pool.   *)
(***************************************************************************)
LevelPoolThrows ==
  /\ pc = "settle"
  /\ Rests /\ NoLevelLeft
  /\ Return("threw")
  /\ UNCHANGED <<heapVars, mapVars, statVars>>

(* Mutant of DiscardOrder: the order is dropped and its slot kept.         *)
ForgetOrder ==
  /\ pc = "settle"
  /\ ~Rests
  /\ Return("added")
  /\ UNCHANGED <<heapVars, mapVars, statVars>>

(* A filled order, or the rest of one that may not rest, is deallocated.   *)
DiscardOrder ==
  /\ pc = "settle"
  /\ ~Rests
  /\ orders' = [orders EXCEPT ![taker] = Dead]
  /\ orderFree' = Deallocate(orderFree, taker)
  /\ Return("added")
  /\ UNCHANGED <<levels, levelFree, mapVars, statVars>>

-----------------------------------------------------------------------------
(***************************************************************************)
(* cancelOrder().  Its test of priceLevelPtr is not a branch here: an order  *)
(* of the map always has its level (OrdersConsistent).                     *)
(***************************************************************************)
CancelUnknown(id) ==
  /\ pc = "idle"
  /\ orderMap[id] = Null
  /\ Return("unknown")
  /\ UNCHANGED <<heapVars, mapVars, statVars>>

CancelOrder(id) ==
  /\ pc = "idle"
  /\ orderMap[id] # Null
  /\ LET s == orderMap[id]
         o == orders[s]
         lvl == RemoveOrder(levels[o.level], s, o.remaining)
     IN  /\ \/ /\ IsEmptyLevel(lvl)
               /\ book' = [book EXCEPT ![o.side][o.price] = Null]
               /\ levels' = [levels EXCEPT ![o.level] = Dead]
               /\ levelFree' = Deallocate(levelFree, o.level)
            \/ /\ ~IsEmptyLevel(lvl)
               /\ levels' = [levels EXCEPT ![o.level] = lvl]
               /\ UNCHANGED <<book, levelFree>>
         /\ orders' = [orders EXCEPT ![s] = Dead]
         /\ orderFree' = Deallocate(orderFree, s)
  /\ orderMap' = [orderMap EXCEPT ![id] = Null]
  /\ Return("cancelled")
  /\ UNCHANGED statVars

-----------------------------------------------------------------------------
(***************************************************************************)
(* ~OrderBook(): the orders in the map go back to their pool, then the     *)
(* levels of both sides.  Nothing runs between these steps or after them,  *)
(* so they are one step and each container is emptied in some order.       *)
(***************************************************************************)
MappedSlots == {orderMap[id] : id \in OrderId} \ {Null}

(* The levels of both maps; the mutant forgets asks_.                      *)
BidLevels == {l \in LevelSlots : \E p \in Price : book["BUY"][p] = l}
BookedLevels ==
  {l \in LevelSlots : \E side \in Side, p \in Price : book[side][p] = l}

Destroy ==
  /\ pc = "idle"
  /\ orderFree' = orderFree \o SetToSeq(MappedSlots)
  /\ orders' = [s \in OrderSlots |-> IF s \in MappedSlots THEN Dead ELSE orders[s]]
  /\ orderMap' = [id \in OrderId |-> Null]
  /\ levelFree' = levelFree \o SetToSeq(BookedLevels)
  /\ levels' = [l \in LevelSlots |-> IF l \in BookedLevels THEN Dead ELSE levels[l]]
  /\ book' = [side \in Side |-> [p \in Price |-> Null]]
  /\ pc' = "destroyed" /\ outcome' = "none"
  /\ UNCHANGED <<statVars, taker, cursor, maker, matches>>

-----------------------------------------------------------------------------
(* The caller's choice of the next call.                                   *)
Call ==
  \/ \E id \in OrderId, qty \in Quantity :
       \/ RejectOrder(id, qty)
       \/ OrderPoolThrows(id, qty)
       \/ \E side \in Side, price \in Price, type \in OrderType :
            AcceptOrder(id, side, price, qty, type)
  \/ \E id \in OrderId : CancelUnknown(id) \/ CancelOrder(id)
  \/ Destroy

(* The call in progress.                                                   *)
Step ==
  \/ StopMatching \/ EnterLevel \/ FillMaker \/ LeaveLevel
  \/ RestOrder \/ LevelPoolThrows \/ DiscardOrder

Next == Call \/ Step

(* A call runs to its end: nothing in it waits.                            *)
Spec == Init /\ [][Next]_vars /\ WF_vars(Step)
-----------------------------------------------------------------------------
(***************************************************************************)
(* Properties.                                                             *)
(***************************************************************************)

(* Every variable has its type.  A slot is Dead or holds an object of its  *)
(* pool; the locals of a call are set exactly while the code uses them.    *)
TypeOK ==
  /\ orders \in [OrderSlots -> Order \cup {Dead}]
  /\ orderFree \in Seq(OrderSlots)
  /\ levels \in [LevelSlots -> Level \cup {Dead}]
  /\ levelFree \in Seq(LevelSlots)
  /\ book \in [Side -> [Price -> LevelSlots \cup {Null}]]
  /\ orderMap \in [OrderId -> OrderSlots \cup {Null}]
  /\ totalTrades \in 0 .. CounterMod - 1
  /\ totalVolume \in 0 .. CounterMod - 1
  /\ pc \in {"idle", "level", "maker", "settle", "destroyed"}
  /\ taker \in OrderSlots \cup {Null}
  /\ cursor \in Price \cup {End}
  /\ maker \in OrderSlots \cup {Null}
  /\ matches \in Seq(MatchEvent)
  /\ outcome \in {"none", "added", "rejected", "threw", "cancelled", "unknown"}

(* No slot is handed out twice: the free lists of both pools list each     *)
(* unused slot once and no slot in use, whatever was filled or cancelled.  *)
PoolsConsistent ==
  /\ FreeListMatchesHeap(orderFree, orders, Dead)
  /\ FreeListMatchesHeap(levelFree, levels, Dead)

(* What orderMap_ finds is a live LIMIT order with something left, linked  *)
(* in the level that bids_ or asks_ has for its side and price.            *)
OrdersConsistent ==
  \A id \in OrderId :
    orderMap[id] # Null =>
      LET s == orderMap[id]
          o == orders[s]
      IN  /\ s # taker
          /\ o # Dead
          /\ o.id = id /\ o.type = "LIMIT" /\ o.remaining > 0
          /\ o.level # Null /\ book[o.side][o.price] = o.level
          /\ s \in ToSet(levels[o.level].queue)

(* What bids_ and asks_ find is a live level of that price, whose orders   *)
(* are distinct, know the level, and are in the map; only the level a call *)
(* is consuming may be empty.                                              *)
LevelsConsistent ==
  \A side \in Side, p \in Price :
    book[side][p] # Null =>
      LET l == book[side][p]
          q == levels[l].queue
      IN  /\ levels[l] # Dead
          /\ levels[l].price = p
          /\ q = <<>> => pc = "maker" /\ side = MakerSide /\ p = cursor
          /\ IsInjective(q)
          /\ \A s \in ToSet(q) :
               /\ orders[s] # Dead
               /\ orders[s].side = side /\ orders[s].price = p
               /\ orders[s].level = l
               /\ orderMap[orders[s].id] = s

(* No two keys of the maps share a level.                                  *)
LevelsOwned ==
  \A side1, side2 \in Side, p1, p2 \in Price :
    book[side1][p1] # Null /\ book[side1][p1] = book[side2][p2] =>
      side1 = side2 /\ p1 = p2

(* No live level is forgotten: each is the value of a key of the maps.     *)
LevelsReachable ==
  \A l \in LevelSlots :
    levels[l] # Dead => \E side \in Side, p \in Price : book[side][p] = l

(* The structural consistency of the book, as one invariant.               *)
BookConsistent ==
  /\ PoolsConsistent
  /\ OrdersConsistent
  /\ LevelsConsistent /\ LevelsOwned /\ LevelsReachable

(* The locals of addOrder() never dangle: the incoming order is live and   *)
(* its id free until it rests; the iterator is at a key that exists; and   *)
(* makerOrder, read from ->next before its predecessor was destroyed, is a *)
(* live order of the level being consumed: its oldest, as long as there is *)
(* something left to fill.                                                 *)
LocalsConsistent ==
  /\ taker = Null <=> pc \in {"idle", "destroyed"}
  /\ taker # Null => /\ orders[taker] # Dead
                     /\ orders[taker].level = Null
                     /\ orderMap[orders[taker].id] = Null
  /\ pc = "level" => cursor = End \/ CursorLevel # Null
  /\ pc = "maker" =>
       /\ cursor # End /\ CursorLevel # Null
       /\ maker # Null => maker \in ToSet(levels[CursorLevel].queue)
       /\ orders[taker].remaining > 0 => maker = HeadOfLevel(levels[CursorLevel])

(* The book never stays crossed, not even inside a call: every bid is      *)
(* below every ask, so getSpread() answers whenever both sides exist.      *)
NoCrossedBook ==
  \A b \in Occupied("BUY"), a \in Occupied("SELL") : b < a

(* The iterator the matching loop steps is the best price of the other     *)
(* side whenever the incoming order can still trade: erasing an exhausted  *)
(* level and moving on skips no level and revisits none.  So an order that *)
(* is about to rest has nothing left that it could take.                   *)
CursorAtBest ==
  /\ pc = "level" /\ orders[taker].remaining > 0 =>
       First(MakerSide, Occupied(MakerSide), cursor)
  /\ pc = "maker" => First(MakerSide, Occupied(MakerSide), cursor)
  /\ pc = "settle" /\ Rests =>
       \A p \in Occupied(MakerSide) :
         TooExpensive(orders[taker].side, orders[taker].price, p)

(* The sum of the values of f.                                             *)
SumOf(f) == MapThenSumSet(LAMBDA x : f[x], DOMAIN f)

WithinLimit(order, price) ==
  order.type = "LIMIT" =>
    IF order.side = "BUY" THEN price <= order.price ELSE price >= order.price

(* The events collected for the caller account for the incoming order:     *)
(* they add up to what it has been filled, name distinct makers, all but   *)
(* the last of them off the book, at prices that never improve and that    *)
(* its limit allows.                                                       *)
EventsAccountForTaker ==
  taker # Null =>
    LET o == orders[taker]
    IN  /\ SumOf([i \in DOMAIN matches |-> matches[i].qty])
             = o.quantity - o.remaining
        /\ \A i \in DOMAIN matches :
             /\ matches[i].taker = o.id /\ matches[i].qty > 0
             /\ WithinLimit(o, matches[i].price)
             /\ i < Len(matches) => orderMap[matches[i].maker] = Null
             /\ \A j \in i + 1 .. Len(matches) :
                  /\ matches[i].maker # matches[j].maker
                  /\ ~Before(Opposite(o.side), matches[j].price, matches[i].price)

(* What waits on a side of the book.                                       *)
QueuedSlots(side) ==
  UNION {ToSet(levels[book[side][p]].queue) : p \in Occupied(side)}
RestingVolume(side) == SumOf([s \in QueuedSlots(side) |-> orders[s].remaining])

(* Trading neither creates nor destroys quantity: in every step of a match *)
(* the traded-volume counter grows by what the incoming order loses, which *)
(* is what the other side of the book loses; its own side is untouched.    *)
TradeStep(side, lost) ==
  /\ totalVolume' = (totalVolume + lost) % CounterMod
  /\ RestingVolume(Opposite(side))' = RestingVolume(Opposite(side)) - lost
  /\ RestingVolume(side)' = RestingVolume(side)
TradesConserveQuantity ==
  [][\A side \in Side :
       pc \in {"level", "maker"} /\ orders[taker].side = side =>
         TradeStep(side, orders[taker].remaining - orders[taker]'.remaining)]_vars

(* A level pool as large as the order pool, or as the number of prices in  *)
(* use, is never exhausted: levels are not empty, and never crossed.       *)
LevelPoolSuffices ==
  \/ Cardinality(LevelSlots) >= Cardinality(OrderSlots)
  \/ Cardinality(LevelSlots) >= Cardinality(Price)
  => ~(pc = "settle" /\ Rests /\ NoLevelLeft)

(* "Return all orders to pool" (OrderBook.cpp:11): after the destructor    *)
(* every slot of both pools is free.                                       *)
AllSlotsReturned ==
  pc = "destroyed" =>
    /\ Len(orderFree) = Cardinality(OrderSlots)
    /\ Len(levelFree) = Cardinality(LevelSlots)

(* An order whose slot nobody can reach or return.                         *)
Stranded ==
  {s \in OrderSlots : /\ orders[s] # Dead
                      /\ s # taker /\ \A id \in OrderId : orderMap[id] # s}

(* A slot is stranded by an addOrder() that throws, the new order's own    *)
(* slot, and by nothing else: no fill, rest, cancellation or refusal loses *)
(* an order, also on a book that has thrown before.                        *)
StrandedByThrowOnly ==
  [][Stranded' \ Stranded # {} => outcome' = "threw" /\ Stranded' \ Stranded = {taker}]_vars

(* Every call of addOrder() ends, whatever it meets.                       *)
CallReturns == pc \notin {"idle", "destroyed"} ~> pc \in {"idle", "destroyed"}
=============================================================================
