---------------------------- MODULE IntrusiveList ----------------------------
(***************************************************************************)
(* The lists of the price levels, down to their pointers: the orders of a  *)
(* level are linked through their own fields prev and next (Order.hpp),    *)
(* and the level points at the first and the last of them.                 *)
(*                                                                         *)
(* levels holds each level as PriceLevel and OrderBook see it; its queue   *)
(* is not in the code, but is what the pointers are there to represent.    *)
(* An order is linked by addOrder(), unlinked by cancelOrder(), or visited *)
(* and unlinked by the matching loop, which keeps a pointer of its own.    *)
(***************************************************************************)
EXTENDS PriceLevel

CONSTANTS
  Order,       \* the slots orders live in
  Level,       \* the price levels
  Quantity,    \* the quantities of orders that rest
  Null         \* nullptr

ASSUME IntrusiveListAssumption ==
  /\ Null \notin Order \cup Level
  /\ Quantity \subseteq 1 .. QtyMod - 1

VARIABLES
  levels,       \* price, totalVolume and the queue of each level
  head, tail,   \* the other fields of each level
  orderCount,
  prev, next,   \* the links of each order
  level,        \* its priceLevelPtr
  remaining,    \* its remainingQty
  matching,     \* the level the matching loop is in, or Null
  maker         \* its makerOrder

levelVars == <<levels, head, tail, orderCount>>
linkVars == <<prev, next, level>>
loopVars == <<matching, maker>>
vars == <<levelVars, linkVars, remaining, loopVars>>

Init ==
  /\ levels = [l \in Level |-> NewLevel(0)]
  /\ head = [l \in Level |-> Null] /\ tail = [l \in Level |-> Null]
  /\ orderCount = [l \in Level |-> 0]
  /\ prev = [o \in Order |-> Null] /\ next = [o \in Order |-> Null]
  /\ level = [o \in Order |-> Null]
  /\ remaining = [o \in Order |-> 0]
  /\ matching = Null /\ maker = Null

(* append(): behind the tail, or to an empty list.                         *)
Link(l, o) ==
  /\ level' = [level EXCEPT ![o] = l]
  /\ next' = [n \in Order |-> IF n = o THEN Null
                            ELSE IF n = tail[l] THEN o ELSE next[n]]
  /\ prev' = [prev EXCEPT ![o] = tail[l]]
  /\ head' = IF tail[l] = Null THEN [head EXCEPT ![l] = o] ELSE head
  /\ tail' = [tail EXCEPT ![l] = o]
  /\ orderCount' = [orderCount EXCEPT ![l] = @ + 1]

(* What tail becomes when o is unlinked, and a mutant that forgets it.     *)
TailKept(l, o) == tail
TailWithout(l, o) == IF next[o] = Null THEN [tail EXCEPT ![l] = prev[o]] ELSE tail

(* remove(): o's neighbours are linked to each other, or the level's ends  *)
(* moved, and o's own pointers cleared.                                    *)
Unlink(l, o) ==
  /\ next' = [n \in Order |-> IF n = o THEN Null
                            ELSE IF n = prev[o] THEN next[o] ELSE next[n]]
  /\ prev' = [n \in Order |-> IF n = o THEN Null
                            ELSE IF n = next[o] THEN prev[o] ELSE prev[n]]
  /\ head' = IF prev[o] = Null THEN [head EXCEPT ![l] = next[o]] ELSE head
  /\ tail' = TailWithout(l, o)
  /\ orderCount' = [orderCount EXCEPT ![l] = IF @ > 0 THEN @ - 1 ELSE @]
  /\ level' = [level EXCEPT ![o] = Null]

-----------------------------------------------------------------------------
(* addOrder() lets a new order rest.                                       *)
Rest(l, o, qty) ==
  /\ matching = Null /\ level[o] = Null
  /\ Link(l, o)
  /\ remaining' = [remaining EXCEPT ![o] = qty]
  /\ levels' = [levels EXCEPT ![l] = AppendOrder(@, o, qty)]
  /\ UNCHANGED loopVars

(* cancelOrder(), anywhere in the list.                                    *)
Cancel(o) ==
  /\ matching = Null /\ level[o] # Null
  /\ Unlink(level[o], o)
  /\ remaining' = [remaining EXCEPT ![o] = 0]
  /\ levels' = [levels EXCEPT ![level[o]] = RemoveOrder(@, o, remaining[o])]
  /\ UNCHANGED loopVars

EnterLevel(l) ==
  /\ matching = Null /\ levels[l].queue # <<>>
  /\ matching' = l /\ maker' = head[l]
  /\ UNCHANGED <<levelVars, linkVars, remaining>>

(* nextMaker, read before the order is unlinked; the mutant reads it after.*)
NextAfterwards == next'[maker]
NextMaker == next[maker]

(* The maker is filled in part, which ends the loop, or to the end; then   *)
(* the loop goes on if there is something left to fill.                    *)
FillPart(qty) ==
  /\ matching # Null /\ maker # Null /\ qty < remaining[maker]
  /\ remaining' = [remaining EXCEPT ![maker] = @ - qty]
  /\ levels' = [levels EXCEPT ![matching] = DeductVolume(@, qty)]
  /\ matching' = Null /\ maker' = Null
  /\ UNCHANGED <<head, tail, orderCount, linkVars>>

FillWhole(goesOn) ==
  /\ matching # Null /\ maker # Null
  /\ Unlink(matching, maker)
  /\ remaining' = [remaining EXCEPT ![maker] = 0]
  /\ levels' = [levels EXCEPT ![matching] =
                  RemoveOrder(DeductVolume(@, remaining[maker]), maker, 0)]
  /\ matching' = IF goesOn THEN matching ELSE Null
  /\ maker' = IF goesOn THEN NextMaker ELSE Null

LeaveLevel ==
  /\ matching # Null /\ maker = Null
  /\ matching' = Null
  /\ UNCHANGED <<levelVars, linkVars, remaining, maker>>

Next ==
  \/ \E l \in Level, o \in Order, qty \in Quantity : Rest(l, o, qty)
  \/ \E o \in Order : Cancel(o)
  \/ \E l \in Level : EnterLevel(l)
  \/ \E qty \in Quantity : FillPart(qty)
  \/ \E goesOn \in BOOLEAN : FillWhole(goesOn)
  \/ LeaveLevel

Spec == Init /\ [][Next]_vars

-----------------------------------------------------------------------------
(***************************************************************************)
(* Properties.                                                             *)
(***************************************************************************)
TypeOK ==
  /\ levels \in [Level -> [price : {0}, totalVolume : 0 .. QtyMod - 1,
                           queue : Seq(Order)]]
  /\ head \in [Level -> Order \cup {Null}]
  /\ tail \in [Level -> Order \cup {Null}]
  /\ orderCount \in [Level -> Nat]
  /\ prev \in [Order -> Order \cup {Null}]
  /\ next \in [Order -> Order \cup {Null}]
  /\ level \in [Order -> Level \cup {Null}]
  /\ remaining \in [Order -> 0 .. QtyMod - 1]
  /\ matching \in Level \cup {Null} /\ maker \in Order \cup {Null}

(* The queue's element at i; there is none before the first, or after the  *)
(* last.                                                                   *)
At(q, i) == IF i \in 1 .. Len(q) THEN q[i] ELSE Null

(* The pointers represent the queue: head and tail are its ends, the links *)
(* lead from each order to its neighbours, the count is its length, and an *)
(* order knows the level it is in.  What each operator of PriceLevel does  *)
(* to the queue is what append() and remove() do to the list.              *)
Represents(l) ==
  LET q == levels[l].queue
  IN  /\ head[l] = At(q, 1) /\ tail[l] = At(q, Len(q))
      /\ orderCount[l] = Len(q)
      /\ \A i \in 1 .. Len(q) :
           /\ level[q[i]] = l
           /\ next[q[i]] = At(q, i + 1) /\ prev[q[i]] = At(q, i - 1)

(* An order is in the queue its priceLevelPtr says, once; an order in none *)
(* has no pointers, so that its slot can be used again.                    *)
InOneQueue(o) ==
  IF level[o] = Null
  THEN next[o] = Null /\ prev[o] = Null
  ELSE \E i \in DOMAIN levels[level[o]].queue : levels[level[o]].queue[i] = o

ListsRepresentQueues ==
  /\ \A l \in Level : Represents(l) /\ IsInjective(levels[l].queue)
  /\ \A o \in Order : InOneQueue(o)

(* The matching loop visits the orders of a level oldest first and misses  *)
(* none: its pointer, read from an order before that order is unlinked and *)
(* destroyed, is the oldest of what is left, and is null when nothing is.  *)
MakerIsOldest ==
  matching # Null => maker = At(levels[matching].queue, 1)
=============================================================================
