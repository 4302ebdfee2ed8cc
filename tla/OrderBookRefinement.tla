------------------------ MODULE OrderBookRefinement ------------------------
(***************************************************************************)
(* The engine of OrderBook implements the promise of PriceTimeBook.        *)
(***************************************************************************)
EXTENDS OrderBook

(* The queue the caller sees behind a key of bids_ or asks_.               *)
QueueAt(side, p) ==
  IF book[side][p] # Null
    THEN LET q == levels[book[side][p]].queue
         IN  [i \in 1 .. Len(q) |-> [id  |-> orders[q[i]].id,
                                     qty |-> orders[q[i]].remaining]]
    ELSE <<>>

Incoming ==
  IF taker = Null THEN Null
  ELSE [id |-> orders[taker].id, side |-> orders[taker].side,
        price |-> orders[taker].price, qty |-> orders[taker].remaining,
        type |-> orders[taker].type]

(* What stands for "no incoming order" is not one.                         *)
ASSUME IncomingAssumption ==
  Null \notin [id : OrderId, side : Side, price : Price, qty : Qty, type : OrderType]

Promise == INSTANCE PriceTimeBook WITH
  queue    <- [side \in Side |-> [p \in Price |-> QueueAt(side, p)]],
  incoming <- Incoming,
  answer   <- outcome,
  closed   <- pc = "destroyed",
  None     <- Null

(***************************************************************************)
(* Every trade of matchBuyOrder() and matchSellOrder() is with the oldest  *)
(* order at the best price, an order rests only when nothing it may take   *)
(* is left, a cancellation removes that order and keeps the others' turns, *)
(* and the answers of addOrder() and cancelOrder() tell the truth.         *)
(***************************************************************************)
KeepsPriceTimePriority == Promise!Spec
=============================================================================
