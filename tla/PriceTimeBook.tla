--------------------------- MODULE PriceTimeBook ---------------------------
(***************************************************************************)
(* What the matching engine promises its caller, without pools, pointers   *)
(* or iterators: a limit order book with price-time priority.              *)
(*                                                                         *)
(* The orders resting on a side at a price are a queue, oldest first.  At  *)
(* most one incoming order is being matched; it trades with the oldest     *)
(* order at the best price of the other side, as long as its limit allows  *)
(* that price, and only then may it rest or be dropped.                    *)
(***************************************************************************)
EXTENDS Naturals, Sequences, SequencesExt

CONSTANTS OrderId, Price, Quantity, None

VARIABLES
  queue,     \* side -> price -> sequence of [id, qty]
  incoming,  \* the order being matched, or None
  answer,    \* how the last call ended, "none" during one
  closed     \* the book was destroyed

vars == <<queue, incoming, answer, closed>>

Side == {"BUY", "SELL"}
Other(side) == IF side = "BUY" THEN "SELL" ELSE "BUY"

(* Price p is worth more than q to whoever takes from side.                *)
Better(side, p, q) == IF side = "BUY" THEN p > q ELSE p < q

Offered(side) == {p \in Price : queue[side][p] # <<>>}
Best(side, p) ==
  p \in Offered(side) /\ \A q \in Offered(side) \ {p} : Better(side, p, q)

(* The resting places of an id.                                            *)
Resting(id) ==
  {r \in {<<s, p>> : s \in Side, p \in Price} :
     \E i \in DOMAIN queue[r[1]][r[2]] : queue[r[1]][r[2]][i].id = id}

(* An incoming order may take price p of the other side.                   *)
Takes(order, p) ==
  order.type = "LIMIT" =>
    IF order.side = "BUY" THEN p <= order.price ELSE p >= order.price

Init ==
  /\ queue = [s \in Side |-> [p \in Price |-> <<>>]]
  /\ incoming = None
  /\ answer = "none"
  /\ closed = FALSE

Idle == incoming = None /\ ~closed

Submit(id, side, price, qty, type) ==
  /\ Idle
  /\ qty > 0 /\ Resting(id) = {}
  /\ incoming' = [id |-> id, side |-> side, price |-> price, qty |-> qty,
                  type |-> type]
  /\ answer' = "none"
  /\ UNCHANGED <<queue, closed>>

(* A zero quantity or a duplicate id is refused ...                        *)
Refuse(id, qty) ==
  /\ Idle
  /\ qty = 0 \/ Resting(id) # {}
  /\ answer' = "rejected"
  /\ UNCHANGED <<queue, incoming, closed>>

(* ... and a call may fail for want of memory, changing nothing.           *)
Fail ==
  /\ Idle
  /\ answer' = "threw"
  /\ UNCHANGED <<queue, incoming, closed>>

Trade(p) ==
  /\ incoming # None
  /\ incoming.qty > 0
  /\ Best(Other(incoming.side), p) /\ Takes(incoming, p)
  /\ LET side == Other(incoming.side)
         q    == queue[side][p]
         fill == IF incoming.qty < q[1].qty THEN incoming.qty ELSE q[1].qty
     IN  /\ incoming' = [incoming EXCEPT !.qty = @ - fill]
         /\ queue' = [queue EXCEPT ![side][p] =
                        IF fill = q[1].qty THEN Tail(q)
                                           ELSE [q EXCEPT ![1].qty = @ - fill]]
  /\ UNCHANGED <<answer, closed>>

Exhausted ==
  \/ incoming.qty = 0
  \/ \A p \in Offered(Other(incoming.side)) : ~Takes(incoming, p)

(* The end of a submission: rest with what is left of a LIMIT order, or go.*)
Finish ==
  /\ incoming # None
  /\ Exhausted
  /\ queue' = IF incoming.qty > 0 /\ incoming.type = "LIMIT"
                THEN [queue EXCEPT ![incoming.side][incoming.price] =
                        Append(@, [id |-> incoming.id, qty |-> incoming.qty])]
                ELSE queue
  /\ incoming' = None
  /\ answer' = "added"
  /\ UNCHANGED closed

(* A resting order leaves its queue; the others keep their order.          *)
Cancel(id) ==
  /\ Idle
  /\ \E r \in Resting(id) :
       \E i \in DOMAIN queue[r[1]][r[2]] :
         /\ queue[r[1]][r[2]][i].id = id
         /\ queue' = [queue EXCEPT ![r[1]][r[2]] = RemoveAt(@, i)]
  /\ answer' = "cancelled"
  /\ UNCHANGED <<incoming, closed>>

CancelNothing(id) ==
  /\ Idle
  /\ Resting(id) = {}
  /\ answer' = "unknown"
  /\ UNCHANGED <<queue, incoming, closed>>

Close ==
  /\ Idle
  /\ closed' = TRUE
  /\ queue' = [s \in Side |-> [p \in Price |-> <<>>]]
  /\ answer' = "none"
  /\ UNCHANGED incoming

Next ==
  \/ \E id \in OrderId, qty \in Quantity :
       \/ Refuse(id, qty)
       \/ \E side \in Side, price \in Price, type \in {"LIMIT", "MARKET", "CANCEL"} :
            Submit(id, side, price, qty, type)
  \/ Fail
  \/ \E p \in Price : Trade(p)
  \/ Finish
  \/ \E id \in OrderId : Cancel(id) \/ CancelNothing(id)
  \/ Close

Spec == Init /\ [][Next]_vars
=============================================================================
