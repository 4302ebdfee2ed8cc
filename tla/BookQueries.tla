---------------------------- MODULE BookQueries ----------------------------
(***************************************************************************)
(* What the engine tells about the book between two calls: getBestBid(),   *)
(* getBestAsk(), getSpread(), getActiveOrdersCount() and printBook().  None  *)
(* of them changes it.                                                     *)
(***************************************************************************)
EXTENDS OrderBookRefinement

(* bids_ and asks_ as an iterator walks them, from begin() on.             *)
Walk(side) ==
  CHOOSE w \in [1 .. Cardinality(Occupied(side)) -> Occupied(side)] :
    \A i, j \in DOMAIN w : i < j => Before(side, w[i], w[j])

Line(side, p) == [price |-> p, qty |-> levels[book[side][p]].totalVolume]

(* No answer is not an answer.                                             *)
ASSUME NoAnswerAssumption == Null \notin [price : Price, qty : Qty] \cup Nat

(* getBestBid() and getBestAsk(): what begin() points at, or no answer.    *)
Quote(side) == IF Occupied(side) = {} THEN Null
                                      ELSE Line(side, Head(Walk(side)))

(* getSpread(): no answer unless both sides are there and not crossed.     *)
Spread ==
  IF \/ Quote("BUY") = Null \/ Quote("SELL") = Null
     \/ Quote("SELL").price < Quote("BUY").price
    THEN Null ELSE Quote("SELL").price - Quote("BUY").price

(* getActiveOrdersCount().                                                 *)
ActiveOrders == Cardinality({id \in OrderId : orderMap[id] # Null})

(* askList printed from its back, and the mutant that forgets to.          *)
AsCollected(lines) == lines
TopDown(lines) == Reverse(lines)

(* printBook(): the first n levels of a side, the asks highest first.      *)
FirstLines(side, n) ==
  [i \in 1 .. Smaller(n, Cardinality(Occupied(side))) |->
     Line(side, Walk(side)[i])]
printBook(n) == [asks |-> TopDown(FirstLines("SELL", n)), spread |-> Spread,
                 bids |-> FirstLines("BUY", n)]

-----------------------------------------------------------------------------
(***************************************************************************)
(* Properties.                                                             *)
(***************************************************************************)

Waiting(side, p) == SumOf([i \in DOMAIN QueueAt(side, p) |-> QueueAt(side, p)[i].qty])

(* A quote is the best price the promised book offers and all that waits   *)
(* there to be traded, in whatever state the last call left the book, by   *)
(* an exception too; and while both sides offer something the spread is    *)
(* known, and positive, so that printBook() never says N/A of such a book. *)
(* The active orders counted are those that wait in some queue.            *)
QuotesAreTrue ==
  pc = "idle" =>
    /\ \A side \in Side :
         IF Quote(side) = Null
           THEN Promise!Offered(side) = {}
           ELSE /\ Promise!Best(side, Quote(side).price)
                /\ Quote(side).qty = Waiting(side, Quote(side).price)
    /\ \A p \in Promise!Offered("SELL"), q \in Promise!Offered("BUY") :
         Spread # Null /\ Spread \in 1 .. p - q
    /\ ActiveOrders = Cardinality({id \in OrderId : Promise!Resting(id) # {}})

(* The printed market depth reads from the highest ask down to the lowest  *)
(* bid without a price twice or out of place; what it cuts off on a side   *)
(* is worse than what it shows; and the volume of each line, which append, *)
(* fills and remove() keep by three separate updates, is what waits there. *)
DepthReadsDown ==
  pc = "idle" =>
    \A n \in 0 .. Cardinality(Price) :
      LET depth == printBook(n)
          all   == depth.asks \o depth.bids
          Shown(lines) == {lines[i].price : i \in DOMAIN lines}
          Cut(side, lines) ==
            LET left == Promise!Offered(side) \ Shown(lines)
            IN  /\ Shown(lines) \subseteq Promise!Offered(side)
                /\ \A i \in DOMAIN lines :
                     lines[i].qty = Waiting(side, lines[i].price)
                /\ left # {} => Cardinality(Shown(lines)) = n
                /\ \A p \in Shown(lines), q \in left : Promise!Better(side, p, q)
      IN  /\ \A i, j \in DOMAIN all : i < j => all[i].price > all[j].price
          /\ Cut("SELL", depth.asks) /\ Cut("BUY", depth.bids)
=============================================================================
