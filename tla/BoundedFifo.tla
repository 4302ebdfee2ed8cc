----------------------------- MODULE BoundedFifo -----------------------------
(***************************************************************************)
(* What a bounded queue promises to one sender and one receiver: items     *)
(* come out in the order they went in, each once and unchanged, and at     *)
(* most Capacity of them are inside.  Either thread may be turned away at  *)
(* any time: it may not yet have learned what the other one did.           *)
(***************************************************************************)
EXTENDS Naturals, Sequences

CONSTANTS Item, Capacity, Nothing

VARIABLES
  queue,      \* the items inside, oldest first
  pushed,     \* the last answer of emplace()
  popped      \* what the last pop() handed out, or Nothing

vars == <<queue, pushed, popped>>

Init == queue = <<>> /\ pushed = FALSE /\ popped = Nothing

Put(item) ==
  /\ Len(queue) < Capacity
  /\ queue' = Append(queue, item)
  /\ pushed' = TRUE
  /\ UNCHANGED popped

RefusePut == pushed' = FALSE /\ UNCHANGED <<queue, popped>>

Get ==
  /\ queue # <<>>
  /\ popped' = Head(queue)
  /\ queue' = Tail(queue)
  /\ UNCHANGED pushed

RefuseGet == popped' = Nothing /\ UNCHANGED <<queue, pushed>>

Next == (\E item \in Item : Put(item)) \/ RefusePut \/ Get \/ RefuseGet

Spec == Init /\ [][Next]_vars
=============================================================================
