----------------------------- MODULE EchoService -----------------------------
(***************************************************************************)
(* What a connection of the server promises its client: requests are taken *)
(* in the order they were sent, up to the first one that is not well       *)
(* formed; each is answered as its type demands; and what is written back  *)
(* are these answers, whole, in order and once, until the connection       *)
(* closes.  A request may still be taken then, but is not answered.        *)
(***************************************************************************)
EXTENDS Integers, Sequences

CONSTANTS
  Requests,         \* the frames a client sends
  NoPayload,        \* an empty payload
  MaxPayloadSize    \* the size of the largest payload allowed

VARIABLES
  sent,           \* the frames sent so far
  taken,          \* how many of them were taken
  promised,       \* the answers to these
  written,        \* the answers written back
  open            \* the connection is open

vars == <<sent, taken, promised, written, open>>

WellFormed(f) == f.header.magic /\ f.header.length \in 0 .. MaxPayloadSize

(* The answers to a frame: one, or none.                                   *)
Answer(f) ==
  CASE f.header.type = "PING" ->
         <<[type |-> "PONG", payload |-> NoPayload]>>
    [] f.header.type = "ECHO_REQUEST" ->
         <<[type |-> "ECHO_RESPONSE", payload |-> f.payload]>>
    [] OTHER -> <<>>

Init ==
  /\ sent = <<>> /\ taken = 0
  /\ promised = <<>> /\ written = <<>>
  /\ open = TRUE

Send(f) ==
  /\ sent' = Append(sent, f)
  /\ UNCHANGED <<taken, promised, written, open>>

Take ==
  /\ taken < Len(sent)
  /\ \A i \in 1 .. taken + 1 : WellFormed(sent[i])
  /\ taken' = taken + 1
  /\ promised' = promised \o Answer(sent[taken + 1])
  /\ UNCHANGED <<sent, written, open>>

Write ==
  /\ open
  /\ Len(written) < Len(promised)
  /\ written' = Append(written, promised[Len(written) + 1])
  /\ UNCHANGED <<sent, taken, promised, open>>

Close ==
  /\ open /\ open' = FALSE
  /\ UNCHANGED <<sent, taken, promised, written>>

Next == (\E f \in Requests : Send(f)) \/ Take \/ Write \/ Close

Spec == Init /\ [][Next]_vars
=============================================================================
