------------------------------ MODULE MCSession ------------------------------
(***************************************************************************)
(* An instance of Session for TLC.                                         *)
(***************************************************************************)
EXTENDS Session

FrameOf(magic, type, length, payload) ==
  [header |-> [magic |-> magic, type |-> type, length |-> length],
   payload |-> payload]

(* Every kind of frame a session tells apart, with lengths at and past the *)
(* limit.                                                                  *)
EveryKind ==
  {FrameOf(TRUE, type, 0, NoPayload) :
     type \in {"PING", "DATA_STREAM", "DISCONNECT"}}
  \cup {FrameOf(TRUE, "ECHO_REQUEST", length, p) :
          length \in {MaxPayloadSize, MaxPayloadSize + 1}, p \in Payload}
  \cup {FrameOf(FALSE, "PING", 0, NoPayload)}
=============================================================================
