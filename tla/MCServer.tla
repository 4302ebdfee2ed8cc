------------------------------- MODULE MCServer -------------------------------
(***************************************************************************)
(* An instance of Server for TLC.  Sessions are interchangeable, but a     *)
(* symmetry is not used together with the liveness properties; workers are *)
(* not, since stop() joins them in order.                                  *)
(***************************************************************************)
EXTENDS Server
=============================================================================
