----------------------------- MODULE SessionLife -----------------------------
(***************************************************************************)
(* How sessions and those that own them deal with each other, seen from    *)
(* neither side: a session is added to the manager before it can be told   *)
(* to stop or have started, once; it is not dropped before it was told to  *)
(* stop; and it closes only when it was told.  Session implements this for *)
(* one session among arbitrary others, Server for all of them among the    *)
(* threads that run them.                                                  *)
(***************************************************************************)
VARIABLES
  added,      \* the sessions the manager holds
  started,    \* those start() was called for
  told,       \* those stop() was called for
  closed      \* those whose stop handler has closed the socket

vars == <<added, started, told, closed>>

Init == added = {} /\ started = {} /\ told = {} /\ closed = {}

(* One step may tell and drop, or close and drop, several sessions.        *)
Next ==
  /\ (added' \ added) \cap (started \cup told) = {}
  /\ added \ added' \subseteq told'
  /\ started \subseteq started' /\ started' \ started \subseteq added \cup told
  /\ told \subseteq told' /\ told' \ told \subseteq added \cup started
  /\ closed \subseteq closed' /\ closed' \subseteq told'

Spec == Init /\ [][Next]_vars
=============================================================================
