---------------------------- MODULE SessionManager ----------------------------
(***************************************************************************)
(* SessionManager of 01_AsyncNet_Server: the set of live sessions, shared  *)
(* by all threads under one mutex.  addSession() and removeSession() do    *)
(* nothing under the mutex that could wait, so each is one step taken when *)
(* the mutex is free; stopAll() calls each session's stop() and is a step  *)
(* for each.                                                               *)
(*                                                                         *)
(* totalMessagesProcessed_ is an atomic counter that nothing reads back;   *)
(* Session counts what it adds to it.                                      *)
(***************************************************************************)
CONSTANTS
  SessionId,    \* the sessions that can come into being
  Nobody        \* neither a thread nor a session

VARIABLES
  sessions,     \* sessions_
  mutex,        \* the thread that holds mutex_, or Nobody
  toStop        \* where stopAll() is: the sessions it has yet to visit

managerVars == <<sessions, mutex, toStop>>

ManagerInit == sessions = {} /\ mutex = Nobody /\ toStop = {}

addSession(s) ==
  /\ mutex = Nobody
  /\ sessions' = sessions \cup {s}
  /\ UNCHANGED <<mutex, toStop>>

(* Mutant of removeSession: it does not wait for the mutex.                *)
tryRemoveSession(s) ==
  /\ sessions' = IF mutex = Nobody THEN sessions \ {s} ELSE sessions
  /\ UNCHANGED <<mutex, toStop>>

removeSession(s) ==
  /\ mutex = Nobody
  /\ sessions' = sessions \ {s}
  /\ UNCHANGED <<mutex, toStop>>

(* What becomes of the mutex after stopAll(); the mutant keeps it.         *)
StillHeld == mutex
Unlocked == Nobody

StopAllBegins(thread) ==
  /\ mutex = Nobody
  /\ mutex' = thread
  /\ toStop' = sessions
  /\ UNCHANGED sessions

StopAllVisits(s) ==
  /\ s \in toStop
  /\ toStop' = toStop \ {s}
  /\ UNCHANGED <<sessions, mutex>>

StopAllEnds ==
  /\ toStop = {}
  /\ sessions' = {}
  /\ mutex' = Unlocked
  /\ UNCHANGED toStop
=============================================================================
