------------------------------- MODULE Server -------------------------------
(***************************************************************************)
(* 01_AsyncNet_Server as a whole (Server.cpp, main.cpp): the main thread,  *)
(* the worker threads that run the io_context, the acceptor, the signal    *)
(* handler and the sessions, of which only what Session says of their life *)
(* is kept (SessionLife): being accepted, added to the manager, started,   *)
(* told to stop and stopped.                                               *)
(*                                                                         *)
(* Any worker runs any handler that is ready, but the handlers of one      *)
(* session one at a time (its strand).  pc says what each thread is about  *)
(* to do: a worker is "idle" while io_context::run() waits for a handler.  *)
(***************************************************************************)
EXTENDS Integers, Sequences, SessionManager

CONSTANTS
  PoolSize,       \* threadPoolSize_
  SpawnMayFail,   \* whether creating a worker thread may throw
  SignalMayCome   \* whether SIGINT or SIGTERM may come

Main == 0
Worker == 1 .. PoolSize
Thread == {Main} \cup Worker

ASSUME ServerAssumption ==
  /\ PoolSize \in Nat
  /\ SpawnMayFail \in BOOLEAN /\ SignalMayCome \in BOOLEAN
  /\ Nobody \notin Thread \cup SessionId

VARIABLES
  isRunning,       \* isRunning_
  workerThreads,   \* workerThreads_
  joined,          \* the workers that were joined
  stopLogged,      \* "successfully stopped" was logged
  acceptorOpen,    \* whether acceptor_ is open
  acceptState,     \* the outstanding async_accept
  arrived,         \* the session its socket is for, if it succeeded
  signal,          \* the outstanding signals_.async_wait
  contextStopped,  \* whether ioContext_ is stopped
  pc,              \* what each thread does next
  cur,             \* the session a worker's handler is about, or Nobody
  joinAt,          \* the index in workerThreads of a thread in stop()
  made,            \* the sessions constructed
  started,         \* those whose start() was called
  stopQueued,      \* those whose stop() has posted a handler that is queued
  isStopped        \* those whose stop handler has run

stopVars == <<isRunning, workerThreads, joined, stopLogged, joinAt>>
ioVars == <<acceptorOpen, acceptState, arrived, signal, contextStopped>>
sessionVars == <<made, started, stopQueued, isStopped>>
vars == <<managerVars, stopVars, ioVars, sessionVars, pc, cur>>

(* Mutant of AcceptSteps: the session is started before it is added.       *)
StartedFirst == <<"start", "add", "rearm">>

(* The accept handler's statements, in order.                              *)
AcceptSteps == <<"add", "start", "rearm">>
After(step) ==
  LET i == CHOOSE i \in DOMAIN AcceptSteps : AcceptSteps[i] = step
  IN  AcceptSteps[i + 1]

Goes(t, to) == pc' = [pc EXCEPT ![t] = to]

Init ==
  /\ ManagerInit
  /\ isRunning = FALSE /\ workerThreads = <<>> /\ joined = {}
  /\ stopLogged = FALSE /\ joinAt = [t \in Thread |-> 1]
  /\ acceptorOpen = TRUE /\ acceptState = "none" /\ arrived = Nobody
  /\ signal = "none" /\ contextStopped = FALSE
  /\ made = {} /\ started = {} /\ stopQueued = {} /\ isStopped = {}
  /\ pc = [t \in Thread |-> IF t = Main THEN "new" ELSE "unborn"]
  /\ cur = [t \in Thread |-> Nobody]

-----------------------------------------------------------------------------
(***************************************************************************)
(* start(), called by main() on a server just constructed.  An exception   *)
(* leaves it, and then the destructor calls stop().                        *)
(***************************************************************************)
SetRunning ==
  /\ pc[Main] = "new"
  /\ isRunning' = TRUE
  /\ Goes(Main, "accept")
  /\ UNCHANGED <<managerVars, workerThreads, joined, stopLogged, joinAt, ioVars,
                 sessionVars, cur>>

(* doAccept(): an operation on a closed acceptor fails at once.            *)
DoAccept == acceptState' = IF acceptorOpen THEN "pending" ELSE "failed"

FirstAccept ==
  /\ pc[Main] = "accept"
  /\ DoAccept
  /\ Goes(Main, "spawn")
  /\ UNCHANGED <<managerVars, stopVars, acceptorOpen, arrived, signal,
                 contextStopped, sessionVars, cur>>

(* The thread runs before emplace_back() has put it into the vector.       *)
SpawnWorker(w) ==
  /\ pc[Main] = "spawn"
  /\ pc[w] = "unborn" /\ \A v \in 1 .. w - 1 : pc[v] # "unborn"
  /\ pc' = [pc EXCEPT ![Main] = "emplace", ![w] = "idle"]
  /\ cur' = [cur EXCEPT ![Main] = w]
  /\ UNCHANGED <<managerVars, stopVars, ioVars, sessionVars>>

EmplaceWorker ==
  /\ pc[Main] = "emplace"
  /\ workerThreads' = Append(workerThreads, cur[Main])
  /\ cur' = [cur EXCEPT ![Main] = Nobody]
  /\ Goes(Main, "spawn")
  /\ UNCHANGED <<managerVars, isRunning, joined, stopLogged, joinAt, ioVars,
                 sessionVars>>

SpawnThrows ==
  /\ SpawnMayFail
  /\ pc[Main] = "spawn" /\ \E w \in Worker : pc[w] = "unborn"
  /\ Goes(Main, "stop")
  /\ UNCHANGED <<managerVars, stopVars, ioVars, sessionVars, cur>>

(* start() returns; main() sleeps, for ever.                               *)
StartReturns ==
  /\ pc[Main] = "spawn" /\ \A w \in Worker : pc[w] # "unborn"
  /\ Goes(Main, "sleep")
  /\ UNCHANGED <<managerVars, stopVars, ioVars, sessionVars, cur>>

-----------------------------------------------------------------------------
(***************************************************************************)
(* What happens outside: connections, errors of accept, a signal.          *)
(***************************************************************************)
Connects(s) ==
  /\ acceptState = "pending" /\ ~contextStopped /\ s \notin made
  /\ acceptState' = "connected" /\ arrived' = s
  /\ UNCHANGED <<managerVars, stopVars, acceptorOpen, signal, contextStopped,
                 sessionVars, pc, cur>>

AcceptFails ==
  /\ acceptState = "pending" /\ ~contextStopped
  /\ acceptState' = "failed"
  /\ UNCHANGED <<managerVars, stopVars, acceptorOpen, arrived, signal,
                 contextStopped, sessionVars, pc, cur>>

SignalComes ==
  /\ SignalMayCome /\ signal = "none"
  /\ signal' = "raised"
  /\ UNCHANGED <<managerVars, stopVars, acceptorOpen, acceptState, arrived,
                 contextStopped, sessionVars, pc, cur>>

-----------------------------------------------------------------------------
(***************************************************************************)
(* io_context::run(): an idle worker takes a handler that is ready, or     *)
(* returns when the context was stopped.                                   *)
(***************************************************************************)
Free(w) == pc[w] = "idle" /\ ~contextStopped

WorkerEnds(w) ==
  /\ pc[w] = "idle" /\ contextStopped
  /\ Goes(w, "ended")
  /\ UNCHANGED <<managerVars, stopVars, ioVars, sessionVars, cur>>

TakeAccept(w) ==
  /\ Free(w) /\ acceptState = "connected"
  /\ acceptState' = "none" /\ arrived' = Nobody
  /\ made' = made \cup {arrived}
  /\ cur' = [cur EXCEPT ![w] = arrived]
  /\ Goes(w, Head(AcceptSteps))
  /\ UNCHANGED <<managerVars, stopVars, acceptorOpen, signal, contextStopped,
                 started, stopQueued, isStopped>>

(* After an error doAccept() is called as after a success; the mutant only *)
(* returns.                                                                *)
OnlyReturns == "idle"
AfterError == "rearm"

TakeAcceptError(w) ==
  /\ Free(w) /\ acceptState = "failed"
  /\ acceptState' = "none"
  /\ Goes(w, AfterError)
  /\ UNCHANGED <<managerVars, stopVars, acceptorOpen, arrived, signal,
                 contextStopped, sessionVars, cur>>

AddSession(w) ==
  /\ pc[w] = "add"
  /\ addSession(cur[w])
  /\ Goes(w, After("add"))
  /\ UNCHANGED <<stopVars, ioVars, sessionVars, cur>>

StartSession(w) ==
  /\ pc[w] = "start"
  /\ started' = started \cup {cur[w]}
  /\ Goes(w, After("start"))
  /\ UNCHANGED <<managerVars, stopVars, ioVars, made, stopQueued, isStopped, cur>>

(* if (isRunning_) doAccept(): the test, then the call.                    *)
Rearm(w) ==
  /\ pc[w] = "rearm"
  /\ Goes(w, IF isRunning THEN "accept" ELSE "idle")
  /\ cur' = [cur EXCEPT ![w] = Nobody]
  /\ UNCHANGED <<managerVars, stopVars, ioVars, sessionVars>>

NextAccept(w) ==
  /\ pc[w] = "accept"
  /\ DoAccept
  /\ Goes(w, "idle")
  /\ UNCHANGED <<managerVars, stopVars, acceptorOpen, arrived, signal,
                 contextStopped, sessionVars, cur>>

TakeSignal(w) ==
  /\ Free(w) /\ signal = "raised"
  /\ signal' = "taken"
  /\ Goes(w, "stop")
  /\ UNCHANGED <<managerVars, stopVars, acceptorOpen, acceptState, arrived,
                 contextStopped, sessionVars, cur>>

(* The handlers of a session: one that ends it (an error, a bad header,    *)
(* DISCONNECT) posts its stop; then the stop handler.                      *)
OnStrand(s) == \E w \in Worker : pc[w] \in {"close", "remove"} /\ cur[w] = s

SessionEnds(w, s) ==
  /\ Free(w) /\ s \in started \ isStopped /\ ~OnStrand(s)
  /\ stopQueued' = stopQueued \cup {s}
  /\ UNCHANGED <<managerVars, stopVars, ioVars, made, started, isStopped, pc, cur>>

TakeStop(w, s) ==
  /\ Free(w) /\ s \in stopQueued /\ ~OnStrand(s)
  /\ stopQueued' = stopQueued \ {s}
  /\ cur' = [cur EXCEPT ![w] = s]
  /\ Goes(w, "close")
  /\ UNCHANGED <<managerVars, stopVars, ioVars, made, started, isStopped>>

CloseSession(w) ==
  /\ pc[w] = "close"
  /\ IF cur[w] \in isStopped
     THEN Goes(w, "idle") /\ cur' = [cur EXCEPT ![w] = Nobody]
     ELSE Goes(w, "remove") /\ UNCHANGED cur
  /\ isStopped' = isStopped \cup {cur[w]}
  /\ UNCHANGED <<managerVars, stopVars, ioVars, made, started, stopQueued>>

RemoveSession(w) ==
  /\ pc[w] = "remove"
  /\ removeSession(cur[w])
  /\ cur' = [cur EXCEPT ![w] = Nobody]
  /\ Goes(w, "idle")
  /\ UNCHANGED <<stopVars, ioVars, sessionVars>>

-----------------------------------------------------------------------------
(***************************************************************************)
(* stop(), called by the signal handler on a worker, or by the destructor  *)
(* on the main thread.                                                     *)
(***************************************************************************)
Returned(t) == IF t = Main THEN "destroy" ELSE "idle"

StopTest(t) ==
  /\ pc[t] = "stop"
  /\ Goes(t, IF isRunning THEN "stopSet" ELSE Returned(t))
  /\ UNCHANGED <<managerVars, stopVars, ioVars, sessionVars, cur>>

StopSet(t) ==
  /\ pc[t] = "stopSet"
  /\ isRunning' = FALSE
  /\ Goes(t, "stopAll")
  /\ UNCHANGED <<managerVars, workerThreads, joined, stopLogged, joinAt, ioVars,
                 sessionVars, cur>>

StopAll(t) ==
  /\ pc[t] = "stopAll"
  /\ StopAllBegins(t)
  /\ Goes(t, "stopEach")
  /\ UNCHANGED <<stopVars, ioVars, sessionVars, cur>>

(* Mutant of StopEach: the session's stop() calls removeSession() itself.  *)
StopInline(t, s) ==
  /\ pc[t] = "stopEach"
  /\ StopAllVisits(s) /\ mutex = Nobody
  /\ stopQueued' = stopQueued \cup {s}
  /\ UNCHANGED <<stopVars, ioVars, made, started, isStopped, pc, cur>>

(* session->stop() posts its handler and waits for nothing.                *)
StopEach(t, s) ==
  /\ pc[t] = "stopEach"
  /\ StopAllVisits(s)
  /\ stopQueued' = stopQueued \cup {s}
  /\ UNCHANGED <<stopVars, ioVars, made, started, isStopped, pc, cur>>

StopClear(t) ==
  /\ pc[t] = "stopEach"
  /\ StopAllEnds
  /\ Goes(t, "closeAcceptor")
  /\ UNCHANGED <<stopVars, ioVars, sessionVars, cur>>

CloseAcceptor(t) ==
  /\ pc[t] = "closeAcceptor"
  /\ acceptorOpen' = FALSE
  /\ acceptState' = IF acceptState = "pending" THEN "failed" ELSE acceptState
  /\ Goes(t, "stopContext")
  /\ UNCHANGED <<managerVars, stopVars, arrived, signal, contextStopped,
                 sessionVars, cur>>

(* ioContext_.stop(), and the mutant that forgets it.                      *)
ContextRuns == UNCHANGED contextStopped
ContextStops == contextStopped' = TRUE

StopContext(t) ==
  /\ pc[t] = "stopContext"
  /\ ContextStops
  /\ joinAt' = [joinAt EXCEPT ![t] = 1]
  /\ Goes(t, "join")
  /\ UNCHANGED <<managerVars, isRunning, workerThreads, joined, stopLogged,
                 acceptorOpen, acceptState, arrived, signal, sessionVars, cur>>

(* The loop over workerThreads_: the thread at its turn is joined once it  *)
(* has ended, or skipped if it was joined before.                          *)
Joining(t) == pc[t] = "join" /\ joinAt[t] <= Len(workerThreads)
Join(t) ==
  /\ Joining(t)
  /\ LET w == workerThreads[joinAt[t]]
     IN  /\ w # t \/ w \in joined
         /\ pc[w] = "ended" \/ w \in joined
         /\ joined' = joined \cup {w}
  /\ joinAt' = [joinAt EXCEPT ![t] = @ + 1]
  /\ UNCHANGED <<managerVars, isRunning, workerThreads, stopLogged, ioVars,
                 sessionVars, pc, cur>>

(* A thread that joins itself gets std::system_error, which the worker's   *)
(* function catches around run(): the thread ends.                         *)
JoinSelf(t) ==
  /\ Joining(t)
  /\ workerThreads[joinAt[t]] = t /\ t \notin joined
  /\ Goes(t, "ended")
  /\ UNCHANGED <<managerVars, stopVars, ioVars, sessionVars, cur>>

StopDone(t) ==
  /\ pc[t] = "join" /\ joinAt[t] > Len(workerThreads)
  /\ workerThreads' = <<>>
  /\ stopLogged' = TRUE
  /\ Goes(t, Returned(t))
  /\ UNCHANGED <<managerVars, isRunning, joined, joinAt, ioVars, sessionVars, cur>>

(* The members are destroyed: std::terminate() if a thread is joinable.    *)
(* What other threads would do after that does not matter.                 *)
Joinable == \E i \in DOMAIN workerThreads : workerThreads[i] \notin joined
Destroy ==
  /\ pc[Main] = "destroy"
  /\ Goes(Main, IF Joinable THEN "terminated" ELSE "exited")
  /\ UNCHANGED <<managerVars, stopVars, ioVars, sessionVars, cur>>

-----------------------------------------------------------------------------
StopStep(t) ==
  \/ StopTest(t) \/ StopSet(t) \/ StopAll(t)
  \/ \E s \in SessionId : StopEach(t, s)
  \/ StopClear(t) \/ CloseAcceptor(t) \/ StopContext(t)
  \/ Join(t) \/ JoinSelf(t) \/ StopDone(t)

MainStep ==
  \/ SetRunning \/ FirstAccept
  \/ \E w \in Worker : SpawnWorker(w)
  \/ EmplaceWorker \/ SpawnThrows \/ StartReturns
  \/ StopStep(Main) \/ Destroy

(* A worker takes a handler ... *)
Take(w) ==
  \/ TakeAccept(w) \/ TakeAcceptError(w) \/ TakeSignal(w)
  \/ \E s \in SessionId : SessionEnds(w, s) \/ TakeStop(w, s)

(* ... and goes on with it.                                                *)
WorkerStep(w) ==
  \/ AddSession(w) \/ StartSession(w) \/ Rearm(w) \/ NextAccept(w)
  \/ CloseSession(w) \/ RemoveSession(w)
  \/ StopStep(w) \/ WorkerEnds(w)

Environment ==
  \/ \E s \in SessionId : Connects(s)
  \/ AcceptFails \/ SignalComes

Next ==
  \/ MainStep \/ Environment
  \/ \E w \in Worker : Take(w) \/ WorkerStep(w)

Spec == Init /\ [][Next]_vars

(***************************************************************************)
(* Fairness.  Threads run.  The io_context hands out handlers in the order *)
(* they became ready, so the signal handler is taken if workers become     *)
(* idle again and again, whatever else is ready.                           *)
(***************************************************************************)
Fairness ==
  /\ WF_vars(MainStep)
  /\ \A w \in Worker : WF_vars(WorkerStep(w))
  /\ SF_vars(\E w \in Worker : TakeSignal(w))

FairSpec == Spec /\ Fairness

-----------------------------------------------------------------------------
(***************************************************************************)
(* Properties.                                                             *)
(***************************************************************************)
Steps == {"new", "accept", "spawn", "emplace", "sleep", "destroy", "exited",
          "terminated", "unborn", "idle", "ended", "add", "start", "rearm",
          "close", "remove", "stop", "stopSet", "stopAll", "stopEach",
          "closeAcceptor", "stopContext", "join"}

(* Every variable has its type; the mutex is held by nobody but a thread   *)
(* that is in stopAll().                                                   *)
TypeOK ==
  /\ sessions \subseteq made /\ toStop \subseteq sessions
  /\ mutex \in Thread \cup {Nobody}
  /\ \A t \in Thread : mutex = t <=> pc[t] = "stopEach"
  /\ isRunning \in BOOLEAN /\ stopLogged \in BOOLEAN
  /\ workerThreads \in Seq(Worker) /\ joined \subseteq Worker
  /\ joinAt \in [Thread -> 1 .. PoolSize + 1]
  /\ acceptorOpen \in BOOLEAN /\ contextStopped \in BOOLEAN
  /\ acceptState \in {"none", "pending", "connected", "failed"}
  /\ arrived \in SessionId \cup {Nobody}
  /\ signal \in {"none", "raised", "taken"}
  /\ pc \in [Thread -> Steps]
  /\ cur \in [Thread -> SessionId \cup Worker \cup {Nobody}]
  /\ made \subseteq SessionId /\ started \subseteq made
  /\ stopQueued \subseteq made /\ isStopped \subseteq made

Handling(steps) == {cur[w] : w \in {v \in Worker : pc[v] \in steps}}

Life == INSTANCE SessionLife WITH
  added <- sessions,
  told <- stopQueued \cup isStopped \cup Handling({"close"}),
  closed <- isStopped

(* Sessions are added before they start or can be stopped, and once; they  *)
(* are not dropped untold, also when stopAll() runs while they come and go.*)
KeepsSessionLife == Life!Spec

(* A session that has stopped is not in the manager's set, or is about to  *)
(* leave it: nobody would ever remove it again.                            *)
NoGhosts == sessions \cap isStopped \subseteq Handling({"remove"})

(* While the server runs, an accept is outstanding or the handler of the   *)
(* last one is on its way to the next: also after errors of accept, the    *)
(* server does not turn deaf.                                              *)
AcceptorListens ==
  isRunning /\ pc[Main] \notin {"new", "accept"} =>
    \/ acceptState # "none"
    \/ \E w \in Worker : pc[w] \in {"add", "start", "rearm", "accept"}

(* Once a signal was taken all workers end, though the one that took it    *)
(* waits for others and these may wait for the mutex.                      *)
ShutdownEndsWorkers ==
  signal = "taken" ~> \A w \in Worker : pc[w] \in {"unborn", "ended"}

(* If start() throws, the destructor waits for all workers it had created  *)
(* and main() can return, unless a signal has started another stop().      *)
UnwindingEnds ==
  (pc[Main] = "stop") ~>
    \/ pc[Main] = "exited" /\ \A w \in Worker : pc[w] \in {"unborn", "ended"}
    \/ signal = "taken"

(* Server.cpp:65: a shutdown ends with "successfully stopped", all threads *)
(* joined.  But the signal handler runs on one of these threads.  (And     *)
(* main(), which says it waits for this, never looks: main.cpp:47.)        *)
SignalStopsServer == (signal = "raised") ~> stopLogged

(* SessionManager.cpp:21: a shutdown stops all active sessions.  But it    *)
(* posts their stop handlers to a context it then stops.                   *)
ShutdownStopsSessions ==
  contextStopped /\ (\A w \in Worker : pc[w] \in {"unborn", "ended"}) =>
    started \subseteq isStopped

(* README.md:39: a session's strand serialises what its handlers do.  But  *)
(* start() uses the socket outside of it.                                  *)
SocketUseSerialised ==
  \A v, w \in Worker :
    ~(pc[v] = "start" /\ pc[w] = "close" /\ cur[v] = cur[w])
=============================================================================
