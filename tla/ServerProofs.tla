----------------------------- MODULE ServerProofs -----------------------------
(***************************************************************************)
(* For any number of workers and sessions, and however their steps, the    *)
(* connections, the errors of accept and a signal interleave: the server   *)
(* never turns deaf, no stopped session stays in the manager's set, and    *)
(* every session is handled as SessionLife says.                           *)
(***************************************************************************)
EXTENDS Server, SequenceTheorems, TLAPS

(* Workers are created in order, and workerThreads_ has room for those     *)
(* that are not yet.                                                       *)
WorkersInOrder ==
  /\ Len(workerThreads) <= PoolSize
  /\ pc[Main] = "emplace" => /\ cur[Main] \in Worker
                             /\ Len(workerThreads) < PoolSize
  /\ \A w \in Worker : pc[w] = "unborn" =>
       /\ Len(workerThreads) < w
       /\ pc[Main] = "emplace" => Len(workerThreads) + 1 < w

(* The sessions stop() was called for, whether its handler is queued, runs *)
(* or has run.                                                             *)
Told == stopQueued \cup isStopped \cup Handling({"close"})

(* The steps at which a worker is about a session.                         *)
Busy == {"add", "start", "close", "remove"}

(* The session a handler is about: the accept handler's is new, and is not *)
(* told to stop before it is in the manager's set; it may be by the time   *)
(* it starts.  A handler that removes a session has closed it.             *)
HandlersOfSessions ==
  \A w \in Worker :
    /\ pc[w] \in Busy => cur[w] \in made
    /\ pc[w] = "add" => cur[w] \notin sessions \cup started \cup Told
    /\ pc[w] = "start" => cur[w] \in sessions \cup Told
    /\ pc[w] = "remove" => cur[w] \in isStopped
    /\ \A v \in Worker \ {w} :
         pc[v] = "add" /\ pc[w] \in {"add", "start"} => cur[v] # cur[w]

(* A connection that was accepted gets a session of its own.               *)
ArrivalsAreNew ==
  acceptState = "connected" => arrived \in SessionId \ made

(* stopAll() has told all sessions it does not have before it.             *)
StopAllTells ==
  /\ toStop # {} => mutex # Nobody
  /\ mutex # Nobody => sessions \ toStop \subseteq Told

(* The inductive invariant.                                                *)
IInv ==
  /\ TypeOK /\ WorkersInOrder /\ HandlersOfSessions /\ ArrivalsAreNew
  /\ StopAllTells /\ NoGhosts /\ AcceptorListens

LEMMA Threads ==
  /\ Main \in Thread /\ Main \notin Worker
  /\ Worker \subseteq Thread /\ Worker \subseteq 1 .. PoolSize
  /\ \A t \in Thread : t = Main \/ t \in Worker
  /\ Nobody \notin Thread /\ Nobody \notin SessionId
  /\ PoolSize \in Nat
  BY ServerAssumption DEF Main, Worker, Thread

(* The order of the accept handler's statements.                           *)
LEMMA AcceptOrder ==
  Head(AcceptSteps) = "add" /\ After("add") = "start" /\ After("start") = "rearm"
<1>1. /\ DOMAIN AcceptSteps = 1 .. 3
      /\ AcceptSteps[1] = "add" /\ AcceptSteps[2] = "start" /\ AcceptSteps[3] = "rearm"
  BY DEF AcceptSteps
<1>2. Head(AcceptSteps) = "add"
  BY DEF AcceptSteps
<1>3. \A i \in DOMAIN AcceptSteps : AcceptSteps[i] = "add" <=> i = 1
  BY <1>1
<1>4. \A i \in DOMAIN AcceptSteps : AcceptSteps[i] = "start" <=> i = 2
  BY <1>1
<1>5. (CHOOSE i \in DOMAIN AcceptSteps : AcceptSteps[i] = "add") = 1
  BY <1>1, <1>3
<1>6. (CHOOSE i \in DOMAIN AcceptSteps : AcceptSteps[i] = "start") = 2
  BY <1>1, <1>4
<1> QED BY <1>1, <1>2, <1>5, <1>6 DEF After

(* What Handling is a set of.                                              *)
LEMMA HandlingMembers ==
  ASSUME NEW steps, NEW s
  PROVE  s \in Handling(steps) <=> \E w \in Worker : pc[w] \in steps /\ cur[w] = s
  BY DEF Handling

LEMMA HandlingMembersNext ==
  ASSUME NEW steps, NEW s
  PROVE  s \in Handling(steps)' <=> \E w \in Worker : pc'[w] \in steps /\ cur'[w] = s
  BY DEF Handling

-----------------------------------------------------------------------------
(***************************************************************************)
(* Types.                                                                  *)
(***************************************************************************)
Typed == TypeOK /\ WorkersInOrder

(* stop(), on the main thread or on a worker.                              *)
LEMMA StopStepTyped ==
  ASSUME IInv, NEW t \in Thread, StopStep(t) PROVE Typed'
<1> USE Threads DEF IInv, Typed, TypeOK, WorkersInOrder, StopAllTells, Goes, Steps,
        managerVars, ioVars, sessionVars, stopVars
<1>1. CASE StopTest(t)
  BY <1>1 DEF StopTest, Returned
<1>2. CASE StopSet(t)
  <2>1. TypeOK'
    BY <1>2 DEF StopSet
  <2>2. WorkersInOrder'
    BY <1>2 DEF StopSet
  <2> QED BY <2>1, <2>2
<1>3. CASE StopAll(t)
  BY <1>3 DEF StopAll, StopAllBegins
<1>4. ASSUME NEW s \in SessionId, StopEach(t, s) PROVE Typed'
  BY <1>4 DEF StopEach, StopAllVisits
<1>5. CASE StopClear(t)
  BY <1>5 DEF StopClear, StopAllEnds, Unlocked
<1>6. CASE CloseAcceptor(t)
  BY <1>6 DEF CloseAcceptor
<1>7. CASE StopContext(t)
  BY <1>7 DEF StopContext, ContextStops
<1>8. CASE Join(t)
  <2> DEFINE w == workerThreads[joinAt[t]]
  <2>1. joinAt[t] \in 1 .. Len(workerThreads) /\ Len(workerThreads) \in 0 .. PoolSize
    BY <1>8 DEF Join, Joining
  <2>2. w \in Worker
    BY <2>1
  <2>3. joinAt[t] + 1 \in 1 .. PoolSize + 1
    BY <2>1
  <2>4. /\ joined' = joined \cup {w} /\ joinAt' = [joinAt EXCEPT ![t] = joinAt[t] + 1]
        /\ UNCHANGED <<managerVars, isRunning, workerThreads, stopLogged, ioVars,
                       sessionVars, pc, cur>>
    BY <1>8 DEF Join
  <2> HIDE DEF w
  <2>5. joinAt' \in [Thread -> 1 .. PoolSize + 1]
    BY <2>3, <2>4
  <2>6. joined' \subseteq Worker
    BY <2>2, <2>4
  <2>7. TypeOK'
    BY <2>4, <2>5, <2>6
  <2>8. WorkersInOrder'
    BY <2>4
  <2> QED BY <2>7, <2>8
<1>9. CASE JoinSelf(t)
  BY <1>9 DEF JoinSelf, Joining
<1>10. CASE StopDone(t)
  BY <1>10 DEF StopDone, Returned
<1> QED BY <1>1, <1>2, <1>3, <1>4, <1>5, <1>6, <1>7, <1>8, <1>9, <1>10 DEF StopStep

LEMMA MainStepTyped ==
  ASSUME IInv, MainStep PROVE Typed'
<1> USE Threads DEF IInv, Typed, TypeOK, WorkersInOrder, Goes, Steps, managerVars,
        ioVars, sessionVars, stopVars
<1>1. CASE SetRunning
  BY <1>1 DEF SetRunning
<1>2. CASE FirstAccept
  BY <1>2 DEF FirstAccept, DoAccept
<1>3. ASSUME NEW w \in Worker, SpawnWorker(w) PROVE Typed'
  <2>1. /\ pc[w] = "unborn" /\ \A v \in Worker : v < w => pc[v] # "unborn"
        /\ pc' = [pc EXCEPT ![Main] = "emplace", ![w] = "idle"]
        /\ cur' = [cur EXCEPT ![Main] = w]
        /\ UNCHANGED <<managerVars, stopVars, ioVars, sessionVars>>
        /\ pc[Main] = "spawn"
    BY <1>3 DEF SpawnWorker, Worker
  <2>2. TypeOK'
    BY <2>1
  <2>3. Len(workerThreads) < w /\ Len(workerThreads) \in Nat /\ w \in 1 .. PoolSize
    BY <2>1
  <2>4. ASSUME NEW v \in Worker, pc'[v] = "unborn" PROVE Len(workerThreads) + 1 < v
    <3>1. v \in 1 .. PoolSize /\ v # w /\ pc[v] = "unborn" BY <2>1, <2>4
    <3>2. ~ (v < w) BY <2>1, <3>1
    <3> QED BY <2>3, <3>1, <3>2
  <2>5. cur'[Main] = w /\ workerThreads' = workerThreads
    BY <2>1
  <2>6. WorkersInOrder'
    BY <2>3, <2>4, <2>5
  <2> QED BY <2>2, <2>6
<1>4. CASE EmplaceWorker
  BY <1>4 DEF EmplaceWorker
<1>5. CASE SpawnThrows
  BY <1>5 DEF SpawnThrows
<1>6. CASE StartReturns
  BY <1>6 DEF StartReturns
<1>7. CASE StopStep(Main)
  BY <1>7, StopStepTyped
<1>8. CASE Destroy
  BY <1>8 DEF Destroy
<1> QED BY <1>1, <1>2, <1>3, <1>4, <1>5, <1>6, <1>7, <1>8 DEF MainStep

LEMMA EnvironmentTyped ==
  ASSUME IInv, Environment PROVE Typed'
<1> USE Threads DEF IInv, Typed, TypeOK, WorkersInOrder, managerVars, ioVars,
        sessionVars, stopVars
<1>1. ASSUME NEW s \in SessionId, Connects(s) PROVE Typed'
  BY <1>1 DEF Connects
<1>2. CASE AcceptFails
  BY <1>2 DEF AcceptFails
<1>3. CASE SignalComes
  BY <1>3 DEF SignalComes
<1> QED BY <1>1, <1>2, <1>3 DEF Environment

(* A worker takes a handler.                                               *)
LEMMA TakeTyped ==
  ASSUME IInv, NEW w \in Worker, Take(w) PROVE Typed'
<1> USE Threads DEF IInv, Typed, TypeOK, WorkersInOrder, Goes, Steps, managerVars,
        ioVars, sessionVars, stopVars, Free
<1>1. CASE TakeAccept(w)
  BY <1>1, AcceptOrder DEF TakeAccept, ArrivalsAreNew
<1>2. CASE TakeAcceptError(w)
  BY <1>2 DEF TakeAcceptError, AfterError
<1>3. CASE TakeSignal(w)
  BY <1>3 DEF TakeSignal
<1>4. ASSUME NEW s \in SessionId, SessionEnds(w, s) PROVE Typed'
  BY <1>4 DEF SessionEnds
<1>5. ASSUME NEW s \in SessionId, TakeStop(w, s) PROVE Typed'
  BY <1>5 DEF TakeStop
<1> QED BY <1>1, <1>2, <1>3, <1>4, <1>5 DEF Take

LEMMA WorkerStepTyped ==
  ASSUME IInv, NEW w \in Worker, WorkerStep(w) PROVE Typed'
<1> USE Threads DEF IInv, Typed, TypeOK, WorkersInOrder, Goes, Steps, managerVars,
        ioVars, sessionVars, stopVars, HandlersOfSessions, Busy
<1>1. CASE AddSession(w)
  BY <1>1, AcceptOrder DEF AddSession, addSession, StopAllTells
<1>2. CASE StartSession(w)
  BY <1>2, AcceptOrder DEF StartSession
<1>3. CASE Rearm(w)
  BY <1>3 DEF Rearm
<1>4. CASE NextAccept(w)
  BY <1>4 DEF NextAccept, DoAccept
<1>5. CASE CloseSession(w)
  BY SMTT(20), <1>5 DEF CloseSession
<1>6. CASE RemoveSession(w)
  BY <1>6 DEF RemoveSession, removeSession, StopAllTells
<1>7. CASE StopStep(w)
  BY <1>7, StopStepTyped
<1>8. CASE WorkerEnds(w)
  BY <1>8 DEF WorkerEnds
<1> QED BY <1>1, <1>2, <1>3, <1>4, <1>5, <1>6, <1>7, <1>8 DEF WorkerStep

LEMMA NextTyped ==
  ASSUME IInv, [Next]_vars PROVE Typed'
<1>1. CASE UNCHANGED vars
  BY <1>1 DEF vars, IInv, Typed, TypeOK, WorkersInOrder, managerVars, stopVars,
     ioVars, sessionVars
<1> QED BY <1>1, MainStepTyped, EnvironmentTyped, TakeTyped, WorkerStepTyped DEF Next

-----------------------------------------------------------------------------
(***************************************************************************)
(* The life of the sessions.                                               *)
(***************************************************************************)

(* A step that changes nothing of a session, and the worker of a session   *)
(* goes on with it.                                                        *)
Bystands ==
  /\ UNCHANGED <<sessions, toStop, mutex, made, started, stopQueued, isStopped>>
  /\ \A w \in Worker : pc[w] \in Busy \/ pc'[w] \in Busy =>
                         pc'[w] = pc[w] /\ cur'[w] = cur[w]
  /\ acceptState' = "connected" => acceptState = "connected" /\ arrived' = arrived

(* What the manager and the sessions keep.                                 *)
SessionsKept == HandlersOfSessions /\ ArrivalsAreNew /\ StopAllTells /\ NoGhosts

(* The part of the invariant that is about sessions, and what SessionLife  *)
(* demands of every step.                                                  *)
KeepsLife == SessionsKept' /\ [Life!Next]_(Life!vars)

LEMMA BystandsKeepsLife ==
  ASSUME IInv, Bystands PROVE KeepsLife
<1>1. \A s : s \in Handling({"close"})' <=> s \in Handling({"close"})
  BY HandlingMembers, HandlingMembersNext DEF Bystands, Busy
<1>2. \A s : s \in Handling({"remove"})' <=> s \in Handling({"remove"})
  BY HandlingMembers, HandlingMembersNext DEF Bystands, Busy
<1>3. Handling({"close"})' = Handling({"close"}) /\ Handling({"remove"})' = Handling({"remove"})
  BY <1>1, <1>2
<1>4. Told' = Told
  BY <1>3 DEF Told, Bystands
<1>5. HandlersOfSessions'
  BY <1>4 DEF HandlersOfSessions, Bystands, Busy, IInv
<1>6. ArrivalsAreNew' /\ StopAllTells' /\ NoGhosts'
  BY <1>3, <1>4 DEF ArrivalsAreNew, StopAllTells, NoGhosts, Bystands, IInv
<1>7. UNCHANGED Life!vars
  BY <1>3 DEF Bystands, Life!vars
<1> QED BY <1>5, <1>6, <1>7 DEF KeepsLife, SessionsKept

(* What the main thread and the environment do beside ...                  *)
LEMMA MainBystands ==
  ASSUME IInv
  PROVE  /\ SetRunning \/ FirstAccept \/ EmplaceWorker => Bystands
         /\ SpawnThrows \/ StartReturns \/ Destroy => Bystands
         /\ \A w \in Worker : SpawnWorker(w) => Bystands
         /\ AcceptFails \/ SignalComes => Bystands
<1> USE Threads DEF Bystands, Busy, Goes, managerVars, sessionVars, ioVars, stopVars,
        IInv, TypeOK
<1>1. SetRunning \/ FirstAccept \/ EmplaceWorker => Bystands
  BY DEF SetRunning, FirstAccept, DoAccept, EmplaceWorker
<1>2. SpawnThrows \/ StartReturns \/ Destroy => Bystands
  BY DEF SpawnThrows, StartReturns, Destroy
<1>3. \A w \in Worker : SpawnWorker(w) => Bystands
  BY DEF SpawnWorker
<1>4. AcceptFails \/ SignalComes => Bystands
  BY DEF AcceptFails, SignalComes
<1> QED BY <1>1, <1>2, <1>3, <1>4

(* ... and a worker ...                                                    *)
LEMMA WorkerBystands ==
  ASSUME IInv, NEW w \in Worker
  PROVE  /\ WorkerEnds(w) \/ TakeAcceptError(w) \/ Rearm(w) => Bystands
         /\ NextAccept(w) \/ TakeSignal(w) => Bystands
<1> USE Threads DEF Bystands, Busy, Goes, managerVars, sessionVars, ioVars, stopVars,
        IInv, TypeOK
<1>1. WorkerEnds(w) \/ TakeAcceptError(w) \/ Rearm(w) => Bystands
  BY DEF WorkerEnds, TakeAcceptError, AfterError, Free, Rearm
<1>2. NextAccept(w) \/ TakeSignal(w) => Bystands
  BY DEF NextAccept, DoAccept, TakeSignal, Free
<1> QED BY <1>1, <1>2

(* ... and a thread in stop() before and after stopAll().                  *)
LEMMA StopBystands ==
  ASSUME IInv, NEW t \in Thread
  PROVE  /\ StopTest(t) \/ StopSet(t) \/ CloseAcceptor(t) => Bystands
         /\ StopContext(t) \/ Join(t) \/ JoinSelf(t) \/ StopDone(t) => Bystands
<1> USE Threads DEF Bystands, Busy, Goes, managerVars, sessionVars, ioVars, stopVars,
        IInv, TypeOK
<1>1. StopTest(t) \/ StopSet(t) \/ CloseAcceptor(t) => Bystands
  BY DEF StopTest, Returned, StopSet, CloseAcceptor
<1>2. StopContext(t) \/ Join(t) \/ JoinSelf(t) \/ StopDone(t) => Bystands
  BY DEF StopContext, ContextStops, Join, JoinSelf, Joining, StopDone, Returned
<1> QED BY <1>1, <1>2

LEMMA ConnectsKeepsLife ==
  ASSUME IInv, NEW s \in SessionId, Connects(s) PROVE KeepsLife
<1>1. /\ UNCHANGED <<managerVars, sessionVars, pc, cur>>
      /\ s \notin made /\ arrived' = s
  BY DEF Connects
<1>2. ArrivalsAreNew'
  BY <1>1 DEF ArrivalsAreNew, sessionVars
<1>3. HandlersOfSessions' /\ StopAllTells' /\ NoGhosts'
  BY <1>1 DEF HandlersOfSessions, StopAllTells, NoGhosts, Told, Handling, IInv,
     managerVars, sessionVars
<1>4. UNCHANGED Life!vars
  BY <1>1 DEF Life!vars, Handling, managerVars, sessionVars
<1> QED BY <1>2, <1>3, <1>4 DEF KeepsLife, SessionsKept

(* The new session's handler is at its first statement.                    *)
LEMMA TakeAcceptKeepsLife ==
  ASSUME IInv, NEW w \in Worker, TakeAccept(w) PROVE KeepsLife
<1>1. /\ pc[w] = "idle" /\ pc' = [pc EXCEPT ![w] = "add"]
      /\ cur' = [cur EXCEPT ![w] = arrived]
      /\ arrived \in SessionId \ made /\ made' = made \cup {arrived}
      /\ acceptState' = "none"
      /\ UNCHANGED <<sessions, mutex, toStop, started, stopQueued, isStopped>>
  BY AcceptOrder DEF TakeAccept, Goes, Free, IInv, ArrivalsAreNew, managerVars
<1>2. w \in Thread /\ pc \in [Thread -> Steps] /\ cur \in [Thread -> SessionId \cup Worker \cup {Nobody}]
  BY Threads DEF IInv, TypeOK
<1>3. \A v \in Worker : pc'[v] = (IF v = w THEN "add" ELSE pc[v])
                         /\ cur'[v] = IF v = w THEN arrived ELSE cur[v]
  BY <1>1, <1>2, Threads
<1>4. \A s : /\ s \in Handling({"close"})' <=> s \in Handling({"close"})
             /\ s \in Handling({"remove"})' <=> s \in Handling({"remove"})
  BY <1>1, <1>3, HandlingMembers, HandlingMembersNext
<1>5. Handling({"close"})' = Handling({"close"}) /\ Handling({"remove"})' = Handling({"remove"})
  BY <1>4
<1>6. Told' = Told
  BY <1>1, <1>5 DEF Told
<1>7. Told \cup sessions \cup started \subseteq made
  BY HandlingMembers DEF Told, IInv, TypeOK, HandlersOfSessions, Busy
<1>8. HandlersOfSessions'
  BY <1>1, <1>3, <1>6, <1>7 DEF HandlersOfSessions, Busy, IInv
<1>9. ArrivalsAreNew' /\ StopAllTells' /\ NoGhosts'
  BY <1>1, <1>5, <1>6 DEF ArrivalsAreNew, StopAllTells, NoGhosts, IInv
<1>10. UNCHANGED Life!vars
  BY <1>1, <1>5 DEF Life!vars
<1> QED BY <1>8, <1>9, <1>10 DEF KeepsLife, SessionsKept

(* The types of what a worker's step changes.                              *)
LEMMA WorkerFacts ==
  ASSUME IInv, NEW w \in Worker
  PROVE  /\ w \in Thread /\ pc \in [Thread -> Steps]
         /\ cur \in [Thread -> SessionId \cup Worker \cup {Nobody}]
         /\ \A x : pc' = [pc EXCEPT ![w] = x] =>
              \A v \in Worker : pc'[v] = IF v = w THEN x ELSE pc[v]
         /\ \A x : cur' = [cur EXCEPT ![w] = x] =>
              \A v \in Worker : cur'[v] = IF v = w THEN x ELSE cur[v]
  BY Threads DEF IInv, TypeOK

(* A new session is in nobody's way, also while stopAll() waits to run.    *)
LEMMA AddSessionKeepsLife ==
  ASSUME IInv, NEW w \in Worker, AddSession(w) PROVE KeepsLife
<1>1. /\ pc[w] = "add" /\ pc' = [pc EXCEPT ![w] = "start"]
      /\ mutex = Nobody /\ sessions' = sessions \cup {cur[w]}
      /\ UNCHANGED <<mutex, toStop, made, started, stopQueued, isStopped, cur,
                     acceptState, arrived>>
  BY AcceptOrder DEF AddSession, addSession, Goes, ioVars, sessionVars
<1>2. /\ cur[w] \notin sessions \cup started \cup Told
      /\ cur[w] \in made
  BY <1>1 DEF IInv, HandlersOfSessions, Busy
<1>3. \A v \in Worker : pc'[v] = IF v = w THEN "start" ELSE pc[v]
  BY <1>1, WorkerFacts
<1>4. \A s : /\ s \in Handling({"close"})' <=> s \in Handling({"close"})
             /\ s \in Handling({"remove"})' <=> s \in Handling({"remove"})
  BY <1>1, <1>3, HandlingMembers, HandlingMembersNext
<1>5. Handling({"close"})' = Handling({"close"}) /\ Handling({"remove"})' = Handling({"remove"})
  BY <1>4
<1>6. Told' = Told
  BY <1>1, <1>5 DEF Told
<1>7. HandlersOfSessions'
  BY <1>1, <1>2, <1>3, <1>6 DEF HandlersOfSessions, Busy, IInv
<1>8. NoGhosts'
  BY <1>1, <1>2, <1>5 DEF NoGhosts, IInv, Told
<1>9. ArrivalsAreNew' /\ StopAllTells'
  BY <1>1, <1>6 DEF ArrivalsAreNew, StopAllTells, IInv
<1>10. Life!Next
  BY <1>1, <1>2, <1>5 DEF Life!Next, Told, IInv, TypeOK
<1> QED BY <1>7, <1>8, <1>9, <1>10 DEF KeepsLife, SessionsKept

LEMMA StartSessionKeepsLife ==
  ASSUME IInv, NEW w \in Worker, StartSession(w) PROVE KeepsLife
<1>1. /\ pc[w] = "start" /\ pc' = [pc EXCEPT ![w] = "rearm"]
      /\ started' = started \cup {cur[w]}
      /\ UNCHANGED <<sessions, mutex, toStop, made, stopQueued, isStopped, cur,
                     acceptState, arrived>>
  BY AcceptOrder DEF StartSession, Goes, ioVars, managerVars
<1>2. cur[w] \in sessions \cup Told
  BY <1>1 DEF IInv, HandlersOfSessions
<1>3. \A v \in Worker : pc'[v] = IF v = w THEN "rearm" ELSE pc[v]
  BY <1>1, WorkerFacts
<1>4. \A s : /\ s \in Handling({"close"})' <=> s \in Handling({"close"})
             /\ s \in Handling({"remove"})' <=> s \in Handling({"remove"})
  BY <1>1, <1>3, HandlingMembers, HandlingMembersNext
<1>5. Handling({"close"})' = Handling({"close"}) /\ Handling({"remove"})' = Handling({"remove"})
  BY <1>4
<1>6. Told' = Told
  BY <1>1, <1>5 DEF Told
<1>7. HandlersOfSessions'
  BY <1>1, <1>2, <1>3, <1>6 DEF HandlersOfSessions, Busy, IInv
<1>8. NoGhosts' /\ ArrivalsAreNew' /\ StopAllTells'
  BY <1>1, <1>5, <1>6 DEF NoGhosts, ArrivalsAreNew, StopAllTells, IInv
<1>9. Life!Next
  BY <1>1, <1>2, <1>5 DEF Life!Next, Told, IInv, TypeOK
<1> QED BY <1>7, <1>8, <1>9 DEF KeepsLife, SessionsKept

(* A step that only tells sessions to stop which have been added or have   *)
(* started.                                                                *)
LEMMA TellingKeepsLife ==
  ASSUME IInv,
         UNCHANGED <<sessions, made, started, isStopped, acceptState, arrived>>,
         \A w \in Worker : pc'[w] \in {"add", "start", "remove"} =>
                            pc'[w] = pc[w] /\ cur'[w] = cur[w],
         \A w \in Worker : pc'[w] = "close" => cur'[w] \in made,
         Handling({"remove"})' = Handling({"remove"}),
         Told \subseteq Told', Told' \subseteq Told \cup sessions \cup started,
         StopAllTells'
  PROVE  KeepsLife
<1>1. HandlersOfSessions'
  BY DEF HandlersOfSessions, Busy, IInv
<1>2. NoGhosts' /\ ArrivalsAreNew'
  BY DEF NoGhosts, ArrivalsAreNew, IInv
<1>3. Life!Next
  BY DEF Life!Next, Told
<1> QED BY <1>1, <1>2, <1>3 DEF KeepsLife, SessionsKept

LEMMA SessionEndsKeepsLife ==
  ASSUME IInv, NEW w \in Worker, NEW s \in SessionId, SessionEnds(w, s)
  PROVE  KeepsLife
<1>1. /\ s \in started /\ stopQueued' = stopQueued \cup {s}
      /\ UNCHANGED <<sessions, mutex, toStop, made, started, isStopped, cur, pc,
                     acceptState, arrived>>
  BY DEF SessionEnds, ioVars, managerVars
<1>2. \A steps : Handling(steps)' = Handling(steps)
  BY <1>1 DEF Handling
<1>3. Told \subseteq Told' /\ Told' \subseteq Told \cup started
  BY <1>1, <1>2 DEF Told
<1>4. StopAllTells'
  BY <1>1, <1>3 DEF StopAllTells, IInv
<1> QED BY <1>1, <1>2, <1>3, <1>4, TellingKeepsLife DEF IInv, HandlersOfSessions, Busy

LEMMA TakeStopKeepsLife ==
  ASSUME IInv, NEW w \in Worker, NEW s \in SessionId, TakeStop(w, s)
  PROVE  KeepsLife
<1>1. /\ s \in stopQueued /\ stopQueued' = stopQueued \ {s}
      /\ pc[w] = "idle" /\ pc' = [pc EXCEPT ![w] = "close"]
      /\ cur' = [cur EXCEPT ![w] = s]
      /\ UNCHANGED <<sessions, mutex, toStop, made, started, isStopped,
                     acceptState, arrived>>
  BY DEF TakeStop, Goes, Free, ioVars, managerVars
<1>2. \A v \in Worker : /\ pc'[v] = (IF v = w THEN "close" ELSE pc[v])
                         /\ cur'[v] = IF v = w THEN s ELSE cur[v]
  BY <1>1, WorkerFacts
<1>3. \A r : /\ r \in Handling({"close"})' <=> r = s \/ r \in Handling({"close"})
             /\ r \in Handling({"remove"})' <=> r \in Handling({"remove"})
  BY <1>1, <1>2, HandlingMembers, HandlingMembersNext
<1>4. Handling({"close"})' = Handling({"close"}) \cup {s}
      /\ Handling({"remove"})' = Handling({"remove"})
  BY <1>3
<1>5. Told' = Told
  BY <1>1, <1>4 DEF Told
<1>6. StopAllTells'
  BY <1>1, <1>5 DEF StopAllTells, IInv
<1>7. \A v \in Worker : pc'[v] = "close" => cur'[v] \in made
  BY <1>1, <1>2 DEF IInv, TypeOK, HandlersOfSessions, Busy
<1>8. \A v \in Worker : pc'[v] \in {"add", "start", "remove"} =>
                          pc'[v] = pc[v] /\ cur'[v] = cur[v]
  BY <1>2
<1> QED BY <1>1, <1>4, <1>5, <1>6, <1>7, <1>8, TellingKeepsLife

(* The stop handler: the session has closed when its worker goes to remove *)
(* it from the manager's set.                                              *)
LEMMA CloseSessionKeepsLife ==
  ASSUME IInv, NEW w \in Worker, CloseSession(w) PROVE KeepsLife
<1>1. /\ pc[w] = "close" /\ isStopped' = isStopped \cup {cur[w]}
      /\ UNCHANGED <<sessions, mutex, toStop, made, started, stopQueued,
                     acceptState, arrived>>
  BY DEF CloseSession, ioVars, managerVars
<1>2. \A v \in Worker \ {w} : pc'[v] = pc[v] /\ cur'[v] = cur[v]
  BY WorkerFacts DEF CloseSession, Goes
<1>3. \/ cur[w] \in isStopped /\ pc'[w] = "idle"
      \/ cur[w] \notin isStopped /\ pc'[w] = "remove" /\ cur'[w] = cur[w]
  BY WorkerFacts DEF CloseSession, Goes
<1>4. \A r : /\ r \in Handling({"close"})' => r \in Handling({"close"})
             /\ r \in Handling({"close"}) => r = cur[w] \/ r \in Handling({"close"})'
             /\ r \in Handling({"remove"}) => r \in Handling({"remove"})'
             /\ r = cur[w] => r \in isStopped \/ r \in Handling({"remove"})'
  BY <1>1, <1>2, <1>3, HandlingMembers, HandlingMembersNext
<1>5. cur[w] \in Handling({"close"})
  BY <1>1, HandlingMembers
<1>6. Told' = Told
  BY <1>1, <1>4, <1>5 DEF Told
<1>7. HandlersOfSessions'
  BY <1>1, <1>2, <1>3, <1>6 DEF HandlersOfSessions, Busy, IInv
<1>8. NoGhosts'
  BY <1>1, <1>4 DEF NoGhosts, IInv
<1>9. ArrivalsAreNew' /\ StopAllTells'
  BY <1>1, <1>6 DEF ArrivalsAreNew, StopAllTells, IInv
<1>10. Life!Next
  BY <1>1, <1>5, <1>6 DEF Life!Next, Told
<1> QED BY <1>7, <1>8, <1>9, <1>10 DEF KeepsLife, SessionsKept

LEMMA RemoveSessionKeepsLife ==
  ASSUME IInv, NEW w \in Worker, RemoveSession(w) PROVE KeepsLife
<1>1. /\ pc[w] = "remove" /\ pc' = [pc EXCEPT ![w] = "idle"]
      /\ cur' = [cur EXCEPT ![w] = Nobody]
      /\ mutex = Nobody /\ sessions' = sessions \ {cur[w]}
      /\ UNCHANGED <<mutex, toStop, made, started, stopQueued, isStopped,
                     acceptState, arrived>>
  BY DEF RemoveSession, removeSession, Goes, ioVars, sessionVars
<1>2. cur[w] \in isStopped
  BY <1>1 DEF IInv, HandlersOfSessions
<1>3. /\ pc'[w] = "idle"
      /\ \A v \in Worker \ {w} : pc'[v] = pc[v] /\ cur'[v] = cur[v]
  BY <1>1, WorkerFacts
<1>4. \A r : /\ r \in Handling({"close"})' <=> r \in Handling({"close"})
             /\ r \in Handling({"remove"}) => r = cur[w] \/ r \in Handling({"remove"})'
  BY <1>1, <1>3, HandlingMembers, HandlingMembersNext
<1>5. Handling({"close"})' = Handling({"close"})
  BY <1>4
<1>6. Told' = Told
  BY <1>1, <1>5 DEF Told
<1>7. HandlersOfSessions'
  BY <1>1, <1>2, <1>3, <1>6 DEF HandlersOfSessions, Busy, IInv, Told
<1>8. NoGhosts'
  BY <1>1, <1>4 DEF NoGhosts, IInv
<1>9. ArrivalsAreNew' /\ StopAllTells'
  BY <1>1, <1>6 DEF ArrivalsAreNew, StopAllTells, IInv
<1>10. Life!Next
  BY <1>1, <1>2, <1>5 DEF Life!Next, Told
<1> QED BY <1>7, <1>8, <1>9, <1>10 DEF KeepsLife, SessionsKept

(* stopAll(): it takes the mutex, tells each session it finds, and clears  *)
(* the set when it has told them all.                                      *)
LEMMA StopAllFacts ==
  ASSUME IInv, NEW t \in Thread,
         StopAll(t) \/ StopClear(t) \/ \E s \in SessionId : StopEach(t, s)
  PROVE  /\ UNCHANGED <<made, started, isStopped, cur, acceptState, arrived>>
         /\ \A w \in Worker : pc[w] \in Busy \/ pc'[w] \in Busy => pc'[w] = pc[w]
         /\ Handling({"close"})' = Handling({"close"})
         /\ Handling({"remove"})' = Handling({"remove"})
<1>1. /\ UNCHANGED <<made, started, isStopped, cur, acceptState, arrived>>
      /\ \A w \in Worker : pc[w] \in Busy \/ pc'[w] \in Busy => pc'[w] = pc[w]
  BY Threads DEF StopAll, StopClear, StopEach, Goes, IInv, TypeOK, Busy, ioVars, sessionVars
<1>2. \A r : /\ r \in Handling({"close"})' <=> r \in Handling({"close"})
             /\ r \in Handling({"remove"})' <=> r \in Handling({"remove"})
  BY <1>1, HandlingMembers, HandlingMembersNext DEF Busy
<1> QED BY <1>1, <1>2

LEMMA StopAllKeepsLife ==
  ASSUME IInv, NEW t \in Thread, StopAll(t) PROVE KeepsLife
<1>1. /\ mutex' = t /\ toStop' = sessions /\ UNCHANGED <<sessions, stopQueued>>
  BY DEF StopAll, StopAllBegins, sessionVars
<1>2. Told' = Told
  BY <1>1, StopAllFacts DEF Told
<1>3. StopAllTells'
  BY <1>1, Threads DEF StopAllTells
<1>4. \A w \in Worker : pc'[w] = "close" => cur'[w] \in made
  BY StopAllFacts DEF IInv, HandlersOfSessions, Busy
<1> QED BY <1>1, <1>2, <1>3, <1>4, StopAllFacts, TellingKeepsLife DEF Busy

LEMMA StopEachKeepsLife ==
  ASSUME IInv, NEW t \in Thread, NEW s \in SessionId, StopEach(t, s) PROVE KeepsLife
<1>1. /\ s \in toStop /\ toStop' = toStop \ {s} /\ stopQueued' = stopQueued \cup {s}
      /\ UNCHANGED <<sessions, mutex>>
  BY DEF StopEach, StopAllVisits
<1>2. Told' = Told \cup {s} /\ s \in sessions
  BY <1>1, StopAllFacts DEF Told, IInv, TypeOK
<1>3. StopAllTells'
  BY <1>1, <1>2 DEF StopAllTells, IInv
<1>4. \A w \in Worker : pc'[w] = "close" => cur'[w] \in made
  BY StopAllFacts DEF IInv, HandlersOfSessions, Busy
<1> QED BY <1>1, <1>2, <1>3, <1>4, StopAllFacts, TellingKeepsLife DEF Busy

(* The set is cleared under the mutex, so that no session that was added   *)
(* after stopAll() began is dropped untold.                                *)
LEMMA StopClearKeepsLife ==
  ASSUME IInv, NEW t \in Thread, StopClear(t) PROVE KeepsLife
<1>1. /\ pc[t] = "stopEach" /\ toStop = {} /\ sessions' = {} /\ toStop' = {}
      /\ mutex' = Nobody /\ UNCHANGED stopQueued
  BY DEF StopClear, StopAllEnds, Unlocked, sessionVars
<1>2. sessions \subseteq Told
  BY <1>1, Threads DEF IInv, TypeOK, StopAllTells
<1>3. Told' = Told
  BY <1>1, StopAllFacts DEF Told
<1>4. HandlersOfSessions'
  BY <1>1, <1>2, <1>3, StopAllFacts DEF HandlersOfSessions, Busy, IInv
<1>5. NoGhosts' /\ ArrivalsAreNew' /\ StopAllTells'
  BY <1>1, StopAllFacts DEF NoGhosts, ArrivalsAreNew, StopAllTells, IInv
<1>6. Life!Next
  BY <1>1, <1>2, <1>3, StopAllFacts DEF Life!Next, Told, IInv, TypeOK
<1> QED BY <1>4, <1>5, <1>6 DEF KeepsLife, SessionsKept

LEMMA NextKeepsLife ==
  ASSUME IInv, [Next]_vars PROVE KeepsLife
<1>1. CASE UNCHANGED vars
  BY <1>1, BystandsKeepsLife DEF vars, Bystands, managerVars, stopVars, ioVars, sessionVars
<1>2. ASSUME NEW t \in Thread, StopStep(t) PROVE KeepsLife
  BY <1>2, StopBystands, BystandsKeepsLife, StopAllKeepsLife, StopEachKeepsLife,
     StopClearKeepsLife DEF StopStep
<1>3. CASE MainStep
  BY <1>2, <1>3, Threads, MainBystands, BystandsKeepsLife DEF MainStep
<1>4. CASE Environment
  BY <1>4, MainBystands, BystandsKeepsLife, ConnectsKeepsLife DEF Environment
<1>5. ASSUME NEW w \in Worker, Take(w) PROVE KeepsLife
  BY <1>5, WorkerBystands, BystandsKeepsLife, TakeAcceptKeepsLife,
     SessionEndsKeepsLife, TakeStopKeepsLife DEF Take
<1>6. ASSUME NEW w \in Worker, WorkerStep(w) PROVE KeepsLife
  BY <1>2, <1>6, Threads, WorkerBystands, BystandsKeepsLife, AddSessionKeepsLife,
     StartSessionKeepsLife, CloseSessionKeepsLife, RemoveSessionKeepsLife DEF WorkerStep
<1> QED BY <1>1, <1>3, <1>4, <1>5, <1>6 DEF Next

-----------------------------------------------------------------------------
(***************************************************************************)
(* The accept that is outstanding: there is one, or the last one's handler *)
(* is on its way, whatever a step does.                                    *)
(***************************************************************************)

(* A step that leaves accept and its handlers alone, and main() in stop()  *)
(* or later.                                                               *)
AcceptSame ==
  /\ acceptState # "none" => acceptState' # "none"
  /\ \A w \in Worker : pc[w] \in {"add", "start", "rearm", "accept"} =>
                         pc'[w] \in {"add", "start", "rearm", "accept"}
  /\ isRunning' => isRunning
  /\ pc[Main] \in {"new", "accept"} => pc'[Main] = pc[Main]

LEMMA StopStepAccept ==
  ASSUME IInv, NEW t \in Thread, StopStep(t) PROVE AcceptSame
<1> USE Threads DEF Goes, managerVars, ioVars, stopVars, sessionVars, AcceptSame, IInv, TypeOK
<1>1. StopTest(t) \/ StopSet(t) \/ StopAll(t) => AcceptSame
  BY DEF StopTest, StopSet, StopAll
<1>2. ASSUME NEW s \in SessionId, StopEach(t, s) PROVE AcceptSame
  BY <1>2 DEF StopEach
<1>3. StopClear(t) \/ CloseAcceptor(t) \/ StopContext(t) => AcceptSame
  BY DEF StopClear, CloseAcceptor, StopContext
<1>4. Join(t) \/ JoinSelf(t) \/ StopDone(t) => AcceptSame
  BY DEF Join, JoinSelf, Joining, StopDone
<1> QED BY <1>1, <1>2, <1>3, <1>4 DEF StopStep

LEMMA NextKeepsAcceptor ==
  ASSUME IInv, [Next]_vars PROVE AcceptorListens'
<1>1. ASSUME AcceptSame PROVE AcceptorListens'
  BY <1>1 DEF AcceptSame, AcceptorListens, IInv
<1> USE Threads DEF Goes, managerVars, ioVars, stopVars, sessionVars, IInv, TypeOK
<1>2. CASE UNCHANGED vars
  BY <1>2, <1>1 DEF vars, AcceptSame
<1>3. CASE MainStep
  <2>1. SetRunning \/ FirstAccept => AcceptorListens'
    BY DEF SetRunning, FirstAccept, DoAccept, AcceptorListens
  <2>2. ASSUME NEW w \in Worker, SpawnWorker(w) PROVE AcceptSame
    BY <2>2 DEF SpawnWorker, AcceptSame
  <2>3. EmplaceWorker \/ SpawnThrows \/ StartReturns \/ Destroy => AcceptSame
    BY DEF EmplaceWorker, SpawnThrows, StartReturns, Destroy, AcceptSame
  <2> QED BY <1>1, <1>3, <2>1, <2>2, <2>3, StopStepAccept DEF MainStep
<1>4. CASE Environment
  BY <1>1, <1>4 DEF Environment, Connects, AcceptFails, SignalComes, AcceptSame
<1>5. ASSUME NEW w \in Worker, Take(w) PROVE AcceptorListens'
  <2>1. TakeAccept(w) \/ TakeAcceptError(w) => AcceptorListens'
    BY AcceptOrder DEF TakeAccept, TakeAcceptError, AfterError, AcceptorListens
  <2>2. TakeSignal(w) => AcceptSame
    BY DEF TakeSignal, Free, AcceptSame
  <2>3. ASSUME NEW s \in SessionId, SessionEnds(w, s) \/ TakeStop(w, s)
        PROVE  AcceptSame
    BY <2>3 DEF SessionEnds, TakeStop, Free, AcceptSame
  <2> QED BY <1>1, <1>5, <2>1, <2>2, <2>3 DEF Take
<1>6. ASSUME NEW w \in Worker, WorkerStep(w) PROVE AcceptorListens'
  <2>1. AddSession(w) \/ StartSession(w) => AcceptSame
    BY AcceptOrder DEF AddSession, StartSession, AcceptSame
  <2>2. Rearm(w) \/ NextAccept(w) => AcceptorListens'
    BY DEF Rearm, NextAccept, DoAccept, AcceptorListens
  <2>3. CloseSession(w) \/ RemoveSession(w) \/ WorkerEnds(w) => AcceptSame
    BY DEF CloseSession, RemoveSession, WorkerEnds, AcceptSame
  <2> QED BY <1>1, <1>6, <2>1, <2>2, <2>3, StopStepAccept DEF WorkerStep
<1> QED BY <1>2, <1>3, <1>4, <1>5, <1>6 DEF Next

-----------------------------------------------------------------------------
(***************************************************************************)
(* The theorems.                                                           *)
(***************************************************************************)
LEMMA InitIInv == Init => IInv
<1> SUFFICES ASSUME Init PROVE IInv
  OBVIOUS
<1> USE Threads DEF Init, ManagerInit
<1>1. TypeOK
  <2>1. workerThreads \in Seq(Worker) /\ joinAt \in [Thread -> 1 .. PoolSize + 1]
    OBVIOUS
  <2>2. /\ pc \in [Thread -> Steps]
        /\ \A t \in Thread : pc[t] # "stopEach" /\ mutex # t
    BY DEF Steps
  <2>3. cur \in [Thread -> SessionId \cup Worker \cup {Nobody}]
    OBVIOUS
  <2> QED BY <2>1, <2>2, <2>3 DEF TypeOK
<1>2. WorkersInOrder
  BY DEF WorkersInOrder
<1>3. HandlersOfSessions
  BY DEF HandlersOfSessions, Busy
<1>4. ArrivalsAreNew /\ StopAllTells /\ NoGhosts /\ AcceptorListens
  BY DEF ArrivalsAreNew, StopAllTells, NoGhosts, AcceptorListens
<1> QED BY <1>1, <1>2, <1>3, <1>4 DEF IInv

LEMMA NextKeepsIInv == IInv /\ [Next]_vars => IInv'
  BY NextTyped, NextKeepsLife, NextKeepsAcceptor DEF IInv, Typed, KeepsLife, SessionsKept

LEMMA IInvInvariant == Spec => []IInv
  BY InitIInv, NextKeepsIInv, PTL DEF Spec

(* Every variable of the server keeps its type; in particular the mutex of *)
(* the session manager is held by a thread in stopAll() and nobody else,   *)
(* and stop() never reads past the end of workerThreads_.                  *)
THEOREM TypeCorrect == Spec => []TypeOK
<1>1. IInv => TypeOK
  BY DEF IInv
<1> QED BY <1>1, IInvInvariant, PTL

(* A session that has stopped is not left in the manager's set, however    *)
(* accepting, stopping and stopAll() interleave.                           *)
THEOREM NoSessionIsLeftBehind == Spec => []NoGhosts
<1>1. IInv => NoGhosts
  BY DEF IInv
<1> QED BY <1>1, IInvInvariant, PTL

(* While the server runs an accept is outstanding or on its way, also      *)
(* after errors and while other threads stop or start sessions.            *)
THEOREM NeverTurnsDeaf == Spec => []AcceptorListens
<1>1. IInv => AcceptorListens
  BY DEF IInv
<1> QED BY <1>1, IInvInvariant, PTL

(* The server implements SessionLife: a session is added once, before it   *)
(* starts or is told to stop; it is never dropped untold; and it closes    *)
(* only when it was told.                                                  *)
THEOREM ImplementsSessionLife == Spec => KeepsSessionLife
<1>1. Init => Life!Init
  <2> SUFFICES ASSUME Init PROVE Life!Init
    OBVIOUS
  <2>1. \A s : s \notin Handling({"close"})
    BY HandlingMembers, Threads DEF Init
  <2> QED BY <2>1 DEF Init, ManagerInit, Life!Init
<1>2. IInv /\ [Next]_vars => [Life!Next]_(Life!vars)
  BY NextKeepsLife DEF KeepsLife
<1> QED BY <1>1, <1>2, IInvInvariant, PTL DEF Spec, Life!Spec, KeepsSessionLife
=============================================================================
