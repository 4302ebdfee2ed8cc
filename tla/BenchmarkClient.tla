--------------------------- MODULE BenchmarkClient ---------------------------
(***************************************************************************)
(* The load generator of 01_AsyncNet_Server (BenchmarkClient.cpp): main()  *)
(* starts a thread for each client, joins them and reports; a client       *)
(* writes an echo request, reads a header and the payload it announces,    *)
(* and so on, on a blocking socket of its own, down to the bytes.          *)
(*                                                                         *)
(* At the other end of each connection is a server that takes whole        *)
(* packets and answers them in order (Session.tla is that server's own     *)
(* model); for line 63 of the client, up to MaxBad answers have a wrong    *)
(* magic number.  A connection may break at any moment, in the middle of a *)
(* packet too; what is read from it then ends early.                       *)
(***************************************************************************)
EXTENDS Protocol, FiniteSets

CONSTANTS
  Client,         \* the client threads
  Requests,       \* requestsPerClient
  TestPayload,    \* testPayload
  BadMagic,       \* a magic number that is not MAGIC_HEADER
  MaxBad          \* the server sends at most so many wrong answers

ASSUME BenchmarkClientAssumption ==
  /\ IsFiniteSet(Client) /\ Requests \in Nat /\ MaxBad \in Nat
  /\ TestPayload \in Seq(Byte) /\ IsUInt32(Len(TestPayload))
  /\ BadMagic \in UInt16 \ {MAGIC_HEADER}
  \* Line 40's is seven headers long; none of them would be taken for one.
  /\ Len(TestPayload) % HEADER_SIZE = 0
  /\ \A i \in 1 .. Len(TestPayload) :
       i % HEADER_SIZE = 1 => ntohs(TestPayload, i) # MAGIC_HEADER

VARIABLES
  main,           \* main(): "spawning", "joining", "reported" or "terminated"
  pc,             \* where each client's thread is
  link,           \* its connection: "none", "up", "broken" or "closed"
  toServer,       \* the bytes written and not taken by the server
  toClient,       \* the bytes sent back and not read
  done,           \* i, the requests gone through
  respLength,     \* respHeader.length, while the payload is to be read
  payloadBuf,     \* payloadBuf
  threadLatencies,  \* how many latencies it has measured
  completed,      \* globalCompleted
  errors,         \* globalErrors
  latencies,      \* how many latencies are in latenciesMicroseconds
  sentBad,        \* how many wrong answers were sent to each client
  rejected        \* how many headers each client rejected

streamVars == <<link, toServer, toClient, sentBad>>
threadVars == <<pc, done, respLength, payloadBuf, threadLatencies, rejected>>
totalVars == <<completed, errors, latencies>>
vars == <<main, streamVars, threadVars, totalVars>>

(* Mutant of Request: the payload is not assigned.                         *)
EmptyRequest == serializePacket(Packet(MessageType.ECHO_REQUEST, <<>>))
Request == serializePacket(Packet(MessageType.ECHO_REQUEST, TestPayload))

Places == {"not started", "connect", "write", "header", "payload", "goodbye",
           "merge", "ended", "failed"}

Init ==
  /\ main = "spawning"
  /\ pc = [c \in Client |-> "not started"]
  /\ link = [c \in Client |-> "none"]
  /\ toServer = [c \in Client |-> <<>>] /\ toClient = [c \in Client |-> <<>>]
  /\ done = [c \in Client |-> 0]
  /\ respLength = [c \in Client |-> 0]
  /\ payloadBuf = [c \in Client |-> <<>>]
  /\ threadLatencies = [c \in Client |-> 0]
  /\ completed = 0 /\ errors = 0 /\ latencies = 0
  /\ sentBad = [c \in Client |-> 0] /\ rejected = [c \in Client |-> 0]

-----------------------------------------------------------------------------
(***************************************************************************)
(* main().  A std::thread that cannot be started throws where nothing      *)
(* catches it, and the process ends with all its threads.                  *)
(***************************************************************************)
Spawn(c) ==
  /\ main = "spawning" /\ pc[c] = "not started"
  /\ pc' = [pc EXCEPT ![c] = "connect"]
  /\ UNCHANGED <<main, streamVars, done, respLength, payloadBuf, threadLatencies,
                 rejected, totalVars>>

SpawnFails ==
  /\ main = "spawning" /\ \E c \in Client : pc[c] = "not started"
  /\ main' = "terminated"
  /\ UNCHANGED <<streamVars, threadVars, totalVars>>

AllSpawned ==
  /\ main = "spawning" /\ \A c \in Client : pc[c] # "not started"
  /\ main' = "joining"
  /\ UNCHANGED <<streamVars, threadVars, totalVars>>

(* The last join() has returned, and the totals are printed.               *)
Report ==
  /\ main = "joining" /\ \A c \in Client : pc[c] \in {"ended", "failed"}
  /\ main' = "reported"
  /\ UNCHANGED <<streamVars, threadVars, totalVars>>

-----------------------------------------------------------------------------
(***************************************************************************)
(* runClientWorker().  In(c, p): the thread is at p and the process is     *)
(* still there.                                                            *)
(***************************************************************************)
In(c, p) == main # "terminated" /\ pc[c] = p
Goes(c, p) == pc' = [pc EXCEPT ![c] = p]

(* Mutant of CountsError: the failure is not counted.                      *)
CountsNothing == errors' = errors
CountsError == errors' = errors + 1

(* Mutant of More: one request too many.                                   *)
MoreByOne(i) == i <= Requests
More(i) == i < Requests

(* After a request, rejected or not, the next one or the goodbye.          *)
NextRequest(c) ==
  /\ done' = [done EXCEPT ![c] = @ + 1]
  /\ Goes(c, IF More(done[c] + 1) THEN "write" ELSE "goodbye")

(* The socket's destructor, or close(): what is unread is dropped, and     *)
(* what the server does with the rest is no concern of the client.         *)
Closes(c) ==
  /\ link' = [link EXCEPT ![c] = "closed"]
  /\ toServer' = [toServer EXCEPT ![c] = <<>>]
  /\ toClient' = [toClient EXCEPT ![c] = <<>>]

(* The catch at the end.  What the thread has measured is lost.            *)
Throws(c) ==
  /\ Goes(c, "failed")
  /\ Closes(c)
  /\ CountsError
  /\ UNCHANGED <<main, sentBad, done, respLength, payloadBuf, threadLatencies,
                 rejected, completed, latencies>>

(* resolve(), connect() and what is prepared before the loop.              *)
Connect(c) ==
  /\ In(c, "connect")
  /\ Goes(c, IF More(0) THEN "write" ELSE "goodbye")
  /\ link' = [link EXCEPT ![c] = "up"]
  /\ UNCHANGED <<main, toServer, toClient, sentBad, done, respLength,
                 payloadBuf, threadLatencies, rejected, totalVars>>

ConnectThrows(c) == In(c, "connect") /\ Throws(c)

(* A write on a broken connection may still succeed.                       *)
WriteRequest(c) ==
  /\ In(c, "write")
  /\ toServer' = [toServer EXCEPT ![c] =
                    IF link[c] = "up" THEN @ \o Request ELSE @]
  /\ Goes(c, "header")
  /\ UNCHANGED <<main, link, toClient, sentBad, done, respLength, payloadBuf,
                 threadLatencies, rejected, totalVars>>

WriteThrows(c) == In(c, "write") /\ link[c] = "broken" /\ Throws(c)

(* read() of n bytes: it waits for all of them, or for the end.            *)
CanRead(c, n) == Len(toClient[c]) >= n
Reads(c, n) == toClient' = [toClient EXCEPT ![c] = SubSeq(@, n + 1, Len(@))]
ReadThrows(c, n) == ~CanRead(c, n) /\ link[c] = "broken" /\ Throws(c)

(* Completed(c, b): push_back() and globalCompleted++, b the payload.      *)
Completed(c, b) ==
  /\ payloadBuf' = [payloadBuf EXCEPT ![c] = b]
  /\ threadLatencies' = [threadLatencies EXCEPT ![c] = @ + 1]
  /\ completed' = completed + 1
  /\ NextRequest(c)
  /\ UNCHANGED <<main, link, toServer, sentBad, respLength, rejected, errors,
                 latencies>>

(* The header in headerBuf, once it is read.                               *)
Response(c) ==
  deserializeHeader(SubSeq(toClient[c], 1, HEADER_SIZE),
                    [magic |-> MAGIC_HEADER, type |-> MessageType.UNKNOWN,
                     length |-> 0])

(* Mutant of HasPayload: an echo is taken for a header alone.              *)
NoPayload(h) == h.type # MessageType.ECHO_RESPONSE /\ h.length > 0
HasPayload(h) == h.length > 0

(* Without a payload payloadBuf keeps what it held.                        *)
ReadHeader(c) ==
  /\ In(c, "header") /\ CanRead(c, HEADER_SIZE)
  /\ Reads(c, HEADER_SIZE)
  /\ Response(c).ok
  /\ IF HasPayload(Response(c).header)
     THEN /\ respLength' = [respLength EXCEPT ![c] = Response(c).header.length]
          /\ Goes(c, "payload")
          /\ UNCHANGED <<main, link, toServer, sentBad, done, payloadBuf,
                         threadLatencies, rejected, totalVars>>
     ELSE Completed(c, payloadBuf[c])

(* continue: the payload of that response is left in the stream.           *)
RejectHeader(c) ==
  /\ In(c, "header") /\ CanRead(c, HEADER_SIZE)
  /\ Reads(c, HEADER_SIZE)
  /\ ~Response(c).ok
  /\ CountsError
  /\ rejected' = [rejected EXCEPT ![c] = @ + 1]
  /\ NextRequest(c)
  /\ UNCHANGED <<main, link, toServer, sentBad, respLength, payloadBuf,
                 threadLatencies, completed, latencies>>

HeaderThrows(c) == In(c, "header") /\ ReadThrows(c, HEADER_SIZE)

ReadPayload(c) ==
  /\ In(c, "payload") /\ CanRead(c, respLength[c])
  /\ Reads(c, respLength[c])
  /\ Completed(c, SubSeq(toClient[c], 1, respLength[c]))

PayloadThrows(c) == In(c, "payload") /\ ReadThrows(c, respLength[c])

(* The write of a DISCONNECT, then shutdown() and close(), whose errors    *)
(* are ignored.                                                            *)
Goodbye(c) ==
  /\ In(c, "goodbye")
  /\ Goes(c, "merge")
  /\ Closes(c)
  /\ UNCHANGED <<main, sentBad, done, respLength, payloadBuf, threadLatencies,
                 rejected, totalVars>>

GoodbyeThrows(c) == In(c, "goodbye") /\ link[c] = "broken" /\ Throws(c)

(* Under latencyMutex, which nothing else takes.                           *)
Merge(c) ==
  /\ In(c, "merge")
  /\ latencies' = latencies + threadLatencies[c]
  /\ Goes(c, "ended")
  /\ UNCHANGED <<main, streamVars, done, respLength, payloadBuf,
                 threadLatencies, rejected, completed, errors>>

-----------------------------------------------------------------------------
(***************************************************************************)
(* The server and the network.                                             *)
(***************************************************************************)
Answers(c, response) ==
  /\ link[c] = "up" /\ toServer[c] # <<>>
  /\ toServer' = [toServer EXCEPT ![c] = SubSeq(@, Len(Request) + 1, Len(@))]
  /\ toClient' = [toClient EXCEPT ![c] = @ \o serializePacket(response)]
  /\ UNCHANGED <<main, link, threadVars, totalVars>>

(* The next request is taken, and its payload sent back.                   *)
TakenPayload(c) == SubSeq(toServer[c], HEADER_SIZE + 1, Len(Request))
ServerEchoes(c) ==
  /\ Answers(c, createEchoResponse(TakenPayload(c)))
  /\ UNCHANGED sentBad

ServerErrs(c) ==
  /\ sentBad[c] < MaxBad
  /\ Answers(c, [createEchoResponse(TakenPayload(c))
                   EXCEPT !.header.magic = BadMagic])
  /\ sentBad' = [sentBad EXCEPT ![c] = @ + 1]

(* Some of what was sent back may be lost with the connection.             *)
LinkBreaks(c) ==
  /\ link[c] = "up"
  /\ link' = [link EXCEPT ![c] = "broken"]
  /\ toServer' = [toServer EXCEPT ![c] = <<>>]
  /\ \E n \in 0 .. Len(toClient[c]) :
       toClient' = [toClient EXCEPT ![c] = SubSeq(@, 1, n)]
  /\ UNCHANGED <<main, sentBad, threadVars, totalVars>>

-----------------------------------------------------------------------------
Worker(c) ==
  \/ Connect(c) \/ ConnectThrows(c)
  \/ WriteRequest(c) \/ WriteThrows(c)
  \/ ReadHeader(c) \/ RejectHeader(c) \/ HeaderThrows(c)
  \/ ReadPayload(c) \/ PayloadThrows(c)
  \/ Goodbye(c) \/ GoodbyeThrows(c)
  \/ Merge(c)

Server(c) == ServerEchoes(c) \/ ServerErrs(c)

Main == (\E c \in Client : Spawn(c)) \/ SpawnFails \/ AllSpawned \/ Report

Next == Main \/ \E c \in Client : Worker(c) \/ Server(c) \/ LinkBreaks(c)

Spec == Init /\ [][Next]_vars

(* The scheduler runs every thread, and the server answers what it has     *)
(* received unless the connection breaks.                                  *)
Fairness ==
  /\ WF_vars(Main)
  /\ \A c \in Client : WF_vars(Worker(c)) /\ WF_vars(Server(c))

FairSpec == Spec /\ Fairness

-----------------------------------------------------------------------------
(***************************************************************************)
(* Properties.                                                             *)
(***************************************************************************)
TypeOK ==
  /\ main \in {"spawning", "joining", "reported", "terminated"}
  /\ pc \in [Client -> Places]
  /\ link \in [Client -> {"none", "up", "broken", "closed"}]
  /\ toServer \in [Client -> Seq(Byte)] /\ toClient \in [Client -> Seq(Byte)]
  /\ done \in [Client -> 0 .. Requests]
  /\ respLength \in [Client -> Nat]
  /\ payloadBuf \in [Client -> Seq(Byte)]
  /\ threadLatencies \in [Client -> Nat] /\ rejected \in [Client -> Nat]
  /\ completed \in Nat /\ errors \in Nat /\ latencies \in Nat
  /\ sentBad \in [Client -> 0 .. MaxBad]

Failed == {c \in Client : pc[c] = "failed"}
Workload == Cardinality(Client) * Requests

(* The report adds up: "Successful Requests" and "Failed Requests" make    *)
(* the "Total Workload", and the latency profile is that of every          *)
(* successful request, unless a thread threw (lines 97-99).  Such a thread *)
(* adds one failure, whatever it had left to do, and its latencies are not *)
(* in the profile; that is also the case after its last request.           *)
ReportAddsUp ==
  main = "reported" =>
    /\ completed + errors <= Workload + Cardinality(Failed)
    /\ latencies <= completed
    /\ Failed = {} => completed + errors = Workload /\ latencies = completed

(* A client that rejected no header is in step with its connection: it     *)
(* writes the next request when nothing of the stream is left, so that the *)
(* latency it measures is that of its own request.  One that did is behind *)
(* by the payloads it left in the stream (line 65), and by nothing else:   *)
(* the lag does not grow by itself.  A wrong answer costs its own request  *)
(* and as many more as its payload holds headers, and no other: after that *)
(* the client has found its place again.                                   *)
Unread(c) == Len(toServer[c]) + Len(toClient[c])
InStep ==
  \A c \in Client :
    /\ pc[c] = "write" /\ link[c] = "up" =>
         Unread(c) = rejected[c] * Len(TestPayload)
    /\ rejected[c] <= sentBad[c] * (1 + Len(TestPayload) \div HEADER_SIZE)

(* A request is counted as completed only when a whole echo of the test    *)
(* payload has been read, although the client looks at no more than the    *)
(* magic number; also after a wrong answer, when what it takes for headers *)
(* are pieces of a payload.                                                *)
CompletedMeansEchoed ==
  [][\A c \in Client :
       threadLatencies'[c] # threadLatencies[c] => payloadBuf'[c] = TestPayload]_vars

(* The benchmark ends with its report, or with the process: no client      *)
(* waits for ever for bytes that were never owed to it.                    *)
BenchmarkEnds == <>(main \in {"reported", "terminated"})
=============================================================================
