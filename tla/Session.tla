------------------------------- MODULE Session -------------------------------
(***************************************************************************)
(* One connection of 01_AsyncNet_Server (Session.cpp), with its client on  *)
(* the other end of a TCP stream and the two others that touch it: the     *)
(* accept handler that creates it, and Server::stop(), which tells it to   *)
(* stop (SessionManager::stopAll()) and then stops the io_context.         *)
(*                                                                         *)
(* Handlers run on the session's strand, one at a time and in the order    *)
(* they were posted: strand is that queue.  An asynchronous read or write  *)
(* is started by a handler, completes when the stream lets it, and then    *)
(* has its own handler posted; the other end, the kernel and the other     *)
(* worker threads move in between.                                         *)
(*                                                                         *)
(* A frame is a header and, if its length is not 0, a payload; the client  *)
(* sends the two separately.  A header is abstracted to whether its magic  *)
(* number is right, its type and its length.                               *)
(***************************************************************************)
EXTENDS Integers, Sequences

CONSTANTS
  Payload,          \* what payloads consist of
  NoPayload,        \* an empty payload, and an empty buffer
  MaxPayloadSize,   \* MAX_PAYLOAD_SIZE
  Requests,         \* the frames the client sends
  MaxFrames         \* it sends at most so many

MessageType == {"PING", "PONG", "ECHO_REQUEST", "ECHO_RESPONSE",
                "DATA_STREAM", "DISCONNECT", "UNKNOWN"}
Header == [magic : BOOLEAN, type : MessageType, length : Nat]
Reply == [type : {"PONG", "ECHO_RESPONSE"}, payload : Payload \cup {NoPayload}]

HasPayload(h) == h.length > 0
Frame == {f \in [header : Header, payload : Payload \cup {NoPayload}] :
            HasPayload(f.header) <=> f.payload # NoPayload}

ASSUME SessionAssumption ==
  /\ MaxPayloadSize \in Nat /\ MaxFrames \in Nat
  /\ Requests \subseteq Frame
  /\ NoPayload \notin Payload
  /\ Payload \cap Header = {} /\ NoPayload \notin Header

VARIABLES
  sent,           \* the frames the client has sent, at least their headers
  owed,           \* the payload it has yet to send, or NoPayload
  peer,           \* the client's end: "open", "finished" or "reset"
  inbox,          \* headers and payloads that were sent and not read
  phase,          \* how far the accept handler is with this session
  registered,     \* whether it is in the manager's sessions_
  socketOpen,     \* whether socket_ is open
  isStopped,      \* isStopped_
  server,         \* how far Server::stop() is: "running", "stopping", "stopped"
  strand,         \* the handlers queued on strand_
  readState,      \* the outstanding async_read
  reading,        \* what it reads: "header" or "payload"
  headerBuffer,   \* headerBuffer_, and the header doReadPayload() keeps
  payloadBuffer,  \* payloadBuffer_
  writeQueue,     \* writeQueue_
  writeState,     \* the outstanding async_write
  processed,      \* how often this session incremented totalMessagesProcessed_
  promised,       \* every packet given to send()
  written,        \* the packets written to the stream in full
  cut             \* a packet was written to the stream in part

clientVars == <<sent, owed, peer>>
readVars == <<readState, reading, headerBuffer, payloadBuffer>>
writeVars == <<writeQueue, writeState, written, cut>>
lifeVars == <<phase, registered, socketOpen, isStopped, server>>
countVars == <<processed, promised>>
sessionVars == <<clientVars, inbox, phase, registered, socketOpen, isStopped,
                 strand, readVars, writeVars, countVars>>
vars == <<clientVars, inbox, lifeVars, strand, readVars, writeVars, countVars>>

(***************************************************************************)
(* Handlers, as they are queued.                                           *)
(***************************************************************************)
Stop == [run |-> "stop"]
Send(reply) == [run |-> "send", reply |-> reply]
HasRead(what, ok) == [run |-> what, ok |-> ok]
HasWritten(ok) == [run |-> "written", ok |-> ok]

Handler == {Stop} \cup {Send(r) : r \in Reply}
             \cup {HasRead(what, ok) : what \in {"header", "payload"}, ok \in BOOLEAN}
             \cup {HasWritten(ok) : ok \in BOOLEAN}

(* An operation: "none" outstanding, "pending", or completed with success  *)
(* or with an error code and not yet on the strand.                        *)
OpState == {"none", "pending", "ok", "failed"}

(* An operation on a closed socket fails at once.                          *)
Started(open) == IF open THEN "pending" ELSE "failed"

(* What close() does to an outstanding one.                                *)
Cancelled(state) == IF state = "pending" THEN "failed" ELSE state

WellFormedHeader(h) == h.magic /\ h.length <= MaxPayloadSize

(***************************************************************************)
(* processPacket(): what it posts to the strand.  The mutant forgets the   *)
(* payload of the request.                                                 *)
(***************************************************************************)
EmptyEcho(type, payload) ==
  CASE type = "PING" -> <<[type |-> "PONG", payload |-> NoPayload]>>
    [] type = "ECHO_REQUEST" -> <<[type |-> "ECHO_RESPONSE", payload |-> NoPayload]>>
    [] OTHER -> <<>>
ReplyTo(type, payload) ==
  CASE type = "PING" -> <<[type |-> "PONG", payload |-> NoPayload]>>
    [] type = "ECHO_REQUEST" -> <<[type |-> "ECHO_RESPONSE", payload |-> payload]>>
    [] OTHER -> <<>>
Posted(type, payload) ==
  IF type = "DISCONNECT" THEN <<Stop>>
  ELSE LET r == ReplyTo(type, payload)
       IN  [i \in 1 .. Len(r) |-> Send(r[i])]

Init ==
  /\ sent = <<>> /\ owed = NoPayload /\ peer = "open" /\ inbox = <<>>
  /\ phase = "accepted" /\ registered = FALSE
  /\ socketOpen = TRUE /\ isStopped = FALSE /\ strand = <<>>
  /\ server = "running"
  /\ readState = "none" /\ reading = "header"
  /\ headerBuffer = NoPayload /\ payloadBuffer = NoPayload
  /\ writeQueue = <<>> /\ writeState = "none" /\ written = <<>> /\ cut = FALSE
  /\ processed = 0 /\ promised = <<>>

-----------------------------------------------------------------------------
(***************************************************************************)
(* The client.                                                             *)
(***************************************************************************)
ClientSendsHeader(f) ==
  /\ peer = "open" /\ owed = NoPayload
  /\ Len(sent) < MaxFrames
  /\ sent' = Append(sent, f)
  /\ inbox' = Append(inbox, f.header)
  /\ owed' = f.payload
  /\ UNCHANGED <<peer, lifeVars, strand, readVars, writeVars, countVars>>

ClientSendsPayload ==
  /\ peer = "open" /\ owed # NoPayload
  /\ inbox' = Append(inbox, owed)
  /\ owed' = NoPayload
  /\ UNCHANGED <<sent, peer, lifeVars, strand, readVars, writeVars, countVars>>

(* It shuts its end down, perhaps within a frame, or the connection breaks.*)
ClientLeaves ==
  /\ \/ peer = "open" /\ peer' \in {"finished", "reset"}
     \/ peer = "finished" /\ peer' = "reset"
  /\ UNCHANGED <<sent, owed, inbox, lifeVars, strand, readVars, writeVars,
                 countVars>>

-----------------------------------------------------------------------------
(***************************************************************************)
(* The accept handler: addSession(), then start(), which is not on the     *)
(* session's strand.                                                       *)
(***************************************************************************)
AddSession ==
  /\ phase = "accepted"
  /\ phase' = "registered"
  /\ registered' = TRUE
  /\ UNCHANGED <<clientVars, inbox, socketOpen, isStopped, server, strand,
                 readVars, writeVars, countVars>>

Start ==
  /\ phase = "registered"
  /\ phase' = "started"
  /\ readState' = Started(socketOpen) /\ reading' = "header"
  /\ UNCHANGED <<clientVars, inbox, registered, socketOpen, isStopped, server,
                 strand, headerBuffer, payloadBuffer, writeVars, countVars>>

-----------------------------------------------------------------------------
(***************************************************************************)
(* Server::stop().  Of the handlers it has posted, the io_context runs as  *)
(* many as the workers take before it is stopped, perhaps none.  One that  *)
(* is run meanwhile was taken before, so that its step comes before.       *)
(***************************************************************************)
ContextRuns == server # "stopped"

(* The strand after a session's stop(), and the mutant of a stopAll() that *)
(* only clears sessions_.                                                  *)
Untold == strand
Told == Append(strand, Stop)

(* stopAll() for this session: it posts a stop, and sessions_ is cleared.  *)
(* A second stop() may have passed its test of isRunning_ too.             *)
StopAll ==
  /\ registered
  /\ registered' = FALSE
  /\ strand' = Told
  /\ server' = IF server = "running" THEN "stopping" ELSE server
  /\ UNCHANGED <<clientVars, inbox, phase, socketOpen, isStopped, readVars,
                 writeVars, countVars>>

(* stopAll() when the session is not in sessions_, not yet or not any more.*)
StopAllMisses ==
  /\ ~registered /\ server = "running"
  /\ server' = "stopping"
  /\ UNCHANGED sessionVars

(* ioContext_.stop(): what is queued is never run.                         *)
ContextStops ==
  /\ server = "stopping"
  /\ server' = "stopped"
  /\ UNCHANGED sessionVars

-----------------------------------------------------------------------------
(***************************************************************************)
(* The asynchronous operations.  When the io_context has been stopped the  *)
(* kernel may still complete one; nobody hears of it.                      *)
(***************************************************************************)
ReadSucceeds ==
  /\ readState = "pending" /\ inbox # <<>>
  /\ readState' = "ok"
  /\ IF reading = "header"
     THEN headerBuffer' = Head(inbox) /\ UNCHANGED payloadBuffer
     ELSE payloadBuffer' = Head(inbox) /\ UNCHANGED headerBuffer
  /\ inbox' = Tail(inbox)
  /\ UNCHANGED <<clientVars, lifeVars, strand, reading, writeVars, countVars>>

(* The end of the stream, or an error.                                     *)
ReadFails ==
  /\ readState = "pending"
  /\ \/ peer = "reset"
     \/ peer = "finished" /\ inbox = <<>>
  /\ readState' = "failed"
  /\ UNCHANGED <<clientVars, inbox, lifeVars, strand, reading, headerBuffer,
                 payloadBuffer, writeVars, countVars>>

ReadIsPosted ==
  /\ ContextRuns /\ readState \in {"ok", "failed"}
  /\ strand' = Append(strand, HasRead(reading, readState = "ok"))
  /\ readState' = "none"
  /\ UNCHANGED <<clientVars, inbox, lifeVars, reading, headerBuffer,
                 payloadBuffer, writeVars, countVars>>

WriteSucceeds ==
  /\ writeState = "pending" /\ peer # "reset"
  /\ writeState' = "ok"
  /\ written' = Append(written, Head(writeQueue))
  /\ UNCHANGED <<clientVars, inbox, lifeVars, strand, readVars, writeQueue,
                 cut, countVars>>

(* For a reset, or for any other reason, such as a lack of buffers.        *)
WriteFails ==
  /\ writeState = "pending"
  /\ writeState' = "failed"
  /\ cut' \in {cut, TRUE}
  /\ UNCHANGED <<clientVars, inbox, lifeVars, strand, readVars, writeQueue,
                 written, countVars>>

WriteIsPosted ==
  /\ ContextRuns /\ writeState \in {"ok", "failed"}
  /\ strand' = Append(strand, HasWritten(writeState = "ok"))
  /\ writeState' = "none"
  /\ UNCHANGED <<clientVars, inbox, lifeVars, readVars, writeQueue, written,
                 cut, countVars>>

-----------------------------------------------------------------------------
(***************************************************************************)
(* The handlers.  Runs(h): h is next on the strand, and a worker takes it; *)
(* a handler that posts others appends them to what is left.               *)
(***************************************************************************)
Runs(h) == ContextRuns /\ strand # <<>> /\ h = Head(strand)
Posts(hs) == strand' = Tail(strand) \o hs

(* The lambda stop() posts.                                                *)
StopAgain ==
  /\ Runs(Stop) /\ isStopped
  /\ Posts(<<>>)
  /\ UNCHANGED <<clientVars, inbox, lifeVars, readVars, writeVars, countVars>>

(* removeSession(), and the mutant that forgets to call it.                *)
StaysRegistered == UNCHANGED registered
Deregisters == registered' = FALSE

(* shutdown() and close() cancel what is outstanding; a write may have put *)
(* part of its packet on the stream.  Then removeSession().                *)
StopFirst ==
  /\ Runs(Stop) /\ ~isStopped
  /\ isStopped' = TRUE
  /\ socketOpen' = FALSE
  /\ readState' = Cancelled(readState) /\ writeState' = Cancelled(writeState)
  /\ cut' \in {cut, cut \/ writeState = "pending"}
  /\ Deregisters
  /\ Posts(<<>>)
  /\ UNCHANGED <<clientVars, inbox, phase, server, reading, headerBuffer,
                 payloadBuffer, writeQueue, written, countVars>>

(* Mutant of WriteInProgress: every send() starts a write.                 *)
NoWriteInProgress == FALSE
WriteInProgress == writeQueue # <<>>

(* The lambda send() posts.                                                *)
SendReply(r) ==
  /\ Runs(Send(r))
  /\ Posts(<<>>)
  /\ IF isStopped
     THEN UNCHANGED <<writeQueue, writeState>>
     ELSE /\ writeQueue' = Append(writeQueue, r)
          /\ writeState' = IF WriteInProgress THEN writeState
                                              ELSE Started(socketOpen)
  /\ UNCHANGED <<clientVars, inbox, lifeVars, readVars, written, cut, countVars>>

(* processPacket() and the doReadHeader() after it.                        *)
Process(type, payload) ==
  /\ processed' = processed + 1
  /\ promised' = promised \o ReplyTo(type, payload)
  /\ Posts(Posted(type, payload))
  /\ readState' = Started(socketOpen) /\ reading' = "header"

(* What an error code makes a read handler post; the mutant takes the end  *)
(* of the stream for no reason to stop.                                    *)
NoReasonToStop == <<>>
OnReadError == <<Stop>>

(* Either read handler with an error code.                                 *)
ReadError(what) ==
  /\ Runs(HasRead(what, FALSE))
  /\ Posts(OnReadError)
  /\ UNCHANGED <<clientVars, inbox, lifeVars, readVars, writeVars, countVars>>

HeaderRejected ==
  /\ Runs(HasRead("header", TRUE))
  /\ ~WellFormedHeader(headerBuffer)
  /\ Posts(<<Stop>>)
  /\ UNCHANGED <<clientVars, inbox, lifeVars, readVars, writeVars, countVars>>

(* What is read after a header that announces a payload; the mutant calls  *)
(* doReadHeader() in the place of doReadPayload().                         *)
HeaderAgain == "header"
PayloadNext == "payload"

(* doReadPayload().                                                        *)
PayloadWanted ==
  /\ Runs(HasRead("header", TRUE))
  /\ WellFormedHeader(headerBuffer) /\ HasPayload(headerBuffer)
  /\ Posts(<<>>)
  /\ readState' = Started(socketOpen) /\ reading' = PayloadNext
  /\ UNCHANGED <<clientVars, inbox, lifeVars, headerBuffer, payloadBuffer,
                 writeVars, countVars>>

HeaderProcessed ==
  /\ Runs(HasRead("header", TRUE))
  /\ WellFormedHeader(headerBuffer) /\ ~HasPayload(headerBuffer)
  /\ Process(headerBuffer.type, NoPayload)
  /\ UNCHANGED <<clientVars, inbox, lifeVars, headerBuffer, payloadBuffer,
                 writeVars>>

PayloadProcessed ==
  /\ Runs(HasRead("payload", TRUE))
  /\ Process(headerBuffer.type, payloadBuffer)
  /\ UNCHANGED <<clientVars, inbox, lifeVars, headerBuffer, payloadBuffer,
                 writeVars>>

(* The next packet's write, if there is one; the mutant leaves it to the   *)
(* next send().                                                            *)
NoNextWrite(queue) == writeState
NextWrite(queue) == IF queue # <<>> THEN Started(socketOpen) ELSE writeState

(* The write handler without an error: the next packet, if there is one,   *)
(* also after a stop.                                                      *)
Written ==
  /\ Runs(HasWritten(TRUE))
  /\ Posts(<<>>)
  /\ writeQueue' = Tail(writeQueue)
  /\ writeState' = NextWrite(Tail(writeQueue))
  /\ UNCHANGED <<clientVars, inbox, lifeVars, readVars, written, cut, countVars>>

(* The packet of a failed write stays at the front; the mutant gives it up *)
(* before the stop, so that a send() in between finds no write in progress.*)
GivenUp == <<>>
KeptInFront == writeQueue

(* With an error.                                                          *)
WriteError ==
  /\ Runs(HasWritten(FALSE))
  /\ Posts(<<Stop>>)
  /\ writeQueue' = KeptInFront
  /\ UNCHANGED <<clientVars, inbox, lifeVars, readVars, writeState, written,
                 cut, countVars>>

-----------------------------------------------------------------------------
Client ==
  \/ \E f \in Requests : ClientSendsHeader(f)
  \/ ClientSendsPayload
  \/ ClientLeaves

Acceptor == AddSession \/ Start

Reactor == ReadSucceeds \/ ReadFails \/ ReadIsPosted \/ WriteIsPosted

Strand ==
  \/ StopAgain \/ StopFirst
  \/ \E r \in Reply : SendReply(r)
  \/ \E what \in {"header", "payload"} : ReadError(what)
  \/ HeaderRejected \/ PayloadWanted \/ HeaderProcessed \/ PayloadProcessed
  \/ Written \/ WriteError

Next == Client \/ Acceptor \/ StopAll \/ StopAllMisses \/ ContextStops \/ Reactor
          \/ WriteSucceeds \/ WriteFails \/ Strand

Spec == Init /\ [][Next]_vars

(***************************************************************************)
(* Fairness.  The io_context has worker threads, so what is ready is run   *)
(* and what can complete completes, until the context is stopped: then     *)
(* only the accept handler goes on, if a worker was in it.  Nothing is     *)
(* assumed of the client, not even that it reads what is written to it;    *)
(* where a property needs that, ClientReads says so.                       *)
(***************************************************************************)
Fairness ==
  /\ WF_vars(Acceptor) /\ WF_vars(Strand)
  /\ WF_vars(ContextRuns /\ (ReadSucceeds \/ ReadFails)) /\ WF_vars(ReadIsPosted)
  /\ WF_vars(ContextRuns /\ peer = "reset" /\ WriteFails) /\ WF_vars(WriteIsPosted)
ClientReads == WF_vars(ContextRuns /\ WriteSucceeds)

FairSpec == Spec /\ Fairness

-----------------------------------------------------------------------------
(***************************************************************************)
(* Properties.                                                             *)
(***************************************************************************)

(* Every variable has its type; in particular the header buffer has a      *)
(* header whenever a payload is read, and the buffers never hold a header  *)
(* in the place of a payload, which is what a session that loses its place *)
(* in the stream would read.                                               *)
TypeOK ==
  /\ sent \in Seq(Requests) /\ Len(sent) <= MaxFrames
  /\ owed \in Payload \cup {NoPayload}
  /\ peer \in {"open", "finished", "reset"}
  /\ inbox \in Seq(Header \cup Payload)
  /\ phase \in {"accepted", "registered", "started"}
  /\ registered \in BOOLEAN /\ socketOpen \in BOOLEAN /\ isStopped \in BOOLEAN
  /\ server \in {"running", "stopping", "stopped"}
  /\ strand \in Seq(Handler)
  /\ readState \in OpState /\ reading \in {"header", "payload"}
  /\ headerBuffer \in Header \cup {NoPayload}
  /\ payloadBuffer \in Payload \cup {NoPayload}
  /\ writeQueue \in Seq(Reply) /\ writeState \in OpState
  /\ processed \in 0 .. MaxFrames
  /\ promised \in Seq(Reply) /\ written \in Seq(Reply)
  /\ cut \in BOOLEAN

At(runs) == {i \in DOMAIN strand : strand[i].run \in runs}
ReadHandlers == At({"header", "payload"})
WriteHandlers == At({"written"})
StopQueued == At({"stop"}) # {}
Stopping == isStopped \/ StopQueued

(* A session that is neither stopped nor about to be has its one read      *)
(* outstanding or that read's handler queued: it never goes deaf, and      *)
(* headerBuffer_ and payloadBuffer_ are never lent to two reads.           *)
ListensUntilStopped ==
  /\ readState # "none" => ReadHandlers = {}
  /\ \A i, j \in ReadHandlers : i = j
  /\ phase = "started" /\ ~Stopping => readState # "none" \/ ReadHandlers # {}

(* The same for writes: never two at once, which would mix their bytes;    *)
(* the buffer a write uses, writeQueue_.front(), stays until its handler   *)
(* has run; and packets wait only while a write is under way.              *)
OneWriteAtATime ==
  /\ writeState # "none" => WriteHandlers = {}
  /\ \A i, j \in WriteHandlers : i = j
  /\ writeState # "none" \/ WriteHandlers # {} => writeQueue # <<>>
  /\ writeQueue # <<>> /\ ~Stopping => writeState # "none" \/ WriteHandlers # {}

(* Nothing is written after part of a packet: the client cannot take the   *)
(* beginning of a reply for the rest of another.                           *)
NothingAfterCut == [][cut => cut' /\ written' = written]_vars

(* What stop() does is final: the socket is not used again and the session *)
(* does not come back into the manager's set, whatever is still queued.    *)
StoppedForGood ==
  [][isStopped' => ~socketOpen' /\ ~registered' /\ written' = written]_vars

Promise == INSTANCE EchoService WITH taken <- processed, open <- socketOpen

(* Requests are answered in order, each once and with its own payload, and *)
(* nothing else is ever written: the session implements EchoService.       *)
AnswersInOrder == Promise!Spec

(* Nothing refers to the session any more: shared_from_this() has kept it  *)
(* alive for its handlers, and now it is destroyed.                        *)
Released ==
  /\ phase = "started" /\ ~registered
  /\ readState = "none" /\ writeState = "none" /\ strand = <<>>

(* A session whose client has left, or whose stop is queued because of an  *)
(* error, a bad header or DISCONNECT, is destroyed in the end, whether or  *)
(* not the client reads what is being written.  Server::stop() may come    *)
(* before that; to a session it finds, or tells to stop, nothing is        *)
(* promised, since the handlers left behind are never run (Server.cpp:56). *)
ReleasedInTheEnd ==
  (peer # "open" \/ StopQueued) ~> (Released \/ server # "running")

(* If the client reads, every request taken is answered, unless the        *)
(* session stops, or the server does.                                      *)
EveryRequestAnswered ==
  ClientReads => <>[](isStopped \/ server # "running" \/ written = promised)

(* The session keeps its side of SessionLife.                              *)
Only(condition) == IF condition THEN {"self"} ELSE {}
Life == INSTANCE SessionLife WITH
  added <- Only(registered),
  started <- Only(phase = "started"),
  told <- Only(Stopping),
  closed <- Only(isStopped)
KeepsSessionLife == Life!Spec
=============================================================================
