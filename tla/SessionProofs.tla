---------------------------- MODULE SessionProofs ----------------------------
(***************************************************************************)
(* For any payloads, any requests and any number of them, and however the  *)
(* client, the kernel, the accept handler, Server::stop() and the handlers *)
(* of the session interleave: it always has the one read outstanding that  *)
(* it needs and never two writes, a stop is final, and it answers as       *)
(* EchoService says.                                                       *)
(*                                                                         *)
(* The argument is about two queues, the byte stream and the strand.  Each *)
(* is seen as a path: what is queued leads, link by link, from where its   *)
(* reader is to where its writer is.                                       *)
(***************************************************************************)
EXTENDS Session, SequenceTheorems, TLAPS

(* The elements of q are the labels of a path from a to b in the graph     *)
(* whose links are triples of a label and two places.                      *)
Path(links, q, a, b) ==
  \E c : /\ DOMAIN c = 1 .. Len(q) + 1
         /\ c[1] = a /\ c[Len(q) + 1] = b
         /\ \A i \in 1 .. Len(q) : <<q[i], c[i], c[i + 1]>> \in links

(* What is queued.                                                         *)
Has(q, runs) == \E i \in DOMAIN q : q[i].run \in runs
Sole(q, runs) ==
  \A i, j \in DOMAIN q : q[i].run \in runs /\ q[j].run \in runs => i = j
HasOk(q, runs) == \E i \in DOMAIN q : q[i].run \in runs /\ q[i].ok = TRUE

ReadRuns == {"header", "payload"}
WriteRuns == {"written"}
StopRuns == {"stop"}
AnyButStop == {"header", "payload", "written", "send"}

-----------------------------------------------------------------------------
(***************************************************************************)
(* The inductive invariant.                                                *)
(***************************************************************************)

(* An accepted session is in nobody's hands before it is added, and stays  *)
(* in the manager's set until it is told to stop; nothing but a stop is    *)
(* queued before it starts.  Stopping it closes its socket, and what is    *)
(* outstanding then has been cancelled.                                    *)
Lifecycle ==
  /\ socketOpen <=> ~isStopped
  /\ isStopped => ~registered /\ readState # "pending" /\ writeState # "pending"
  /\ phase = "accepted" => ~registered /\ ~isStopped /\ ~Has(strand, StopRuns)
  /\ phase = "registered" => registered \/ isStopped \/ Has(strand, StopRuns)
  /\ phase # "started" =>
       /\ readState = "none" /\ writeState = "none" /\ writeQueue = <<>>
       /\ ~Has(strand, AnyButStop)
       /\ reading = "header"

(* ListensUntilStopped and OneWriteAtATime, said of what is queued.        *)
OneRead ==
  /\ readState # "none" => ~Has(strand, ReadRuns)
  /\ Sole(strand, ReadRuns)
  /\ phase = "started" /\ ~isStopped /\ ~Has(strand, StopRuns) =>
       readState # "none" \/ Has(strand, ReadRuns)
  /\ Has(strand, {"header"}) => reading = "header"
  /\ Has(strand, {"payload"}) => reading = "payload"

OneWrite ==
  /\ writeState # "none" => ~Has(strand, WriteRuns)
  /\ Sole(strand, WriteRuns)
  /\ writeState # "none" \/ Has(strand, WriteRuns) => writeQueue # <<>>
  /\ writeQueue # <<>> /\ ~isStopped /\ ~Has(strand, StopRuns) =>
       writeState # "none" \/ Has(strand, WriteRuns)

(* After part of a packet the write has failed, or is bound to.            *)
CutIsLast ==
  cut => /\ writeState \in {"none", "failed"}
         /\ ~HasOk(strand, WriteRuns)
         /\ writeQueue # <<>>

Control == Lifecycle /\ OneRead /\ OneWrite /\ CutIsLast

(* The stream: each header leads to its payload or to the next header.     *)
PastHeader(k, h) == IF HasPayload(h) THEN <<k, "payload">> ELSE <<k + 1, "header">>
StreamLinks ==
  {<<sent[k].header, <<k, "header">>, PastHeader(k, sent[k].header)>> :
     k \in 1 .. Len(sent)}
  \cup {<<sent[k].payload, <<k, "payload">>, <<k + 1, "header">>>> :
          k \in 1 .. Len(sent)}

(* Where the client is in it, and where the session is.                    *)
ClientAt ==
  IF owed = NoPayload THEN <<Len(sent) + 1, "header">> ELSE <<Len(sent), "payload">>

StillReads == phase # "started" \/ readState # "none" \/ Has(strand, ReadRuns)
HasGot == readState = "ok" \/ HasOk(strand, ReadRuns)
Request == sent[processed + 1]

SessionAt ==
  IF ~HasGot THEN <<processed + 1, reading>>
  ELSE IF reading = "header" THEN PastHeader(processed + 1, headerBuffer)
  ELSE <<processed + 2, "header">>

(* As long as it reads it has not lost its place: the buffers hold what    *)
(* was sent there, and inbox leads from there to the client's place.       *)
InPlace ==
  /\ processed \in 0 .. Len(sent)
  /\ \A k \in 1 .. processed : WellFormedHeader(sent[k].header)
  /\ owed # NoPayload => Len(sent) > 0 /\ owed = sent[Len(sent)].payload
  /\ StillReads => Path(StreamLinks, inbox, SessionAt, ClientAt)
  /\ StillReads /\ (HasGot \/ reading = "payload") =>
       processed < Len(sent) /\ headerBuffer = Request.header
  /\ StillReads /\ reading = "payload" =>
       /\ WellFormedHeader(Request.header) /\ HasPayload(Request.header)
       /\ HasGot => payloadBuffer = Request.payload

(* The packets in writeQueue_ that are not yet written: the front may be,  *)
(* if its handler has not run.                                             *)
FrontWritten == writeState = "ok" \/ HasOk(strand, WriteRuns)
Unwritten == IF FrontWritten THEN Tail(writeQueue) ELSE writeQueue

(* The strand: a send leads from one reply promised to the next, any other *)
(* handler stays.                                                          *)
ReplyLinks ==
  {<<Send(promised[k]), k - 1, k>> : k \in 1 .. Len(promised)}
  \cup {<<h, k, k>> : h \in {g \in Handler : g.run # "send"}, k \in 0 .. Len(promised)}

(* Until it stops, no reply is lost: what was promised is written, or      *)
(* waits to be, or its send is queued, in this order.                      *)
InOrder ==
  ~isStopped =>
    /\ Len(written) + Len(Unwritten) <= Len(promised)
    /\ \A i \in 1 .. Len(Unwritten) : Unwritten[i] = promised[Len(written) + i]
    /\ Path(ReplyLinks, strand, Len(written) + Len(Unwritten), Len(promised))

IInv == TypeOK /\ Control /\ InPlace /\ InOrder

-----------------------------------------------------------------------------
(***************************************************************************)
(* Paths.                                                                  *)
(***************************************************************************)
LEMMA PathEmpty ==
  ASSUME NEW links, NEW a, NEW b
  PROVE  Path(links, <<>>, a, b) <=> a = b
<1>1. Len(<<>>) = 0 /\ 1 .. 0 = {}
  OBVIOUS
<1>2. ASSUME a = b PROVE Path(links, <<>>, a, b)
  <2> DEFINE c == [i \in 1 .. 1 |-> a]
  <2>1. DOMAIN c = 1 .. 0 + 1 /\ c[1] = a /\ c[0 + 1] = b
    BY <1>2
  <2> HIDE DEF c
  <2> QED BY <1>1, <2>1 DEF Path
<1>3. Path(links, <<>>, a, b) => a = b
  BY <1>1 DEF Path
<1> QED BY <1>2, <1>3

(* More may be linked ...                                                  *)
LEMMA PathWidens ==
  ASSUME NEW links, NEW more, links \subseteq more,
         NEW q, NEW a, NEW b, Path(links, q, a, b)
  PROVE  Path(more, q, a, b)
<1>1. PICK c : /\ DOMAIN c = 1 .. Len(q) + 1
               /\ c[1] = a /\ c[Len(q) + 1] = b
               /\ \A i \in 1 .. Len(q) : <<q[i], c[i], c[i + 1]>> \in links
  BY DEF Path
<1>2. \A i \in 1 .. Len(q) : <<q[i], c[i], c[i + 1]>> \in more
  BY <1>1
<1> QED BY <1>1, <1>2 DEF Path

(* ... what is queued is a link further ...                                *)
LEMMA PathAppend ==
  ASSUME NEW links, NEW S, NEW q \in Seq(S), NEW x \in S, NEW a, NEW b, NEW d,
         Path(links, q, a, b), <<x, b, d>> \in links
  PROVE  Path(links, Append(q, x), a, d)
<1> DEFINE n == Len(q)
           r == Append(q, x)
<1>1. n \in Nat /\ Len(r) = n + 1 /\ r[n + 1] = x /\ \A i \in 1 .. n : r[i] = q[i]
  BY AppendProperties
<1>2. PICK c : /\ DOMAIN c = 1 .. n + 1
               /\ c[1] = a /\ c[n + 1] = b
               /\ \A i \in 1 .. n : <<q[i], c[i], c[i + 1]>> \in links
  BY DEF Path
<1> HIDE DEF n, r
<1> DEFINE e == [i \in 1 .. n + 2 |-> IF i = n + 2 THEN d ELSE c[i]]
<1>3. DOMAIN e = 1 .. n + 2 /\ e[n + 2] = d /\ \A i \in 1 .. n + 1 : e[i] = c[i]
  BY <1>1
<1> HIDE DEF e
<1>4. e[1] = a
  BY <1>1, <1>2, <1>3
<1>5. ASSUME NEW i \in 1 .. n + 1 PROVE <<r[i], e[i], e[i + 1]>> \in links
  <2>1. CASE i = n + 1
    <3>1. r[i] = x /\ e[i] = b /\ e[i + 1] = d
      BY <1>1, <1>2, <1>3, <2>1
    <3> QED BY <3>1
  <2>2. CASE i # n + 1
    <3>1. i \in 1 .. n /\ i + 1 \in 1 .. n + 1
      BY <1>1, <2>2
    <3>2. r[i] = q[i] /\ e[i] = c[i] /\ e[i + 1] = c[i + 1]
      BY <1>1, <1>3, <3>1
    <3> QED BY <1>2, <3>1, <3>2
  <2> QED BY <2>1, <2>2
<1>6. Len(r) + 1 = n + 2
  BY <1>1
<1>7. Path(links, r, a, d)
  BY <1>1, <1>3, <1>4, <1>5, <1>6 DEF Path
<1> QED BY <1>7 DEF r

(* ... and what is taken is the first link.                                *)
LEMMA PathTail ==
  ASSUME NEW links, NEW S, NEW q \in Seq(S), q # <<>>, NEW a, NEW b,
         Path(links, q, a, b)
  PROVE  \E d : <<Head(q), a, d>> \in links /\ Path(links, Tail(q), d, b)
<1> DEFINE n == Len(q)
           r == Tail(q)
<1>1. /\ n \in Nat /\ n >= 1 /\ Head(q) = q[1]
      /\ Len(r) = n - 1 /\ \A i \in 1 .. n - 1 : r[i] = q[i + 1]
  BY HeadTailProperties
<1>2. PICK c : /\ DOMAIN c = 1 .. n + 1
               /\ c[1] = a /\ c[n + 1] = b
               /\ \A i \in 1 .. n : <<q[i], c[i], c[i + 1]>> \in links
  BY DEF Path
<1> HIDE DEF n, r
<1> DEFINE e == [i \in 1 .. n |-> c[i + 1]]
<1>3. DOMAIN e = 1 .. n /\ \A i \in 1 .. n : e[i] = c[i + 1]
  OBVIOUS
<1> HIDE DEF e
<1>4. e[1] = c[2] /\ e[n] = b
  <2>1. 1 \in 1 .. n /\ n \in 1 .. n /\ 1 + 1 = 2
    BY <1>1
  <2> QED BY <1>2, <1>3, <2>1
<1>5. ASSUME NEW i \in 1 .. n - 1 PROVE <<r[i], e[i], e[i + 1]>> \in links
  <2>1. i \in 1 .. n /\ i + 1 \in 1 .. n
    BY <1>1
  <2>2. r[i] = q[i + 1] /\ e[i] = c[i + 1] /\ e[i + 1] = c[(i + 1) + 1]
    BY <1>1, <1>3, <2>1
  <2> QED BY <1>2, <2>1, <2>2
<1>6. Len(r) + 1 = n
  BY <1>1
<1>7. Path(links, r, c[2], b)
  BY <1>1, <1>3, <1>4, <1>5, <1>6 DEF Path
<1>8. <<Head(q), a, c[2]>> \in links
  <2>1. 1 \in 1 .. n /\ 1 + 1 = 2
    BY <1>1
  <2> QED BY <1>1, <1>2, <2>1
<1> QED BY <1>7, <1>8 DEF r

-----------------------------------------------------------------------------
(***************************************************************************)
(* The strand.                                                             *)
(***************************************************************************)
LEMMA Handlers ==
  /\ Stop \in Handler /\ Stop.run = "stop"
  /\ \A r \in Reply : Send(r) \in Handler /\ Send(r).run = "send"
  /\ \A what \in ReadRuns, ok \in BOOLEAN :
       /\ HasRead(what, ok) \in Handler
       /\ HasRead(what, ok).run = what /\ HasRead(what, ok).ok = ok
  /\ \A ok \in BOOLEAN : /\ HasWritten(ok) \in Handler
                         /\ HasWritten(ok).run = "written" /\ HasWritten(ok).ok = ok
<1>1. Stop \in Handler /\ Stop.run = "stop"
  BY DEF Handler, Stop
<1>2. \A r \in Reply : Send(r) \in Handler /\ Send(r).run = "send"
  BY DEF Handler, Send
<1>3. ASSUME NEW what \in ReadRuns, NEW ok \in BOOLEAN
      PROVE  /\ HasRead(what, ok) \in Handler
             /\ HasRead(what, ok).run = what /\ HasRead(what, ok).ok = ok
  <2>1. HasRead(what, ok) \in Handler
    BY DEF Handler, ReadRuns
  <2> QED BY <2>1 DEF HasRead
<1>4. ASSUME NEW ok \in BOOLEAN
      PROVE  /\ HasWritten(ok) \in Handler
             /\ HasWritten(ok).run = "written" /\ HasWritten(ok).ok = ok
  <2>1. HasWritten(ok) \in Handler
    BY DEF Handler
  <2> QED BY <2>1 DEF HasWritten
<1> QED BY <1>1, <1>2, <1>3, <1>4

LEMMA HandlerKinds ==
  ASSUME NEW h \in Handler
  PROVE  /\ h.run \in {"stop", "send", "header", "payload", "written"}
         /\ h.run = "send" => \E r \in Reply : h = Send(r)
  BY DEF Handler, Stop, Send, HasRead, HasWritten

(* A step of the server that does not concern the session, or nobody's.    *)
Aside == StopAllMisses \/ ContextStops \/ UNCHANGED vars

LEMMA AsideFacts ==
  ASSUME Aside PROVE UNCHANGED sessionVars
  BY DEF Aside, StopAllMisses, ContextStops, vars, sessionVars, lifeVars

LEMMA EmptyStrand ==
  ASSUME NEW runs
  PROVE  ~Has(<<>>, runs) /\ Sole(<<>>, runs) /\ ~HasOk(<<>>, runs)
  BY DEF Has, Sole, HasOk

LEMMA StrandAppend ==
  ASSUME NEW q \in Seq(Handler), NEW h \in Handler, NEW runs
  PROVE  LET r == Append(q, h)
         IN  /\ r \in Seq(Handler)
             /\ Has(r, runs) <=> Has(q, runs) \/ h.run \in runs
             /\ HasOk(r, runs) <=> HasOk(q, runs) \/ (h.run \in runs /\ h.ok = TRUE)
             /\ Sole(q, runs) /\ ~(Has(q, runs) /\ h.run \in runs) => Sole(r, runs)
<1> DEFINE r == Append(q, h)
           n == Len(q)
<1>1. /\ r \in Seq(Handler) /\ n \in Nat /\ DOMAIN q = 1 .. n
      /\ DOMAIN r = 1 .. n + 1 /\ r[n + 1] = h /\ \A i \in 1 .. n : r[i] = q[i]
  BY AppendProperties
<1> HIDE DEF r, n
<1>2. \A i \in 1 .. n + 1 : i = n + 1 \/ i \in 1 .. n
  BY <1>1
<1>3. n + 1 \in 1 .. n + 1 /\ 1 .. n \subseteq 1 .. n + 1
  BY <1>1
<1>4. Has(r, runs) <=> Has(q, runs) \/ h.run \in runs
  BY <1>1, <1>2, <1>3 DEF Has
<1>5. HasOk(r, runs) <=> HasOk(q, runs) \/ (h.run \in runs /\ h.ok = TRUE)
  BY <1>1, <1>2, <1>3 DEF HasOk
<1>6. Sole(q, runs) /\ ~(Has(q, runs) /\ h.run \in runs) => Sole(r, runs)
  BY <1>1, <1>2, <1>3 DEF Has, Sole
<1> QED BY <1>1, <1>4, <1>5, <1>6 DEF r

LEMMA StrandTail ==
  ASSUME NEW q \in Seq(Handler), q # <<>>, NEW runs
  PROVE  LET h == Head(q)  r == Tail(q)
         IN  /\ h \in Handler /\ r \in Seq(Handler)
             /\ Has(q, runs) <=> Has(r, runs) \/ h.run \in runs
             /\ HasOk(q, runs) <=> HasOk(r, runs) \/ (h.run \in runs /\ h.ok = TRUE)
             /\ Sole(q, runs) => Sole(r, runs) /\ (h.run \in runs => ~Has(r, runs))
<1> DEFINE h == Head(q)
           r == Tail(q)
           n == Len(q)
<1>1. /\ h \in Handler /\ r \in Seq(Handler) /\ n \in Nat /\ n >= 1
      /\ DOMAIN q = 1 .. n /\ h = q[1]
      /\ DOMAIN r = 1 .. n - 1 /\ \A i \in 1 .. n - 1 : r[i] = q[i + 1]
  BY HeadTailProperties
<1> HIDE DEF h, r, n
<1>2. \A i \in 1 .. n : i = 1 \/ \E k \in 1 .. n - 1 : i = k + 1
  <2>1. ASSUME NEW i \in 1 .. n, i # 1 PROVE i - 1 \in 1 .. n - 1 /\ i = (i - 1) + 1
    BY <1>1, <2>1
  <2> QED BY <2>1
<1>3. 1 \in 1 .. n /\ \A i \in 1 .. n - 1 : i \in Int /\ i + 1 \in 1 .. n /\ i + 1 # 1
  BY <1>1
<1>4. Has(q, runs) <=> Has(r, runs) \/ h.run \in runs
  <2>1. Has(q, runs) => Has(r, runs) \/ h.run \in runs
    BY <1>1, <1>2 DEF Has
  <2>2. Has(r, runs) => Has(q, runs)
    BY <1>1, <1>3 DEF Has
  <2>3. h.run \in runs => Has(q, runs)
    BY <1>1, <1>3 DEF Has
  <2> QED BY <2>1, <2>2, <2>3
<1>5. HasOk(q, runs) <=> HasOk(r, runs) \/ (h.run \in runs /\ h.ok = TRUE)
  <2>1. ASSUME HasOk(q, runs), ~(h.run \in runs /\ h.ok = TRUE) PROVE HasOk(r, runs)
    <3>1. PICK i \in 1 .. n : q[i].run \in runs /\ q[i].ok = TRUE
      BY <1>1, <2>1 DEF HasOk
    <3>2. PICK k \in 1 .. n - 1 : i = k + 1
      BY <1>1, <1>2, <2>1, <3>1
    <3>3. r[k].run \in runs /\ r[k].ok = TRUE
      BY <1>1, <3>1, <3>2
    <3> QED BY <1>1, <3>3 DEF HasOk
  <2>2. HasOk(r, runs) => HasOk(q, runs)
    BY <1>1, <1>3 DEF HasOk
  <2>3. h.run \in runs /\ h.ok = TRUE => HasOk(q, runs)
    BY <1>1, <1>3 DEF HasOk
  <2> QED BY <2>1, <2>2, <2>3
<1>6. ASSUME Sole(q, runs) PROVE Sole(r, runs)
  <2>1. SUFFICES ASSUME NEW i \in 1 .. n - 1, NEW j \in 1 .. n - 1,
                        r[i].run \in runs, r[j].run \in runs
                 PROVE  i = j
    BY <1>1 DEF Sole
  <2>2. i + 1 = j + 1
    BY <1>1, <1>3, <1>6, <2>1 DEF Sole
  <2> QED BY <1>3, <2>2
<1>7. ASSUME Sole(q, runs), h.run \in runs PROVE ~Has(r, runs)
  BY <1>1, <1>3, <1>7 DEF Sole, Has
<1> QED BY <1>1, <1>4, <1>5, <1>6, <1>7 DEF h, r

(* The kinds of handlers the invariant speaks of.                          *)
Kinds == {StopRuns, ReadRuns, WriteRuns, AnyButStop, {"header"}, {"payload"}}

LEMMA KindsOf ==
  ASSUME NEW h \in Handler
  PROVE  /\ h.run \in {"stop", "send", "header", "payload", "written"}
         /\ h.run \in StopRuns <=> h.run = "stop"
         /\ h.run \in WriteRuns <=> h.run = "written"
         /\ h.run \in ReadRuns <=> h.run = "header" \/ h.run = "payload"
         /\ h.run \in {"header"} <=> h.run = "header"
         /\ h.run \in {"payload"} <=> h.run = "payload"
         /\ h.run \in AnyButStop <=> h.run # "stop"
  BY HandlerKinds DEF StopRuns, WriteRuns, ReadRuns, AnyButStop

(* r is what is queued after h was taken from q, or posted to q.           *)
Takes(q, h, r) ==
  /\ r \in Seq(Handler)
  /\ \A runs \in Kinds :
       /\ Has(q, runs) <=> Has(r, runs) \/ h.run \in runs
       /\ HasOk(q, runs) <=> HasOk(r, runs) \/ (h.run \in runs /\ h.ok = TRUE)
       /\ Sole(q, runs) => Sole(r, runs) /\ (h.run \in runs => ~Has(r, runs))
Gets(q, h, r) ==
  /\ r \in Seq(Handler)
  /\ \A runs \in Kinds :
       /\ Has(r, runs) <=> Has(q, runs) \/ h.run \in runs
       /\ HasOk(r, runs) <=> HasOk(q, runs) \/ (h.run \in runs /\ h.ok = TRUE)
       /\ Sole(q, runs) /\ ~(Has(q, runs) /\ h.run \in runs) => Sole(r, runs)

(* A handler that runs and posts nothing, or one other.                    *)
LEMMA RunsAndPosts ==
  ASSUME strand \in Seq(Handler), NEW h \in Handler, Runs(h)
  PROVE  /\ Takes(strand, h, Tail(strand))
         /\ Posts(<<>>) => strand' = Tail(strand)
         /\ \A g \in Handler : Posts(<<g>>) => /\ strand' = Append(Tail(strand), g)
                                              /\ Gets(Tail(strand), g, strand')
<1>1. strand # <<>> /\ h = Head(strand) /\ Tail(strand) \in Seq(Handler)
  BY DEF Runs
<1>2. Takes(strand, h, Tail(strand))
  BY <1>1, StrandTail DEF Takes
<1>3. Posts(<<>>) => strand' = Tail(strand)
  BY <1>1 DEF Posts
<1>4. ASSUME NEW g \in Handler, Posts(<<g>>)
      PROVE  strand' = Append(Tail(strand), g) /\ Gets(Tail(strand), g, strand')
  <2>1. strand' = Append(Tail(strand), g)
    BY <1>1, <1>4, AppendIsConcat DEF Posts
  <2> QED BY <1>1, <2>1, StrandAppend DEF Gets
<1> QED BY <1>2, <1>3, <1>4

LEMMA Posted1 ==
  ASSUME strand \in Seq(Handler), NEW h \in Handler, strand' = Append(strand, h)
  PROVE  Gets(strand, h, strand')
  BY StrandAppend DEF Gets

LEMMA HasFacts ==
  ASSUME NEW q
  PROVE  /\ Has(q, {"header"}) => Has(q, ReadRuns)
         /\ Has(q, {"payload"}) => Has(q, ReadRuns)
         /\ Has(q, ReadRuns) => Has(q, AnyButStop)
         /\ Has(q, WriteRuns) => Has(q, AnyButStop)
         /\ \A runs : HasOk(q, runs) => Has(q, runs)
  BY DEF Has, HasOk, ReadRuns, WriteRuns, AnyButStop

LEMMA KindsAre ==
  /\ StopRuns \in Kinds /\ ReadRuns \in Kinds /\ WriteRuns \in Kinds
  /\ AnyButStop \in Kinds /\ {"header"} \in Kinds /\ {"payload"} \in Kinds
  BY DEF Kinds

-----------------------------------------------------------------------------
(***************************************************************************)
(* Control.                                                                *)
(***************************************************************************)

(* The client, and the reads and writes that complete.                     *)
LEMMA OutsideKeepsControl ==
  ASSUME IInv, Client \/ Acceptor \/ ReadSucceeds \/ ReadFails \/ WriteSucceeds \/ WriteFails
  PROVE  Control'
<1> USE DEF Control, Lifecycle, OneRead, OneWrite, CutIsLast, IInv, clientVars,
        lifeVars, readVars, writeVars, countVars
<1>1. CASE Client
  BY <1>1 DEF Client, ClientSendsHeader, ClientSendsPayload, ClientLeaves
<1>2. CASE AddSession
  BY <1>2 DEF AddSession
<1>3. CASE Start
  BY <1>3, HasFacts DEF Start, Started
<1>4. CASE ReadSucceeds \/ ReadFails
  BY <1>4 DEF ReadSucceeds, ReadFails
<1>5. CASE WriteSucceeds \/ WriteFails
  <2>1. /\ writeState = "pending" /\ writeState' \in {"ok", "failed"}
        /\ writeState' = "ok" => cut' = cut
        /\ UNCHANGED <<phase, registered, socketOpen, isStopped, strand, reading,
                       readState, writeQueue>>
    BY <1>5 DEF WriteSucceeds, WriteFails
  <2>2. ~Has(strand, WriteRuns) /\ ~HasOk(strand, WriteRuns) /\ writeQueue # <<>> /\ ~cut
    BY <2>1, HasFacts
  <2>3. Lifecycle' /\ OneRead' /\ OneWrite'
    BY <2>1, <2>2
  <2>4. CutIsLast'
    BY <2>1, <2>2
  <2> QED BY <2>3, <2>4
<1> QED BY <1>1, <1>2, <1>3, <1>4, <1>5 DEF Acceptor

(* A completed operation whose handler is posted, and stopAll().           *)
LEMMA PostingKeepsControl ==
  ASSUME IInv, ReadIsPosted \/ WriteIsPosted \/ StopAll
  PROVE  Control'
<1> USE DEF Control, Lifecycle, OneRead, OneWrite, CutIsLast, IInv, clientVars,
        lifeVars, readVars, writeVars, countVars, TypeOK, Gets
<1>1. CASE ReadIsPosted
  <2> DEFINE h == HasRead(reading, readState = "ok")
  <2>1. h \in Handler /\ h.run = reading /\ h.run \in ReadRuns
    BY Handlers DEF ReadRuns
  <2>2. Gets(strand, h, strand')
    BY <1>1, <2>1, Posted1 DEF ReadIsPosted
  <2>3. /\ readState # "none" /\ readState' = "none"
        /\ UNCHANGED <<phase, registered, socketOpen, isStopped, reading,
                       writeQueue, writeState, cut>>
    BY <1>1 DEF ReadIsPosted
  <2> HIDE DEF h
  <2> QED BY <2>1, <2>2, <2>3, KindsAre, KindsOf, HasFacts
<1>2. CASE WriteIsPosted
  <2> DEFINE h == HasWritten(writeState = "ok")
  <2>1. h \in Handler /\ h.run = "written" /\ (h.ok = TRUE <=> writeState = "ok")
    BY Handlers
  <2>2. Gets(strand, h, strand')
    BY <1>2, <2>1, Posted1 DEF WriteIsPosted
  <2>3. /\ writeState \in {"ok", "failed"} /\ writeState' = "none"
        /\ UNCHANGED <<phase, registered, socketOpen, isStopped, reading, readState,
                       writeQueue, cut>>
    BY <1>2 DEF WriteIsPosted
  <2> HIDE DEF h
  <2> QED BY <2>1, <2>2, <2>3, KindsAre, KindsOf, HasFacts
<1>3. CASE StopAll
  <2>1. Stop \in Handler /\ Stop.run = "stop"
    BY Handlers
  <2>2. Gets(strand, Stop, strand')
    BY <1>3, <2>1, Posted1 DEF StopAll, Told
  <2>3. /\ registered /\ registered' = FALSE
        /\ UNCHANGED <<phase, socketOpen, isStopped, reading, readState,
                       writeQueue, writeState, cut>>
    BY <1>3 DEF StopAll
  <2> QED BY <2>1, <2>2, <2>3, KindsAre, KindsOf, HasFacts
<1> QED BY <1>1, <1>2, <1>3

(* The handlers of the strand.                                             *)
LEMMA StopKeepsControl ==
  ASSUME IInv, StopAgain \/ StopFirst PROVE Control'
<1> USE DEF Control, Lifecycle, OneRead, OneWrite, CutIsLast, IInv, clientVars,
        lifeVars, readVars, writeVars, countVars, TypeOK, Takes
<1>1. Runs(Stop) /\ Posts(<<>>) /\ Stop \in Handler /\ Stop.run = "stop"
  BY Handlers DEF StopAgain, StopFirst
<1>2. Takes(strand, Stop, strand')
  BY <1>1, RunsAndPosts
<1>3. CASE StopAgain
  BY <1>1, <1>2, <1>3, KindsAre, KindsOf, HasFacts DEF StopAgain
<1>4. CASE StopFirst
  <2>1. /\ ~isStopped /\ isStopped' = TRUE /\ socketOpen' = FALSE /\ registered' = FALSE
        /\ readState' = Cancelled(readState) /\ writeState' = Cancelled(writeState)
        /\ cut' => cut \/ writeState = "pending"
        /\ UNCHANGED <<phase, reading, writeQueue>>
    BY <1>4 DEF StopFirst, Deregisters
  <2>2. Lifecycle' /\ OneRead' /\ OneWrite'
    BY <1>1, <1>2, <2>1, KindsAre, KindsOf, HasFacts DEF Cancelled
  <2>3. CutIsLast'
    BY <1>1, <1>2, <2>1, KindsAre, KindsOf, HasFacts DEF Cancelled
  <2> QED BY <2>2, <2>3
<1> QED BY <1>1, <1>3, <1>4

(* What processPacket() posts: the reply's send, or at most a stop.        *)
LEMMA WhatIsPosted ==
  ASSUME NEW type, NEW payload \in Payload \cup {NoPayload}
  PROVE  \/ /\ ReplyTo(type, payload) = <<>>
            /\ Posted(type, payload) = <<>> \/ Posted(type, payload) = <<Stop>>
         \/ \E r \in Reply : /\ ReplyTo(type, payload) = <<r>>
                             /\ Posted(type, payload) = <<Send(r)>>
<1>1. CASE type = "DISCONNECT"
  BY <1>1 DEF ReplyTo, Posted
<1>2. CASE type # "DISCONNECT" /\ ReplyTo(type, payload) = <<>>
  BY <1>2 DEF Posted
<1>3. CASE type # "DISCONNECT" /\ ReplyTo(type, payload) # <<>>
  <2>1. PICK r \in Reply : ReplyTo(type, payload) = <<r>>
    BY <1>3 DEF ReplyTo, Reply
  <2>2. Posted(type, payload) = [i \in 1 .. 1 |-> Send(<<r>>[i])]
    BY <1>3, <2>1 DEF Posted
  <2>3. Posted(type, payload) = <<Send(r)>>
    BY <2>2
  <2> QED BY <2>1, <2>3
<1> QED BY <1>1, <1>2, <1>3

(* A read's handler: it starts the next read, or its last post is a stop.  *)
LEMMA ReadHandlerKeepsControl ==
  ASSUME IInv, NEW h \in Handler, h.run \in ReadRuns, Runs(h),
         \/ Posts(<<>>)
         \/ \E g \in Handler : g.run \in {"stop", "send"} /\ Posts(<<g>>),
         \/ readState' = Started(socketOpen) /\ reading' \in ReadRuns
         \/ readState' = readState /\ reading' = reading /\ Posts(<<Stop>>),
         UNCHANGED <<phase, registered, socketOpen, isStopped, writeQueue, writeState, cut>>
  PROVE  Control'
<1> USE DEF Control, Lifecycle, OneRead, OneWrite, CutIsLast, IInv, TypeOK, Takes, Gets
<1>1. Takes(strand, h, Tail(strand))
  BY RunsAndPosts
<1>2. \/ strand' = Tail(strand) /\ ~Posts(<<Stop>>)
      \/ \E g \in Handler : /\ g.run \in {"stop", "send"}
                            /\ Gets(Tail(strand), g, strand')
                            /\ Posts(<<Stop>>) => g.run = "stop"
  <2>1. CASE Posts(<<Stop>>)
    BY <2>1, Handlers, RunsAndPosts
  <2>2. CASE ~Posts(<<Stop>>)
    BY <2>2, RunsAndPosts
  <2> QED BY <2>1, <2>2
<1>3. Has(strand, ReadRuns) /\ phase = "started" /\ readState = "none"
  BY <1>1, KindsAre, HasFacts
<1>4. ~Has(Tail(strand), ReadRuns)
  BY <1>1, KindsAre
<1>5. /\ ~Has(strand', ReadRuns) /\ Sole(strand', ReadRuns)
      /\ ~Has(strand', {"header"}) /\ ~Has(strand', {"payload"})
      /\ Has(strand, StopRuns) => Has(strand', StopRuns)
      /\ Posts(<<Stop>>) => Has(strand', StopRuns)
      /\ Has(strand', WriteRuns) <=> Has(strand, WriteRuns)
      /\ HasOk(strand', WriteRuns) <=> HasOk(strand, WriteRuns)
      /\ Sole(strand', WriteRuns)
  <2>1. CASE strand' = Tail(strand) /\ ~Posts(<<Stop>>)
    BY <1>1, <1>4, <2>1, KindsAre, KindsOf, HasFacts
  <2>2. CASE \E g \in Handler : /\ g.run \in {"stop", "send"}
                                /\ Gets(Tail(strand), g, strand')
                                /\ Posts(<<Stop>>) => g.run = "stop"
    <3>1. PICK g \in Handler : /\ g.run \in {"stop", "send"}
                               /\ Gets(Tail(strand), g, strand')
                               /\ Posts(<<Stop>>) => g.run = "stop"
      BY <2>2
    <3> QED BY <1>1, <1>4, <3>1, KindsAre, KindsOf, HasFacts
  <2> QED BY <1>2, <2>1, <2>2
<1>6. Lifecycle' /\ OneWrite' /\ CutIsLast'
  BY <1>3, <1>5 DEF Started
<1>7. OneRead'
  BY <1>3, <1>5 DEF Started
<1> QED BY <1>6, <1>7

LEMMA ReadingKeepsControl ==
  ASSUME IInv,
         \/ \E what \in ReadRuns : ReadError(what)
         \/ HeaderRejected \/ PayloadWanted \/ HeaderProcessed \/ PayloadProcessed
  PROVE  Control'
<1> USE DEF lifeVars, writeVars, readVars
<1>1. ASSUME NEW what \in ReadRuns, ReadError(what) PROVE Control'
  <2>1. /\ HasRead(what, FALSE) \in Handler /\ HasRead(what, FALSE).run \in ReadRuns
        /\ Stop \in Handler /\ Stop.run = "stop"
    BY Handlers
  <2> QED BY <1>1, <2>1, ReadHandlerKeepsControl DEF ReadError, OnReadError
<1>2. /\ HasRead("header", TRUE) \in Handler /\ HasRead("header", TRUE).run \in ReadRuns
      /\ HasRead("payload", TRUE) \in Handler /\ HasRead("payload", TRUE).run \in ReadRuns
      /\ Stop \in Handler /\ Stop.run = "stop"
      /\ "header" \in ReadRuns /\ "payload" \in ReadRuns
  BY Handlers DEF ReadRuns
<1>3. CASE HeaderRejected
  BY <1>2, <1>3, ReadHandlerKeepsControl DEF HeaderRejected
<1>4. CASE PayloadWanted
  BY <1>2, <1>4, ReadHandlerKeepsControl DEF PayloadWanted, PayloadNext
<1>5. ASSUME NEW type, NEW payload \in Payload \cup {NoPayload}, Process(type, payload)
      PROVE  \/ Posts(<<>>)
             \/ \E g \in Handler : g.run \in {"stop", "send"} /\ Posts(<<g>>)
  <2>1. \/ Posted(type, payload) = <<>> \/ Posted(type, payload) = <<Stop>>
        \/ \E r \in Reply : Posted(type, payload) = <<Send(r)>>
    BY WhatIsPosted
  <2>2. \A r \in Reply : Send(r) \in Handler /\ Send(r).run = "send"
    BY Handlers
  <2> QED BY <1>2, <1>5, <2>1, <2>2 DEF Process
<1>6. CASE HeaderProcessed
  <2>1. Process(headerBuffer.type, NoPayload) /\ Runs(HasRead("header", TRUE))
        /\ UNCHANGED <<lifeVars, writeVars>>
    BY <1>6 DEF HeaderProcessed
  <2>2. readState' = Started(socketOpen) /\ reading' = "header"
    BY <2>1 DEF Process
  <2> QED BY <1>2, <1>5, <2>1, <2>2, ReadHandlerKeepsControl
<1>7. CASE PayloadProcessed
  <2>1. Process(headerBuffer.type, payloadBuffer) /\ Runs(HasRead("payload", TRUE))
        /\ UNCHANGED <<lifeVars, writeVars>>
    BY <1>7 DEF PayloadProcessed
  <2>2. readState' = Started(socketOpen) /\ reading' = "header"
    BY <2>1 DEF Process
  <2>3. payloadBuffer \in Payload \cup {NoPayload}
    BY DEF IInv, TypeOK
  <2> QED BY <1>2, <1>5, <2>1, <2>2, <2>3, ReadHandlerKeepsControl
<1> QED BY <1>1, <1>3, <1>4, <1>6, <1>7

LEMMA WritingKeepsControl ==
  ASSUME IInv, Written \/ WriteError \/ \E r \in Reply : SendReply(r)
  PROVE  Control'
<1> USE DEF Control, Lifecycle, OneRead, OneWrite, CutIsLast, IInv, TypeOK, Takes, Gets,
        lifeVars, readVars, writeVars
<1>1. CASE Written
  <2> DEFINE h == HasWritten(TRUE)
  <2>1. h \in Handler /\ h.run = "written" /\ h.ok = TRUE /\ Runs(h) /\ Posts(<<>>)
    BY <1>1, Handlers DEF Written
  <2>2. Takes(strand, h, strand')
    BY <2>1, RunsAndPosts
  <2>3. /\ writeQueue' = Tail(writeQueue)
        /\ writeState' = IF Tail(writeQueue) # <<>> THEN Started(socketOpen) ELSE writeState
        /\ UNCHANGED <<phase, registered, socketOpen, isStopped, reading, readState, cut>>
    BY <1>1 DEF Written, NextWrite
  <2> HIDE DEF h
  <2>4. /\ Has(strand, WriteRuns) /\ HasOk(strand, WriteRuns) /\ ~cut
        /\ phase = "started" /\ writeState = "none" /\ ~Has(strand', WriteRuns)
    BY <2>1, <2>2, KindsAre, KindsOf, HasFacts
  <2>5. Lifecycle' /\ OneRead'
    BY <2>1, <2>2, <2>3, <2>4, KindsAre, KindsOf, HasFacts DEF Started
  <2>6. OneWrite' /\ CutIsLast'
    BY <2>1, <2>2, <2>3, <2>4, KindsAre, KindsOf, HasFacts DEF Started
  <2> QED BY <2>5, <2>6
<1>2. CASE WriteError
  <2> DEFINE h == HasWritten(FALSE)
  <2>1. /\ h \in Handler /\ h.run = "written" /\ h.ok = FALSE /\ Runs(h)
        /\ Posts(<<Stop>>) /\ Stop \in Handler /\ Stop.run = "stop"
    BY <1>2, Handlers DEF WriteError
  <2>2. Takes(strand, h, Tail(strand)) /\ Gets(Tail(strand), Stop, strand')
    BY <2>1, RunsAndPosts
  <2>3. UNCHANGED <<phase, registered, socketOpen, isStopped, reading, readState,
                    writeQueue, writeState, cut>>
    BY <1>2 DEF WriteError, KeptInFront
  <2> HIDE DEF h
  <2>4. /\ Has(strand, WriteRuns) /\ phase = "started" /\ writeState = "none"
        /\ ~Has(strand', WriteRuns) /\ Has(strand', StopRuns)
    BY <2>1, <2>2, KindsAre, KindsOf, HasFacts
  <2>5. Lifecycle' /\ OneRead'
    BY <2>1, <2>2, <2>3, <2>4, KindsAre, KindsOf, HasFacts
  <2>6. OneWrite' /\ CutIsLast'
    BY <2>1, <2>2, <2>3, <2>4, KindsAre, KindsOf, HasFacts
  <2> QED BY <2>5, <2>6
<1>3. ASSUME NEW r \in Reply, SendReply(r) PROVE Control'
  <2> DEFINE h == Send(r)
  <2>1. h \in Handler /\ h.run = "send" /\ Runs(h) /\ Posts(<<>>)
    BY <1>3, Handlers DEF SendReply
  <2>2. Takes(strand, h, strand')
    BY <2>1, RunsAndPosts
  <2>3. /\ isStopped => writeQueue' = writeQueue /\ writeState' = writeState
        /\ ~isStopped => /\ writeQueue' # <<>>
                         /\ writeState' = IF writeQueue # <<>> THEN writeState
                                                              ELSE Started(socketOpen)
        /\ UNCHANGED <<phase, registered, socketOpen, isStopped, reading, readState, cut>>
    BY <1>3, AppendProperties DEF SendReply, WriteInProgress
  <2> HIDE DEF h
  <2>4. /\ phase = "started"
        /\ Has(strand', WriteRuns) <=> Has(strand, WriteRuns)
    BY <2>1, <2>2, KindsAre, KindsOf, HasFacts
  <2>5. Lifecycle' /\ OneRead'
    BY <2>1, <2>2, <2>3, <2>4, KindsAre, KindsOf, HasFacts DEF Started
  <2>6. OneWrite' /\ CutIsLast'
    BY <2>1, <2>2, <2>3, <2>4, KindsAre, KindsOf, HasFacts DEF Started
  <2> QED BY <2>5, <2>6
<1> QED BY <1>1, <1>2, <1>3

LEMMA NextKeepsControl ==
  ASSUME IInv, [Next]_vars PROVE Control'
<1>1. CASE Aside
  BY <1>1, AsideFacts DEF sessionVars, clientVars, readVars, writeVars, countVars, IInv,
     Control, Lifecycle, OneRead, OneWrite, CutIsLast
<1> QED BY <1>1, OutsideKeepsControl, PostingKeepsControl, StopKeepsControl,
           ReadingKeepsControl, WritingKeepsControl
        DEF Next, Aside, Reactor, Strand, ReadRuns

-----------------------------------------------------------------------------
(***************************************************************************)
(* The place in the stream.                                                *)
(***************************************************************************)
LEMMA SentFacts ==
  ASSUME TypeOK, NEW k \in 1 .. Len(sent)
  PROVE  /\ sent[k] \in Requests /\ sent[k] \in Frame
         /\ sent[k].header \in Header /\ sent[k].header # NoPayload
         /\ sent[k].payload \in Payload \cup {NoPayload}
         /\ HasPayload(sent[k].header) <=> sent[k].payload # NoPayload
<1>1. sent[k] \in Requests /\ sent[k] \in Frame
  BY SessionAssumption DEF TypeOK
<1> QED BY <1>1, SessionAssumption DEF Frame

(* What leaves a place of the stream.                                      *)
LEMMA HeaderLink ==
  ASSUME NEW x, NEW k, NEW d, <<x, <<k, "header">>, d>> \in StreamLinks
  PROVE  /\ k \in 1 .. Len(sent) /\ x = sent[k].header
         /\ d = PastHeader(k, sent[k].header)
  BY DEF StreamLinks

LEMMA PayloadLink ==
  ASSUME NEW x, NEW k, NEW d, <<x, <<k, "payload">>, d>> \in StreamLinks
  PROVE  k \in 1 .. Len(sent) /\ x = sent[k].payload /\ d = <<k + 1, "header">>
  BY DEF StreamLinks

(* A read's handler that runs without an error has the buffers to itself,  *)
(* and what it finds there is the client's next request.                   *)
LEMMA GotFacts ==
  ASSUME IInv, NEW what \in ReadRuns, Runs(HasRead(what, TRUE))
  PROVE  /\ reading = what /\ StillReads /\ HasGot /\ readState = "none"
         /\ phase = "started" /\ ~Has(Tail(strand), ReadRuns)
         /\ processed < Len(sent) /\ headerBuffer = Request.header
         /\ what = "payload" => /\ payloadBuffer = Request.payload
                                /\ WellFormedHeader(headerBuffer)
                                /\ HasPayload(headerBuffer)
<1> DEFINE h == HasRead(what, TRUE)
<1>1. h \in Handler /\ h.run = what /\ h.ok = TRUE
  BY Handlers
<1>2. Takes(strand, h, Tail(strand))
  BY <1>1, RunsAndPosts DEF IInv, TypeOK
<1> HIDE DEF h
<1>3. what = "header" \/ what = "payload"
  BY DEF ReadRuns
<1>4. /\ Has(strand, ReadRuns) /\ HasOk(strand, ReadRuns) /\ ~Has(Tail(strand), ReadRuns)
      /\ Has(strand, {what})
  BY <1>1, <1>2, <1>3, KindsAre, KindsOf DEF Takes, IInv, Control, OneRead
<1>5. reading = what /\ readState = "none" /\ phase = "started"
  BY <1>3, <1>4, HasFacts DEF IInv, Control, OneRead, Lifecycle
<1>6. StillReads /\ HasGot
  BY <1>4 DEF StillReads, HasGot
<1> QED BY <1>4, <1>5, <1>6 DEF IInv, InPlace

(* A step that neither sends nor reads.                                    *)
LEMMA StaysInPlace ==
  ASSUME IInv,
         UNCHANGED <<sent, owed, inbox, processed, reading, headerBuffer, payloadBuffer>>,
         StillReads' => StillReads /\ (HasGot' <=> HasGot)
  PROVE  InPlace'
<1>1. StreamLinks' = StreamLinks /\ ClientAt' = ClientAt /\ Request' = Request
  BY DEF StreamLinks, ClientAt, Request
<1>2. StillReads' => SessionAt' = SessionAt
  BY DEF SessionAt
<1>3. StillReads' => Path(StreamLinks, inbox, SessionAt, ClientAt)'
  <2>1. StillReads' => Path(StreamLinks, inbox, SessionAt, ClientAt)
    BY DEF IInv, InPlace
  <2> QED BY <1>1, <1>2, <2>1
<1> QED BY <1>1, <1>3 DEF IInv, InPlace

LEMMA ClientKeepsInPlace ==
  ASSUME IInv, Client PROVE InPlace'
<1> USE DEF lifeVars, readVars, countVars, clientVars
<1>1. CASE ClientLeaves
  BY <1>1, StaysInPlace DEF ClientLeaves, StillReads, HasGot
<1>2. ASSUME NEW f \in Requests, ClientSendsHeader(f) PROVE InPlace'
  <2>1. /\ owed = NoPayload /\ sent' = Append(sent, f) /\ owed' = f.payload
        /\ inbox' = Append(inbox, f.header)
        /\ UNCHANGED <<lifeVars, readVars, processed, strand>>
    BY <1>2 DEF ClientSendsHeader
  <2> DEFINE n == Len(sent)
  <2>2. /\ n \in Nat /\ Len(sent') = n + 1 /\ sent'[n + 1] = f
        /\ \A k \in 1 .. n : sent'[k] = sent[k]
    BY <2>1, AppendProperties DEF IInv, TypeOK
  <2>3. /\ f.header \in Header /\ f.payload \in Payload \cup {NoPayload}
        /\ HasPayload(f.header) <=> f.payload # NoPayload
    BY SessionAssumption DEF Frame
  <2>4. /\ inbox \in Seq(Header \cup Payload) /\ processed \in 0 .. n
    BY DEF IInv, TypeOK, InPlace
  <2>5. StreamLinks \subseteq StreamLinks'
    <3>1. StreamLinks' =
            {<<sent'[k].header, <<k, "header">>, PastHeader(k, sent'[k].header)>> :
               k \in 1 .. n + 1}
            \cup {<<sent'[k].payload, <<k, "payload">>, <<k + 1, "header">>>> :
                    k \in 1 .. n + 1}
      BY <2>2 DEF StreamLinks, PastHeader
    <3>2. 1 .. n \subseteq 1 .. n + 1
      BY <2>2
    <3> QED BY <2>2, <3>1, <3>2 DEF StreamLinks
  <2>6. <<f.header, ClientAt, ClientAt'>> \in StreamLinks'
    <3>1. ClientAt = <<n + 1, "header">>
      BY <2>1 DEF ClientAt
    <3>2. ClientAt' = PastHeader(n + 1, f.header)
      BY <2>1, <2>2, <2>3 DEF ClientAt, PastHeader
    <3>3. <<sent'[n + 1].header, <<n + 1, "header">>, PastHeader(n + 1, sent'[n + 1].header)>>
            \in StreamLinks'
      <4>1. n + 1 \in 1 .. Len(sent')
        BY <2>2
      <4> QED BY <4>1 DEF StreamLinks, PastHeader
    <3> QED BY <2>2, <3>1, <3>2, <3>3
  <2>7. /\ StillReads' <=> StillReads
        /\ HasGot' <=> HasGot
        /\ SessionAt' = SessionAt
    BY <2>1 DEF StillReads, HasGot, SessionAt
  <2>8. StillReads' => Path(StreamLinks, inbox, SessionAt, ClientAt)'
    <3>1. SUFFICES ASSUME StillReads PROVE Path(StreamLinks', inbox', SessionAt, ClientAt')
      BY <2>7 DEF Path
    <3>2. Path(StreamLinks', inbox, SessionAt, ClientAt)
      BY <2>5, <3>1, PathWidens DEF IInv, InPlace
    <3> QED BY <2>1, <2>3, <2>4, <2>6, <3>2, PathAppend
  <2>9. processed < n => Request' = Request
    BY <2>1, <2>2, <2>4 DEF Request
  <2>10. \A k \in 1 .. processed : sent'[k] = sent[k]
    BY <2>2, <2>4
  <2>11. owed' # NoPayload => Len(sent') > 0 /\ owed' = sent'[Len(sent')].payload
    BY <2>1, <2>2
  <2>12. /\ processed' \in 0 .. Len(sent')
         /\ \A k \in 1 .. processed' : WellFormedHeader(sent'[k].header)
    BY <2>1, <2>2, <2>4, <2>10 DEF IInv, InPlace
  <2>13. /\ StillReads' /\ (HasGot' \/ reading' = "payload") =>
             processed' < Len(sent') /\ headerBuffer' = Request'.header
         /\ StillReads' /\ reading' = "payload" =>
             /\ WellFormedHeader(Request'.header) /\ HasPayload(Request'.header)
             /\ HasGot' => payloadBuffer' = Request'.payload
    BY <2>1, <2>2, <2>4, <2>7, <2>9 DEF IInv, InPlace
  <2> QED BY <2>8, <2>11, <2>12, <2>13 DEF InPlace, WellFormedHeader, HasPayload
<1>3. CASE ClientSendsPayload
  <2>1. /\ owed # NoPayload /\ owed' = NoPayload /\ inbox' = Append(inbox, owed)
        /\ UNCHANGED <<sent, lifeVars, readVars, processed, strand>>
    BY <1>3 DEF ClientSendsPayload
  <2> DEFINE n == Len(sent)
  <2>2. /\ n \in Nat /\ n > 0 /\ owed = sent[n].payload /\ owed \in Payload
        /\ inbox \in Seq(Header \cup Payload)
    BY <2>1 DEF IInv, TypeOK, InPlace
  <2>3. /\ StreamLinks' = StreamLinks /\ Request' = Request
        /\ StillReads' <=> StillReads
        /\ HasGot' <=> HasGot
        /\ SessionAt' = SessionAt
    BY <2>1 DEF StreamLinks, Request, StillReads, HasGot, SessionAt
  <2>4. <<owed, ClientAt, ClientAt'>> \in StreamLinks
    <3>1. ClientAt = <<n, "payload">> /\ ClientAt' = <<n + 1, "header">>
      BY <2>1 DEF ClientAt
    <3> QED BY <2>2, <3>1 DEF StreamLinks
  <2>5. StillReads' => Path(StreamLinks, inbox, SessionAt, ClientAt)'
    <3>1. SUFFICES ASSUME StillReads PROVE Path(StreamLinks, inbox', SessionAt, ClientAt')
      BY <2>3 DEF Path
    <3>2. Path(StreamLinks, inbox, SessionAt, ClientAt)
      BY <3>1 DEF IInv, InPlace
    <3> QED BY <2>1, <2>2, <2>4, <3>2, PathAppend
  <2> QED BY <2>1, <2>3, <2>5 DEF IInv, InPlace
<1> QED BY <1>1, <1>2, <1>3 DEF Client

(* The handlers of others leave those of the reads queued as they are.     *)
LEMMA OtherHandlers ==
  ASSUME IInv,
         \/ StopAll \/ WriteIsPosted \/ StopAgain \/ StopFirst \/ Written \/ WriteError
         \/ \E r \in Reply : SendReply(r)
  PROVE  /\ strand' \in Seq(Handler)
         /\ Has(strand', ReadRuns) <=> Has(strand, ReadRuns)
         /\ HasOk(strand', ReadRuns) <=> HasOk(strand, ReadRuns)
         /\ readState' \in {readState, Cancelled(readState)} /\ phase' = phase
         /\ UNCHANGED <<sent, owed, inbox, processed, reading, headerBuffer, payloadBuffer>>
<1> USE DEF clientVars, lifeVars, readVars, countVars, writeVars
<1>1. strand \in Seq(Handler)
  BY DEF IInv, TypeOK
<1>2. /\ readState' \in {readState, Cancelled(readState)} /\ phase' = phase
      /\ UNCHANGED <<sent, owed, inbox, processed, reading, headerBuffer, payloadBuffer>>
  BY DEF StopAll, WriteIsPosted, StopAgain, StopFirst, Written, WriteError, SendReply
<1>3. \/ \E h \in Handler : h.run \notin ReadRuns /\ Gets(strand, h, strand')
      \/ \E h \in Handler : h.run \notin ReadRuns /\ Takes(strand, h, strand')
      \/ \E h, g \in Handler : /\ h.run \notin ReadRuns /\ g.run \notin ReadRuns
                              /\ Takes(strand, h, Tail(strand))
                              /\ Gets(Tail(strand), g, strand')
  <2>1. /\ Stop \in Handler /\ Stop.run = "stop"
        /\ \A r \in Reply : Send(r) \in Handler /\ Send(r).run = "send"
        /\ \A ok \in BOOLEAN : HasWritten(ok) \in Handler /\ HasWritten(ok).run = "written"
        /\ "stop" \notin ReadRuns /\ "send" \notin ReadRuns /\ "written" \notin ReadRuns
    BY Handlers DEF ReadRuns
  <2>2. CASE StopAll
    BY <1>1, <2>1, <2>2, Posted1 DEF StopAll, Told
  <2>3. CASE WriteIsPosted
    BY <1>1, <2>1, <2>3, Posted1 DEF WriteIsPosted
  <2>4. CASE StopAgain \/ StopFirst
    BY <1>1, <2>1, <2>4, RunsAndPosts DEF StopAgain, StopFirst
  <2>5. CASE Written
    BY <1>1, <2>1, <2>5, RunsAndPosts DEF Written
  <2>6. CASE WriteError
    BY <1>1, <2>1, <2>6, RunsAndPosts DEF WriteError
  <2>7. ASSUME NEW r \in Reply, SendReply(r)
        PROVE  \E h \in Handler : h.run \notin ReadRuns /\ Takes(strand, h, strand')
    BY <1>1, <2>1, <2>7, RunsAndPosts DEF SendReply
  <2> QED BY <2>2, <2>3, <2>4, <2>5, <2>6, <2>7
<1>4. /\ strand' \in Seq(Handler)
      /\ Has(strand', ReadRuns) <=> Has(strand, ReadRuns)
      /\ HasOk(strand', ReadRuns) <=> HasOk(strand, ReadRuns)
  BY <1>3, KindsAre DEF Takes, Gets
<1> QED BY <1>2, <1>4

LEMMA OthersKeepInPlace ==
  ASSUME IInv,
         \/ StopAll \/ WriteIsPosted \/ StopAgain \/ StopFirst \/ Written \/ WriteError
         \/ \E r \in Reply : SendReply(r)
  PROVE  InPlace'
<1>1. readState \in OpState
  BY DEF IInv, TypeOK
<1> QED BY <1>1, OtherHandlers, StaysInPlace DEF StillReads, HasGot, Cancelled, OpState

LEMMA ReactorKeepsInPlace ==
  ASSUME IInv, Acceptor \/ ReadSucceeds \/ ReadFails \/ ReadIsPosted
  PROVE  InPlace'
<1> USE DEF clientVars, lifeVars, readVars, countVars, writeVars
<1>1. CASE AddSession
  BY <1>1, StaysInPlace DEF AddSession, StillReads, HasGot
<1>2. CASE Start
  <2>1. readState = "none" /\ reading = "header" /\ phase # "started"
    BY <1>2 DEF IInv, Control, Lifecycle, Start
  <2> QED BY <1>2, <2>1, StaysInPlace DEF Start, StillReads, HasGot, Started
<1>3. CASE ReadFails
  BY <1>3, StaysInPlace DEF ReadFails, StillReads, HasGot
<1>4. CASE ReadIsPosted
  <2> DEFINE h == HasRead(reading, readState = "ok")
  <2>1. h \in Handler /\ h.run \in ReadRuns /\ (h.ok = TRUE <=> readState = "ok")
    BY Handlers DEF ReadRuns, IInv, TypeOK
  <2>2. strand \in Seq(Handler) /\ strand' = Append(strand, h) /\ readState # "none"
        /\ readState' = "none" /\ ~Has(strand, ReadRuns)
    BY <1>4 DEF IInv, TypeOK, ReadIsPosted, Control, OneRead
  <2> HIDE DEF h
  <2>3. Gets(strand, h, strand')
    BY <2>1, <2>2, Posted1
  <2>4. StillReads /\ (HasGot' <=> HasGot)
    BY <2>1, <2>2, <2>3, KindsAre, HasFacts DEF StillReads, HasGot, Gets
  <2> QED BY <1>4, <2>4, StaysInPlace DEF ReadIsPosted
<1>5. CASE ReadSucceeds
  <2>1. /\ readState = "pending" /\ inbox # <<>> /\ readState' = "ok"
        /\ reading = "header" => headerBuffer' = Head(inbox) /\ payloadBuffer' = payloadBuffer
        /\ reading # "header" => payloadBuffer' = Head(inbox) /\ headerBuffer' = headerBuffer
        /\ inbox' = Tail(inbox)
        /\ UNCHANGED <<sent, owed, strand, reading, processed, phase>>
    BY <1>5 DEF ReadSucceeds
  <2>2. ~Has(strand, ReadRuns) /\ ~HasGot /\ StillReads /\ StillReads' /\ HasGot'
    BY <2>1, HasFacts DEF IInv, Control, OneRead, HasGot, StillReads
  <2>3. SessionAt = <<processed + 1, reading>> /\ Path(StreamLinks, inbox, SessionAt, ClientAt)
    BY <2>2 DEF SessionAt, IInv, InPlace
  <2>4. inbox \in Seq(Header \cup Payload) /\ processed \in Nat
    BY DEF IInv, TypeOK
  <2>5. PICK d : /\ <<Head(inbox), <<processed + 1, reading>>, d>> \in StreamLinks
                 /\ Path(StreamLinks, Tail(inbox), d, ClientAt)
    BY <2>1, <2>3, <2>4, PathTail
  <2>6. StreamLinks' = StreamLinks /\ ClientAt' = ClientAt /\ Request' = Request
    BY <2>1 DEF StreamLinks, ClientAt, Request
  <2>7. CASE reading = "header"
    <3>1. /\ processed + 1 \in 1 .. Len(sent) /\ Head(inbox) = Request.header
          /\ d = PastHeader(processed + 1, Request.header)
      BY <2>5, <2>7, HeaderLink DEF Request
    <3>2. SessionAt' = d /\ headerBuffer' = Request.header
      BY <2>1, <2>2, <2>7, <3>1 DEF SessionAt, PastHeader, HasPayload
    <3>3. processed < Len(sent)
      BY <2>4, <3>1
    <3>4. Path(StreamLinks, inbox, SessionAt, ClientAt)'
      BY <2>1, <2>5, <2>6, <3>2
    <3> QED BY <2>1, <2>2, <2>6, <2>7, <3>2, <3>3, <3>4 DEF IInv, InPlace
  <2>8. CASE reading = "payload"
    <3>1. Head(inbox) = Request.payload /\ d = <<(processed + 1) + 1, "header">>
      BY <2>5, <2>8, PayloadLink DEF Request
    <3>2. SessionAt' = d
      BY <2>1, <2>2, <2>4, <2>8, <3>1 DEF SessionAt
    <3>3. Path(StreamLinks, inbox, SessionAt, ClientAt)'
      BY <2>1, <2>5, <2>6, <3>2
    <3> QED BY <2>1, <2>2, <2>6, <2>8, <3>1, <3>3 DEF IInv, InPlace
  <2> QED BY <2>7, <2>8 DEF IInv, TypeOK
<1> QED BY <1>1, <1>2, <1>3, <1>4, <1>5 DEF Acceptor

(* The handlers of the reads.                                              *)
LEMMA ReadingKeepsInPlace ==
  ASSUME IInv, Control',
         \/ \E what \in ReadRuns : ReadError(what)
         \/ HeaderRejected \/ PayloadWanted \/ HeaderProcessed \/ PayloadProcessed
  PROVE  InPlace'
<1> USE DEF clientVars, lifeVars, readVars, countVars, writeVars
<1>1. /\ strand \in Seq(Handler) /\ readState \in OpState /\ processed \in Nat
      /\ processed \in 0 .. Len(sent) /\ Len(sent) \in Nat
  BY DEF IInv, TypeOK, InPlace
<1>2. Stop \in Handler /\ Stop.run = "stop" /\ "stop" \notin ReadRuns
  BY Handlers DEF ReadRuns
<1>3. ASSUME NEW h \in Handler, h.run \in ReadRuns, Runs(h), Posts(<<Stop>>),
             UNCHANGED <<sent, owed, inbox, processed, reading, headerBuffer,
                         payloadBuffer, readState, phase>>
      PROVE  InPlace'
  <2>1. Takes(strand, h, Tail(strand)) /\ Gets(Tail(strand), Stop, strand')
    BY <1>1, <1>2, <1>3, RunsAndPosts
  <2>2. Has(strand, ReadRuns) /\ ~Has(strand', ReadRuns) /\ readState = "none"
        /\ phase = "started"
    BY <1>2, <1>3, <2>1, KindsAre, HasFacts DEF Takes, Gets, IInv, Control, OneRead, Lifecycle
  <2>3. ~StillReads'
    BY <1>3, <2>2 DEF StillReads
  <2> QED BY <1>3, <2>3, StaysInPlace
<1>4. "header" \in ReadRuns /\ "payload" \in ReadRuns
  BY DEF ReadRuns
<1>5. ASSUME NEW what \in ReadRuns, ReadError(what) PROVE InPlace'
  <2>1. HasRead(what, FALSE) \in Handler /\ HasRead(what, FALSE).run \in ReadRuns
    BY Handlers
  <2> QED BY <1>3, <1>5, <2>1 DEF ReadError, OnReadError
<1>6. CASE HeaderRejected
  <2>1. HasRead("header", TRUE) \in Handler /\ HasRead("header", TRUE).run \in ReadRuns
    BY <1>4, Handlers
  <2> QED BY <1>3, <1>6, <2>1 DEF HeaderRejected
<1>7. CASE PayloadWanted
  <2>1. /\ reading = "header" /\ HasGot /\ StillReads
        /\ processed < Len(sent) /\ headerBuffer = Request.header
    BY <1>4, <1>7, GotFacts DEF PayloadWanted
  <2>2. /\ WellFormedHeader(headerBuffer) /\ HasPayload(headerBuffer)
        /\ readState' \in {"pending", "failed"} /\ reading' = "payload"
        /\ UNCHANGED <<sent, owed, inbox, processed, headerBuffer, phase>>
    BY <1>7 DEF PayloadWanted, PayloadNext, Started
  <2>3. StillReads' /\ ~HasGot'
    BY <2>2, HasFacts DEF Control, OneRead, StillReads, HasGot
  <2>4. SessionAt = <<processed + 1, "payload">> /\ SessionAt' = <<processed + 1, "payload">>
    BY <2>1, <2>2, <2>3 DEF SessionAt, PastHeader
  <2>5. StreamLinks' = StreamLinks /\ ClientAt' = ClientAt /\ Request' = Request
    BY <2>2 DEF StreamLinks, ClientAt, Request
  <2>6. Path(StreamLinks, inbox, SessionAt, ClientAt)'
    BY <2>1, <2>2, <2>4, <2>5 DEF IInv, InPlace
  <2> QED BY <2>1, <2>2, <2>3, <2>5, <2>6 DEF IInv, InPlace
<1>8. ASSUME HeaderProcessed \/ PayloadProcessed,
             SessionAt = <<processed + 2, "header">>,
             processed < Len(sent), WellFormedHeader(Request.header), StillReads
      PROVE  InPlace'
  <2>1. /\ processed' = processed + 1 /\ reading' = "header"
        /\ readState' \in {"pending", "failed"}
        /\ UNCHANGED <<sent, owed, inbox, headerBuffer, payloadBuffer, phase>>
    BY <1>8 DEF HeaderProcessed, PayloadProcessed, Process, Started
  <2>2. StillReads' /\ ~HasGot'
    BY <2>1, HasFacts DEF Control, OneRead, StillReads, HasGot
  <2>3. SessionAt' = SessionAt
    <3>1. (processed + 1) + 1 = processed + 2
      BY <1>1
    <3> QED BY <1>8, <2>1, <2>2, <3>1 DEF SessionAt
  <2>4. StreamLinks' = StreamLinks /\ ClientAt' = ClientAt
    BY <2>1 DEF StreamLinks, ClientAt
  <2>5. Path(StreamLinks, inbox, SessionAt, ClientAt)'
    BY <1>8, <2>1, <2>3, <2>4 DEF IInv, InPlace
  <2>6. processed + 1 \in 0 .. Len(sent)
    BY <1>1, <1>8
  <2>7. \A k \in 1 .. processed + 1 : WellFormedHeader(sent[k].header)
    <3>1. ASSUME NEW k \in 1 .. processed + 1 PROVE WellFormedHeader(sent[k].header)
      <4>1. k \in 1 .. processed \/ k = processed + 1
        BY <1>1
      <4> QED BY <1>8, <4>1 DEF IInv, InPlace, Request
    <3> QED BY <3>1
  <2> QED BY <2>1, <2>2, <2>5, <2>6, <2>7 DEF IInv, InPlace
<1>9. CASE HeaderProcessed
  <2>1. /\ reading = "header" /\ HasGot /\ StillReads
        /\ processed < Len(sent) /\ headerBuffer = Request.header
    BY <1>4, <1>9, GotFacts DEF HeaderProcessed
  <2>2. WellFormedHeader(headerBuffer) /\ ~HasPayload(headerBuffer)
    BY <1>9 DEF HeaderProcessed
  <2>3. SessionAt = <<(processed + 1) + 1, "header">> /\ (processed + 1) + 1 = processed + 2
    BY <1>1, <2>1, <2>2 DEF SessionAt, PastHeader
  <2> QED BY <1>8, <1>9, <2>1, <2>2, <2>3
<1>10. CASE PayloadProcessed
  <2>1. /\ reading = "payload" /\ HasGot /\ StillReads
        /\ processed < Len(sent) /\ WellFormedHeader(headerBuffer)
        /\ headerBuffer = Request.header
    BY <1>4, <1>10, GotFacts DEF PayloadProcessed
  <2>2. SessionAt = <<processed + 2, "header">>
    BY <2>1 DEF SessionAt
  <2> QED BY <1>8, <1>10, <2>1, <2>2
<1> QED BY <1>5, <1>6, <1>7, <1>9, <1>10

LEMMA NextKeepsInPlace ==
  ASSUME IInv, Control', [Next]_vars PROVE InPlace'
<1>1. CASE Aside
  BY <1>1, AsideFacts, StaysInPlace DEF sessionVars, clientVars, readVars, writeVars,
     countVars, StillReads, HasGot
<1>2. CASE WriteSucceeds \/ WriteFails
  BY <1>2, StaysInPlace DEF WriteSucceeds, WriteFails, clientVars, lifeVars, readVars,
     countVars, StillReads, HasGot
<1> QED BY <1>1, <1>2, ClientKeepsInPlace, OthersKeepInPlace, ReactorKeepsInPlace,
           ReadingKeepsInPlace DEF Next, Aside, Reactor, Strand, ReadRuns

-----------------------------------------------------------------------------
(***************************************************************************)
(* The order of the replies.                                               *)
(***************************************************************************)
LEMMA SendLink ==
  ASSUME NEW r \in Reply, NEW a, NEW d, <<Send(r), a, d>> \in ReplyLinks,
         Len(promised) \in Nat
  PROVE  d \in 1 .. Len(promised) /\ a = d - 1 /\ r = promised[d]
<1>1. Send(r).run = "send"
  BY DEF Send
<1>2. PICK k \in 1 .. Len(promised) : <<Send(r), a, d>> = <<Send(promised[k]), k - 1, k>>
  BY <1>1 DEF ReplyLinks
<1>3. Send(r) = Send(promised[k]) /\ a = k - 1 /\ d = k
  BY <1>2
<1>4. Send(r).reply = r /\ Send(promised[k]).reply = promised[k]
  BY DEF Send
<1> QED BY <1>3, <1>4

LEMMA OtherLink ==
  ASSUME NEW h \in Handler, h.run # "send"
  PROVE  /\ \A a, d : <<h, a, d>> \in ReplyLinks => d = a
         /\ \A k \in 0 .. Len(promised) : <<h, k, k>> \in ReplyLinks
<1>1. \A r : Send(r).run = "send"
  BY DEF Send
<1> QED BY <1>1 DEF ReplyLinks

(* The strand after a handler that is no send, and with another one.       *)
LEMMA OtherHandlerTaken ==
  ASSUME strand \in Seq(Handler), strand # <<>>, Head(strand).run # "send", NEW a, NEW b,
         Path(ReplyLinks, strand, a, b)
  PROVE  Path(ReplyLinks, Tail(strand), a, b)
<1>1. PICK d : <<Head(strand), a, d>> \in ReplyLinks /\ Path(ReplyLinks, Tail(strand), d, b)
  BY PathTail
<1>2. Head(strand) \in Handler
  BY HeadTailProperties
<1> QED BY <1>1, <1>2, OtherLink

LEMMA OtherHandlerPosted ==
  ASSUME NEW q \in Seq(Handler), NEW g \in Handler, g.run # "send", NEW a,
         promised \in Seq(Reply), Path(ReplyLinks, q, a, Len(promised))
  PROVE  Path(ReplyLinks, Append(q, g), a, Len(promised))
<1>1. Len(promised) \in Nat /\ Len(promised) \in 0 .. Len(promised)
  BY LenProperties
<1> QED BY <1>1, OtherLink, PathAppend

(* A step that moves no reply.                                             *)
LEMMA StaysInOrder ==
  ASSUME IInv, isStopped => isStopped', UNCHANGED <<written, promised>>,
         ~isStopped' => Unwritten' = Unwritten,
         \/ strand' = strand
         \/ \E g \in Handler : g.run # "send" /\ strand' = Append(strand, g)
         \/ /\ strand # <<>> /\ Head(strand).run # "send"
            /\ \/ strand' = Tail(strand)
               \/ \E g \in Handler : g.run # "send" /\ strand' = Append(Tail(strand), g)
  PROVE  InOrder'
<1>1. SUFFICES ASSUME ~isStopped' PROVE InOrder'
  BY DEF InOrder
<1>2. /\ strand \in Seq(Handler) /\ promised \in Seq(Reply)
      /\ Path(ReplyLinks, strand, Len(written) + Len(Unwritten), Len(promised))
  BY <1>1 DEF IInv, TypeOK, InOrder
<1> DEFINE a == Len(written) + Len(Unwritten)
           b == Len(promised)
<1>3. Path(ReplyLinks, strand', a, b)
  <2>1. CASE strand' = strand
    BY <1>2, <2>1
  <2>2. ASSUME NEW g \in Handler, g.run # "send", strand' = Append(strand, g)
        PROVE  Path(ReplyLinks, strand', a, b)
    BY <1>2, <2>2, OtherHandlerPosted
  <2>3. CASE /\ strand # <<>> /\ Head(strand).run # "send"
             /\ \/ strand' = Tail(strand)
                \/ \E g \in Handler : g.run # "send" /\ strand' = Append(Tail(strand), g)
    <3>1. Tail(strand) \in Seq(Handler) /\ Path(ReplyLinks, Tail(strand), a, b)
      BY <1>2, <2>3, HeadTailProperties, OtherHandlerTaken
    <3> QED BY <1>2, <2>3, <3>1, OtherHandlerPosted
  <2> QED BY <2>1, <2>2, <2>3
<1>4. ReplyLinks' = ReplyLinks
  BY DEF ReplyLinks
<1>5. Path(ReplyLinks, strand, Len(written) + Len(Unwritten), Len(promised))'
  BY <1>1, <1>3, <1>4
<1> QED BY <1>1, <1>5 DEF IInv, InOrder

(* The write that is under way is of the front of writeQueue_.             *)
LEMMA FrontFacts ==
  ASSUME IInv
  PROVE  /\ writeQueue \in Seq(Reply)
         /\ FrontWritten => writeQueue # <<>>
         /\ writeState \in {"pending", "failed"} => ~FrontWritten
  BY HasFacts DEF IInv, TypeOK, Control, OneWrite, FrontWritten

LEMMA OutsideKeepsInOrder ==
  ASSUME IInv, Client \/ Acceptor \/ ReadSucceeds \/ ReadFails \/ ReadIsPosted \/ WriteFails
               \/ WriteIsPosted \/ StopAll
  PROVE  InOrder'
<1> USE DEF clientVars, lifeVars, readVars, countVars, writeVars
<1>1. strand \in Seq(Handler) /\ writeState \in OpState
  BY DEF IInv, TypeOK
<1>2. CASE Client \/ Acceptor \/ ReadSucceeds \/ ReadFails
  <2>1. UNCHANGED <<written, promised, strand, writeQueue, writeState, isStopped>>
    BY <1>2 DEF Client, ClientSendsHeader, ClientSendsPayload, ClientLeaves, Acceptor,
       AddSession, Start, ReadSucceeds, ReadFails
  <2> QED BY <2>1, StaysInOrder DEF Unwritten, FrontWritten
<1>3. CASE WriteFails
  <2>1. /\ writeState = "pending" /\ writeState' = "failed"
        /\ UNCHANGED <<written, promised, strand, writeQueue, isStopped>>
    BY <1>3 DEF WriteFails
  <2>2. ~FrontWritten /\ ~FrontWritten'
    BY <2>1, FrontFacts DEF FrontWritten
  <2> QED BY <2>1, <2>2, StaysInOrder DEF Unwritten
<1>4. CASE ReadIsPosted
  <2> DEFINE h == HasRead(reading, readState = "ok")
  <2>1. h \in Handler /\ h.run \in ReadRuns
    BY Handlers DEF ReadRuns, IInv, TypeOK
  <2>2. /\ strand' = Append(strand, h)
        /\ UNCHANGED <<written, promised, writeQueue, writeState, isStopped>>
    BY <1>4 DEF ReadIsPosted
  <2> HIDE DEF h
  <2>3. h.run # "send" /\ h.run # "written"
    BY <2>1 DEF ReadRuns
  <2>4. HasOk(strand', WriteRuns) <=> HasOk(strand, WriteRuns)
    BY <1>1, <2>1, <2>2, <2>3, Posted1, KindsAre, KindsOf DEF Gets
  <2> QED BY <2>1, <2>2, <2>3, <2>4, StaysInOrder DEF Unwritten, FrontWritten
<1>5. CASE WriteIsPosted
  <2> DEFINE h == HasWritten(writeState = "ok")
  <2>1. h \in Handler /\ h.run = "written" /\ (h.ok = TRUE <=> writeState = "ok")
    BY Handlers
  <2>2. /\ strand' = Append(strand, h) /\ writeState' = "none"
        /\ UNCHANGED <<written, promised, writeQueue, isStopped>>
    BY <1>5 DEF WriteIsPosted
  <2> HIDE DEF h
  <2>3. FrontWritten' <=> FrontWritten
    BY <1>1, <2>1, <2>2, Posted1, KindsAre, KindsOf DEF Gets, FrontWritten
  <2> QED BY <2>1, <2>2, <2>3, StaysInOrder DEF Unwritten
<1>6. CASE StopAll
  <2>1. /\ strand' = Append(strand, Stop) /\ Stop \in Handler /\ Stop.run = "stop"
        /\ UNCHANGED <<written, promised, writeQueue, writeState, isStopped>>
    BY <1>6, Handlers DEF StopAll, Told
  <2>2. HasOk(strand', WriteRuns) <=> HasOk(strand, WriteRuns)
    BY <1>1, <2>1, Posted1, KindsAre, KindsOf DEF Gets
  <2> QED BY <2>1, <2>2, StaysInOrder DEF Unwritten, FrontWritten
<1> QED BY <1>2, <1>3, <1>4, <1>5, <1>6

(* The front is written: it moves from what waits to what is written.      *)
LEMMA WriteSucceedsKeepsInOrder ==
  ASSUME IInv, WriteSucceeds PROVE InOrder'
<1>1. /\ writeState = "pending" /\ writeState' = "ok"
      /\ written' = Append(written, Head(writeQueue))
      /\ UNCHANGED <<promised, strand, writeQueue, isStopped>>
  BY DEF WriteSucceeds, clientVars, lifeVars, readVars, countVars
<1>2. SUFFICES ASSUME ~isStopped PROVE InOrder'
  BY <1>1 DEF InOrder
<1>3. ~FrontWritten /\ FrontWritten' /\ writeQueue # <<>> /\ writeQueue \in Seq(Reply)
  BY <1>1, FrontFacts DEF FrontWritten, IInv, Control, OneWrite
<1>4. Unwritten = writeQueue /\ Unwritten' = Tail(writeQueue)
  BY <1>1, <1>3 DEF Unwritten
<1> DEFINE n == Len(writeQueue)
           m == Len(written)
<1>5. /\ n \in Nat /\ n >= 1 /\ m \in Nat /\ Len(promised) \in Nat
      /\ Len(Unwritten') = n - 1 /\ \A i \in 1 .. n - 1 : Unwritten'[i] = writeQueue[i + 1]
      /\ Len(written') = m + 1
  BY <1>1, <1>3, <1>4, HeadTailProperties, AppendProperties DEF IInv, TypeOK
<1>6. /\ m + n <= Len(promised)
      /\ \A i \in 1 .. n : writeQueue[i] = promised[m + i]
      /\ Path(ReplyLinks, strand, m + n, Len(promised))
  BY <1>2, <1>4 DEF IInv, InOrder
<1>7. ASSUME NEW i \in 1 .. n - 1 PROVE Unwritten'[i] = promised[Len(written') + i]
  <2>1. i + 1 \in 1 .. n /\ m + (i + 1) = (m + 1) + i
    BY <1>5
  <2> QED BY <1>5, <1>6, <2>1
<1>8. Len(written') + Len(Unwritten') = m + n
  BY <1>5
<1>9. ReplyLinks' = ReplyLinks
  BY <1>1 DEF ReplyLinks
<1>10. Path(ReplyLinks, strand, Len(written) + Len(Unwritten), Len(promised))'
  BY <1>1, <1>6, <1>8, <1>9
<1> QED BY <1>1, <1>5, <1>6, <1>7, <1>8, <1>10 DEF InOrder

(* Handlers that are no sends and promise nothing.                         *)
LEMMA HandlersKeepInOrder ==
  ASSUME IInv, Control',
         \/ StopAgain \/ StopFirst \/ Written \/ WriteError \/ HeaderRejected \/ PayloadWanted
         \/ \E what \in ReadRuns : ReadError(what)
  PROVE  InOrder'
<1> USE DEF clientVars, lifeVars, readVars, countVars, writeVars
<1>1. strand \in Seq(Handler) /\ writeState \in OpState /\ Stop \in Handler /\ Stop.run = "stop"
  BY Handlers DEF IInv, TypeOK
<1>2. CASE StopAgain \/ StopFirst
  <2>1. isStopped'
    BY <1>2 DEF StopAgain, StopFirst
  <2> QED BY <2>1 DEF InOrder
<1>3. CASE Written
  <2> DEFINE h == HasWritten(TRUE)
  <2>1. h \in Handler /\ h.run = "written" /\ h.ok = TRUE
    BY Handlers
  <2>2. /\ Runs(h) /\ Posts(<<>>) /\ writeQueue' = Tail(writeQueue)
        /\ writeState' = IF Tail(writeQueue) # <<>> THEN Started(socketOpen) ELSE writeState
        /\ UNCHANGED <<written, promised, isStopped>>
    BY <1>3 DEF Written, NextWrite
  <2> HIDE DEF h
  <2>3. Takes(strand, h, strand') /\ strand' = Tail(strand)
    BY <1>1, <2>1, <2>2, RunsAndPosts
  <2>4. /\ HasOk(strand, WriteRuns) /\ Has(strand, WriteRuns) /\ ~Has(strand', WriteRuns)
        /\ writeState = "none"
    BY <2>1, <2>3, KindsAre, KindsOf, HasFacts DEF Takes, IInv, Control, OneWrite
  <2>5. FrontWritten /\ ~FrontWritten'
    BY <2>2, <2>4, HasFacts DEF FrontWritten, Started
  <2>6. Unwritten' = Unwritten
    BY <2>2, <2>5 DEF Unwritten
  <2> QED BY <2>1, <2>2, <2>3, <2>6, StaysInOrder DEF Runs
<1>4. CASE WriteError
  <2> DEFINE h == HasWritten(FALSE)
  <2>1. h \in Handler /\ h.run = "written" /\ h.ok = FALSE
    BY Handlers
  <2>2. /\ Runs(h) /\ Posts(<<Stop>>)
        /\ UNCHANGED <<written, promised, isStopped, writeQueue, writeState>>
    BY <1>4 DEF WriteError, KeptInFront
  <2> HIDE DEF h
  <2>3. /\ Takes(strand, h, Tail(strand)) /\ strand' = Append(Tail(strand), Stop)
        /\ Gets(Tail(strand), Stop, strand')
    BY <1>1, <2>1, <2>2, RunsAndPosts
  <2>4. /\ HasOk(strand', WriteRuns) <=> HasOk(strand, WriteRuns)
    BY <1>1, <2>1, <2>3, KindsAre, KindsOf DEF Takes, Gets
  <2> QED BY <1>1, <2>1, <2>2, <2>3, <2>4, StaysInOrder DEF Runs, Unwritten, FrontWritten
<1>5. ASSUME NEW h \in Handler, h.run \in ReadRuns, Runs(h), Posts(<<>>) \/ Posts(<<Stop>>),
             UNCHANGED <<written, promised, isStopped, writeQueue, writeState>>
      PROVE  InOrder'
  <2>1. h.run # "send" /\ h.run # "written"
    BY <1>5 DEF ReadRuns
  <2>2. /\ Takes(strand, h, Tail(strand))
        /\ \/ strand' = Tail(strand)
           \/ strand' = Append(Tail(strand), Stop) /\ Gets(Tail(strand), Stop, strand')
    BY <1>1, <1>5, RunsAndPosts
  <2>3. HasOk(strand', WriteRuns) <=> HasOk(strand, WriteRuns)
    BY <1>1, <2>1, <2>2, KindsAre, KindsOf DEF Takes, Gets
  <2> QED BY <1>1, <1>5, <2>1, <2>2, <2>3, StaysInOrder DEF Runs, Unwritten, FrontWritten
<1>6. \A what \in ReadRuns, ok \in BOOLEAN :
        HasRead(what, ok) \in Handler /\ HasRead(what, ok).run \in ReadRuns
  BY Handlers
<1>7. "header" \in ReadRuns
  BY DEF ReadRuns
<1>8. CASE HeaderRejected
  BY <1>5, <1>6, <1>7, <1>8 DEF HeaderRejected
<1>9. CASE PayloadWanted
  BY <1>5, <1>6, <1>7, <1>9 DEF PayloadWanted
<1>10. ASSUME NEW what \in ReadRuns, ReadError(what) PROVE InOrder'
  BY <1>5, <1>6, <1>10 DEF ReadError, OnReadError
<1> QED BY <1>2, <1>3, <1>4, <1>8, <1>9, <1>10

(* A send moves a reply from the strand to writeQueue_.                    *)
LEMMA SendKeepsInOrder ==
  ASSUME IInv, NEW r \in Reply, SendReply(r) PROVE InOrder'
<1> USE DEF clientVars, lifeVars, readVars, countVars, writeVars
<1>1. /\ strand \in Seq(Handler) /\ Send(r) \in Handler /\ Send(r).run = "send"
      /\ written \in Seq(Reply) /\ promised \in Seq(Reply)
  BY Handlers DEF IInv, TypeOK
<1>2. Runs(Send(r)) /\ Posts(<<>>) /\ UNCHANGED <<written, promised, isStopped, socketOpen>>
  BY DEF SendReply
<1>3. SUFFICES ASSUME ~isStopped PROVE InOrder'
  BY <1>2 DEF InOrder
<1>4. /\ writeQueue' = Append(writeQueue, r)
      /\ writeState' = IF writeQueue # <<>> THEN writeState ELSE Started(socketOpen)
  BY <1>3 DEF SendReply, WriteInProgress
<1>5. Takes(strand, Send(r), strand') /\ strand' = Tail(strand) /\ strand # <<>>
      /\ Head(strand) = Send(r)
  BY <1>1, <1>2, RunsAndPosts DEF Runs
<1>6. HasOk(strand', WriteRuns) <=> HasOk(strand, WriteRuns)
  BY <1>1, <1>5, KindsAre, KindsOf DEF Takes
<1>7. writeQueue \in Seq(Reply) /\ (FrontWritten => writeQueue # <<>>)
  BY FrontFacts
<1>8. FrontWritten' <=> FrontWritten
  BY <1>4, <1>6, <1>7 DEF FrontWritten, Started
<1>9. Unwritten \in Seq(Reply) /\ Unwritten' = Append(Unwritten, r)
  <2>1. CASE FrontWritten
    <3>1. Tail(Append(writeQueue, r)) = Append(Tail(writeQueue), r)
      BY <1>7, <2>1
    <3> QED BY <1>4, <1>7, <1>8, <2>1, <3>1, HeadTailProperties DEF Unwritten
  <2>2. CASE ~FrontWritten
    BY <1>4, <1>7, <1>8, <2>2 DEF Unwritten
  <2> QED BY <2>1, <2>2
<1> DEFINE n == Len(Unwritten)
           m == Len(written)
<1>10. /\ n \in Nat /\ m \in Nat /\ Len(promised) \in Nat
       /\ Len(Unwritten') = n + 1 /\ Unwritten'[n + 1] = r
       /\ \A i \in 1 .. n : Unwritten'[i] = Unwritten[i]
  BY <1>1, <1>9, AppendProperties
<1>11. /\ \A i \in 1 .. n : Unwritten[i] = promised[m + i]
       /\ Path(ReplyLinks, strand, m + n, Len(promised))
  BY <1>3 DEF IInv, InOrder
<1>12. PICK d : /\ <<Send(r), m + n, d>> \in ReplyLinks
                /\ Path(ReplyLinks, strand', d, Len(promised))
  BY <1>1, <1>5, <1>11, PathTail
<1>13. d \in 1 .. Len(promised) /\ m + n = d - 1 /\ r = promised[d]
  BY <1>10, <1>12, SendLink
<1>14. d = m + (n + 1)
  BY <1>10, <1>13
<1>15. ASSUME NEW i \in 1 .. n + 1 PROVE Unwritten'[i] = promised[m + i]
  <2>1. i \in 1 .. n \/ i = n + 1
    BY <1>10
  <2> QED BY <1>10, <1>11, <1>13, <1>14, <2>1
<1>16. ReplyLinks' = ReplyLinks
  BY <1>2 DEF ReplyLinks
<1>17. Path(ReplyLinks, strand, Len(written) + Len(Unwritten), Len(promised))'
  BY <1>2, <1>10, <1>12, <1>14, <1>16
<1>18. m + (n + 1) <= Len(promised)
  BY <1>10, <1>13, <1>14
<1> QED BY <1>2, <1>10, <1>15, <1>17, <1>18 DEF InOrder

(* What a read's handler processes is the client's next request.           *)
LEMMA Processed ==
  ASSUME IInv, HeaderProcessed \/ PayloadProcessed
  PROVE  /\ \E h \in Handler : h.run \in ReadRuns /\ Runs(h)
         /\ Process(Request.header.type, Request.payload)
         /\ Request.payload \in Payload \cup {NoPayload}
         /\ processed < Len(sent) /\ WellFormedHeader(Request.header)
         /\ UNCHANGED <<clientVars, inbox, lifeVars, headerBuffer, payloadBuffer, writeVars>>
<1>1. /\ "header" \in ReadRuns /\ "payload" \in ReadRuns
      /\ \A what \in ReadRuns :
           HasRead(what, TRUE) \in Handler /\ HasRead(what, TRUE).run \in ReadRuns
  BY Handlers DEF ReadRuns
<1>2. processed < Len(sent) => processed + 1 \in 1 .. Len(sent)
  BY DEF IInv, TypeOK
<1>3. processed < Len(sent) => /\ Request.payload \in Payload \cup {NoPayload}
                               /\ HasPayload(Request.header) <=> Request.payload # NoPayload
  BY <1>2, SentFacts DEF IInv, Request
<1>4. CASE HeaderProcessed
  BY <1>1, <1>3, <1>4, GotFacts DEF HeaderProcessed
<1>5. CASE PayloadProcessed
  BY <1>1, <1>3, <1>5, GotFacts DEF PayloadProcessed
<1> QED BY <1>4, <1>5

(* A reply that is promised is queued after all others.                    *)
LEMMA ProcessKeepsInOrder ==
  ASSUME IInv, HeaderProcessed \/ PayloadProcessed PROVE InOrder'
<1> USE DEF clientVars, lifeVars, readVars, countVars, writeVars
<1> DEFINE R == ReplyTo(Request.header.type, Request.payload)
           P == Posted(Request.header.type, Request.payload)
           q == Tail(strand)
<1>1. PICK h \in Handler : h.run \in ReadRuns /\ Runs(h)
  BY Processed
<1>2. /\ promised' = promised \o R /\ Posts(P)
      /\ UNCHANGED <<written, writeQueue, writeState, isStopped>>
  BY Processed DEF Process
<1>3. /\ strand \in Seq(Handler) /\ strand # <<>> /\ Head(strand) = h
      /\ promised \in Seq(Reply) /\ q \in Seq(Handler)
      /\ Stop \in Handler /\ Stop.run = "stop"
  BY <1>1, Handlers DEF IInv, TypeOK, Runs
<1>4. h.run # "send" /\ h.run # "written"
  BY <1>1 DEF ReadRuns
<1>5. Takes(strand, h, q)
  BY <1>1, <1>3, RunsAndPosts
<1>6. \/ R = <<>> /\ (P = <<>> \/ P = <<Stop>>)
      \/ \E r \in Reply : R = <<r>> /\ P = <<Send(r)>>
  BY Processed, WhatIsPosted
<1> HIDE DEF R, P, q
<1>7. CASE R = <<>> /\ (P = <<>> \/ P = <<Stop>>)
  <2>1. promised' = promised
    BY <1>2, <1>3, <1>7
  <2>2. \/ strand' = Tail(strand)
        \/ strand' = Append(Tail(strand), Stop) /\ Gets(q, Stop, strand')
    BY <1>1, <1>2, <1>3, <1>7, RunsAndPosts DEF q
  <2>3. HasOk(strand', WriteRuns) <=> HasOk(strand, WriteRuns)
    BY <1>3, <1>4, <1>5, <2>2, KindsAre, KindsOf DEF Takes, Gets, q
  <2> QED BY <1>2, <1>3, <1>4, <2>1, <2>2, <2>3, StaysInOrder DEF Unwritten, FrontWritten
<1>8. ASSUME NEW r \in Reply, R = <<r>>, P = <<Send(r)>> PROVE InOrder'
  <2> DEFINE n == Len(promised)
             a == Len(written) + Len(Unwritten)
  <2>1. Send(r) \in Handler /\ Send(r).run = "send"
    BY Handlers
  <2>2. promised' = Append(promised, r)
    BY <1>2, <1>3, <1>8, AppendIsConcat
  <2>3. /\ n \in Nat /\ Len(promised') = n + 1 /\ promised'[n + 1] = r
        /\ \A k \in 1 .. n : promised'[k] = promised[k]
    BY <1>3, <2>2, AppendProperties
  <2>4. strand' = Append(q, Send(r)) /\ Gets(q, Send(r), strand')
    BY <1>1, <1>2, <1>3, <1>8, <2>1, RunsAndPosts DEF q
  <2>5. HasOk(strand', WriteRuns) <=> HasOk(strand, WriteRuns)
    BY <1>4, <1>5, <2>1, <2>4, KindsAre, KindsOf DEF Takes, Gets
  <2>6. Unwritten' = Unwritten /\ UNCHANGED <<written, isStopped>>
    BY <1>2, <2>5 DEF Unwritten, FrontWritten
  <2>7. SUFFICES ASSUME ~isStopped PROVE InOrder'
    BY <2>6 DEF InOrder
  <2>8. /\ a <= n /\ \A i \in 1 .. Len(Unwritten) : Unwritten[i] = promised[Len(written) + i]
        /\ Path(ReplyLinks, strand, a, n)
    BY <2>7 DEF IInv, InOrder
  <2>9. Len(written) \in Nat /\ Len(Unwritten) \in Nat
    <3>1. Unwritten \in Seq(Reply)
      BY FrontFacts, HeadTailProperties DEF Unwritten
    <3> QED BY <3>1, LenProperties DEF IInv, TypeOK
  <2>10. Path(ReplyLinks, q, a, n)
    BY <1>3, <1>4, <2>8, OtherHandlerTaken DEF q
  <2>11. ReplyLinks \subseteq ReplyLinks' /\ <<Send(r), n, n + 1>> \in ReplyLinks'
    <3>1. ReplyLinks' =
            {<<Send(promised'[k]), k - 1, k>> : k \in 1 .. n + 1}
            \cup {<<g, k, k>> : g \in {f \in Handler : f.run # "send"}, k \in 0 .. n + 1}
      BY <2>3 DEF ReplyLinks
    <3>2. 1 .. n \subseteq 1 .. n + 1 /\ 0 .. n \subseteq 0 .. n + 1
          /\ n + 1 \in 1 .. n + 1 /\ (n + 1) - 1 = n
      BY <2>3
    <3>3. <<Send(r), n, n + 1>> \in ReplyLinks'
      <4> HIDE DEF n
      <4>1. <<Send(promised'[n + 1]), (n + 1) - 1, n + 1>> \in ReplyLinks'
        BY <3>1, <3>2
      <4>2. Send(promised'[n + 1]) = Send(r)
        BY <2>3 DEF Send
      <4> QED BY <3>2, <4>1, <4>2
    <3>4. ReplyLinks \subseteq ReplyLinks'
      BY <2>3, <3>1, <3>2 DEF ReplyLinks
    <3> QED BY <3>3, <3>4
  <2> HIDE DEF n, a
  <2>12. Path(ReplyLinks', q, a, n)
    BY <2>10, <2>11, PathWidens
  <2>13. Path(ReplyLinks', strand', a, n + 1)
    BY <1>3, <2>1, <2>4, <2>11, <2>12, PathAppend
  <2>14. ASSUME NEW i \in 1 .. Len(Unwritten)
         PROVE  Unwritten[i] = promised'[Len(written) + i]
    <3>1. Len(written) + i \in 1 .. n
      BY <2>3, <2>8, <2>9 DEF a
    <3> QED BY <2>3, <2>8, <3>1
  <2>15. a <= n + 1
    BY <2>3, <2>8, <2>9 DEF a
  <2>16. Path(ReplyLinks, strand, Len(written) + Len(Unwritten), Len(promised))'
    BY <2>3, <2>6, <2>13 DEF a, n
  <2>17. /\ Len(written') + Len(Unwritten') <= Len(promised')
         /\ \A i \in 1 .. Len(Unwritten') : Unwritten'[i] = promised'[Len(written') + i]
    BY <2>3, <2>6, <2>14, <2>15 DEF a, n
  <2> QED BY <2>16, <2>17 DEF InOrder
<1> QED BY <1>6, <1>7, <1>8

LEMMA NextKeepsInOrder ==
  ASSUME IInv, Control', [Next]_vars PROVE InOrder'
<1>1. CASE Aside
  BY <1>1, AsideFacts, StaysInOrder DEF sessionVars, clientVars, readVars, writeVars,
     countVars, Unwritten, FrontWritten
<1> QED BY <1>1, OutsideKeepsInOrder, WriteSucceedsKeepsInOrder, HandlersKeepInOrder,
           SendKeepsInOrder, ProcessKeepsInOrder DEF Next, Aside, Reactor, Strand, ReadRuns

-----------------------------------------------------------------------------
(***************************************************************************)
(* Types.                                                                  *)
(***************************************************************************)
LEMMA ClientKeepsTypes ==
  ASSUME IInv, Client PROVE TypeOK'
<1> USE DEF IInv, TypeOK, clientVars, lifeVars, readVars, writeVars, countVars
<1>1. ASSUME NEW f \in Requests, ClientSendsHeader(f) PROVE TypeOK'
  <2>1. f.header \in Header /\ f.payload \in Payload \cup {NoPayload}
    BY SessionAssumption DEF Frame
  <2>2. /\ sent' \in Seq(Requests) /\ Len(sent') <= MaxFrames
        /\ inbox' \in Seq(Header \cup Payload)
    BY <1>1, <2>1, SessionAssumption, AppendProperties DEF ClientSendsHeader
  <2> QED BY <1>1, <2>1, <2>2 DEF ClientSendsHeader
<1>2. CASE ClientSendsPayload
  <2>1. inbox' \in Seq(Header \cup Payload)
    BY <1>2, AppendProperties DEF ClientSendsPayload
  <2> QED BY <1>2, <2>1 DEF ClientSendsPayload
<1>3. CASE ClientLeaves
  BY <1>3 DEF ClientLeaves
<1> QED BY <1>1, <1>2, <1>3 DEF Client

(* What is in the stream is what the client sent there, so that a read     *)
(* that wants a header gets one, and one that wants a payload gets that.   *)
LEMMA ReactorKeepsTypes ==
  ASSUME IInv, Acceptor \/ Reactor \/ StopAll \/ WriteSucceeds \/ WriteFails
  PROVE  TypeOK'
<1> USE DEF TypeOK, OpState, clientVars, lifeVars, readVars, writeVars, countVars
<1>1. TypeOK
  BY DEF IInv
<1>2. CASE Acceptor
  <2>1. CASE AddSession
    <3>1. phase' \in {"accepted", "registered", "started"} /\ registered' \in BOOLEAN
      BY <2>1 DEF AddSession
    <3> QED BY <1>1, <2>1, <3>1 DEF AddSession
  <2>2. CASE Start
    <3>1. /\ phase' \in {"accepted", "registered", "started"}
          /\ readState' \in OpState /\ reading' \in {"header", "payload"}
      BY <2>2 DEF Start, Started
    <3>2. UNCHANGED <<clientVars, inbox, registered, socketOpen, isStopped, server, strand,
                      headerBuffer, payloadBuffer, writeVars, countVars>>
      BY <2>2 DEF Start
    <3> QED BY <1>1, <3>1, <3>2
  <2> QED BY <1>2, <2>1, <2>2 DEF Acceptor
<1>3. CASE StopAll
  <2>1. strand' \in Seq(Handler)
    BY <1>1, <1>3, Handlers DEF StopAll, Told
  <2>2. /\ registered' = FALSE
        /\ UNCHANGED <<clientVars, inbox, phase, socketOpen, isStopped, readVars, writeVars,
                       countVars>>
    BY <1>3 DEF StopAll
  <2>3. registered' \in BOOLEAN /\ server' \in {"running", "stopping", "stopped"}
    BY <1>1, <1>3, <2>2 DEF StopAll
  <2> QED BY <1>1, <2>1, <2>2, <2>3
<1>4. CASE ReadSucceeds
  <2>1. readState = "pending" /\ inbox # <<>> /\ inbox' = Tail(inbox)
    BY <1>4 DEF ReadSucceeds
  <2>2. inbox' \in Seq(Header \cup Payload)
    BY <1>1, <2>1, HeadTailProperties
  <2>3. ~HasGot /\ StillReads
    BY <2>1, HasFacts DEF IInv, Control, OneRead, HasGot, StillReads
  <2>4. Path(StreamLinks, inbox, <<processed + 1, reading>>, ClientAt)
    BY <2>3 DEF SessionAt, IInv, InPlace
  <2>5. PICK d : <<Head(inbox), <<processed + 1, reading>>, d>> \in StreamLinks
    BY <1>1, <2>1, <2>4, PathTail
  <2>6. CASE reading = "header"
    <3>1. Head(inbox) \in Header
      BY SMTT(20), <1>1, <2>5, <2>6, HeaderLink, SentFacts
    <3> QED BY <1>1, <1>4, <2>2, <2>6, <3>1 DEF ReadSucceeds
  <2>7. CASE reading = "payload"
    <3>1. processed + 1 \in 1 .. Len(sent) /\ Head(inbox) = sent[processed + 1].payload
      BY <2>5, <2>7, PayloadLink
    <3>2. Head(inbox) \in Payload \cup {NoPayload}
      BY <1>1, <3>1, SentFacts
    <3> QED BY <1>1, <1>4, <2>2, <2>7, <3>2 DEF ReadSucceeds
  <2> QED BY <1>1, <2>6, <2>7
<1>5. CASE ReadFails
  BY <1>1, <1>5 DEF ReadFails
<1>6. CASE ReadIsPosted
  <2>1. HasRead(reading, readState = "ok") \in Handler
    BY <1>1, Handlers DEF ReadRuns
  <2>2. strand' \in Seq(Handler)
    BY <1>1, <1>6, <2>1 DEF ReadIsPosted
  <2> QED BY <1>1, <1>6, <2>2 DEF ReadIsPosted
<1>7. CASE WriteSucceeds
  <2>1. writeQueue # <<>>
    BY <1>7 DEF IInv, Control, OneWrite, WriteSucceeds
  <2>2. written' \in Seq(Reply)
    BY <1>1, <1>7, <2>1, HeadTailProperties, AppendProperties DEF WriteSucceeds
  <2> QED BY <1>1, <1>7, <2>2 DEF WriteSucceeds
<1>8. CASE WriteFails
  <2>1. /\ cut' \in BOOLEAN /\ writeState' = "failed"
        /\ UNCHANGED <<clientVars, inbox, lifeVars, strand, readVars, writeQueue, written,
                       countVars>>
    BY <1>1, <1>8 DEF WriteFails
  <2> QED BY <1>1, <2>1
<1>9. CASE WriteIsPosted
  <2>1. HasWritten(writeState = "ok") \in Handler
    BY Handlers
  <2>2. strand' \in Seq(Handler)
    BY <1>1, <1>9, <2>1 DEF WriteIsPosted
  <2> QED BY <1>1, <1>9, <2>2 DEF WriteIsPosted
<1> QED BY <1>2, <1>3, <1>4, <1>5, <1>6, <1>7, <1>8, <1>9 DEF Reactor

LEMMA StrandKeepsTypes ==
  ASSUME IInv, Strand PROVE TypeOK'
<1> USE DEF TypeOK, OpState, clientVars, lifeVars, readVars, writeVars, countVars
<1>1. TypeOK
  BY DEF IInv
<1>2. ASSUME NEW h, Runs(h), \/ Posts(<<>>) \/ Posts(<<Stop>>)
                             \/ \E r \in Reply : Posts(<<Send(r)>>)
      PROVE  strand' \in Seq(Handler)
  <2>1. strand \in Seq(Handler) /\ strand # <<>> /\ Tail(strand) \in Seq(Handler)
    BY <1>1, <1>2, HeadTailProperties DEF Runs
  <2>2. Stop \in Handler /\ \A r \in Reply : Send(r) \in Handler
    BY Handlers
  <2>3. h \in Handler
    BY <1>2, <2>1, HeadTailProperties DEF Runs
  <2> QED BY <1>2, <2>1, <2>2, <2>3, RunsAndPosts DEF Gets
<1>3. CASE StopAgain
  <2>1. strand' \in Seq(Handler)
    BY <1>2, <1>3 DEF StopAgain
  <2> QED BY <1>1, <1>3, <2>1 DEF StopAgain
<1>4. CASE StopFirst
  <2>1. strand' \in Seq(Handler)
    BY <1>2, <1>4 DEF StopFirst
  <2>2. /\ registered' \in BOOLEAN /\ socketOpen' \in BOOLEAN /\ isStopped' \in BOOLEAN
        /\ UNCHANGED <<clientVars, inbox, phase, server, reading, headerBuffer,
                       payloadBuffer, writeQueue, written, countVars>>
    BY <1>4 DEF StopFirst, Deregisters
  <2>3. readState' \in OpState /\ writeState' \in OpState
    BY <1>1, <1>4 DEF StopFirst, Cancelled
  <2>4. cut' \in BOOLEAN
    BY <1>1, <1>4 DEF StopFirst
  <2> QED BY <1>1, <2>1, <2>2, <2>3, <2>4
<1>5. ASSUME NEW r \in Reply, SendReply(r) PROVE TypeOK'
  <2>1. strand' \in Seq(Handler)
    BY <1>2, <1>5 DEF SendReply
  <2>2. writeQueue' \in Seq(Reply) /\ writeState' \in OpState
    <3>1. CASE isStopped
      BY <1>1, <1>5, <3>1 DEF SendReply
    <3>2. CASE ~isStopped
      <4>1. /\ writeQueue' = Append(writeQueue, r)
            /\ writeState' = IF WriteInProgress THEN writeState ELSE Started(socketOpen)
        BY <1>5, <3>2 DEF SendReply
      <4>2. writeQueue' \in Seq(Reply)
        BY <1>1, <4>1, AppendProperties
      <4>3. writeState' \in OpState
        BY <1>1, <4>1 DEF Started
      <4> QED BY <4>2, <4>3
    <3> QED BY <3>1, <3>2
  <2> QED BY <1>1, <1>5, <2>1, <2>2 DEF SendReply
<1>6. ASSUME NEW what \in ReadRuns, ReadError(what) PROVE TypeOK'
  <2>1. strand' \in Seq(Handler)
    BY <1>2, <1>6 DEF ReadError, OnReadError
  <2> QED BY <1>1, <1>6, <2>1 DEF ReadError
<1>7. CASE HeaderRejected
  <2>1. strand' \in Seq(Handler)
    BY <1>2, <1>7 DEF HeaderRejected
  <2> QED BY <1>1, <1>7, <2>1 DEF HeaderRejected
<1>8. CASE PayloadWanted
  <2>1. strand' \in Seq(Handler)
    BY <1>2, <1>8 DEF PayloadWanted
  <2> QED BY <1>1, <1>8, <2>1 DEF PayloadWanted, PayloadNext, Started
<1>9. CASE HeaderProcessed \/ PayloadProcessed
  <2> DEFINE R == ReplyTo(Request.header.type, Request.payload)
             P == Posted(Request.header.type, Request.payload)
  <2>1. PICK h \in Handler : Runs(h)
    BY <1>9, Processed
  <2>2. /\ promised' = promised \o R /\ Posts(P) /\ processed' = processed + 1
        /\ readState' = Started(socketOpen) /\ reading' = "header"
        /\ UNCHANGED <<clientVars, inbox, lifeVars, headerBuffer, payloadBuffer, writeVars>>
    BY <1>9, Processed DEF Process
  <2>3. \/ R = <<>> /\ (P = <<>> \/ P = <<Stop>>)
        \/ \E r \in Reply : R = <<r>> /\ P = <<Send(r)>>
    BY <1>9, Processed, WhatIsPosted
  <2> HIDE DEF R, P
  <2>4. strand' \in Seq(Handler)
    BY <1>2, <2>1, <2>2, <2>3
  <2>5. promised' \in Seq(Reply)
    <3>1. R \in Seq(Reply)
      <4>1. \A r \in Reply : <<r>> \in Seq(Reply)
        OBVIOUS
      <4>2. <<>> \in Seq(Reply)
        OBVIOUS
      <4> QED BY <2>3, <4>1, <4>2
    <3> QED BY <1>1, <2>2, <3>1, ConcatProperties
  <2>6. processed' \in 0 .. MaxFrames
    <3>1. processed < Len(sent)
      BY <1>9, Processed
    <3> QED BY <1>1, <2>2, <3>1, SessionAssumption
  <2> QED BY <1>1, <2>2, <2>4, <2>5, <2>6 DEF Started
<1>10. CASE Written
  <2>1. strand' \in Seq(Handler)
    BY <1>2, <1>10 DEF Written
  <2>2. writeQueue # <<>>
    <3> DEFINE h == HasWritten(TRUE)
    <3>1. h \in Handler /\ h.run = "written" /\ Runs(h)
      BY <1>10, Handlers DEF Written
    <3> HIDE DEF h
    <3>2. Has(strand, WriteRuns)
      BY <1>1, <3>1, RunsAndPosts, KindsAre, KindsOf DEF Takes
    <3> QED BY <3>2 DEF IInv, Control, OneWrite
  <2>3. writeQueue' \in Seq(Reply)
    BY <1>1, <1>10, <2>2, HeadTailProperties DEF Written
  <2> QED BY <1>1, <1>10, <2>1, <2>3 DEF Written, NextWrite, Started
<1>11. CASE WriteError
  <2>1. strand' \in Seq(Handler)
    BY <1>2, <1>11 DEF WriteError
  <2> QED BY <1>1, <1>11, <2>1 DEF WriteError, KeptInFront
<1> QED BY <1>3, <1>4, <1>5, <1>6, <1>7, <1>8, <1>9, <1>10, <1>11 DEF Strand, ReadRuns

LEMMA NextKeepsTypeOK ==
  ASSUME IInv, [Next]_vars PROVE TypeOK'
<1>1. CASE Aside
  <2>1. server' \in {"running", "stopping", "stopped"}
    BY <1>1 DEF Aside, StopAllMisses, ContextStops, vars, lifeVars, IInv, TypeOK
  <2> QED BY <1>1, <2>1, AsideFacts DEF sessionVars, clientVars, readVars, writeVars,
             countVars, IInv, TypeOK
<1> QED BY <1>1, ClientKeepsTypes, ReactorKeepsTypes, StrandKeepsTypes DEF Next, Aside

-----------------------------------------------------------------------------
(***************************************************************************)
(* The invariant.                                                          *)
(***************************************************************************)
LEMMA InitIInv == Init => IInv
<1> SUFFICES ASSUME Init PROVE IInv
  OBVIOUS
<1> USE DEF Init
<1>1. /\ \A runs : ~Has(strand, runs) /\ Sole(strand, runs) /\ ~HasOk(strand, runs)
      /\ Len(sent) = 0 /\ Len(promised) = 0 /\ Len(written) = 0 /\ Len(writeQueue) = 0
  BY EmptyStrand
<1>2. TypeOK
  <2>1. /\ sent \in Seq(Requests) /\ inbox \in Seq(Header \cup Payload)
        /\ strand \in Seq(Handler) /\ writeQueue \in Seq(Reply)
        /\ promised \in Seq(Reply) /\ written \in Seq(Reply)
    OBVIOUS
  <2>2. Len(sent) <= MaxFrames /\ processed \in 0 .. MaxFrames
    BY <1>1, SessionAssumption
  <2>3. registered \in BOOLEAN /\ socketOpen \in BOOLEAN /\ isStopped \in BOOLEAN
        /\ cut \in BOOLEAN
    OBVIOUS
  <2> QED BY <2>1, <2>2, <2>3 DEF TypeOK, OpState
<1>3. Control
  BY <1>1 DEF Control, Lifecycle, OneRead, OneWrite, CutIsLast
<1>4. ~HasGot /\ ~FrontWritten
  BY <1>1 DEF HasGot, FrontWritten
<1>5. InPlace
  <2>1. SessionAt = <<1, "header">> /\ ClientAt = <<1, "header">>
    BY <1>1, <1>4 DEF SessionAt, ClientAt
  <2>2. Path(StreamLinks, inbox, SessionAt, ClientAt)
    BY <2>1, PathEmpty
  <2> QED BY <1>1, <1>4, <2>2 DEF InPlace
<1>6. InOrder
  <2>1. Unwritten = <<>>
    BY <1>4 DEF Unwritten
  <2>2. Path(ReplyLinks, strand, 0, 0)
    BY PathEmpty
  <2> QED BY <1>1, <2>1, <2>2 DEF InOrder
<1> QED BY <1>2, <1>3, <1>5, <1>6 DEF IInv

LEMMA NextKeepsIInv == IInv /\ [Next]_vars => IInv'
  BY NextKeepsTypeOK, NextKeepsControl, NextKeepsInPlace, NextKeepsInOrder DEF IInv

LEMMA IInvInvariant == Spec => []IInv
  BY InitIInv, NextKeepsIInv, PTL DEF Spec

(* The sets the properties speak of, in the terms of the invariant.        *)
LEMMA AtFacts ==
  /\ ReadHandlers # {} <=> Has(strand, ReadRuns)
  /\ WriteHandlers # {} <=> Has(strand, WriteRuns)
  /\ Stopping <=> isStopped \/ Has(strand, StopRuns)
  /\ Sole(strand, ReadRuns) => \A i, j \in ReadHandlers : i = j
  /\ Sole(strand, WriteRuns) => \A i, j \in WriteHandlers : i = j
  BY DEF At, ReadHandlers, WriteHandlers, StopQueued, Stopping, Has, Sole,
     ReadRuns, WriteRuns, StopRuns

-----------------------------------------------------------------------------
(***************************************************************************)
(* The theorems.                                                           *)
(***************************************************************************)

(* Every variable of a session keeps its type; in particular the buffers   *)
(* never take a header for a payload or a payload for a header.            *)
THEOREM TypeCorrect == Spec => []TypeOK
<1>1. IInv => TypeOK
  BY DEF IInv
<1> QED BY <1>1, IInvInvariant, PTL

(* A session that is not about to stop has its one read outstanding or     *)
(* that read's handler queued.                                             *)
THEOREM NeverGoesDeaf == Spec => []ListensUntilStopped
<1>1. IInv => ListensUntilStopped
  BY AtFacts DEF IInv, Control, OneRead, ListensUntilStopped
<1> QED BY <1>1, IInvInvariant, PTL

(* No two writes are ever outstanding, the front of writeQueue_ stays      *)
(* until its handler has run, and packets wait only for a write.           *)
THEOREM WritesOneByOne == Spec => []OneWriteAtATime
<1>1. IInv => OneWriteAtATime
  BY AtFacts DEF IInv, Control, OneWrite, OneWriteAtATime
<1> QED BY <1>1, IInvInvariant, PTL

(* A step that starts no write to the stream.                              *)
LEMMA WritesNothing ==
  ASSUME IInv, [Next]_vars, writeState # "pending"
  PROVE  written' = written /\ (cut => cut')
<1> USE DEF clientVars, lifeVars, readVars, countVars, writeVars
<1>1. CASE Aside
  BY <1>1, AsideFacts DEF sessionVars
<1>2. CASE Client \/ Acceptor \/ StopAll \/ Reactor
  BY <1>2 DEF Client, ClientSendsHeader, ClientSendsPayload, ClientLeaves, Acceptor,
     AddSession, Start, StopAll, Reactor, ReadSucceeds, ReadFails, ReadIsPosted, WriteIsPosted
<1>3. CASE Strand
  <2>1. CASE StopFirst
    <3>1. written' = written /\ cut' \in {cut, cut \/ writeState = "pending"}
      BY <2>1 DEF StopFirst
    <3> QED BY <3>1
  <2>2. CASE ~StopFirst
    <3>1. StopAgain \/ HeaderRejected \/ PayloadWanted \/ HeaderProcessed
            \/ PayloadProcessed \/ Written \/ WriteError => UNCHANGED <<written, cut>>
      BY DEF StopAgain, HeaderRejected, PayloadWanted, HeaderProcessed, PayloadProcessed,
         Written, WriteError
    <3>2. \A r \in Reply : SendReply(r) => UNCHANGED <<written, cut>>
      BY DEF SendReply
    <3>3. \A what \in {"header", "payload"} : ReadError(what) => UNCHANGED <<written, cut>>
      BY DEF ReadError
    <3> QED BY <1>3, <2>2, <3>1, <3>2, <3>3 DEF Strand
  <2> QED BY <2>1, <2>2
<1>4. ~WriteSucceeds /\ ~WriteFails
  BY DEF WriteSucceeds, WriteFails
<1> QED BY <1>1, <1>2, <1>3, <1>4 DEF Next, Aside

(* Nothing is written to the stream after part of a packet.                *)
THEOREM CutEndsTheStream == Spec => NothingAfterCut
<1>1. IInv /\ [Next]_vars => [cut => cut' /\ written' = written]_vars
  <2> SUFFICES ASSUME IInv, [Next]_vars, cut PROVE cut' /\ written' = written
    OBVIOUS
  <2> QED BY WritesNothing DEF IInv, Control, CutIsLast
<1> QED BY <1>1, IInvInvariant, PTL DEF Spec, NothingAfterCut

(* What stop() does is final: the socket stays closed, the session stays   *)
(* out of the manager's set, and nothing more is written.                  *)
THEOREM StopIsFinal == Spec => StoppedForGood
<1>1. IInv /\ [Next]_vars =>
        [isStopped' => ~socketOpen' /\ ~registered' /\ written' = written]_vars
  <2> SUFFICES ASSUME IInv, [Next]_vars, isStopped'
               PROVE  ~socketOpen' /\ ~registered' /\ written' = written
    OBVIOUS
  <2>1. ~socketOpen' /\ ~registered' /\ writeState' # "pending"
    BY NextKeepsControl DEF Control, Lifecycle
  <2>2. CASE writeState # "pending"
    BY <2>1, <2>2, WritesNothing
  <2>3. CASE writeState = "pending"
    <3>1. ~isStopped
      BY <2>3 DEF IInv, Control, Lifecycle
    <3>2. StopFirst \/ written' = written
      BY <3>1 DEF Next, vars, sessionVars, StopAllMisses, ContextStops, Client,
         ClientSendsHeader, ClientSendsPayload, ClientLeaves,
         Acceptor, AddSession, Start, StopAll, Reactor, ReadSucceeds, ReadFails, ReadIsPosted,
         WriteIsPosted, WriteSucceeds, WriteFails, Strand, StopAgain, SendReply, ReadError,
         HeaderRejected, PayloadWanted, HeaderProcessed, PayloadProcessed, Written,
         WriteError, clientVars, lifeVars, readVars, countVars, writeVars
    <3> QED BY <2>1, <3>2 DEF StopFirst
  <2> QED BY <2>2, <2>3
<1> QED BY <1>1, IInvInvariant, PTL DEF Spec, StoppedForGood

-----------------------------------------------------------------------------
(***************************************************************************)
(* Session implements SessionLife.                                         *)
(***************************************************************************)

(* How a step changes the strand: a stop is posted from outside only while *)
(* the session is in the manager's set, and is taken only to stop.         *)
Arrives == \E h \in Handler : Gets(strand, h, strand') /\ (h.run = "stop" => registered)
Runs1 ==
  \E h \in Handler :
    /\ h.run # "stop" /\ Takes(strand, h, Tail(strand))
    /\ \/ strand' = Tail(strand)
       \/ \E g \in Handler : Gets(Tail(strand), g, strand')

LEMMA StrandSteps ==
  ASSUME IInv, [Next]_vars
  PROVE  isStopped' \/ strand' = strand \/ Arrives \/ Runs1
<1> USE DEF clientVars, lifeVars, readVars, countVars, writeVars
<1>1. strand \in Seq(Handler) /\ reading \in ReadRuns
  BY DEF IInv, TypeOK, ReadRuns
<1>2. ASSUME NEW h \in Handler, h.run # "stop", Runs(h),
             Posts(<<>>) \/ \E g \in Handler : Posts(<<g>>)
      PROVE  Runs1
  BY <1>1, <1>2, RunsAndPosts DEF Runs1
<1>3. CASE Aside
  BY <1>3, AsideFacts DEF sessionVars
<1>4. CASE Client \/ Acceptor \/ ReadSucceeds \/ ReadFails \/ WriteSucceeds \/ WriteFails
  BY <1>4 DEF Client, ClientSendsHeader, ClientSendsPayload, ClientLeaves, Acceptor,
     AddSession, Start, ReadSucceeds, ReadFails, WriteSucceeds, WriteFails
<1>5. CASE StopAll
  BY <1>1, <1>5, Handlers, Posted1 DEF StopAll, Told, Arrives
<1>6. CASE ReadIsPosted
  <2> DEFINE h == HasRead(reading, readState = "ok")
  <2>1. h \in Handler /\ h.run # "stop" /\ strand' = Append(strand, h)
    BY <1>1, <1>6, Handlers DEF ReadIsPosted, ReadRuns
  <2> HIDE DEF h
  <2> QED BY <1>1, <2>1, Posted1 DEF Arrives
<1>7. CASE WriteIsPosted
  <2> DEFINE h == HasWritten(writeState = "ok")
  <2>1. h \in Handler /\ h.run # "stop" /\ strand' = Append(strand, h)
    BY <1>7, Handlers DEF WriteIsPosted
  <2> HIDE DEF h
  <2> QED BY <1>1, <2>1, Posted1 DEF Arrives
<1>8. CASE StopAgain \/ StopFirst
  BY <1>8 DEF StopAgain, StopFirst
<1>9. ASSUME NEW r \in Reply, SendReply(r) PROVE Runs1
  BY <1>2, <1>9, Handlers DEF SendReply
<1>10. /\ Stop \in Handler
       /\ \A what \in ReadRuns, ok \in BOOLEAN :
            HasRead(what, ok) \in Handler /\ HasRead(what, ok).run # "stop"
       /\ \A ok \in BOOLEAN : HasWritten(ok) \in Handler /\ HasWritten(ok).run # "stop"
       /\ "header" \in ReadRuns /\ "payload" \in ReadRuns
  BY Handlers DEF ReadRuns
<1>11. ASSUME NEW what \in ReadRuns, ReadError(what) PROVE Runs1
  BY <1>2, <1>10, <1>11 DEF ReadError, OnReadError
<1>12. CASE HeaderRejected \/ PayloadWanted
  BY <1>2, <1>10, <1>12 DEF HeaderRejected, PayloadWanted
<1>13. CASE HeaderProcessed \/ PayloadProcessed
  <2>1. PICK h \in Handler : h.run \in ReadRuns /\ Runs(h)
    BY <1>13, Processed
  <2>2. \/ Posts(<<>>) \/ Posts(<<Stop>>)
        \/ \E r \in Reply : Posts(<<Send(r)>>)
    BY <1>13, Processed, WhatIsPosted DEF Process
  <2>3. \A r \in Reply : Send(r) \in Handler
    BY Handlers
  <2>4. h.run # "stop"
    BY <2>1 DEF ReadRuns
  <2> QED BY <1>2, <1>10, <2>1, <2>2, <2>3, <2>4
<1>14. CASE Written \/ WriteError
  BY <1>2, <1>10, <1>14 DEF Written, WriteError
<1> QED BY <1>3, <1>4, <1>5, <1>6, <1>7, <1>8, <1>9, <1>11, <1>12, <1>13, <1>14
        DEF Next, Aside, Reactor, Strand, ReadRuns

LEMMA StoppingFacts ==
  ASSUME IInv, [Next]_vars
  PROVE  /\ isStopped => isStopped'
         /\ isStopped' => Stopping'
         /\ Stopping => Stopping'
         /\ Stopping' => Stopping \/ registered \/ phase = "started"
<1> DEFINE queued == Has(strand, StopRuns)
<1>1. Stopping <=> isStopped \/ queued
  BY AtFacts
<1>2. (Stopping <=> isStopped \/ queued)'
  BY DEF Stopping, StopQueued, At, Has, StopRuns
<1>3. isStopped => isStopped'
  BY DEF Next, vars, sessionVars, StopAllMisses, ContextStops, Client,
     ClientSendsHeader, ClientSendsPayload, ClientLeaves,
     Acceptor, AddSession, Start, StopAll, Reactor, ReadSucceeds, ReadFails, ReadIsPosted,
     WriteIsPosted, WriteSucceeds, WriteFails, Strand, StopAgain, StopFirst, SendReply,
     ReadError, HeaderRejected, PayloadWanted, HeaderProcessed, PayloadProcessed, Written,
     WriteError, clientVars, lifeVars, readVars, countVars, writeVars
<1>4. CASE isStopped'
  <2>1. ASSUME ~isStopped PROVE queued
    <3>1. StopFirst
      BY <1>4, <2>1 DEF Next, vars, sessionVars, StopAllMisses, ContextStops, Client,
         ClientSendsHeader, ClientSendsPayload,
         ClientLeaves, Acceptor, AddSession, Start, StopAll, Reactor, ReadSucceeds,
         ReadFails, ReadIsPosted, WriteIsPosted, WriteSucceeds, WriteFails, Strand,
         StopAgain, SendReply, ReadError, HeaderRejected, PayloadWanted, HeaderProcessed,
         PayloadProcessed, Written, WriteError, clientVars, lifeVars, readVars, countVars,
         writeVars
    <3>2. Stop \in Handler /\ Stop.run = "stop" /\ Runs(Stop)
      BY <3>1, Handlers DEF StopFirst
    <3> QED BY <3>2, RunsAndPosts, KindsAre, KindsOf DEF Takes, IInv, TypeOK
  <2> QED BY <1>1, <1>2, <1>3, <1>4, <2>1
<1>5. CASE ~isStopped' /\ strand' = strand
  BY <1>1, <1>2, <1>3, <1>5
<1>6. CASE ~isStopped' /\ Arrives
  <2>1. PICK h \in Handler : Gets(strand, h, strand') /\ (h.run = "stop" => registered)
    BY <1>6 DEF Arrives
  <2>2. queued' <=> queued \/ h.run = "stop"
    BY <2>1, KindsAre, KindsOf DEF Gets
  <2> QED BY <1>1, <1>2, <1>3, <1>6, <2>1, <2>2
<1>7. CASE ~isStopped' /\ Runs1
  <2>1. PICK h \in Handler :
          /\ h.run # "stop" /\ Takes(strand, h, Tail(strand))
          /\ \/ strand' = Tail(strand)
             \/ \E g \in Handler : Gets(Tail(strand), g, strand')
    BY <1>7 DEF Runs1
  <2>2. queued => queued'
    BY <2>1, KindsAre, KindsOf DEF Takes, Gets
  <2>3. phase = "started"
    BY <2>1, KindsAre, KindsOf DEF Takes, IInv, Control, Lifecycle
  <2> QED BY <1>1, <1>2, <1>3, <1>7, <2>2, <2>3
<1> QED BY <1>4, <1>5, <1>6, <1>7, StrandSteps

LEMMA LifeFacts ==
  ASSUME IInv, [Next]_vars
  PROVE  /\ registered' /\ ~registered => phase = "accepted"
         /\ registered /\ ~registered' => Stopping'
         /\ phase = "started" => phase' = "started"
         /\ phase' = "started" => phase \in {"registered", "started"}
<1> USE DEF clientVars, lifeVars, readVars, countVars, writeVars
<1>1. CASE AddSession
  BY <1>1 DEF AddSession
<1>2. CASE Start
  BY <1>2 DEF Start
<1>3. CASE StopAll
  <2>1. registered /\ ~registered' /\ phase' = phase /\ strand' = Append(strand, Stop)
    BY <1>3 DEF StopAll, Told
  <2>2. Has(strand', StopRuns)
    BY <2>1, Handlers, Posted1, KindsAre, KindsOf DEF Gets, IInv, TypeOK
  <2>3. Stopping'
    BY <2>2 DEF Stopping, StopQueued, At, Has, StopRuns
  <2> QED BY <2>1, <2>3
<1>4. CASE StopFirst
  BY <1>4 DEF StopFirst, Deregisters, Stopping
<1>5. CASE ~(AddSession \/ Start \/ StopAll \/ StopFirst)
  <2>1. UNCHANGED <<registered, phase>>
    BY <1>5 DEF Next, vars, sessionVars, StopAllMisses, ContextStops, Client,
       ClientSendsHeader, ClientSendsPayload, ClientLeaves,
       Acceptor, Reactor, ReadSucceeds, ReadFails, ReadIsPosted, WriteIsPosted,
       WriteSucceeds, WriteFails, Strand, StopAgain, SendReply, ReadError, HeaderRejected,
       PayloadWanted, HeaderProcessed, PayloadProcessed, Written, WriteError
  <2> QED BY <2>1
<1> QED BY <1>1, <1>2, <1>3, <1>4, <1>5

(* A session is added once, before it starts or is told to stop; it is not *)
(* dropped untold; and it closes its socket only when it was told.         *)
THEOREM ImplementsSessionLife == Spec => KeepsSessionLife
<1>1. Init => Life!Init
  <2> SUFFICES ASSUME Init PROVE Life!Init
    OBVIOUS
  <2>1. ~Has(strand, StopRuns)
    BY EmptyStrand DEF Init
  <2>2. ~Stopping
    BY <2>1, AtFacts DEF Init
  <2> QED BY <2>2 DEF Init, Life!Init, Only
<1>2. IInv /\ [Next]_vars => [Life!Next]_(Life!vars)
  <2> SUFFICES ASSUME IInv, [Next]_vars PROVE Life!Next
    OBVIOUS
  <2>1. phase = "accepted" => ~Stopping
    BY AtFacts DEF IInv, Control, Lifecycle
  <2>2. phase = "registered" => registered \/ Stopping
    BY AtFacts DEF IInv, Control, Lifecycle
  <2> QED BY <2>1, <2>2, StoppingFacts, LifeFacts DEF Life!Next, Only
<1> QED BY <1>1, <1>2, IInvInvariant, PTL DEF Spec, Life!Spec, KeepsSessionLife

-----------------------------------------------------------------------------
(***************************************************************************)
(* Session implements EchoService.                                         *)
(***************************************************************************)
LEMMA TakeIsPromised ==
  ASSUME IInv, HeaderProcessed \/ PayloadProcessed PROVE Promise!Take
<1>1. /\ Process(Request.header.type, Request.payload)
      /\ processed < Len(sent) /\ WellFormedHeader(Request.header)
      /\ UNCHANGED <<clientVars, lifeVars, writeVars>>
  BY Processed
<1>2. processed \in 0 .. Len(sent) /\ Len(sent) \in Nat
  BY DEF IInv, TypeOK, InPlace
<1>3. ASSUME NEW i \in 1 .. processed + 1 PROVE Promise!WellFormed(sent[i])
  <2>1. i \in 1 .. Len(sent)
    BY <1>1, <1>2
  <2>2. WellFormedHeader(sent[i].header)
    <3>1. i \in 1 .. processed \/ i = processed + 1
      BY <1>2
    <3> QED BY <1>1, <3>1 DEF IInv, InPlace, Request
  <2>3. sent[i].header \in Header
    BY <2>1, SentFacts DEF IInv
  <2>4. sent[i].header.length \in Nat
    BY <2>3 DEF Header
  <2> QED BY <2>2, <2>4, SessionAssumption DEF WellFormedHeader, Promise!WellFormed
<1>4. ReplyTo(Request.header.type, Request.payload) = Promise!Answer(sent[processed + 1])
  BY DEF ReplyTo, Promise!Answer, Request
<1>5. processed' = processed + 1
      /\ promised' = promised \o ReplyTo(Request.header.type, Request.payload)
  BY <1>1 DEF Process
<1>6. UNCHANGED <<sent, written, socketOpen>>
  BY <1>1 DEF clientVars, lifeVars, writeVars
<1> QED BY <1>1, <1>3, <1>4, <1>5, <1>6 DEF Promise!Take

LEMMA WriteIsPromised ==
  ASSUME IInv, WriteSucceeds PROVE Promise!Write
<1>1. /\ writeState = "pending" /\ written' = Append(written, Head(writeQueue))
      /\ UNCHANGED <<sent, processed, promised, socketOpen>>
  BY DEF WriteSucceeds, clientVars, lifeVars, countVars
<1>2. ~isStopped /\ socketOpen
  BY <1>1 DEF IInv, Control, Lifecycle
<1>3. ~FrontWritten /\ writeQueue # <<>> /\ writeQueue \in Seq(Reply)
  BY <1>1, FrontFacts DEF IInv, Control, OneWrite
<1>4. Unwritten = writeQueue
  BY <1>3 DEF Unwritten
<1>5. /\ Len(writeQueue) \in Nat /\ Len(writeQueue) >= 1 /\ Head(writeQueue) = writeQueue[1]
      /\ Len(written) \in Nat /\ Len(promised) \in Nat
  BY <1>3, HeadTailProperties DEF IInv, TypeOK
<1>6. /\ Len(written) + Len(writeQueue) <= Len(promised)
      /\ \A i \in 1 .. Len(writeQueue) : writeQueue[i] = promised[Len(written) + i]
  BY <1>2, <1>4 DEF IInv, InOrder
<1>7. Len(written) < Len(promised) /\ Head(writeQueue) = promised[Len(written) + 1]
  BY <1>5, <1>6
<1> QED BY <1>1, <1>2, <1>7 DEF Promise!Write

(* Requests are taken in order and up to the first that is not well        *)
(* formed; each is answered as its type demands, with its own payload; and *)
(* what is written are these answers, in order and once.                   *)
THEOREM ImplementsEchoService == Spec => AnswersInOrder
<1>1. Init => Promise!Init
  BY DEF Init, Promise!Init
<1>2. IInv /\ [Next]_vars => [Promise!Next]_(Promise!vars)
  <2> SUFFICES ASSUME IInv, [Next]_vars PROVE [Promise!Next]_(Promise!vars)
    OBVIOUS
  <2> USE DEF clientVars, lifeVars, readVars, countVars, writeVars
  <2>1. ASSUME NEW f \in Requests, ClientSendsHeader(f) PROVE Promise!Send(f)
    BY <2>1 DEF ClientSendsHeader, Promise!Send
  <2>2. CASE StopFirst
    <3>1. socketOpen
      BY <2>2 DEF StopFirst, IInv, Control, Lifecycle
    <3>2. Promise!Close
      BY <2>2, <3>1 DEF StopFirst, Promise!Close
    <3> QED BY <3>2 DEF Promise!Next
  <2>3. CASE HeaderProcessed \/ PayloadProcessed \/ WriteSucceeds
    BY <2>3, TakeIsPromised, WriteIsPromised DEF Promise!Next
  <2>4. Aside \/ ClientSendsPayload \/ ClientLeaves \/ Acceptor \/ StopAll
          \/ Reactor \/ WriteFails => UNCHANGED Promise!vars
    BY AsideFacts DEF sessionVars, ClientSendsPayload, ClientLeaves, Acceptor, AddSession,
       Start, StopAll,
       Reactor, ReadSucceeds, ReadFails, ReadIsPosted, WriteIsPosted, WriteFails, Promise!vars
  <2>5. StopAgain \/ HeaderRejected \/ PayloadWanted \/ Written \/ WriteError
          => UNCHANGED Promise!vars
    BY DEF StopAgain, HeaderRejected, PayloadWanted, Written, WriteError, Promise!vars
  <2>6. \A r \in Reply : SendReply(r) => UNCHANGED Promise!vars
    BY DEF SendReply, Promise!vars
  <2>7. \A what \in {"header", "payload"} : ReadError(what) => UNCHANGED Promise!vars
    BY DEF ReadError, Promise!vars
  <2> QED BY <2>1, <2>2, <2>3, <2>4, <2>5, <2>6, <2>7 DEF Next, Aside, Client, Strand, Promise!Next
<1> QED BY <1>1, <1>2, IInvInvariant, PTL DEF Spec, Promise!Spec, AnswersInOrder
=============================================================================
