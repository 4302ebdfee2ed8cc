------------------------ MODULE BenchmarkClientProofs ------------------------
(***************************************************************************)
(* Proofs about the load generator, for every number of clients and        *)
(* requests, every test payload and any number of wrong answers.           *)
(***************************************************************************)
EXTENDS BenchmarkClient, ProtocolProofs, DataLemmas

(***************************************************************************)
(* Packets.  A request and each answer to it have the same length: a       *)
(* header and Chunks times as many bytes.                                  *)
(***************************************************************************)
Chunks == Len(TestPayload) \div HEADER_SIZE
Width  == Chunks + 1
Span   == 8 * Width

GoodAnswer == serializePacket(createEchoResponse(TestPayload))
BadAnswer  == serializePacket([createEchoResponse(TestPayload)
                                 EXCEPT !.header.magic = BadMagic])

LEMMA Lengths ==
  /\ Chunks \in Nat /\ Width \in Nat \ {0} /\ Span \in Nat \ {0}
  /\ Len(TestPayload) = 8 * Chunks /\ Span = 8 + Len(TestPayload)
<1>1. Len(TestPayload) \in Nat /\ Len(TestPayload) % 8 = 0
  BY BenchmarkClientAssumption DEF HEADER_SIZE
<1> DEFINE n == Len(TestPayload)
<1> HIDE DEF n
<1>2. n \in Nat /\ n % 8 = 0
  BY <1>1 DEF n
<1>3. n \div 8 \in Nat /\ n = 8 * (n \div 8)
  BY <1>2
<1> QED BY <1>2, <1>3 DEF Chunks, Width, Span, HEADER_SIZE, n

LEMMA PayloadBytes == TestPayload \in Seq(Byte) /\ IsUInt32(Len(TestPayload))
  BY BenchmarkClientAssumption

(* What a packet with the test payload is made of.                         *)
LEMMA PacketBytes ==
  ASSUME NEW h, IsHeader(h), h.length = Len(TestPayload),
         NEW b, b = serializeHeader(h) \o TestPayload
  PROVE  /\ b \in Seq(Byte) /\ Len(b) = Span
         /\ \A i \in 1 .. Len(TestPayload) : b[8 + i] = TestPayload[i]
         /\ \A i \in 1 .. 8 : b[i] = serializeHeader(h)[i]
<1> DEFINE s == serializeHeader(h)
<1>1. s \in Seq(Byte) /\ Len(s) = 8
  BY HeaderBytes DEF HEADER_SIZE
<1> HIDE DEF s
<1>2. /\ b \in Seq(Byte) /\ Len(b) = Len(s) + Len(TestPayload)
      /\ \A i \in 1 .. Len(s) : b[i] = s[i]
      /\ \A i \in 1 .. Len(TestPayload) : b[i + Len(s)] = TestPayload[i]
  BY <1>1, PayloadBytes, ConcatParts DEF s
<1>3. \A i \in 1 .. Len(TestPayload) : i + 8 = 8 + i
  BY Lengths
<1> QED BY <1>1, <1>2, <1>3, Lengths DEF s

RequestHeader == [magic |-> MAGIC_HEADER, type |-> 3, length |-> Len(TestPayload)]
AnswerHeader(magic) == [magic |-> magic, type |-> 4, length |-> Len(TestPayload)]

LEMMA Packets ==
  /\ IsHeader(RequestHeader) /\ IsHeader(AnswerHeader(MAGIC_HEADER))
  /\ IsHeader(AnswerHeader(BadMagic))
  /\ Request = serializeHeader(RequestHeader) \o TestPayload
  /\ GoodAnswer = serializeHeader(AnswerHeader(MAGIC_HEADER)) \o TestPayload
  /\ BadAnswer = serializeHeader(AnswerHeader(BadMagic)) \o TestPayload
<1>1. MAGIC_HEADER \in UInt16 /\ 3 \in UInt16 /\ 4 \in UInt16
  BY DEF MAGIC_HEADER, UInt16
<1>2. BadMagic \in UInt16
  BY BenchmarkClientAssumption
<1>3. ASSUME NEW m \in UInt16, NEW k \in UInt16
      PROVE  IsHeader([magic |-> m, type |-> k, length |-> Len(TestPayload)])
  BY PayloadBytes DEF IsHeader
<1>4. /\ IsHeader(RequestHeader) /\ IsHeader(AnswerHeader(MAGIC_HEADER))
      /\ IsHeader(AnswerHeader(BadMagic))
  <2>1. IsHeader(RequestHeader)
    BY <1>1, <1>3 DEF RequestHeader
  <2>2. IsHeader(AnswerHeader(MAGIC_HEADER))
    BY <1>1, <1>3 DEF AnswerHeader
  <2>3. IsHeader(AnswerHeader(BadMagic))
    BY <1>1, <1>2, <1>3 DEF AnswerHeader
  <2> QED BY <2>1, <2>2, <2>3
<1>5. Request = serializeHeader(RequestHeader) \o TestPayload
  <2>1. Request = serializePacket([header |-> RequestHeader, payload |-> TestPayload])
    BY DEF Request, Packet, MessageType, RequestHeader
  <2>2. [RequestHeader EXCEPT !.length = Len(TestPayload)] = RequestHeader
    BY DEF RequestHeader
  <2> HIDE DEF RequestHeader
  <2> QED BY <2>1, <2>2 DEF serializePacket
<1>6. createEchoResponse(TestPayload) =
        [header |-> AnswerHeader(MAGIC_HEADER), payload |-> TestPayload]
  BY DEF createEchoResponse, Packet, MessageType, AnswerHeader
<1>7. ASSUME NEW m
      PROVE  serializePacket([header |-> AnswerHeader(m), payload |-> TestPayload])
               = serializeHeader(AnswerHeader(m)) \o TestPayload
  <2>1. [AnswerHeader(m) EXCEPT !.length = Len(TestPayload)] = AnswerHeader(m)
    BY DEF AnswerHeader
  <2> QED BY <2>1 DEF serializePacket
<1>8. [createEchoResponse(TestPayload) EXCEPT !.header.magic = BadMagic] =
        [header |-> AnswerHeader(BadMagic), payload |-> TestPayload]
  BY <1>6 DEF AnswerHeader
<1> QED BY <1>4, <1>5, <1>6, <1>7, <1>8 DEF GoodAnswer, BadAnswer

LEMMA RequestBytes ==
  /\ Request \in Seq(Byte) /\ Len(Request) = Span
  /\ \A i \in 1 .. Len(TestPayload) : Request[8 + i] = TestPayload[i]
  BY Packets, PacketBytes DEF RequestHeader

LEMMA AnswerBytes ==
  ASSUME NEW b \in {GoodAnswer, BadAnswer}
  PROVE  /\ b \in Seq(Byte) /\ Len(b) = Span
         /\ \A i \in 1 .. Len(TestPayload) : b[8 + i] = TestPayload[i]
<1>1. CASE b = GoodAnswer
  BY <1>1, Packets, PacketBytes DEF AnswerHeader
<1>2. CASE b = BadAnswer
  BY <1>2, Packets, PacketBytes DEF AnswerHeader
<1> QED BY <1>1, <1>2
LEMMA FirstBytes ==
  ASSUME NEW q \in Seq(Byte), Len(q) >= 8
  PROVE  /\ SubSeq(q, 1, 8) \in Seq(Byte) /\ Len(SubSeq(q, 1, 8)) = 8
         /\ \A i \in 1 .. 8 : SubSeq(q, 1, 8)[i] = q[i]
<1>1. 1 \in 1 .. Len(q) + 1 /\ 8 \in 1 - 1 .. Len(q)
  BY LenProperties
<1> QED BY <1>1, SubSeqProperties

LEMMA ReadsHeader ==
  ASSUME NEW h, IsHeader(h), NEW out, NEW q \in Seq(Byte), Len(q) >= 8,
         \A i \in 1 .. 8 : q[i] = serializeHeader(h)[i]
  PROVE  deserializeHeader(SubSeq(q, 1, HEADER_SIZE), out)
           = [ok |-> h.magic = MAGIC_HEADER, header |-> h]
<1> DEFINE s == serializeHeader(h)
           r == SubSeq(q, 1, 8)
<1>1. s \in Seq(Byte) /\ Len(s) = 8
  BY HeaderBytes DEF HEADER_SIZE
<1>2. r \in Seq(Byte) /\ Len(r) = 8 /\ \A i \in 1 .. 8 : r[i] = s[i]
  BY FirstBytes
<1> HIDE DEF s, r
<1>3. r = s
  BY <1>1, <1>2, SeqEqual
<1>4. s \o <<>> = s /\ <<>> \in Seq(Byte)
  BY <1>1
<1>5. deserializeHeader(serializeHeader(h) \o <<>>, out)
        = [ok |-> h.magic = MAGIC_HEADER, header |-> h]
  BY <1>4, HeaderSurvives
<1> QED BY <1>3, <1>4, <1>5 DEF s, r, HEADER_SIZE

(* The answers, read as headers: of a packet, and of its payload.          *)
LEMMA ReadsGoodAnswer ==
  ASSUME NEW out, NEW q \in Seq(Byte), Len(q) >= 8,
         \A i \in 1 .. 8 : q[i] = GoodAnswer[i]
  PROVE  deserializeHeader(SubSeq(q, 1, HEADER_SIZE), out)
           = [ok |-> TRUE, header |-> AnswerHeader(MAGIC_HEADER)]
<1> DEFINE h == AnswerHeader(MAGIC_HEADER)
<1>1. IsHeader(h) /\ h.length = Len(TestPayload) /\ h.magic = MAGIC_HEADER
  BY Packets DEF AnswerHeader
<1>2. GoodAnswer = serializeHeader(h) \o TestPayload
  BY Packets
<1> HIDE DEF h
<1>3. \A i \in 1 .. 8 : q[i] = serializeHeader(h)[i]
  <2>1. \A i \in 1 .. 8 : GoodAnswer[i] = serializeHeader(h)[i]
    BY <1>1, <1>2, PacketBytes
  <2> QED BY <2>1
<1>4. deserializeHeader(SubSeq(q, 1, HEADER_SIZE), out)
        = [ok |-> h.magic = MAGIC_HEADER, header |-> h]
  BY <1>1, <1>3, ReadsHeader
<1> QED BY <1>1, <1>4 DEF h

LEMMA ReadsBadAnswer ==
  ASSUME NEW out, NEW q \in Seq(Byte), Len(q) >= 8,
         \A i \in 1 .. 8 : q[i] = BadAnswer[i]
  PROVE  deserializeHeader(SubSeq(q, 1, HEADER_SIZE), out).ok = FALSE
<1> DEFINE h == AnswerHeader(BadMagic)
<1>1. IsHeader(h) /\ h.length = Len(TestPayload) /\ h.magic # MAGIC_HEADER
  BY Packets, BenchmarkClientAssumption DEF AnswerHeader
<1>2. BadAnswer = serializeHeader(h) \o TestPayload
  BY Packets
<1> HIDE DEF h
<1>3. \A i \in 1 .. 8 : q[i] = serializeHeader(h)[i]
  <2>1. \A i \in 1 .. 8 : BadAnswer[i] = serializeHeader(h)[i]
    BY <1>1, <1>2, PacketBytes
  <2> QED BY <2>1
<1>4. deserializeHeader(SubSeq(q, 1, HEADER_SIZE), out)
        = [ok |-> h.magic = MAGIC_HEADER, header |-> h]
  BY <1>1, <1>3, ReadsHeader
<1>5. (h.magic = MAGIC_HEADER) = FALSE
  BY <1>1
<1>6. deserializeHeader(SubSeq(q, 1, HEADER_SIZE), out) = [ok |-> FALSE, header |-> h]
  BY <1>4, <1>5
<1>7. deserializeHeader(SubSeq(q, 1, HEADER_SIZE), out).ok = FALSE
  BY <1>6
<1> QED BY <1>7

LEMMA ChunkStart ==
  ASSUME NEW c \in Nat, NEW u \in 0 .. c - 1
  PROVE  8 * u + 1 \in 1 .. 8 * c /\ (8 * u + 1) % 8 = 1
<1>1. 8 * u + 1 \in 1 .. 8 * c
  OBVIOUS
<1>2. (8 * u + 1) % 8 = 1
  OBVIOUS
<1> QED BY <1>1, <1>2

LEMMA ReadsPayload ==
  ASSUME NEW out, NEW q \in Seq(Byte), Len(q) >= 8, NEW u \in 0 .. Chunks - 1,
         \A i \in 1 .. 8 : q[i] = TestPayload[8 * u + i]
  PROVE  deserializeHeader(SubSeq(q, 1, HEADER_SIZE), out).ok = FALSE
<1> DEFINE r == SubSeq(q, 1, 8)
           m == ntohs(r, 1)
<1>1. Len(r) = 8 /\ r[1] = TestPayload[8 * u + 1] /\ r[2] = TestPayload[8 * u + 2]
  BY FirstBytes
<1>2. m # MAGIC_HEADER
  <2>1. 8 * u + 1 \in 1 .. Len(TestPayload) /\ (8 * u + 1) % 8 = 1
    <3>1. Chunks \in Nat /\ Len(TestPayload) = 8 * Chunks
      BY Lengths
    <3> HIDE DEF r, m
    <3> QED BY <3>1, ChunkStart
  <2>2. ntohs(TestPayload, 8 * u + 1) # MAGIC_HEADER
    BY <2>1, BenchmarkClientAssumption DEF HEADER_SIZE
  <2>3. (8 * u + 1) + 1 = 8 * u + 2 /\ 1 + 1 = 2
    <3> HIDE DEF r, m
    <3>1. u \in Nat
      BY Lengths
    <3> QED BY <3>1
  <2>4. /\ ntohs(TestPayload, 8 * u + 1) = TestPayload[8 * u + 1] * 256 + TestPayload[8 * u + 2]
        /\ m = r[1] * 256 + r[2]
    BY <2>3 DEF ntohs
  <2> HIDE DEF r, m
  <2> QED BY <1>1, <2>2, <2>4
<1> HIDE DEF m
<1>3. (m = MAGIC_HEADER) = FALSE
  BY <1>2
<1> DEFINE h == [magic |-> m, type |-> ntohs(r, 3), length |-> ntohl(r, 5)]
<1>4. deserializeHeader(r, out) = [ok |-> m = MAGIC_HEADER, header |-> h]
  BY <1>1 DEF deserializeHeader, HEADER_SIZE, m
<1> HIDE DEF h
<1>5. deserializeHeader(r, out) = [ok |-> FALSE, header |-> h]
  BY <1>3, <1>4
<1>6. deserializeHeader(r, out).ok = FALSE
  BY <1>5
<1> QED BY <1>6 DEF HEADER_SIZE
-----------------------------------------------------------------------------
(***************************************************************************)
(* Streams.  q carries the packets f[0], f[1], ... from byte number at on. *)
(***************************************************************************)
Carries(q, at, f) ==
  \A i \in 1 .. Len(q), j \in Nat, t \in 0 .. Span - 1 :
    at + i - 1 = Span * j + t => q[i] = f[j][t + 1]

LEMMA NextSpan ==
  ASSUME NEW m \in Nat \ {0}, NEW a \in Nat, NEW b \in Nat, a < b
  PROVE  m * a + m <= m * b
<1> DEFINE d == b - (a + 1)
<1>1. d \in Nat /\ b = a + 1 + d
  OBVIOUS
<1> HIDE DEF d
<1>2. m * b = m * a + m + m * d /\ m * d \in Nat
  BY <1>1
<1> QED BY <1>2

LEMMA SamePlace ==
  ASSUME NEW j \in Nat, NEW k \in Nat, NEW t \in 0 .. Span - 1, NEW r \in 0 .. Span - 1,
         Span * j + t = Span * k + r
  PROVE  j = k /\ t = r
<1>1. ~(j < k) /\ ~(k < j)
  <2>1. Span \in Nat \ {0}
    BY Lengths
  <2>2. Span * j \in Nat /\ Span * k \in Nat
    BY <2>1
  <2> QED BY <2>1, <2>2, NextSpan
<1>2. j = k
  BY <1>1
<1>3. Span * j \in Nat /\ Span * j = Span * k
  BY <1>2, Lengths
<1> QED BY <1>2, <1>3

LEMMA CarriesNothing == ASSUME NEW at, NEW f PROVE Carries(<<>>, at, f)
  BY DEF Carries

(* What follows the first n bytes, and those.                              *)
LEMMA CarriesRest ==
  ASSUME NEW q \in Seq(Byte), NEW at \in Nat, NEW f, Carries(q, at, f), NEW n \in 0 .. Len(q)
  PROVE  LET r == SubSeq(q, n + 1, Len(q))
         IN  r \in Seq(Byte) /\ Len(r) = Len(q) - n /\ Carries(r, at + n, f)
<1> DEFINE r == SubSeq(q, n + 1, Len(q))
<1>1. /\ r \in Seq(Byte) /\ Len(r) = Len(q) - n
      /\ \A i \in 1 .. Len(q) - n : r[i] = q[n + i]
  <2>1. Len(q) \in Nat /\ n + 1 \in 1 .. Len(q) + 1 /\ Len(q) \in (n + 1) - 1 .. Len(q)
    BY LenProperties
  <2>2. /\ r \in Seq(Byte) /\ Len(r) = Len(q) - (n + 1) + 1
        /\ \A i \in 1 .. Len(q) - (n + 1) + 1 : r[i] = q[(n + 1) + i - 1]
    BY <2>1, SubSeqProperties
  <2>3. Len(q) - (n + 1) + 1 = Len(q) - n /\ \A i \in 1 .. Len(q) - n : (n + 1) + i - 1 = n + i
    BY <2>1
  <2> HIDE DEF r
  <2> QED BY <2>2, <2>3
<1> HIDE DEF r
<1>2. ASSUME NEW i \in 1 .. Len(r), NEW j \in Nat, NEW t \in 0 .. Span - 1,
             at + n + i - 1 = Span * j + t
      PROVE  r[i] = f[j][t + 1]
  <2>1. Len(q) \in Nat /\ n + i \in 1 .. Len(q) /\ i \in 1 .. Len(q) - n
    BY <1>1, LenProperties
  <2>2. at + (n + i) - 1 = Span * j + t
    BY <1>2, <2>1
  <2>3. q[n + i] = f[j][t + 1]
    BY <2>1, <2>2 DEF Carries
  <2> QED BY <1>1, <2>1, <2>3
<1>3. Carries(r, at + n, f)
  BY <1>2 DEF Carries
<1> QED BY <1>1, <1>3 DEF r

LEMMA CarriesPrefix ==
  ASSUME NEW q \in Seq(Byte), NEW at \in Nat, NEW f, Carries(q, at, f), NEW n \in 0 .. Len(q)
  PROVE  LET r == SubSeq(q, 1, n)
         IN  r \in Seq(Byte) /\ Len(r) = n /\ Carries(r, at, f)
<1> DEFINE r == SubSeq(q, 1, n)
<1>1. /\ r \in Seq(Byte) /\ Len(r) = n /\ \A i \in 1 .. n : r[i] = q[i]
  <2>1. Len(q) \in Nat /\ 1 \in 1 .. Len(q) + 1 /\ n \in 1 - 1 .. Len(q)
    BY LenProperties
  <2>2. /\ r \in Seq(Byte) /\ Len(r) = n - 1 + 1
        /\ \A i \in 1 .. n - 1 + 1 : r[i] = q[1 + i - 1]
    BY <2>1, SubSeqProperties
  <2> HIDE DEF r
  <2> QED BY <2>2
<1> HIDE DEF r
<1>2. \A i \in 1 .. n : i \in 1 .. Len(q)
  BY LenProperties
<1>3. Carries(r, at, f)
  BY <1>1, <1>2 DEF Carries
<1> QED BY <1>1, <1>3 DEF r

(* What follows byte number u of packet number p.                         *)
Place(at, p, u) == p \in Nat /\ u \in 0 .. Span - 1 /\ at = Span * p + u

LEMMA OnePlace ==
  ASSUME NEW at, NEW p, NEW u, NEW q, NEW v, Place(at, p, u), Place(at, q, v)
  PROVE  p = q /\ u = v
  BY SamePlace DEF Place

LEMMA CarriesBytes ==
  ASSUME NEW q \in Seq(Byte), NEW at, NEW f, Carries(q, at, f),
         NEW p, NEW u, Place(at, p, u), NEW i \in 1 .. Len(q), u + i <= Span
  PROVE  q[i] = f[p][u + i]
<1> DEFINE t == u + i - 1
<1>1. i \in 1 .. Len(q) /\ t \in 0 .. Span - 1 /\ t + 1 = u + i
  BY Lengths, LenProperties DEF Place
<1>2. Span * p \in Nat /\ p \in Nat
  BY Lengths DEF Place
<1>3. at + i - 1 = Span * p + t
  BY <1>2 DEF Place
<1> HIDE DEF t
<1>4. q[i] = f[p][t + 1]
  BY <1>1, <1>2, <1>3 DEF Carries
<1> QED BY <1>1, <1>4

(* One more packet, after n of them.                                       *)
LEMMA CarriesMore ==
  ASSUME NEW q \in Seq(Byte), NEW at \in Nat, NEW f, Carries(q, at, f),
         NEW n \in Nat, at + Len(q) = Span * n,
         NEW b \in Seq(Byte), Len(b) = Span,
         NEW g, \A j \in 0 .. n - 1 : g[j] = f[j], g[n] = b
  PROVE  q \o b \in Seq(Byte) /\ Len(q \o b) = Len(q) + Span /\ Carries(q \o b, at, g)
<1> DEFINE r == q \o b
<1>1. /\ r \in Seq(Byte) /\ Len(r) = Len(q) + Len(b)
      /\ \A i \in 1 .. Len(q) : r[i] = q[i]
      /\ \A i \in 1 .. Len(b) : r[i + Len(q)] = b[i]
  BY ConcatParts
<1>2. Len(q) \in Nat /\ Span \in Nat \ {0} /\ Span * n \in Nat
  BY LenProperties, Lengths
<1> HIDE DEF r
<1>3. ASSUME NEW i \in 1 .. Len(r), NEW j \in Nat, NEW t \in 0 .. Span - 1,
             at + i - 1 = Span * j + t
      PROVE  r[i] = g[j][t + 1]
  <2>1. Span * j \in Nat
    BY <1>2
  <2>2. CASE i <= Len(q)
    <3>1. Span * j < Span * n
      <4> DEFINE a == Span * j
                 c == Span * n
                 l == Len(q)
      <4>1. a \in Nat /\ c \in Nat /\ l \in Nat /\ at + i - 1 = a + t /\ at + l = c /\ i <= l
        BY <1>2, <1>3, <2>1, <2>2
      <4> HIDE DEF a, c, l
      <4>2. a < c
        BY <1>3, <4>1
      <4> QED BY <4>2 DEF a, c
    <3>2. j < n
      <4> SUFFICES ASSUME n < j \/ n = j PROVE FALSE
        OBVIOUS
      <4>1. Span * n <= Span * j
        BY <1>2, NextSpan
      <4> QED BY <1>2, <2>1, <3>1, <4>1
    <3>3. i \in 1 .. Len(q) /\ j \in 0 .. n - 1
      BY <1>2, <2>2, <3>2
    <3>4. q[i] = f[j][t + 1]
      BY <1>3, <3>3 DEF Carries
    <3> QED BY <1>1, <3>3, <3>4
  <2>3. CASE i > Len(q)
    <3> DEFINE k == i - Len(q)
    <3>1. k \in 1 .. Span /\ i = k + Len(q) /\ k - 1 \in 0 .. Span - 1
      <4> DEFINE l == Len(q)
      <4>1. l \in Nat /\ i \in 1 .. l + Span /\ i > l
        BY <1>1, <1>2, <1>3, <2>3
      <4> HIDE DEF l
      <4>2. i - l \in 1 .. Span /\ i = (i - l) + l /\ (i - l) - 1 \in 0 .. Span - 1
        BY <1>2, <4>1
      <4> QED BY <4>2 DEF l
    <3> HIDE DEF k
    <3>2. Span * j + t = Span * n + (k - 1)
      <4> DEFINE a == Span * j
                 c == Span * n
      <4>1. a \in Nat /\ c \in Nat /\ at + i - 1 = a + t /\ at + Len(q) = c
        BY <1>2, <1>3, <2>1
      <4> HIDE DEF a, c
      <4>2. a + t = c + (k - 1)
        BY <1>2, <3>1, <4>1
      <4> QED BY <4>2 DEF a, c
    <3>3. j = n /\ t = k - 1
      <4> DEFINE u == k - 1
      <4>1. u \in 0 .. Span - 1 /\ Span * j + t = Span * n + u
        BY <3>1, <3>2
      <4> HIDE DEF u
      <4>2. j = n /\ t = u
        <5>1. Place(Span * j + t, j, t) /\ Place(Span * j + t, n, u)
          BY <1>3, <4>1 DEF Place
        <5> QED BY <5>1, OnePlace
      <4> QED BY <4>2 DEF u
    <3>4. r[i] = b[k] /\ t + 1 = k
      BY <1>1, <3>1, <3>3
    <3> QED BY <3>3, <3>4
  <2> QED BY <1>2, <2>2, <2>3
<1>4. Carries(r, at, g)
  BY <1>3 DEF Carries
<1> QED BY <1>1, <1>4 DEF r

(* Packets that are all the same may be counted from any one.              *)
LEMMA CarriesSame ==
  ASSUME NEW q \in Seq(Byte), NEW b, NEW f, f = [j \in Nat |-> b], Carries(q, Span, f)
  PROVE  Carries(q, 0, f)
<1>1. ASSUME NEW i \in 1 .. Len(q), NEW j \in Nat, NEW t \in 0 .. Span - 1,
             0 + i - 1 = Span * j + t
      PROVE  q[i] = f[j][t + 1]
  <2>1. Span * (j + 1) = Span * j + Span /\ Span * j \in Nat
    BY Lengths
  <2>2. Span + i - 1 = Span * (j + 1) + t
    BY <1>1, <2>1, Lengths, LenProperties
  <2>3. q[i] = f[j + 1][t + 1]
    BY <2>2 DEF Carries
  <2> QED BY <2>3
<1> QED BY <1>1 DEF Carries
-----------------------------------------------------------------------------
(***************************************************************************)
(* The inductive invariant.                                                *)
(*                                                                         *)
(* Where a thread is determines the state of its socket and how far it     *)
(* is in its loop.                                                         *)
(***************************************************************************)
Life(c) ==
  /\ pc[c] \in {"not started", "connect"} <=> link[c] = "none"
  /\ pc[c] \in {"write", "header", "payload", "goodbye"} <=> link[c] \in {"up", "broken"}
  /\ done[c] = threadLatencies[c] + rejected[c]
  /\ pc[c] \in {"write", "header", "payload"} => done[c] < Requests
  /\ pc[c] \in {"goodbye", "merge", "ended"} => done[c] = Requests
  /\ link[c] = "none" => done[c] = 0 /\ sentBad[c] = 0
  /\ link[c] \in {"none", "closed"} => toServer[c] = <<>> /\ toClient[c] = <<>>
  /\ payloadBuf[c] \in {<<>>, TestPayload}

(* How many requests the thread has written.                               *)
Written(c) == done[c] + (IF pc[c] \in {"header", "payload"} THEN 1 ELSE 0)

(* cnt[j]: how many of the answers before number j are wrong.              *)
Answered(cnt) == [j \in Nat |-> IF cnt[j + 1] = cnt[j] THEN GoodAnswer ELSE BadAnswer]
Counts(cnt, n, bad) ==
  /\ cnt[n] = bad /\ \A j \in 0 .. n : cnt[j] <= bad
  /\ \A j \in 0 .. n - 1 : cnt[j + 1] \in {cnt[j], cnt[j] + 1}

(* The thread has measured lat latencies and rejected rej headers, that is, *)
(* it has read p of the n answers and s pieces of the next.  It rejects    *)
(* all the pieces of a wrong answer and nothing else.                      *)
Wide(x) == Width * x
Pieces(lat, rej, pay) == Wide(lat) + rej + (IF pay THEN 1 ELSE 0)
Track(lat, rej, pay, bad, n, p, s, cnt) ==
  /\ Counts(cnt, n, bad)
  /\ p <= n
  /\ Pieces(lat, rej, pay) = Wide(p) + s
  /\ rej = Wide(cnt[p]) + (IF pay THEN 0 ELSE s)
  /\ (s # 0 => p < n)
  /\ (s # 0 => ((cnt[p + 1] = cnt[p]) <=> pay))
  /\ (pay => s = 1)

(* The bytes in r are k requests and those in q the rest of n answers, as  *)
(* much of it as the connection has left.                                  *)
Wire(q, at, r, up, n, k, cnt) ==
  /\ Carries(q, at, Answered(cnt))
  /\ at + Len(q) <= Span * n
  /\ Carries(r, 0, [j \in Nat |-> Request])
  /\ (up => at + Len(q) = Span * n)
  /\ (up => Len(r) = Span * k)

InStream(c, k, n, p, s, cnt) ==
  /\ Track(threadLatencies[c], rejected[c], pc[c] = "payload", sentBad[c], n, p, s, cnt)
  /\ Wire(toClient[c], 8 * Pieces(threadLatencies[c], rejected[c], pc[c] = "payload"),
          toServer[c], link[c] = "up", n, k, cnt)
  /\ (pc[c] = "payload" => respLength[c] = Len(TestPayload))
  /\ (link[c] = "up" => n + k = Written(c))

Streams(c) ==
  link[c] \in {"up", "broken"} =>
    \E k, n, p \in Nat, s \in 0 .. Chunks, cnt \in [Nat -> Nat] :
      InStream(c, k, n, p, s, cnt)

(* No more is rejected than the wrong answers are long.                    *)
Bounded(c) == rejected[c] <= Wide(sentBad[c])

ClientOK(c) == Life(c) /\ Streams(c) /\ Bounded(c)

(* A step of another client.                                               *)
Same(c) ==
  /\ pc'[c] = pc[c] /\ link'[c] = link[c] /\ done'[c] = done[c]
  /\ toServer'[c] = toServer[c] /\ toClient'[c] = toClient[c]
  /\ respLength'[c] = respLength[c] /\ payloadBuf'[c] = payloadBuf[c]
  /\ threadLatencies'[c] = threadLatencies[c] /\ rejected'[c] = rejected[c]
  /\ sentBad'[c] = sentBad[c]

LEMMA SameClient == ASSUME NEW c, Same(c), ClientOK(c) PROVE ClientOK(c)'
<1>1. Life(c)' /\ Bounded(c)'
  BY DEF Same, ClientOK, Life, Bounded
<1>2. Written(c)' = Written(c)
  BY DEF Same, Written
<1>3. ASSUME NEW k, NEW n, NEW p, NEW s, NEW cnt, InStream(c, k, n, p, s, cnt)
      PROVE  InStream(c, k, n, p, s, cnt)'
  BY <1>2, <1>3 DEF Same, InStream
<1>4. ASSUME link'[c] \in {"up", "broken"}
      PROVE  \E k, n, p \in Nat, s \in 0 .. Chunks, cnt \in [Nat -> Nat] :
               InStream(c, k, n, p, s, cnt)'
  <2>1. PICK k \in Nat, n \in Nat, p \in Nat, s \in 0 .. Chunks, cnt \in [Nat -> Nat] :
               InStream(c, k, n, p, s, cnt)
    BY <1>4 DEF Same, ClientOK, Streams
  <2>2. InStream(c, k, n, p, s, cnt)'
    BY <1>3, <2>1
  <2> QED BY <2>2
<1>5. Streams(c)'
  BY <1>4 DEF Streams, Chunks
<1> QED BY <1>1, <1>5 DEF ClientOK

LEMMA PieceOf ==
  ASSUME NEW m \in Nat, NEW u \in Nat, u <= m - 1, NEW i \in 1 .. 8
  PROVE  8 * u + i \in 1 .. 8 * m
  OBVIOUS

(* What a thread finds that has read p answers and s pieces of the next,   *)
(* and takes what follows for a header.                                    *)
Ahead(q, at, n, p, s) ==
  at = 8 * (Width * p + s) /\ Len(q) >= 8 /\ at + Len(q) <= Span * n

Piece(q, b, u) == \A i \in 1 .. 8 : q[i] = b[8 * u + i]

LEMMA FoundAhead ==
  ASSUME NEW q \in Seq(Byte),
         NEW n \in Nat, NEW p \in Nat, NEW s \in 0 .. Chunks,
         NEW at, Ahead(q, at, n, p, s),
         NEW cnt, Carries(q, at, Answered(cnt))
  PROVE  p < n /\ Piece(q, Answered(cnt)[p], s)
<1>0. at = 8 * (Width * p + s) /\ Len(q) >= 8 /\ at + Len(q) <= Span * n
  BY DEF Ahead
<1>1. /\ Chunks \in Nat /\ Width = Chunks + 1 /\ Span = 8 * Width
      /\ s \in Nat /\ s <= Chunks /\ Len(q) \in Nat
  BY Lengths, LenProperties DEF Span, Width
<1>2. /\ Span * p = 8 * (Width * p) /\ Width * p \in Nat
      /\ Span * p \in Nat /\ Span * n \in Nat /\ Span \in Nat \ {0}
  BY <1>1
<1>3. /\ at \in Nat /\ at = Span * p + 8 * s
      /\ 8 * s \in 0 .. Span - 1 /\ 8 * s + 8 <= Span
  <2> DEFINE a == Span * p
             w == Width * p
  <2>1. a = 8 * w /\ w \in Nat /\ at = 8 * (w + s)
    BY <1>0, <1>2
  <2> HIDE DEF a, w
  <2>2. at \in Nat /\ at = a + 8 * s
    BY <1>1, <2>1
  <2>3. 8 * s \in 0 .. Span - 1 /\ 8 * s + 8 <= Span
    BY <1>1
  <2> QED BY <2>2, <2>3 DEF a
<1>4. p < n
  <2> DEFINE a == Span * p
             e == Span * n
  <2>1. a \in Nat /\ e \in Nat /\ at = a + 8 * s /\ at + Len(q) <= e
    BY <1>0, <1>2, <1>3
  <2>2. (n = p => e = a) /\ (n < p => e + Span <= a)
    BY <1>2, NextSpan
  <2> HIDE DEF a, e
  <2> QED BY <1>0, <1>1, <1>2, <2>1, <2>2
<1>5. Place(at, p, 8 * s)
  BY <1>3 DEF Place
<1>6. ASSUME NEW i \in 1 .. 8
      PROVE  q[i] = Answered(cnt)[p][8 * s + i]
  <2>1. i \in 1 .. Len(q) /\ 8 * s + i <= Span
    BY <1>0, <1>1, <1>3
  <2> DEFINE u == 8 * s
             f == Answered(cnt)
  <2>2. Place(at, p, u) /\ u + i <= Span /\ Carries(q, at, f)
    BY <1>5, <2>1
  <2> HIDE DEF u, f
  <2>3. q[i] = f[p][u + i]
    BY <2>1, <2>2, CarriesBytes
  <2> QED BY <2>3 DEF u, f
<1> QED BY <1>4, <1>6 DEF Piece

(* It is the header of a good answer, or something to be rejected.         *)
Heads(q, out) == deserializeHeader(SubSeq(q, 1, HEADER_SIZE), out)
Refused(q, out) == Heads(q, out).ok = FALSE
Wrong(cnt, p) == cnt[p + 1] # cnt[p]

LEMMA HeaderAhead ==
  ASSUME NEW q \in Seq(Byte),
         NEW n \in Nat, NEW p \in Nat, NEW s \in 0 .. Chunks,
         NEW at, Ahead(q, at, n, p, s),
         NEW cnt, Carries(q, at, Answered(cnt)), NEW out,
         s # 0 => Wrong(cnt, p)
  PROVE  /\ p < n
         /\ ~Wrong(cnt, p) =>
              Heads(q, out) = [ok |-> TRUE, header |-> AnswerHeader(MAGIC_HEADER)]
         /\ Wrong(cnt, p) => Refused(q, out)
<1> DEFINE b == Answered(cnt)[p]
<1>1. p < n /\ \A i \in 1 .. 8 : q[i] = b[8 * s + i]
  <2>1. p < n /\ Piece(q, b, s)
    BY FoundAhead
  <2> HIDE DEF b
  <2> QED BY <2>1 DEF Piece
<1>2. b = (IF cnt[p + 1] = cnt[p] THEN GoodAnswer ELSE BadAnswer) /\ Len(q) >= 8
  BY DEF Answered, Ahead
<1> HIDE DEF b
<1>3. CASE s = 0
  <2>1. \A i \in 1 .. 8 : q[i] = b[i]
    <3>1. \A i \in 1 .. 8 : 8 * s + i = i
      BY <1>3
    <3> QED BY <1>1, <3>1
  <2>2. CASE cnt[p + 1] = cnt[p]
    BY <1>1, <1>2, <2>1, <2>2, ReadsGoodAnswer DEF Heads, Wrong
  <2>3. CASE cnt[p + 1] # cnt[p]
    BY <1>1, <1>2, <2>1, <2>3, ReadsBadAnswer DEF Heads, Wrong, Refused
  <2> QED BY <2>2, <2>3
<1>4. CASE s # 0
  <2> DEFINE u == s - 1
  <2>1. u \in 0 .. Chunks - 1 /\ 8 * s = 8 + 8 * u /\ u \in Nat /\ u <= Chunks - 1
    BY <1>4, Lengths
  <2>2. b \in {GoodAnswer, BadAnswer}
    BY <1>2
  <2>3. \A i \in 1 .. Len(TestPayload) : b[8 + i] = TestPayload[i]
    BY <2>2, AnswerBytes
  <2> HIDE DEF u
  <2>4. \A i \in 1 .. 8 : q[i] = TestPayload[8 * u + i]
    <3> TAKE i \in 1 .. 8
    <3>1. 8 * u + i \in 1 .. 8 * Chunks
      BY <2>1, Lengths, PieceOf
    <3>2. 8 * s + i = 8 + (8 * u + i)
      BY <2>1
    <3> QED BY <1>1, <2>3, <3>1, <3>2, Lengths
  <2>5. deserializeHeader(SubSeq(q, 1, HEADER_SIZE), out).ok = FALSE
    BY <1>2, <2>1, <2>4, ReadsPayload
  <2> QED BY <1>1, <1>4, <2>5 DEF Heads, Refused
<1> QED BY <1>3, <1>4
-----------------------------------------------------------------------------
(***************************************************************************)
(* The steps of the count.                                                 *)
(***************************************************************************)
LEMMA Widths == Chunks \in Nat /\ Width \in Nat \ {0} /\ Width = Chunks + 1
  BY Lengths DEF Width

LEMMA WideAt == ASSUME NEW a \in Nat PROVE Wide(a) \in Nat /\ Wide(a + 1) = Wide(a) + Width
  BY Lengths DEF Wide

LEMMA WideOrder ==
  ASSUME NEW a \in Nat, NEW b \in Nat
  PROVE  /\ a <= b => Wide(a) <= Wide(b)
         /\ a < b => Wide(a) + Width <= Wide(b)
<1>1. a < b => Wide(a) + Width <= Wide(b)
  BY Lengths, NextSpan DEF Wide
<1>2. Width \in Nat /\ Wide(a) \in Nat /\ Wide(b) \in Nat
  BY Lengths, WideAt
<1>3. a = b => Wide(a) = Wide(b)
  OBVIOUS
<1> QED BY <1>1, <1>2, <1>3

(* The types of what Track counts.                                         *)
Kept(lat, rej, bad, n, p, s, cnt) ==
  /\ lat \in Nat /\ rej \in Nat /\ bad \in Nat /\ n \in Nat /\ p \in Nat
  /\ s \in 0 .. Chunks /\ cnt \in [Nat -> Nat]

LEMMA KeptAll ==
  ASSUME NEW lat, NEW rej, NEW pay, NEW bad, NEW n, NEW p, NEW s, NEW cnt,
         Kept(lat, rej, bad, n, p, s, cnt), Track(lat, rej, pay, bad, n, p, s, cnt)
  PROVE  /\ lat \in Nat /\ rej \in Nat /\ bad \in Nat /\ n \in Nat /\ p \in Nat /\ p \in 0 .. n
         /\ s \in Nat /\ s <= Chunks /\ cnt \in [Nat -> Nat] /\ Counts(cnt, n, bad)
         /\ Chunks \in Nat /\ Width \in Nat /\ Width = Chunks + 1
<1>1. p <= n /\ Counts(cnt, n, bad)
  BY DEF Track
<1> QED BY <1>1, Widths DEF Kept

LEMMA CountsAt ==
  ASSUME NEW n \in Nat, NEW cnt \in [Nat -> Nat], NEW bad \in Nat, Counts(cnt, n, bad),
         NEW p \in 0 .. n
  PROVE  /\ cnt[p] \in Nat /\ cnt[p] <= bad
         /\ p < n => /\ cnt[p + 1] \in Nat /\ cnt[p + 1] <= bad
                     /\ cnt[p + 1] \in {cnt[p], cnt[p] + 1}
<1>1. cnt[p] \in Nat /\ cnt[p] <= bad
  BY DEF Counts
<1>2. ASSUME p < n
      PROVE  /\ cnt[p + 1] \in Nat /\ cnt[p + 1] <= bad
             /\ cnt[p + 1] \in {cnt[p], cnt[p] + 1}
  <2>1. p + 1 \in 0 .. n /\ p \in 0 .. n - 1 /\ p + 1 \in Nat
    BY <1>2
  <2> QED BY <2>1 DEF Counts
<1> QED BY <1>1, <1>2

LEMMA TrackBounds ==
  ASSUME NEW lat, NEW rej, NEW pay \in BOOLEAN, NEW bad, NEW n, NEW p, NEW s, NEW cnt,
         Kept(lat, rej, bad, n, p, s, cnt), Track(lat, rej, pay, bad, n, p, s, cnt)
  PROVE  rej <= Wide(bad)
<1>1. /\ rej \in Nat /\ bad \in Nat /\ n \in Nat /\ p \in 0 .. n /\ s \in Nat /\ s <= Chunks
      /\ cnt \in [Nat -> Nat] /\ Counts(cnt, n, bad) /\ Chunks \in Nat
      /\ Width = Chunks + 1
  BY KeptAll
<1>2. /\ cnt[p] \in Nat /\ cnt[p] <= bad
      /\ p < n => (cnt[p + 1] \in {cnt[p], cnt[p] + 1} /\ cnt[p + 1] <= bad)
  BY <1>1, CountsAt
<1>3. Wide(cnt[p]) <= Wide(bad) /\ Wide(cnt[p]) \in Nat /\ Wide(bad) \in Nat
  BY <1>1, <1>2, WideOrder, WideAt
<1> DEFINE a == Wide(cnt[p])
           m == Wide(bad)
<1>4. CASE pay \/ s = 0
  <2>1. rej = a
    BY <1>1, <1>3, <1>4 DEF Track
  <2> QED BY <1>3, <2>1
<1>5. CASE ~pay /\ s # 0
  <2>1. p < n /\ cnt[p + 1] # cnt[p] /\ rej = a + s
    BY <1>5 DEF Track
  <2>2. cnt[p] < bad
    BY <1>1, <1>2, <2>1
  <2>3. a + Width <= m
    BY <1>1, <1>2, <2>2, WideOrder
  <2>4. a \in Nat /\ m \in Nat
    BY <1>3
  <2> HIDE DEF a, m
  <2>5. rej <= m
    BY <1>1, <2>1, <2>3, <2>4
  <2> QED BY <2>5 DEF m
<1> QED BY <1>4, <1>5

(* The first eight bytes of an answer: its header.                         *)
LEMMA TrackHeader ==
  ASSUME NEW lat, NEW rej, NEW bad, NEW n, NEW p, NEW cnt,
         Kept(lat, rej, bad, n, p, 0, cnt), Track(lat, rej, FALSE, bad, n, p, 0, cnt),
         p < n, cnt[p + 1] = cnt[p]
  PROVE  /\ Chunks # 0 => /\ Kept(lat, rej, bad, n, p, 1, cnt)
                          /\ Track(lat, rej, TRUE, bad, n, p, 1, cnt)
                          /\ Pieces(lat, rej, TRUE) = Pieces(lat, rej, FALSE) + 1
         /\ Chunks = 0 => /\ Kept(lat + 1, rej, bad, n, p + 1, 0, cnt)
                          /\ Track(lat + 1, rej, FALSE, bad, n, p + 1, 0, cnt)
                          /\ Pieces(lat + 1, rej, FALSE) = Pieces(lat, rej, FALSE) + 1
<1>1. /\ lat \in Nat /\ rej \in Nat /\ bad \in Nat /\ n \in Nat /\ p \in Nat
      /\ cnt \in [Nat -> Nat] /\ Chunks \in Nat /\ Width = Chunks + 1
  BY KeptAll
<1>2. /\ Counts(cnt, n, bad) /\ Wide(lat) + rej = Wide(p) /\ rej = Wide(cnt[p])
      /\ Wide(lat) \in Nat /\ Wide(p) \in Nat
  BY <1>1, WideAt DEF Track, Pieces
<1>3. ASSUME Chunks # 0
      PROVE  /\ Kept(lat, rej, bad, n, p, 1, cnt)
             /\ Track(lat, rej, TRUE, bad, n, p, 1, cnt)
             /\ Pieces(lat, rej, TRUE) = Pieces(lat, rej, FALSE) + 1
  <2>1. Kept(lat, rej, bad, n, p, 1, cnt)
    BY <1>1, <1>3 DEF Kept
  <2>2. Pieces(lat, rej, TRUE) = Wide(p) + 1 /\ Pieces(lat, rej, FALSE) = Wide(p)
    BY <1>1, <1>2 DEF Pieces
  <2>3. rej = Wide(cnt[p]) + 0
    BY <1>1, <1>2
  <2>4. Track(lat, rej, TRUE, bad, n, p, 1, cnt)
    BY <1>1, <1>2, <2>2, <2>3 DEF Track
  <2> QED BY <1>2, <2>1, <2>2, <2>4
<1>4. ASSUME Chunks = 0
      PROVE  /\ Kept(lat + 1, rej, bad, n, p + 1, 0, cnt)
             /\ Track(lat + 1, rej, FALSE, bad, n, p + 1, 0, cnt)
             /\ Pieces(lat + 1, rej, FALSE) = Pieces(lat, rej, FALSE) + 1
  <2>1. Kept(lat + 1, rej, bad, n, p + 1, 0, cnt)
    BY <1>1, <1>4 DEF Kept
  <2>2. /\ Wide(lat + 1) = Wide(lat) + 1 /\ Wide(p + 1) = Wide(p) + 1
    BY <1>1, <1>4, WideAt
  <2>3. /\ Pieces(lat + 1, rej, FALSE) = Wide(lat) + 1 + rej + 0
        /\ Pieces(lat, rej, FALSE) = Wide(lat) + rej + 0
    BY <2>2 DEF Pieces
  <2>4. /\ Pieces(lat + 1, rej, FALSE) = Wide(p + 1) + 0
        /\ Pieces(lat + 1, rej, FALSE) = Pieces(lat, rej, FALSE) + 1
    <3> DEFINE a == Wide(lat)
               b == Wide(p)
               v == Pieces(lat, rej, FALSE)
               w == Pieces(lat + 1, rej, FALSE)
    <3>1. /\ a \in Nat /\ b \in Nat /\ a + rej = b /\ w = a + 1 + rej + 0 /\ v = a + rej + 0
          /\ Wide(p + 1) = b + 1 /\ rej \in Nat
      BY <1>1, <1>2, <2>2, <2>3
    <3> HIDE DEF a, b, v, w
    <3>2. w = (b + 1) + 0 /\ w = v + 1
      BY <3>1
    <3> QED BY <3>1, <3>2 DEF v, w
  <2>5. rej = Wide(cnt[p + 1]) + 0 /\ p + 1 <= n
    BY <1>1, <1>2
  <2>6. Track(lat + 1, rej, FALSE, bad, n, p + 1, 0, cnt)
    BY <1>2, <2>4, <2>5 DEF Track
  <2> QED BY <2>1, <2>4, <2>6
<1> QED BY <1>3, <1>4

(* Its payload, taken in one piece.                                        *)
LEMMA TrackPayload ==
  ASSUME NEW lat, NEW rej, NEW bad, NEW n, NEW p, NEW s, NEW cnt,
         Kept(lat, rej, bad, n, p, s, cnt), Track(lat, rej, TRUE, bad, n, p, s, cnt)
  PROVE  /\ p < n /\ s = 1 /\ cnt[p + 1] = cnt[p]
         /\ Pieces(lat, rej, TRUE) = Wide(p) + 1
         /\ Kept(lat + 1, rej, bad, n, p + 1, 0, cnt)
         /\ Track(lat + 1, rej, FALSE, bad, n, p + 1, 0, cnt)
         /\ Pieces(lat + 1, rej, FALSE) = Pieces(lat, rej, TRUE) + Chunks
<1>1. /\ lat \in Nat /\ rej \in Nat /\ bad \in Nat /\ n \in Nat /\ p \in Nat
      /\ cnt \in [Nat -> Nat] /\ Chunks \in Nat /\ Width = Chunks + 1
  BY KeptAll
<1>2. s = 1 /\ p < n /\ cnt[p + 1] = cnt[p]
  BY DEF Track
<1>3. /\ Counts(cnt, n, bad) /\ Pieces(lat, rej, TRUE) = Wide(p) + 1
      /\ Wide(lat) + rej + 1 = Wide(p) + 1 /\ rej = Wide(cnt[p])
      /\ Wide(lat) \in Nat /\ Wide(p) \in Nat
  BY <1>1, <1>2, WideAt DEF Track, Pieces
<1>4. /\ Wide(lat + 1) = Wide(lat) + Width /\ Wide(p + 1) = Wide(p) + Width
  BY <1>1, WideAt
<1>5. Kept(lat + 1, rej, bad, n, p + 1, 0, cnt)
  BY <1>1 DEF Kept
<1>6. Pieces(lat + 1, rej, FALSE) = Wide(lat) + Width + rej + 0
  BY <1>4 DEF Pieces
<1>7. /\ Pieces(lat + 1, rej, FALSE) = Wide(p + 1) + 0
      /\ Pieces(lat + 1, rej, FALSE) = Pieces(lat, rej, TRUE) + Chunks
  <2> DEFINE a == Wide(lat)
             b == Wide(p)
             v == Pieces(lat, rej, TRUE)
             w == Pieces(lat + 1, rej, FALSE)
  <2>1. /\ a \in Nat /\ b \in Nat /\ rej \in Nat /\ a + rej + 1 = b + 1
        /\ w = a + Width + rej + 0 /\ v = b + 1
        /\ Wide(p + 1) = b + Width
    BY <1>1, <1>3, <1>4, <1>6
  <2> HIDE DEF a, b, v, w
  <2>2. w = (b + Width) + 0 /\ w = v + Chunks
    BY <1>1, <2>1
  <2> QED BY <2>1, <2>2 DEF v, w
<1>8. rej = Wide(cnt[p + 1]) + 0 /\ p + 1 <= n
  BY <1>1, <1>2, <1>3
<1>9. Track(lat + 1, rej, FALSE, bad, n, p + 1, 0, cnt)
  BY <1>3, <1>7, <1>8 DEF Track
<1> QED BY <1>2, <1>3, <1>5, <1>7, <1>9

(* A piece of a wrong answer, rejected.                                    *)
LEMMA TrackRejects ==
  ASSUME NEW lat, NEW rej, NEW bad, NEW n, NEW p, NEW s, NEW cnt,
         Kept(lat, rej, bad, n, p, s, cnt), Track(lat, rej, FALSE, bad, n, p, s, cnt),
         p < n, Wrong(cnt, p)
  PROVE  /\ Pieces(lat, rej + 1, FALSE) = Pieces(lat, rej, FALSE) + 1
         /\ \E p1 \in Nat, s1 \in 0 .. Chunks :
              /\ Kept(lat, rej + 1, bad, n, p1, s1, cnt)
              /\ Track(lat, rej + 1, FALSE, bad, n, p1, s1, cnt)
<1>1. /\ lat \in Nat /\ rej \in Nat /\ bad \in Nat /\ n \in Nat /\ p \in Nat /\ p \in 0 .. n
      /\ s \in Nat /\ s <= Chunks /\ cnt \in [Nat -> Nat] /\ Chunks \in Nat /\ Width = Chunks + 1
  BY KeptAll
<1>2. /\ Counts(cnt, n, bad) /\ Wide(lat) + rej = Wide(p) + s
      /\ rej = Wide(cnt[p]) + s
      /\ Wide(lat) \in Nat /\ Wide(p) \in Nat
  BY <1>1, WideAt DEF Track, Pieces
<1>3. cnt[p] \in Nat /\ cnt[p + 1] = cnt[p] + 1 /\ Wide(cnt[p]) \in Nat
  <2>1. cnt[p] \in Nat /\ cnt[p + 1] \in {cnt[p], cnt[p] + 1}
    BY <1>1, <1>2, CountsAt
  <2>2. cnt[p + 1] = cnt[p] + 1
    BY <2>1 DEF Wrong
  <2>3. Wide(cnt[p]) \in Nat
    BY <2>1, WideAt
  <2> QED BY <2>1, <2>2, <2>3
<1>4. /\ Pieces(lat, rej, FALSE) = Wide(p) + s
      /\ Pieces(lat, rej + 1, FALSE) = Wide(p) + s + 1
  BY <1>1, <1>2 DEF Pieces
<1>5. CASE s < Chunks
  <2>1. s + 1 \in 0 .. Chunks /\ Kept(lat, rej + 1, bad, n, p, s + 1, cnt)
    BY <1>1, <1>5 DEF Kept
  <2>2. /\ Pieces(lat, rej + 1, FALSE) = Wide(p) + (s + 1)
        /\ rej + 1 = Wide(cnt[p]) + (s + 1)
    <3> DEFINE a == Wide(p)
               b == Wide(cnt[p])
               w == Pieces(lat, rej + 1, FALSE)
    <3>1. /\ a \in Nat /\ b \in Nat /\ rej \in Nat /\ s \in Nat
          /\ rej = b + s /\ w = a + s + 1
      BY <1>1, <1>2, <1>3, <1>4
    <3> HIDE DEF a, b, w
    <3>2. w = a + (s + 1) /\ rej + 1 = b + (s + 1)
      BY <3>1
    <3> QED BY <3>2 DEF a, b, w
  <2>3. Track(lat, rej + 1, FALSE, bad, n, p, s + 1, cnt)
    BY <1>1, <1>2, <2>2 DEF Track, Wrong
  <2> QED BY <1>1, <1>2, <1>4, <2>1, <2>3
<1>6. CASE s = Chunks
  <2>1. p + 1 \in Nat /\ 0 \in 0 .. Chunks /\ Kept(lat, rej + 1, bad, n, p + 1, 0, cnt)
    BY <1>1 DEF Kept
  <2>2. /\ Wide(p + 1) = Wide(p) + Width
        /\ Wide(cnt[p + 1]) = Wide(cnt[p]) + Width
    BY <1>1, <1>3, WideAt
  <2>3. /\ Pieces(lat, rej + 1, FALSE) = Wide(p + 1) + 0
        /\ rej + 1 = Wide(cnt[p + 1]) + 0 /\ p + 1 <= n
    <3> DEFINE a == Wide(p)
               b == Wide(cnt[p])
               w == Pieces(lat, rej + 1, FALSE)
    <3>1. /\ a \in Nat /\ b \in Nat /\ rej \in Nat /\ s \in Nat /\ s + 1 = Width
          /\ rej = b + s /\ w = a + s + 1
          /\ Wide(p + 1) = a + Width /\ Wide(cnt[p + 1]) = b + Width
      BY <1>1, <1>2, <1>3, <1>4, <1>6, <2>2
    <3> HIDE DEF a, b, w
    <3>2. w = (a + Width) + 0 /\ rej + 1 = (b + Width) + 0
      BY <1>1, <3>1
    <3>3. p + 1 <= n
      BY <1>1
    <3> QED BY <3>1, <3>2, <3>3 DEF w
  <2>4. Track(lat, rej + 1, FALSE, bad, n, p + 1, 0, cnt)
    BY <1>2, <2>3 DEF Track, Wrong
  <2> QED BY <1>1, <1>2, <1>4, <2>1, <2>4
<1>7. Pieces(lat, rej + 1, FALSE) = Pieces(lat, rej, FALSE) + 1
  BY <1>4
<1>8. s < Chunks \/ s = Chunks
  BY <1>1
<1> QED BY <1>5, <1>6, <1>8, Zenon

(* One more answer b, wrong or not, after which bad1 of n1 are wrong.       *)
Follows(n, n1) == n1 = n + 1
Answer(bad, bad1, b) ==
  bad1 \in {bad, bad + 1} /\ b = (IF bad1 = bad THEN GoodAnswer ELSE BadAnswer)
Continues(more, cnt, n, b) ==
  /\ \A j \in 0 .. n - 1 : Answered(more)[j] = Answered(cnt)[j]
  /\ Answered(more)[n] = b

LEMMA TrackAnswer ==
  ASSUME NEW lat, NEW rej, NEW pay \in BOOLEAN, NEW bad, NEW n, NEW p, NEW s, NEW cnt,
         Kept(lat, rej, bad, n, p, s, cnt), Track(lat, rej, pay, bad, n, p, s, cnt),
         NEW bad1, NEW b, Answer(bad, bad1, b), NEW n1, Follows(n, n1)
  PROVE  \E more \in [Nat -> Nat] :
           /\ Kept(lat, rej, bad1, n1, p, s, more)
           /\ Track(lat, rej, pay, bad1, n1, p, s, more)
           /\ Continues(more, cnt, n, b)
<1> DEFINE more == [cnt EXCEPT ![n + 1] = bad1]
<1>1. /\ lat \in Nat /\ rej \in Nat /\ bad \in Nat /\ n \in Nat /\ p \in Nat /\ p \in 0 .. n
      /\ s \in 0 .. Chunks /\ cnt \in [Nat -> Nat] /\ Counts(cnt, n, bad)
      /\ n1 = n + 1 /\ bad1 \in Nat /\ bad1 \in {bad, bad + 1} /\ bad <= bad1
  BY DEF Kept, Track, Follows, Answer
<1>2. /\ more \in [Nat -> Nat] /\ more[n + 1] = bad1
      /\ \A j \in 0 .. n : more[j] = cnt[j]
  BY <1>1
<1> HIDE DEF more
<1>3. Kept(lat, rej, bad1, n1, p, s, more)
  BY <1>1, <1>2 DEF Kept
<1>4. Counts(more, n1, bad1)
  <2>1. more[n1] = bad1
    BY <1>1, <1>2
  <2>2. ASSUME NEW j \in 0 .. n1 PROVE more[j] <= bad1
    <3>1. CASE j = n1
      BY <1>1, <2>1, <3>1
    <3>2. CASE j \in 0 .. n
      <4>1. cnt[j] <= bad /\ cnt[j] \in Nat /\ more[j] = cnt[j]
        BY <1>1, <1>2, <3>2 DEF Counts
      <4> QED BY <1>1, <4>1
    <3> QED BY <1>1, <3>1, <3>2
  <2>3. ASSUME NEW j \in 0 .. n1 - 1 PROVE more[j + 1] \in {more[j], more[j] + 1}
    <3>1. CASE j = n
      <4>1. more[j] = bad /\ more[j + 1] = bad1
        BY <1>1, <1>2, <3>1 DEF Counts
      <4> QED BY <1>1, <4>1
    <3>2. CASE j \in 0 .. n - 1
      <4>1. j \in 0 .. n /\ j + 1 \in 0 .. n
        BY <1>1, <3>2
      <4>2. cnt[j + 1] \in {cnt[j], cnt[j] + 1}
        BY <1>1, <3>2 DEF Counts
      <4> QED BY <1>2, <4>1, <4>2
    <3> QED BY <1>1, <3>1, <3>2
  <2> QED BY <2>1, <2>2, <2>3 DEF Counts
<1>5. Track(lat, rej, pay, bad1, n1, p, s, more)
  <2>1. more[p] = cnt[p] /\ p <= n1
    BY <1>1, <1>2
  <2>2. /\ Pieces(lat, rej, pay) = Wide(p) + s
        /\ rej = Wide(cnt[p]) + (IF pay THEN 0 ELSE s)
        /\ (s # 0 => p < n) /\ (pay => s = 1)
    BY DEF Track
  <2>3. s # 0 => p < n1
    BY <1>1, <2>2
  <2>4. s # 0 => ((more[p + 1] = more[p]) <=> pay)
    <3>1. ASSUME s # 0 PROVE (more[p + 1] = more[p]) <=> pay
      <4>1. p + 1 \in 0 .. n
        BY <1>1, <2>2, <3>1
      <4>2. more[p + 1] = cnt[p + 1]
        BY <1>2, <4>1
      <4>3. (cnt[p + 1] = cnt[p]) <=> pay
        BY <3>1 DEF Track
      <4> QED BY <2>1, <4>2, <4>3
    <3> QED BY <3>1
  <2> QED BY <1>4, <2>1, <2>2, <2>3, <2>4 DEF Track
<1>6. ASSUME NEW j \in 0 .. n - 1 PROVE Answered(more)[j] = Answered(cnt)[j]
  <2>1. j \in Nat /\ more[j] = cnt[j] /\ more[j + 1] = cnt[j + 1]
    BY <1>1, <1>2
  <2> QED BY <2>1 DEF Answered
<1>7. Answered(more)[n] = b
  <2>1. more[n] = bad /\ more[n + 1] = bad1
    BY <1>1, <1>2 DEF Counts
  <2>2. Answered(more)[n] = IF more[n + 1] = more[n] THEN GoodAnswer ELSE BadAnswer
    BY <1>1 DEF Answered
  <2> QED BY <2>1, <2>2 DEF Answer
<1>8. Continues(more, cnt, n, b)
  BY <1>6, <1>7 DEF Continues
<1> QED BY <1>2, <1>3, <1>5, <1>8

-----------------------------------------------------------------------------
(***************************************************************************)
(* The steps of the stream.                                                *)
(***************************************************************************)
AllRequests == [j \in Nat |-> Request]

LEMMA WireReads ==
  ASSUME NEW q \in Seq(Byte), NEW at \in Nat, NEW r, NEW up \in BOOLEAN,
         NEW n \in Nat, NEW k, NEW cnt, Wire(q, at, r, up, n, k, cnt), NEW m \in 0 .. Len(q)
  PROVE  LET rest == SubSeq(q, m + 1, Len(q))
         IN  rest \in Seq(Byte) /\ Wire(rest, at + m, r, up, n, k, cnt)
<1> DEFINE rest == SubSeq(q, m + 1, Len(q))
           f == Answered(cnt)
           e == Span * n
<1>1. Carries(q, at, f)
  BY DEF Wire
<1> HIDE DEF f
<1>2. rest \in Seq(Byte) /\ Len(rest) = Len(q) - m /\ Carries(rest, at + m, f)
  BY <1>1, CarriesRest
<1>3. Len(q) \in Nat /\ e \in Nat /\ m \in Nat /\ at + Len(q) <= e /\ (up => at + Len(q) = e)
  BY LenProperties, Lengths DEF Wire
<1>4. Carries(r, 0, [j \in Nat |-> Request]) /\ (up => Len(r) = Span * k)
  BY DEF Wire
<1> HIDE DEF rest, e
<1>5. at + m + Len(rest) = at + Len(q)
  BY <1>2, <1>3
<1>6. at + m + Len(rest) <= e /\ (up => at + m + Len(rest) = e)
  BY <1>3, <1>5
<1> QED BY <1>2, <1>4, <1>6 DEF Wire, rest, e, f

LEMMA WireWrites ==
  ASSUME NEW q, NEW at, NEW r \in Seq(Byte), NEW n, NEW k \in Nat, NEW cnt,
         Wire(q, at, r, TRUE, n, k, cnt)
  PROVE  r \o Request \in Seq(Byte) /\ Wire(q, at, r \o Request, TRUE, n, k + 1, cnt)
<1> DEFINE f == [j \in Nat |-> Request]
<1>1. Carries(r, 0, f) /\ Len(r) = Span * k
  BY DEF Wire
<1>2. f[k] = Request
  OBVIOUS
<1>3. Request \in Seq(Byte) /\ Len(Request) = Span /\ Len(r) \in Nat /\ 0 + Len(r) = Len(r)
  BY RequestBytes, LenProperties
<1> HIDE DEF f
<1>4. /\ r \o Request \in Seq(Byte) /\ Len(r \o Request) = Len(r) + Span
      /\ Carries(r \o Request, 0, f)
  BY <1>1, <1>2, <1>3, CarriesMore
<1>5. Span * (k + 1) = Span * k + Span
  BY Lengths
<1> QED BY <1>1, <1>4, <1>5 DEF Wire, f

(* The server takes a request: its payload is the test payload.            *)
LEMMA WireTakes ==
  ASSUME NEW r \in Seq(Byte), NEW k \in Nat, Carries(r, 0, AllRequests),
         Len(r) = Span * k, r # <<>>
  PROVE  /\ k # 0
         /\ SubSeq(r, HEADER_SIZE + 1, Len(Request)) = TestPayload
         /\ LET rest == SubSeq(r, Len(Request) + 1, Len(r))
            IN  /\ rest \in Seq(Byte) /\ Len(rest) = Span * (k - 1)
                /\ Carries(rest, 0, AllRequests)
<1>1. Span \in Nat \ {0} /\ Len(r) \in Nat /\ Len(Request) = Span
  BY Lengths, RequestBytes, LenProperties
<1>2. k # 0
  <2> SUFFICES ASSUME k = 0 PROVE FALSE
    OBVIOUS
  <2>1. Len(r) = 0
    BY <1>1
  <2> QED BY <2>1, EmptySeq
<1>3. k - 1 \in Nat /\ Span * k = Span * (k - 1) + Span /\ Span * (k - 1) \in Nat
  <2> DEFINE j == k - 1
  <2>1. j \in Nat /\ k = j + 1
    BY <1>2
  <2> HIDE DEF j
  <2>2. Span * k = Span * j + Span /\ Span * j \in Nat
    BY <1>1, <2>1
  <2> QED BY <2>1, <2>2 DEF j
<1>4. Span \in 0 .. Len(r)
  BY <1>1, <1>3
<1> DEFINE rest == SubSeq(r, Span + 1, Len(r))
<1>5. rest \in Seq(Byte) /\ Len(rest) = Len(r) - Span /\ Carries(rest, 0 + Span, AllRequests)
  BY <1>4, CarriesRest
<1> HIDE DEF rest
<1>6. Carries(rest, 0, AllRequests)
  <2>1. AllRequests = [j \in Nat |-> Request] /\ 0 + Span = Span
    BY <1>1 DEF AllRequests
  <2> QED BY <1>5, <2>1, CarriesSame
<1>7. Len(rest) = Span * (k - 1)
  BY <1>1, <1>3, <1>5
<1> DEFINE pl == SubSeq(r, 9, Span)
<1>8. pl = TestPayload
  <2>1. 9 \in 1 .. Len(r) + 1 /\ Span \in 9 - 1 .. Len(r) /\ Span = 8 + Len(TestPayload)
    BY <1>1, <1>4, Lengths, LenProperties
  <2>2. /\ pl \in Seq(Byte) /\ Len(pl) = Span - 9 + 1
        /\ \A i \in 1 .. Span - 9 + 1 : pl[i] = r[9 + i - 1]
    BY <2>1, SubSeqProperties
  <2> HIDE DEF pl
  <2>3. TestPayload \in Seq(Byte) /\ Len(TestPayload) \in Nat
    BY PayloadBytes, LenProperties
  <2>4. Len(pl) = Len(TestPayload)
    BY <2>1, <2>2, <2>3
  <2>5. ASSUME NEW i \in 1 .. Len(TestPayload) PROVE pl[i] = TestPayload[i]
    <3>1. i \in 1 .. Span - 9 + 1 /\ 9 + i - 1 = 8 + i /\ 8 + i \in 1 .. Len(r) /\ 8 + i <= Span
      BY <1>1, <1>4, <2>1, <2>3
    <3>2. pl[i] = r[8 + i]
      BY <2>2, <3>1
    <3>3. Place(0, 0, 0)
      BY <1>1 DEF Place
    <3>4. r[8 + i] = AllRequests[0][0 + (8 + i)]
      <4> DEFINE e == 8 + i
      <4>1. e \in 1 .. Len(r) /\ 0 + e <= Span
        BY <3>1
      <4> HIDE DEF e
      <4>2. r[e] = AllRequests[0][0 + e]
        BY <3>3, <4>1, CarriesBytes
      <4> QED BY <4>2 DEF e
    <3>5. AllRequests[0][0 + (8 + i)] = Request[8 + i]
      BY <3>1 DEF AllRequests
    <3>6. Request[8 + i] = TestPayload[i]
      BY RequestBytes
    <3> QED BY <3>2, <3>4, <3>5, <3>6
  <2> QED BY <2>2, <2>3, <2>4, <2>5, SeqEqual
<1> QED BY <1>1, <1>2, <1>5, <1>6, <1>7, <1>8 DEF rest, HEADER_SIZE

Untaken(r, rest) == rest = SubSeq(r, Len(Request) + 1, Len(r))

(* ... and sends an answer b.                                              *)
LEMMA WireAnswers ==
  ASSUME NEW q \in Seq(Byte), NEW at \in Nat, NEW r \in Seq(Byte), NEW n \in Nat, NEW k \in Nat,
         NEW cnt, Wire(q, at, r, TRUE, n, k, cnt), r # <<>>,
         NEW b \in {GoodAnswer, BadAnswer}, NEW more, Continues(more, cnt, n, b),
         NEW n1, Follows(n, n1), NEW k1 \in Int, Follows(k1, k),
         NEW rest, Untaken(r, rest)
  PROVE  /\ k1 \in Nat
         /\ rest \in Seq(Byte) /\ q \o b \in Seq(Byte)
         /\ Wire(q \o b, at, rest, TRUE, n1, k1, more)
<1> DEFINE f == Answered(cnt)
           g == Answered(more)
<1>1. /\ Carries(q, at, f) /\ at + Len(q) = Span * n
      /\ Carries(r, 0, AllRequests) /\ Len(r) = Span * k
  BY DEF Wire, AllRequests
<1>0. n1 = n + 1 /\ n1 \in Nat /\ k = k1 + 1 /\ k1 = k - 1
  BY DEF Follows
<1>2. b \in Seq(Byte) /\ Len(b) = Span
  BY AnswerBytes
<1>3. /\ k # 0 /\ SubSeq(r, HEADER_SIZE + 1, Len(Request)) = TestPayload
      /\ rest \in Seq(Byte) /\ Len(rest) = Span * (k - 1)
      /\ Carries(rest, 0, AllRequests)
  BY <1>1, WireTakes DEF Untaken
<1>4. /\ \A j \in 0 .. n - 1 : g[j] = f[j]
      /\ g[n] = b
  BY DEF Continues
<1> HIDE DEF f, g
<1>5. q \o b \in Seq(Byte) /\ Len(q \o b) = Len(q) + Span /\ Carries(q \o b, at, g)
  BY <1>1, <1>2, <1>4, CarriesMore
<1>6. /\ Span * n1 \in Nat /\ at + Len(q \o b) = Span * n1
      /\ at + Len(q \o b) <= Span * n1
  <2> DEFINE e == Span * n
             l == Len(q)
             w == Len(q \o b)
             e1 == Span * n1
  <2>1. e1 = e + Span /\ e \in Nat /\ Span \in Nat /\ l \in Nat
    BY <1>0, Lengths, LenProperties
  <2>2. at + l = e /\ w = l + Span
    BY <1>1, <1>5
  <2> HIDE DEF e, l, w, e1
  <2>3. e1 \in Nat /\ at + w = e1 /\ at + w <= e1
    BY <2>1, <2>2
  <2> QED BY <2>3 DEF w, e1
<1>7. k1 \in Nat /\ Len(rest) = Span * k1
  BY <1>0, <1>3
<1>8. Wire(q \o b, at, rest, TRUE, n1, k1, more)
  BY <1>3, <1>5, <1>6, <1>7 DEF Wire, AllRequests, g
<1> QED BY <1>3, <1>5, <1>7, <1>8

LEMMA WireBreaks ==
  ASSUME NEW q \in Seq(Byte), NEW at \in Nat, NEW r, NEW up \in BOOLEAN,
         NEW n \in Nat, NEW k, NEW cnt, Wire(q, at, r, up, n, k, cnt), NEW m \in 0 .. Len(q)
  PROVE  LET part == SubSeq(q, 1, m)
         IN  part \in Seq(Byte) /\ Wire(part, at, <<>>, FALSE, n, k, cnt)
<1> DEFINE part == SubSeq(q, 1, m)
           f == Answered(cnt)
           e == Span * n
<1>1. Carries(q, at, f)
  BY DEF Wire
<1> HIDE DEF f
<1>2. part \in Seq(Byte) /\ Len(part) = m /\ Carries(part, at, f)
  BY <1>1, CarriesPrefix
<1>3. Len(q) \in Nat /\ e \in Nat /\ m \in Nat /\ at + Len(q) <= e
  BY LenProperties, Lengths DEF Wire
<1> HIDE DEF part, e
<1>4. at + Len(part) <= e
  BY <1>2, <1>3
<1>5. Carries(<<>>, 0, [j \in Nat |-> Request])
  BY CarriesNothing
<1> QED BY <1>2, <1>4, <1>5 DEF Wire, part, e, f
-----------------------------------------------------------------------------
(***************************************************************************)
(* The actions.                                                            *)
(***************************************************************************)
Pay(c) == pc[c] = "payload"
KeptOf(c, n, p, s, cnt) == Kept(threadLatencies[c], rejected[c], sentBad[c], n, p, s, cnt)
At(c) == 8 * Pieces(threadLatencies[c], rejected[c], Pay(c))

LEMMA StreamOf ==
  ASSUME TypeOK, NEW c \in Client, Streams(c), link[c] \in {"up", "broken"}
  PROVE  \E k \in Nat, n \in Nat, p \in Nat, s \in 0 .. Chunks, cnt \in [Nat -> Nat] :
           /\ KeptOf(c, n, p, s, cnt)
           /\ InStream(c, k, n, p, s, cnt)
<1>1. PICK k \in Nat, n \in Nat, p \in Nat, s \in 0 .. Chunks, cnt \in [Nat -> Nat] :
           InStream(c, k, n, p, s, cnt)
  BY DEF Streams
<1>2. threadLatencies[c] \in Nat /\ rejected[c] \in Nat /\ sentBad[c] \in Nat
  <2>1. sentBad[c] \in 0 .. MaxBad /\ MaxBad \in Nat
    BY BenchmarkClientAssumption DEF TypeOK
  <2> QED BY <2>1 DEF TypeOK
<1>3. KeptOf(c, n, p, s, cnt)
  BY <1>2 DEF KeptOf, Kept
<1> QED BY <1>1, <1>3

LEMMA StreamsIf ==
  ASSUME NEW c \in Client, NEW k \in Nat, NEW n, NEW p, NEW s, NEW cnt,
         KeptOf(c, n, p, s, cnt)', InStream(c, k, n, p, s, cnt)'
  PROVE  Streams(c)' /\ Bounded(c)'
<1>1. n \in Nat /\ p \in Nat /\ s \in 0 .. Chunks /\ cnt \in [Nat -> Nat]
  BY DEF KeptOf, Kept
<1>2. Streams(c)'
  BY <1>1 DEF Streams, Chunks
<1>3. Bounded(c)'
  <2>1. (pc'[c] = "payload") \in BOOLEAN
    OBVIOUS
  <2> QED BY <2>1, TrackBounds DEF KeptOf, InStream, Bounded
<1> QED BY <1>2, <1>3

LEMMA NumbersOf ==
  ASSUME TypeOK, NEW c \in Client
  PROVE  /\ threadLatencies[c] \in Nat /\ rejected[c] \in Nat /\ done[c] \in Nat
         /\ sentBad[c] \in Nat /\ Requests \in Nat /\ MaxBad \in Nat
         /\ toServer[c] \in Seq(Byte) /\ toClient[c] \in Seq(Byte)
         /\ Len(toServer[c]) \in Nat /\ Len(toClient[c]) \in Nat
         /\ At(c) \in Nat
<1>1. Requests \in Nat /\ MaxBad \in Nat
  BY BenchmarkClientAssumption
<1>2. /\ threadLatencies[c] \in Nat /\ rejected[c] \in Nat /\ done[c] \in Nat
      /\ sentBad[c] \in Nat
      /\ toServer[c] \in Seq(Byte) /\ toClient[c] \in Seq(Byte)
  BY <1>1 DEF TypeOK
<1>3. At(c) \in Nat
  <2>1. Wide(threadLatencies[c]) \in Nat
    BY <1>2, WideAt
  <2> DEFINE a == Wide(threadLatencies[c])
             b == rejected[c]
             d == IF Pay(c) THEN 1 ELSE 0
  <2>2. a \in Nat /\ b \in Nat /\ d \in Nat
    BY <1>2, <2>1
  <2> HIDE DEF a, b, d
  <2>3. 8 * (a + b + d) \in Nat
    BY <2>2
  <2> QED BY <2>3 DEF At, Pieces, a, b, d
<1> QED BY <1>1, <1>2, <1>3, LenProperties

(* Every client but c.                                                     *)
Others(c) == \A d \in Client \ {c} : Same(d)

(***************************************************************************)
(* Before and after the connection.                                        *)
(***************************************************************************)
LEMMA SpawnKeeps ==
  ASSUME TypeOK, NEW c \in Client, ClientOK(c), Spawn(c)
  PROVE  TypeOK' /\ ClientOK(c)' /\ Others(c)
<1>1. TypeOK'
  BY DEF TypeOK, Spawn, Places, streamVars, totalVars
<1>2. /\ pc[c] = "not started" /\ pc'[c] = "connect" /\ link'[c] = link[c]
      /\ done'[c] = done[c] /\ toServer'[c] = toServer[c] /\ toClient'[c] = toClient[c]
      /\ payloadBuf'[c] = payloadBuf[c]
      /\ threadLatencies'[c] = threadLatencies[c] /\ rejected'[c] = rejected[c]
      /\ sentBad'[c] = sentBad[c]
  BY DEF TypeOK, Spawn, streamVars, totalVars
<1>3. Life(c)'
  BY <1>2 DEF ClientOK, Life
<1>4. Streams(c)' /\ Bounded(c)'
  BY <1>2 DEF ClientOK, Life, Streams, Bounded
<1>5. Others(c)
  BY DEF Others, Same, TypeOK, Spawn, streamVars, totalVars
<1> QED BY <1>1, <1>3, <1>4, <1>5 DEF ClientOK

LEMMA ConnectKeeps ==
  ASSUME TypeOK, NEW c \in Client, ClientOK(c), Connect(c)
  PROVE  TypeOK' /\ ClientOK(c)' /\ Others(c)
<1>1. TypeOK'
  BY DEF TypeOK, Connect, In, Goes, Places, totalVars
<1>2. /\ pc[c] = "connect" /\ pc'[c] = (IF 0 < Requests THEN "write" ELSE "goodbye")
      /\ link'[c] = "up"
      /\ done'[c] = done[c] /\ toServer'[c] = toServer[c] /\ toClient'[c] = toClient[c]
      /\ payloadBuf'[c] = payloadBuf[c]
      /\ threadLatencies'[c] = threadLatencies[c] /\ rejected'[c] = rejected[c]
      /\ sentBad'[c] = sentBad[c]
  BY DEF TypeOK, Connect, In, Goes, More, totalVars
<1>3. /\ threadLatencies[c] \in Nat /\ rejected[c] \in Nat /\ Requests \in Nat
  BY NumbersOf
<1>4. /\ done[c] = 0 /\ sentBad[c] = 0 /\ threadLatencies[c] = 0 /\ rejected[c] = 0
      /\ toServer[c] = <<>> /\ toClient[c] = <<>>
  <2>1. done[c] = 0 /\ sentBad[c] = 0 /\ done[c] = threadLatencies[c] + rejected[c]
        /\ toServer[c] = <<>> /\ toClient[c] = <<>>
    BY <1>2 DEF ClientOK, Life
  <2> QED BY <1>3, <2>1
<1>5. Life(c)'
  BY <1>2, <1>3, <1>4 DEF ClientOK, Life
<1> DEFINE cnt == [j \in Nat |-> 0]
<1>6. Counts(cnt, 0, 0) /\ cnt \in [Nat -> Nat] /\ cnt[0] = 0
  BY DEF Counts
<1> HIDE DEF cnt
<1>7. Kept(0, 0, 0, 0, 0, 0, cnt)
  BY <1>6, Widths DEF Kept
<1>8. Wide(0) = 0 /\ Span * 0 = 0 /\ Pieces(0, 0, FALSE) = 0 /\ 8 * Pieces(0, 0, FALSE) = 0
  <2>1. Wide(0) = 0 /\ Span * 0 = 0
    BY Lengths DEF Wide
  <2>2. Pieces(0, 0, FALSE) = 0
    BY <2>1 DEF Pieces
  <2>3. 8 * Pieces(0, 0, FALSE) = 0
    BY <2>1 DEF Pieces
  <2> QED BY <2>1, <2>2, <2>3, Zenon
<1>9. Track(0, 0, FALSE, 0, 0, 0, 0, cnt)
  <2>1. /\ 0 <= 0 /\ Pieces(0, 0, FALSE) = Wide(0) + 0 /\ 0 = Wide(cnt[0]) + 0
    <3>1. Pieces(0, 0, FALSE) = Wide(0) + 0
      BY <1>8 DEF Pieces
    <3>2. 0 = Wide(cnt[0]) + 0
      BY <1>6, <1>8
    <3>3. 0 <= 0
      OBVIOUS
    <3> QED BY <3>1, <3>2, <3>3, Zenon
  <2> QED BY <1>6, <2>1 DEF Track
<1>10. Len(<<>>) = 0 /\ Carries(<<>>, 0, Answered(cnt)) /\ Carries(<<>>, 0, [j \in Nat |-> Request])
  BY CarriesNothing
<1>11. Wire(<<>>, 0, <<>>, TRUE, 0, 0, cnt)
  BY <1>8, <1>10 DEF Wire
<1>12. (pc'[c] = "payload") = FALSE /\ (link'[c] = "up") = TRUE
  BY <1>2
<1>13. Written(c)' = 0
  BY <1>2, <1>4 DEF Written
<1>14. KeptOf(c, 0, 0, 0, cnt)' /\ InStream(c, 0, 0, 0, 0, cnt)'
  <2>1. /\ threadLatencies'[c] = 0 /\ rejected'[c] = 0 /\ sentBad'[c] = 0
        /\ toServer'[c] = <<>> /\ toClient'[c] = <<>>
    BY <1>2, <1>4
  <2>2. KeptOf(c, 0, 0, 0, cnt)'
    BY <1>7, <2>1 DEF KeptOf
  <2>3. Track(threadLatencies'[c], rejected'[c], pc'[c] = "payload", sentBad'[c], 0, 0, 0, cnt)
    BY <1>9, <1>12, <2>1
  <2>4. Wire(toClient'[c], 8 * Pieces(threadLatencies'[c], rejected'[c], pc'[c] = "payload"),
             toServer'[c], link'[c] = "up", 0, 0, cnt)
    BY <1>8, <1>11, <1>12, <2>1
  <2>5. 0 + 0 = Written(c)' /\ pc'[c] # "payload"
    BY <1>12, <1>13
  <2> QED BY <2>2, <2>3, <2>4, <2>5 DEF InStream
<1>15. Streams(c)' /\ Bounded(c)'
  BY <1>14, StreamsIf
<1>16. Others(c)
  BY DEF Others, Same, TypeOK, Connect, Goes, totalVars
<1> QED BY <1>1, <1>5, <1>15, <1>16 DEF ClientOK

(* The socket is closed, by an exception or after the goodbye.             *)
LEMMA ThrowsKeeps ==
  ASSUME TypeOK, NEW c \in Client, ClientOK(c), Throws(c)
  PROVE  TypeOK' /\ ClientOK(c)' /\ Others(c)
<1>1. TypeOK'
  <2>1. <<>> \in Seq(Byte)
    OBVIOUS
  <2>2. /\ main' = main /\ pc' \in [Client -> Places]
        /\ link' \in [Client -> {"none", "up", "broken", "closed"}]
    BY DEF TypeOK, Throws, Goes, Closes, Places
  <2>3. toServer' \in [Client -> Seq(Byte)] /\ toClient' \in [Client -> Seq(Byte)]
    BY <2>1 DEF TypeOK, Throws, Closes
  <2>4. errors' \in Nat
    BY DEF TypeOK, Throws, CountsError
  <2> QED BY <2>2, <2>3, <2>4 DEF TypeOK, Throws
<1>2. /\ pc'[c] = "failed" /\ link'[c] = "closed"
      /\ done'[c] = done[c] /\ toServer'[c] = <<>> /\ toClient'[c] = <<>>
      /\ payloadBuf'[c] = payloadBuf[c]
      /\ threadLatencies'[c] = threadLatencies[c] /\ rejected'[c] = rejected[c]
      /\ sentBad'[c] = sentBad[c]
  BY DEF TypeOK, Throws, Goes, Closes
<1>3. Life(c)'
  BY <1>2 DEF ClientOK, Life
<1>4. Streams(c)' /\ Bounded(c)'
  BY <1>2 DEF ClientOK, Streams, Bounded
<1>5. Others(c)
  BY DEF Others, Same, TypeOK, Throws, Goes, Closes
<1> QED BY <1>1, <1>3, <1>4, <1>5 DEF ClientOK

LEMMA GoodbyeKeeps ==
  ASSUME TypeOK, NEW c \in Client, ClientOK(c), Goodbye(c)
  PROVE  TypeOK' /\ ClientOK(c)' /\ Others(c)
<1>1. TypeOK'
  <2>1. <<>> \in Seq(Byte)
    OBVIOUS
  <2>2. /\ main' = main /\ pc' \in [Client -> Places]
        /\ link' \in [Client -> {"none", "up", "broken", "closed"}]
    BY DEF TypeOK, Goodbye, Goes, Closes, Places
  <2>3. toServer' \in [Client -> Seq(Byte)] /\ toClient' \in [Client -> Seq(Byte)]
    BY <2>1 DEF TypeOK, Goodbye, Closes
  <2> QED BY <2>2, <2>3 DEF TypeOK, Goodbye, totalVars
<1>2. /\ pc[c] = "goodbye" /\ pc'[c] = "merge" /\ link'[c] = "closed"
      /\ done'[c] = done[c] /\ toServer'[c] = <<>> /\ toClient'[c] = <<>>
      /\ payloadBuf'[c] = payloadBuf[c]
      /\ threadLatencies'[c] = threadLatencies[c] /\ rejected'[c] = rejected[c]
      /\ sentBad'[c] = sentBad[c]
  BY DEF TypeOK, Goodbye, In, Goes, Closes
<1>3. Life(c)'
  BY <1>2 DEF ClientOK, Life
<1>4. Streams(c)' /\ Bounded(c)'
  BY <1>2 DEF ClientOK, Streams, Bounded
<1>5. Others(c)
  BY DEF Others, Same, TypeOK, Goodbye, Goes, Closes
<1> QED BY <1>1, <1>3, <1>4, <1>5 DEF ClientOK

LEMMA MergeKeeps ==
  ASSUME TypeOK, NEW c \in Client, ClientOK(c), Merge(c)
  PROVE  TypeOK' /\ ClientOK(c)' /\ Others(c)
<1>1. TypeOK'
  <2>1. latencies' \in Nat
    <3>1. latencies \in Nat /\ threadLatencies[c] \in Nat
      BY DEF TypeOK
    <3> QED BY <3>1 DEF Merge
  <2>2. pc' \in [Client -> Places]
    BY DEF TypeOK, Merge, Goes, Places
  <2> QED BY <2>1, <2>2 DEF TypeOK, Merge, streamVars
<1>2. /\ pc[c] = "merge" /\ pc'[c] = "ended" /\ link'[c] = link[c]
      /\ done'[c] = done[c] /\ toServer'[c] = toServer[c] /\ toClient'[c] = toClient[c]
      /\ payloadBuf'[c] = payloadBuf[c]
      /\ threadLatencies'[c] = threadLatencies[c] /\ rejected'[c] = rejected[c]
      /\ sentBad'[c] = sentBad[c]
  BY DEF TypeOK, Merge, In, Goes, streamVars
<1>3. link[c] = "closed"
  BY <1>2 DEF ClientOK, Life, TypeOK
<1>4. Life(c)'
  BY <1>2, <1>3 DEF ClientOK, Life
<1>5. Streams(c)' /\ Bounded(c)'
  BY <1>2, <1>3 DEF ClientOK, Streams, Bounded
<1>6. Others(c)
  BY DEF Others, Same, TypeOK, Merge, Goes, streamVars
<1> QED BY <1>1, <1>4, <1>5, <1>6 DEF ClientOK
-----------------------------------------------------------------------------
(***************************************************************************)
(* The request, the server's answer, and the end of the connection.        *)
(***************************************************************************)
LEMMA WriteKeeps ==
  ASSUME TypeOK, NEW c \in Client, ClientOK(c), WriteRequest(c)
  PROVE  TypeOK' /\ ClientOK(c)' /\ Others(c)
<1>1. /\ pc[c] = "write" /\ pc'[c] = "header" /\ link'[c] = link[c]
      /\ toServer'[c] = (IF link[c] = "up" THEN toServer[c] \o Request ELSE toServer[c])
      /\ done'[c] = done[c] /\ toClient'[c] = toClient[c] /\ respLength'[c] = respLength[c]
      /\ payloadBuf'[c] = payloadBuf[c]
      /\ threadLatencies'[c] = threadLatencies[c] /\ rejected'[c] = rejected[c]
      /\ sentBad'[c] = sentBad[c]
  BY DEF TypeOK, WriteRequest, In, Goes, totalVars
<1>2. link[c] \in {"up", "broken"}
  BY <1>1 DEF ClientOK, Life
<1>3. /\ toServer[c] \in Seq(Byte) /\ Request \in Seq(Byte)
      /\ toServer[c] \o Request \in Seq(Byte) /\ done[c] \in Nat
  BY NumbersOf, RequestBytes
<1>4. TypeOK'
  <2>1. toServer' \in [Client -> Seq(Byte)]
    BY <1>3 DEF TypeOK, WriteRequest
  <2>2. pc' \in [Client -> Places]
    BY DEF TypeOK, WriteRequest, Goes, Places
  <2> QED BY <2>1, <2>2 DEF TypeOK, WriteRequest, totalVars
<1>5. Life(c)'
  BY <1>1, <1>2 DEF ClientOK, Life
<1>6. PICK k \in Nat, n \in Nat, p \in Nat, s \in 0 .. Chunks, cnt \in [Nat -> Nat] :
           KeptOf(c, n, p, s, cnt) /\ InStream(c, k, n, p, s, cnt)
  BY <1>2, StreamOf DEF ClientOK
<1>7. (pc'[c] = "payload") = FALSE /\ (pc[c] = "payload") = FALSE
  BY <1>1
<1>8. KeptOf(c, n, p, s, cnt)'
  BY <1>1, <1>6 DEF KeptOf
<1>9. Track(threadLatencies'[c], rejected'[c], pc'[c] = "payload", sentBad'[c], n, p, s, cnt)
  BY <1>1, <1>6, <1>7 DEF InStream
<1> DEFINE at == 8 * Pieces(threadLatencies[c], rejected[c], pc[c] = "payload")
<1>10. Wire(toClient[c], at, toServer[c], link[c] = "up", n, k, cnt)
  BY <1>6 DEF InStream
<1>11. at = 8 * Pieces(threadLatencies'[c], rejected'[c], pc'[c] = "payload")
  BY <1>1, <1>7
<1> HIDE DEF at
<1>12. ASSUME link[c] = "up" PROVE ClientOK(c)'
  <2>1. (link[c] = "up") = TRUE /\ (link'[c] = "up") = TRUE
    BY <1>1, <1>12
  <2>2. Wire(toClient[c], at, toServer[c] \o Request, TRUE, n, k + 1, cnt)
    <3>1. Wire(toClient[c], at, toServer[c], TRUE, n, k, cnt)
      BY <1>10, <2>1
    <3> QED BY <1>3, <3>1, WireWrites
  <2>3. Wire(toClient'[c], at, toServer'[c], link'[c] = "up", n, k + 1, cnt)
    BY <1>1, <1>12, <2>1, <2>2
  <2>4. n + (k + 1) = Written(c)'
    <3>1. n + k = Written(c)
      BY <1>6, <1>12 DEF InStream
    <3>2. Written(c) = done[c] + 0 /\ Written(c)' = done[c] + 1
      BY <1>1 DEF Written
    <3>4. n + (k + 1) = done[c] + 1
      <4> DEFINE d == done[c]
      <4>1. d \in Nat /\ n + k = d + 0
        BY <1>3, <3>1, <3>2
      <4> HIDE DEF d
      <4>2. n + (k + 1) = d + 1
        BY <4>1
      <4> QED BY <4>2 DEF d
    <3> QED BY <3>2, <3>4
  <2>5. InStream(c, k + 1, n, p, s, cnt)'
    BY <1>1, <1>9, <1>11, <2>3, <2>4 DEF InStream
  <2>6. k + 1 \in Nat
    OBVIOUS
  <2>7. Streams(c)' /\ Bounded(c)'
    BY <1>8, <2>5, <2>6, StreamsIf
  <2> QED BY <1>5, <2>7 DEF ClientOK
<1>13. ASSUME link[c] # "up" PROVE ClientOK(c)'
  <2>1. (link[c] = "up") = FALSE /\ (link'[c] = "up") = FALSE
    BY <1>1, <1>13
  <2>2. Wire(toClient'[c], at, toServer'[c], link'[c] = "up", n, k, cnt)
    BY <1>1, <1>10, <1>13, <2>1
  <2>3. InStream(c, k, n, p, s, cnt)'
    BY <1>1, <1>9, <1>11, <1>13, <2>2 DEF InStream
  <2>4. Streams(c)' /\ Bounded(c)'
    BY <1>8, <2>3, StreamsIf
  <2> QED BY <1>5, <2>4 DEF ClientOK
<1>14. Others(c)
  BY DEF Others, Same, TypeOK, WriteRequest, Goes
<1>15. ClientOK(c)'
  BY <1>12, <1>13
<1> QED BY <1>4, <1>14, <1>15

(* What the two answers of the server have in common.                      *)
LEMMA AnswersKeeps ==
  ASSUME TypeOK, NEW c \in Client, ClientOK(c), NEW response,
         NEW bad1 \in {sentBad[c], sentBad[c] + 1}, bad1 <= MaxBad,
         NEW b, b = (IF bad1 = sentBad[c] THEN GoodAnswer ELSE BadAnswer),
         TakenPayload(c) = TestPayload => serializePacket(response) = b,
         Answers(c, response), sentBad' = [sentBad EXCEPT ![c] = bad1]
  PROVE  TypeOK' /\ ClientOK(c)' /\ Others(c)
<1>1. /\ link[c] = "up" /\ toServer[c] # <<>>
      /\ pc'[c] = pc[c] /\ link'[c] = link[c]
      /\ toServer'[c] = SubSeq(toServer[c], Len(Request) + 1, Len(toServer[c]))
      /\ toClient'[c] = toClient[c] \o serializePacket(response)
      /\ done'[c] = done[c] /\ respLength'[c] = respLength[c]
      /\ payloadBuf'[c] = payloadBuf[c]
      /\ threadLatencies'[c] = threadLatencies[c] /\ rejected'[c] = rejected[c]
      /\ sentBad'[c] = bad1
  BY DEF TypeOK, Answers, threadVars
<1>2. PICK k \in Nat, n \in Nat, p \in Nat, s \in 0 .. Chunks, cnt \in [Nat -> Nat] :
           KeptOf(c, n, p, s, cnt) /\ InStream(c, k, n, p, s, cnt)
  BY <1>1, StreamOf DEF ClientOK
<1> DEFINE lat == threadLatencies[c]
           rej == rejected[c]
           bad == sentBad[c]
           q == toClient[c]
           r == toServer[c]
           pay == (pc[c] = "payload")
           at == 8 * Pieces(lat, rej, pay)
           n1 == n + 1
           k1 == k - 1
           rest == SubSeq(r, Len(Request) + 1, Len(r))
<1>3. /\ Kept(lat, rej, bad, n, p, s, cnt) /\ Track(lat, rej, pay, bad, n, p, s, cnt)
      /\ Wire(q, at, r, TRUE, n, k, cnt)
  <2>1. (link[c] = "up") = TRUE
    BY <1>1
  <2> QED BY <1>2, <2>1 DEF KeptOf, InStream
<1>4. /\ pay \in BOOLEAN /\ at \in Nat /\ q \in Seq(Byte) /\ r \in Seq(Byte) /\ r # <<>>
      /\ bad \in Nat /\ MaxBad \in Nat
  BY <1>1, NumbersOf DEF At, Pay
<1>5. /\ n1 = n + 1 /\ k1 = k - 1 /\ k1 \in Int /\ rest = SubSeq(r, Len(Request) + 1, Len(r))
      /\ bad1 \in {bad, bad + 1} /\ b = (IF bad1 = bad THEN GoodAnswer ELSE BadAnswer)
      /\ Follows(n, n1) /\ Follows(k1, k) /\ Answer(bad, bad1, b) /\ Untaken(r, rest)
  BY DEF Follows, Answer, Untaken
<1>6. TakenPayload(c) = SubSeq(r, HEADER_SIZE + 1, Len(Request))
  BY DEF TakenPayload
<1> HIDE DEF lat, rej, bad, q, r, pay, at, n1, k1, rest
<1>7. PICK more \in [Nat -> Nat] :
           /\ Kept(lat, rej, bad1, n1, p, s, more)
           /\ Track(lat, rej, pay, bad1, n1, p, s, more)
           /\ Continues(more, cnt, n, b)
  BY <1>3, <1>4, <1>5, TrackAnswer
<1>8. b \in {GoodAnswer, BadAnswer}
  BY <1>5
<1>9. /\ k1 \in Nat
      /\ rest \in Seq(Byte) /\ q \o b \in Seq(Byte)
      /\ Wire(q \o b, at, rest, TRUE, n1, k1, more)
  <2>1. Follows(n, n1) /\ Follows(k1, k) /\ Untaken(r, rest) /\ k1 \in Int
    BY <1>5
  <2>2. Wire(q, at, r, TRUE, n, k, cnt) /\ Continues(more, cnt, n, b)
    BY <1>3, <1>7
  <2>3. at \in Nat /\ q \in Seq(Byte) /\ r \in Seq(Byte) /\ r # <<>>
    BY <1>4
  <2>4. k1 \in Nat
    BY <1>8, <2>1, <2>2, <2>3, WireAnswers
  <2>5. rest \in Seq(Byte)
    BY <1>8, <2>1, <2>2, <2>3, WireAnswers
  <2>6. q \o b \in Seq(Byte)
    BY <1>8, <2>1, <2>2, <2>3, WireAnswers
  <2>7. Wire(q \o b, at, rest, TRUE, n1, k1, more)
    BY <1>8, <2>1, <2>2, <2>3, WireAnswers
  <2> QED BY <2>4, <2>5, <2>6, <2>7, Zenon
<1>10. serializePacket(response) = b
  <2>1. Carries(r, 0, AllRequests) /\ Len(r) = Span * k
    BY <1>3 DEF Wire, AllRequests
  <2>2. SubSeq(r, HEADER_SIZE + 1, Len(Request)) = TestPayload
    BY <1>4, <2>1, WireTakes
  <2> QED BY <1>6, <2>2
<1>11. toServer'[c] = rest /\ toClient'[c] = q \o b
  BY <1>1, <1>10 DEF rest, q, r
<1>12. TypeOK'
  <2>1. toServer' \in [Client -> Seq(Byte)]
    BY <1>9 DEF TypeOK, Answers, rest, r
  <2>2. toClient' \in [Client -> Seq(Byte)]
    BY <1>9, <1>10 DEF TypeOK, Answers, q
  <2>3. sentBad' \in [Client -> 0 .. MaxBad]
    <3>1. bad1 \in 0 .. MaxBad
      BY <1>4, <1>5
    <3> QED BY <3>1 DEF TypeOK
  <2> QED BY <2>1, <2>2, <2>3 DEF TypeOK, Answers, threadVars, totalVars
<1>13. Life(c)'
  BY <1>1 DEF ClientOK, Life
<1>14. (pc'[c] = "payload") = pay /\ (link'[c] = "up") = TRUE
  BY <1>1 DEF pay
<1>15. /\ threadLatencies'[c] = lat /\ rejected'[c] = rej
       /\ at = 8 * Pieces(threadLatencies'[c], rejected'[c], pc'[c] = "payload")
  BY <1>1, <1>14 DEF at, lat, rej
<1>16. KeptOf(c, n1, p, s, more)'
  BY <1>1, <1>7, <1>15 DEF KeptOf
<1>17. Track(threadLatencies'[c], rejected'[c], pc'[c] = "payload", sentBad'[c], n1, p, s, more)
  BY <1>1, <1>7, <1>14, <1>15
<1>18. Wire(toClient'[c], at, toServer'[c], link'[c] = "up", n1, k1, more)
  BY <1>9, <1>11, <1>14
<1>19. n1 + k1 = Written(c)'
  <2>1. n + k = Written(c) /\ Written(c)' = Written(c)
    BY <1>1, <1>2 DEF InStream, Written
  <2>2. n1 + k1 = n + k
    BY <1>5
  <2> QED BY <2>1, <2>2
<1>20. pc'[c] = "payload" => respLength'[c] = Len(TestPayload)
  BY <1>1, <1>2 DEF InStream
<1>21. InStream(c, k1, n1, p, s, more)'
  BY <1>15, <1>17, <1>18, <1>19, <1>20 DEF InStream
<1>22. Streams(c)' /\ Bounded(c)'
  BY <1>9, <1>16, <1>21, StreamsIf
<1>23. Others(c)
  BY DEF Others, Same, TypeOK, Answers, threadVars
<1> QED BY <1>12, <1>13, <1>22, <1>23 DEF ClientOK

LEMMA EchoesKeeps ==
  ASSUME TypeOK, NEW c \in Client, ClientOK(c), ServerEchoes(c)
  PROVE  TypeOK' /\ ClientOK(c)' /\ Others(c)
<1> DEFINE response == createEchoResponse(TakenPayload(c))
           bad1 == sentBad[c]
<1>1. TakenPayload(c) = TestPayload => serializePacket(response) = GoodAnswer
  BY DEF GoodAnswer
<1>2. Answers(c, response)
  BY DEF ServerEchoes
<1>3. sentBad' = [sentBad EXCEPT ![c] = bad1] /\ bad1 <= MaxBad
      /\ bad1 \in {sentBad[c], sentBad[c] + 1}
  BY BenchmarkClientAssumption DEF ServerEchoes, TypeOK
<1>4. GoodAnswer = (IF bad1 = sentBad[c] THEN GoodAnswer ELSE BadAnswer)
  OBVIOUS
<1> HIDE DEF response, bad1
<1> QED BY <1>1, <1>2, <1>3, <1>4, AnswersKeeps

LEMMA ErrsKeeps ==
  ASSUME TypeOK, NEW c \in Client, ClientOK(c), ServerErrs(c)
  PROVE  TypeOK' /\ ClientOK(c)' /\ Others(c)
<1> DEFINE response == [createEchoResponse(TakenPayload(c)) EXCEPT !.header.magic = BadMagic]
           bad1 == sentBad[c] + 1
<1>1. TakenPayload(c) = TestPayload => serializePacket(response) = BadAnswer
  BY DEF BadAnswer
<1>2. Answers(c, response)
  BY DEF ServerErrs
<1>3. sentBad' = [sentBad EXCEPT ![c] = bad1] /\ bad1 \in {sentBad[c], sentBad[c] + 1}
  BY DEF ServerErrs
<1>4. sentBad[c] \in Nat /\ MaxBad \in Nat
  BY NumbersOf
<1>5. bad1 <= MaxBad /\ bad1 # sentBad[c]
  <2> DEFINE d == sentBad[c]
  <2>1. d \in Nat /\ d < MaxBad
    BY <1>4 DEF ServerErrs
  <2> HIDE DEF d
  <2>2. d + 1 <= MaxBad /\ d + 1 # d
    BY <1>4, <2>1
  <2> QED BY <2>2 DEF d
<1>6. BadAnswer = (IF bad1 = sentBad[c] THEN GoodAnswer ELSE BadAnswer)
  BY <1>5
<1> HIDE DEF response, bad1
<1> QED BY <1>1, <1>2, <1>3, <1>5, <1>6, AnswersKeeps

LEMMA BreaksKeeps ==
  ASSUME TypeOK, NEW c \in Client, ClientOK(c), LinkBreaks(c)
  PROVE  TypeOK' /\ ClientOK(c)' /\ Others(c)
<1>1. PICK m \in 0 .. Len(toClient[c]) :
           toClient' = [toClient EXCEPT ![c] = SubSeq(@, 1, m)]
  BY DEF LinkBreaks
<1>2. /\ link[c] = "up" /\ link'[c] = "broken" /\ pc'[c] = pc[c]
      /\ toServer'[c] = <<>> /\ toClient'[c] = SubSeq(toClient[c], 1, m)
      /\ done'[c] = done[c] /\ respLength'[c] = respLength[c]
      /\ payloadBuf'[c] = payloadBuf[c]
      /\ threadLatencies'[c] = threadLatencies[c] /\ rejected'[c] = rejected[c]
      /\ sentBad'[c] = sentBad[c]
  BY <1>1 DEF TypeOK, LinkBreaks, threadVars
<1>3. PICK k \in Nat, n \in Nat, p \in Nat, s \in 0 .. Chunks, cnt \in [Nat -> Nat] :
           KeptOf(c, n, p, s, cnt) /\ InStream(c, k, n, p, s, cnt)
  BY <1>2, StreamOf DEF ClientOK
<1> DEFINE at == 8 * Pieces(threadLatencies[c], rejected[c], pc[c] = "payload")
<1>4. at \in Nat /\ toClient[c] \in Seq(Byte)
  BY NumbersOf DEF At, Pay
<1>5. Wire(toClient[c], at, toServer[c], link[c] = "up", n, k, cnt)
  BY <1>3 DEF InStream
<1>6. (link[c] = "up") \in BOOLEAN
  OBVIOUS
<1> HIDE DEF at
<1>7. /\ SubSeq(toClient[c], 1, m) \in Seq(Byte)
      /\ Wire(SubSeq(toClient[c], 1, m), at, <<>>, FALSE, n, k, cnt)
  BY <1>4, <1>5, <1>6, WireBreaks
<1>8. TypeOK'
  <2>1. toServer' \in [Client -> Seq(Byte)]
    <3>1. <<>> \in Seq(Byte)
      OBVIOUS
    <3> QED BY <3>1 DEF TypeOK, LinkBreaks
  <2>2. toClient' \in [Client -> Seq(Byte)]
    BY <1>1, <1>7 DEF TypeOK
  <2>3. link' \in [Client -> {"none", "up", "broken", "closed"}]
    BY DEF TypeOK, LinkBreaks
  <2> QED BY <2>1, <2>2, <2>3 DEF TypeOK, LinkBreaks, threadVars, totalVars
<1>9. Life(c)'
  BY <1>2 DEF ClientOK, Life
<1>10. (link'[c] = "up") = FALSE
  BY <1>2
<1>11. KeptOf(c, n, p, s, cnt)'
  BY <1>2, <1>3 DEF KeptOf
<1>12. at = 8 * Pieces(threadLatencies'[c], rejected'[c], pc'[c] = "payload")
  BY <1>2 DEF at
<1>13. Wire(toClient'[c], at, toServer'[c], link'[c] = "up", n, k, cnt)
  BY <1>2, <1>7, <1>10
<1>14. Track(threadLatencies'[c], rejected'[c], pc'[c] = "payload", sentBad'[c], n, p, s, cnt)
  BY <1>2, <1>3 DEF InStream
<1>15. pc'[c] = "payload" => respLength'[c] = Len(TestPayload)
  BY <1>2, <1>3 DEF InStream
<1>16. InStream(c, k, n, p, s, cnt)'
  BY <1>2, <1>12, <1>13, <1>14, <1>15 DEF InStream
<1>17. Streams(c)' /\ Bounded(c)'
  BY <1>11, <1>16, StreamsIf
<1>18. Others(c)
  BY <1>1 DEF Others, Same, TypeOK, LinkBreaks, threadVars
<1> QED BY <1>8, <1>9, <1>17, <1>18 DEF ClientOK
-----------------------------------------------------------------------------
(***************************************************************************)
(* Reading.                                                                *)
(***************************************************************************)
LEMMA ReadKeeps ==
  ASSUME TypeOK, NEW c \in Client, NEW k \in Nat, NEW n \in Nat, NEW p, NEW s, NEW cnt,
         InStream(c, k, n, p, s, cnt), NEW m \in 0 .. Len(toClient[c]),
         toClient'[c] = SubSeq(toClient[c], m + 1, Len(toClient[c])),
         toServer'[c] = toServer[c], link'[c] = link[c], Written(c)' = Written(c),
         At(c)' = At(c) + m,
         pc'[c] = "payload" => respLength'[c] = Len(TestPayload),
         NEW p1, NEW s1, KeptOf(c, n, p1, s1, cnt)',
         Track(threadLatencies'[c], rejected'[c], pc'[c] = "payload", sentBad'[c], n, p1, s1, cnt)
  PROVE  toClient'[c] \in Seq(Byte) /\ Streams(c)' /\ Bounded(c)'
<1> DEFINE q == toClient[c]
           r == toServer[c]
           at == At(c)
           up == (link[c] = "up")
           rest == SubSeq(q, m + 1, Len(q))
<1>1. q \in Seq(Byte) /\ at \in Nat /\ up \in BOOLEAN
  BY NumbersOf
<1>2. Wire(q, at, r, up, n, k, cnt)
  BY DEF InStream, At, Pay
<1> HIDE DEF q, r, at, up
<1>3. m \in 0 .. Len(q)
  BY DEF q
<1> HIDE DEF rest
<1>4. rest \in Seq(Byte) /\ Wire(rest, at + m, r, up, n, k, cnt)
  BY <1>1, <1>2, <1>3, WireReads DEF rest
<1>5. /\ toClient'[c] = rest /\ toServer'[c] = r /\ (link'[c] = "up") = up
      /\ at + m = 8 * Pieces(threadLatencies'[c], rejected'[c], pc'[c] = "payload")
  BY DEF rest, q, r, at, up, At, Pay
<1>6. Wire(toClient'[c], 8 * Pieces(threadLatencies'[c], rejected'[c], pc'[c] = "payload"),
           toServer'[c], link'[c] = "up", n, k, cnt)
  BY <1>4, <1>5
<1>7. link'[c] = "up" => n + k = Written(c)'
  BY DEF InStream
<1>8. InStream(c, k, n, p1, s1, cnt)'
  BY <1>6, <1>7 DEF InStream
<1>9. Streams(c)' /\ Bounded(c)'
  BY <1>8, StreamsIf
<1> QED BY <1>4, <1>5, <1>9

(* A header is ahead: of a good answer, or of a wrong one, or part of that. *)
LEMMA AtHeader ==
  ASSUME TypeOK, NEW c \in Client, ClientOK(c), pc[c] = "header", CanRead(c, HEADER_SIZE)
  PROVE  \E k \in Nat, n \in Nat, p \in Nat, s \in 0 .. Chunks, cnt \in [Nat -> Nat] :
           /\ KeptOf(c, n, p, s, cnt) /\ InStream(c, k, n, p, s, cnt)
           /\ p < n
           /\ Response(c).ok =>
                /\ s = 0 /\ cnt[p + 1] = cnt[p]
                /\ Response(c) = [ok |-> TRUE, header |-> AnswerHeader(MAGIC_HEADER)]
           /\ ~Response(c).ok => cnt[p + 1] # cnt[p]
<1>1. link[c] \in {"up", "broken"}
  BY DEF ClientOK, Life
<1>2. PICK k \in Nat, n \in Nat, p \in Nat, s \in 0 .. Chunks, cnt \in [Nat -> Nat] :
           KeptOf(c, n, p, s, cnt) /\ InStream(c, k, n, p, s, cnt)
  BY <1>1, StreamOf DEF ClientOK
<1> DEFINE q == toClient[c]
           lat == threadLatencies[c]
           rej == rejected[c]
           at == 8 * Pieces(lat, rej, FALSE)
           out == [magic |-> MAGIC_HEADER, type |-> MessageType.UNKNOWN, length |-> 0]
<1>3. (pc[c] = "payload") = FALSE
  OBVIOUS
<1>4. /\ Track(lat, rej, FALSE, sentBad[c], n, p, s, cnt)
      /\ Wire(q, at, toServer[c], link[c] = "up", n, k, cnt)
  BY <1>2, <1>3 DEF InStream
<1>5. q \in Seq(Byte) /\ Len(q) >= 8
  BY NumbersOf DEF CanRead, HEADER_SIZE
<1>6. at = 8 * (Width * p + s)
  BY <1>4 DEF Track, Wide
<1>7. at + Len(q) <= Span * n /\ Carries(q, at, Answered(cnt))
  BY <1>4 DEF Wire
<1>8. s # 0 => Wrong(cnt, p)
  BY <1>4 DEF Track, Wrong
<1>9. Response(c) = Heads(q, out)
  BY DEF Response, Heads
<1> HIDE DEF q, at, out
<1>10. /\ p < n
       /\ ~Wrong(cnt, p) => Heads(q, out) = [ok |-> TRUE, header |-> AnswerHeader(MAGIC_HEADER)]
       /\ Wrong(cnt, p) => Refused(q, out)
  <2>1. Ahead(q, at, n, p, s)
    BY <1>5, <1>6, <1>7 DEF Ahead
  <2>2. p < n
    BY <1>5, <1>7, <1>8, <2>1, HeaderAhead
  <2>3. ~Wrong(cnt, p) => Heads(q, out) = [ok |-> TRUE, header |-> AnswerHeader(MAGIC_HEADER)]
    BY <1>5, <1>7, <1>8, <2>1, HeaderAhead
  <2>4. Wrong(cnt, p) => Refused(q, out)
    BY <1>5, <1>7, <1>8, <2>1, HeaderAhead
  <2> QED BY <2>2, <2>3, <2>4, Zenon
<1>11. CASE cnt[p + 1] = cnt[p]
  <2>1. s = 0
    BY <1>8, <1>11 DEF Wrong
  <2>2. Response(c) = [ok |-> TRUE, header |-> AnswerHeader(MAGIC_HEADER)]
    BY <1>9, <1>10, <1>11 DEF Wrong
  <2>3. Response(c).ok = TRUE
    BY <2>2
  <2> HIDE DEF Response
  <2> QED BY <1>2, <1>10, <1>11, <2>1, <2>2, <2>3
<1>12. CASE cnt[p + 1] # cnt[p]
  <2>1. ~Response(c).ok
    BY <1>9, <1>10, <1>12 DEF Wrong, Refused
  <2> DEFINE ok == Response(c).ok
             good == Response(c) = [ok |-> TRUE, header |-> AnswerHeader(MAGIC_HEADER)]
  <2>2. /\ KeptOf(c, n, p, s, cnt) /\ InStream(c, k, n, p, s, cnt) /\ p < n
        /\ ok => s = 0 /\ cnt[p + 1] = cnt[p] /\ good
        /\ ~ok => cnt[p + 1] # cnt[p]
    BY <1>2, <1>10, <1>12, <2>1
  <2> HIDE DEF ok, good
  <2>3. \E k1 \in Nat, n1 \in Nat, p1 \in Nat, s1 \in 0 .. Chunks, cnt1 \in [Nat -> Nat] :
          /\ KeptOf(c, n1, p1, s1, cnt1) /\ InStream(c, k1, n1, p1, s1, cnt1) /\ p1 < n1
          /\ ok => s1 = 0 /\ cnt1[p1 + 1] = cnt1[p1] /\ good
          /\ ~ok => cnt1[p1 + 1] # cnt1[p1]
    BY <2>2
  <2> QED BY <2>3 DEF ok, good
<1> QED BY <1>11, <1>12

(* A request more has been gone through.                                   *)
LEMMA NextKeepsLife ==
  ASSUME TypeOK, NEW c \in Client, ClientOK(c), pc[c] \in {"header", "payload"},
         NextRequest(c), link'[c] = link[c],
         threadLatencies'[c] + rejected'[c] = threadLatencies[c] + rejected[c] + 1,
         payloadBuf'[c] \in {<<>>, TestPayload}
  PROVE  /\ Life(c)' /\ pc' \in [Client -> Places] /\ done' \in [Client -> 0 .. Requests]
         /\ Written(c)' = Written(c) /\ pc'[c] # "payload"
<1>1. /\ done'[c] = done[c] + 1
      /\ pc'[c] = (IF done[c] + 1 < Requests THEN "write" ELSE "goodbye")
  BY DEF TypeOK, NextRequest, Goes, More
<1>2. link[c] \in {"up", "broken"} /\ done[c] < Requests
      /\ done[c] = threadLatencies[c] + rejected[c]
  BY DEF ClientOK, Life
<1>3. done[c] \in Nat /\ Requests \in Nat
  BY NumbersOf
<1>4. done[c] + 1 <= Requests /\ done[c] + 1 \in 0 .. Requests
      /\ (~(done[c] + 1 < Requests) => done[c] + 1 = Requests)
  <2> DEFINE d == done[c]
  <2>1. d \in Nat /\ d < Requests
    BY <1>2, <1>3
  <2> HIDE DEF d
  <2>2. d + 1 <= Requests /\ d + 1 \in 0 .. Requests /\ (~(d + 1 < Requests) => d + 1 = Requests)
    BY <1>3, <2>1
  <2> QED BY <2>2 DEF d
<1>5. done'[c] = threadLatencies'[c] + rejected'[c]
  BY <1>1, <1>2
<1>6. Written(c) = done[c] + 1 /\ Written(c)' = done[c] + 1 + 0
  BY <1>1 DEF Written
<1>7. Written(c)' = Written(c)
  <2>1. done[c] + 1 + 0 = done[c] + 1
    BY <1>3
  <2> QED BY <1>6, <2>1
<1>8. Life(c)'
  <2>1. pc'[c] \in {"write", "goodbye"} /\ link'[c] \in {"up", "broken"}
    BY <1>1, <1>2
  <2>2. /\ pc'[c] = "write" => done'[c] < Requests
        /\ pc'[c] = "goodbye" => done'[c] = Requests
    BY <1>1, <1>4
  <2> QED BY <1>5, <2>1, <2>2 DEF Life
<1>9. pc' \in [Client -> Places]
  BY DEF TypeOK, NextRequest, Goes, Places
<1>10. done' \in [Client -> 0 .. Requests]
  BY <1>4 DEF TypeOK, NextRequest
<1> QED BY <1>1, <1>7, <1>8, <1>9, <1>10

(* What is counted as completed is an echo of the whole payload.           *)
Echoed(c) == threadLatencies'[c] # threadLatencies[c] => payloadBuf'[c] = TestPayload

LEMMA RejectKeeps ==
  ASSUME TypeOK, NEW c \in Client, ClientOK(c), RejectHeader(c)
  PROVE  TypeOK' /\ ClientOK(c)' /\ Others(c) /\ Echoed(c)
<1>1. /\ pc[c] = "header" /\ CanRead(c, HEADER_SIZE) /\ ~Response(c).ok
      /\ NextRequest(c) /\ link'[c] = link[c] /\ toServer'[c] = toServer[c]
      /\ toClient'[c] = SubSeq(toClient[c], 8 + 1, Len(toClient[c]))
      /\ payloadBuf'[c] = payloadBuf[c]
      /\ threadLatencies'[c] = threadLatencies[c] /\ rejected'[c] = rejected[c] + 1
      /\ sentBad'[c] = sentBad[c]
  BY DEF TypeOK, RejectHeader, In, Reads, HEADER_SIZE
<1>2. /\ threadLatencies[c] \in Nat /\ rejected[c] \in Nat /\ Len(toClient[c]) \in Nat
      /\ At(c) \in Nat
  BY NumbersOf
<1>3. threadLatencies'[c] + rejected'[c] = threadLatencies[c] + rejected[c] + 1
  <2> DEFINE a == threadLatencies[c]
             b == rejected[c]
  <2>1. a \in Nat /\ b \in Nat /\ threadLatencies'[c] = a /\ rejected'[c] = b + 1
    BY <1>1, <1>2
  <2> HIDE DEF a, b
  <2>2. a + (b + 1) = a + b + 1
    BY <2>1
  <2> QED BY <2>1, <2>2 DEF a, b
<1>4. payloadBuf'[c] \in {<<>>, TestPayload}
  BY <1>1 DEF ClientOK, Life
<1>5. /\ Life(c)' /\ pc' \in [Client -> Places] /\ done' \in [Client -> 0 .. Requests]
      /\ Written(c)' = Written(c) /\ pc'[c] # "payload"
  BY <1>1, <1>3, <1>4, NextKeepsLife
<1>6. PICK k \in Nat, n \in Nat, p \in Nat, s \in 0 .. Chunks, cnt \in [Nat -> Nat] :
           /\ KeptOf(c, n, p, s, cnt) /\ InStream(c, k, n, p, s, cnt)
           /\ p < n
           /\ Response(c).ok =>
                /\ s = 0 /\ cnt[p + 1] = cnt[p]
                /\ Response(c) = [ok |-> TRUE, header |-> AnswerHeader(MAGIC_HEADER)]
           /\ ~Response(c).ok => cnt[p + 1] # cnt[p]
  BY <1>1, AtHeader
<1> DEFINE lat == threadLatencies[c]
           rej == rejected[c]
           bad == sentBad[c]
           rej1 == rej + 1
<1>7. Kept(lat, rej, bad, n, p, s, cnt) /\ Track(lat, rej, FALSE, bad, n, p, s, cnt)
  <2>1. (pc[c] = "payload") = FALSE
    BY <1>1
  <2> QED BY <1>6, <2>1 DEF KeptOf, InStream
<1>8. /\ threadLatencies'[c] = lat /\ rejected'[c] = rej1 /\ sentBad'[c] = bad
      /\ (pc'[c] = "payload") = FALSE /\ (pc[c] = "payload") = FALSE
  BY <1>1, <1>5
<1>9. /\ Pieces(lat, rej1, FALSE) = Pieces(lat, rej, FALSE) + 1
      /\ \E p1 \in Nat, s1 \in 0 .. Chunks :
           /\ Kept(lat, rej1, bad, n, p1, s1, cnt)
           /\ Track(lat, rej1, FALSE, bad, n, p1, s1, cnt)
  <2>1. p < n /\ Wrong(cnt, p)
    BY <1>1, <1>6 DEF Wrong
  <2> HIDE DEF lat, rej, bad
  <2>2. /\ Pieces(lat, rej + 1, FALSE) = Pieces(lat, rej, FALSE) + 1
        /\ \E p1 \in Nat, s1 \in 0 .. Chunks :
             /\ Kept(lat, rej + 1, bad, n, p1, s1, cnt)
             /\ Track(lat, rej + 1, FALSE, bad, n, p1, s1, cnt)
    BY <1>7, <2>1, TrackRejects
  <2> QED BY <2>2, Zenon
<1>10. PICK p1 \in Nat, s1 \in 0 .. Chunks :
           /\ Kept(lat, rej1, bad, n, p1, s1, cnt)
           /\ Track(lat, rej1, FALSE, bad, n, p1, s1, cnt)
  BY <1>9
<1>11. At(c)' = At(c) + 8
  <2> DEFINE v == Pieces(lat, rej, FALSE)
             w == Pieces(lat, rej1, FALSE)
  <2>1. w = v + 1 /\ v \in Nat
    <3>1. Wide(lat) \in Nat /\ rej \in Nat
      BY <1>2, WideAt
    <3>2. v = Wide(lat) + rej + 0
      BY DEF Pieces
    <3>3. w = v + 1
      BY <1>9
    <3> DEFINE a == Wide(lat)
    <3>4. a \in Nat /\ rej \in Nat /\ v = a + rej + 0
      BY <3>1, <3>2
    <3> HIDE DEF a, v, rej
    <3>5. v \in Nat
      BY <3>4
    <3> QED BY <3>3, <3>5
  <2>2. At(c) = 8 * v /\ At(c)' = 8 * w
    BY <1>8 DEF At, Pay
  <2> HIDE DEF v, w
  <2>3. 8 * w = 8 * v + 8
    BY <2>1
  <2> QED BY <2>2, <2>3
<1> HIDE DEF lat, rej, bad, rej1
<1>12. KeptOf(c, n, p1, s1, cnt)'
  BY <1>8, <1>10 DEF KeptOf
<1>13. Track(threadLatencies'[c], rejected'[c], pc'[c] = "payload", sentBad'[c], n, p1, s1, cnt)
  BY <1>8, <1>10
<1>14. 8 \in 0 .. Len(toClient[c])
  BY <1>1, <1>2 DEF CanRead, HEADER_SIZE
<1>15. toClient'[c] \in Seq(Byte) /\ Streams(c)' /\ Bounded(c)'
  BY <1>1, <1>5, <1>6, <1>11, <1>12, <1>13, <1>14, ReadKeeps
<1>16. TypeOK'
  <2>1. toClient' \in [Client -> Seq(Byte)]
    BY <1>15 DEF TypeOK, RejectHeader, Reads
  <2>2. rejected' \in [Client -> Nat]
    <3> DEFINE b == rejected[c]
    <3>0. b \in Nat
      BY <1>2
    <3> HIDE DEF b
    <3>1. b + 1 \in Nat
      BY <3>0
    <3> USE DEF b
    <3> QED BY <3>1 DEF TypeOK, RejectHeader
  <2>3. errors' \in Nat
    BY DEF TypeOK, RejectHeader, CountsError
  <2> QED BY <1>5, <2>1, <2>2, <2>3 DEF TypeOK, RejectHeader
<1>17. Others(c)
  BY DEF Others, Same, TypeOK, RejectHeader, NextRequest, Goes, Reads
<1> QED BY <1>1, <1>5, <1>15, <1>16, <1>17 DEF ClientOK, Echoed

(* With a header alone, or with the payload, a request is completed.       *)
LEMMA CompletedKeeps ==
  ASSUME TypeOK, NEW c \in Client, ClientOK(c), pc[c] \in {"header", "payload"},
         Completed(c, TestPayload), NEW m \in 0 .. Len(toClient[c]), Reads(c, m),
         NEW k \in Nat, NEW n \in Nat, NEW p, NEW s, NEW cnt, InStream(c, k, n, p, s, cnt),
         NEW p1, NEW s1,
         Kept(threadLatencies[c] + 1, rejected[c], sentBad[c], n, p1, s1, cnt),
         Track(threadLatencies[c] + 1, rejected[c], FALSE, sentBad[c], n, p1, s1, cnt),
         8 * Pieces(threadLatencies[c] + 1, rejected[c], FALSE) = At(c) + m
  PROVE  TypeOK' /\ ClientOK(c)' /\ Others(c) /\ Echoed(c)
<1>1. /\ NextRequest(c) /\ link'[c] = link[c] /\ toServer'[c] = toServer[c]
      /\ toClient'[c] = SubSeq(toClient[c], m + 1, Len(toClient[c]))
      /\ payloadBuf'[c] = TestPayload
      /\ threadLatencies'[c] = threadLatencies[c] + 1 /\ rejected'[c] = rejected[c]
      /\ sentBad'[c] = sentBad[c]
  BY DEF TypeOK, Completed, Reads
<1>2. threadLatencies[c] \in Nat /\ rejected[c] \in Nat
  BY NumbersOf
<1>3. threadLatencies'[c] + rejected'[c] = threadLatencies[c] + rejected[c] + 1
  <2> DEFINE a == threadLatencies[c]
             b == rejected[c]
  <2>1. a \in Nat /\ b \in Nat /\ threadLatencies'[c] = a + 1 /\ rejected'[c] = b
    BY <1>1, <1>2
  <2> HIDE DEF a, b
  <2>2. (a + 1) + b = a + b + 1
    BY <2>1
  <2> QED BY <2>1, <2>2 DEF a, b
<1>4. /\ Life(c)' /\ pc' \in [Client -> Places] /\ done' \in [Client -> 0 .. Requests]
      /\ Written(c)' = Written(c) /\ pc'[c] # "payload"
  <2>1. payloadBuf'[c] \in {<<>>, TestPayload}
    BY <1>1
  <2> QED BY <1>1, <1>3, <2>1, NextKeepsLife
<1>5. (pc'[c] = "payload") = FALSE
  BY <1>4
<1>6. KeptOf(c, n, p1, s1, cnt)'
  BY <1>1 DEF KeptOf
<1>7. Track(threadLatencies'[c], rejected'[c], pc'[c] = "payload", sentBad'[c], n, p1, s1, cnt)
  BY <1>1, <1>5
<1>8. At(c)' = At(c) + m
  BY <1>1, <1>5 DEF At, Pay
<1>9. toClient'[c] \in Seq(Byte) /\ Streams(c)' /\ Bounded(c)'
  BY <1>1, <1>4, <1>6, <1>7, <1>8, ReadKeeps
<1>10. TypeOK'
  <2>1. toClient' \in [Client -> Seq(Byte)]
    BY <1>9 DEF TypeOK, Reads
  <2>2. threadLatencies' \in [Client -> Nat]
    BY <1>2 DEF TypeOK, Completed
  <2>3. payloadBuf' \in [Client -> Seq(Byte)]
    BY PayloadBytes DEF TypeOK, Completed
  <2>4. completed' \in Nat
    BY DEF TypeOK, Completed
  <2> QED BY <1>4, <2>1, <2>2, <2>3, <2>4 DEF TypeOK, Completed
<1>11. Others(c)
  BY DEF Others, Same, TypeOK, Completed, NextRequest, Goes, Reads
<1> QED BY <1>1, <1>4, <1>9, <1>10, <1>11 DEF ClientOK, Echoed

(* The header of an answer to this very request.                           *)
LEMMA HeaderKeeps ==
  ASSUME TypeOK, NEW c \in Client, ClientOK(c), ReadHeader(c)
  PROVE  TypeOK' /\ ClientOK(c)' /\ Others(c) /\ Echoed(c)
<1>1. /\ pc[c] = "header" /\ CanRead(c, HEADER_SIZE) /\ Response(c).ok
      /\ Reads(c, 8) /\ toClient'[c] = SubSeq(toClient[c], 8 + 1, Len(toClient[c]))
  BY DEF TypeOK, ReadHeader, In, Reads, HEADER_SIZE
<1>2. PICK k \in Nat, n \in Nat, p \in Nat, s \in 0 .. Chunks, cnt \in [Nat -> Nat] :
           /\ KeptOf(c, n, p, s, cnt) /\ InStream(c, k, n, p, s, cnt)
           /\ p < n
           /\ Response(c).ok =>
                /\ s = 0 /\ cnt[p + 1] = cnt[p]
                /\ Response(c) = [ok |-> TRUE, header |-> AnswerHeader(MAGIC_HEADER)]
           /\ ~Response(c).ok => cnt[p + 1] # cnt[p]
  BY <1>1, AtHeader
<1> DEFINE lat == threadLatencies[c]
           rej == rejected[c]
           bad == sentBad[c]
           v == Pieces(lat, rej, FALSE)
<1>3. /\ s = 0 /\ cnt[p + 1] = cnt[p] /\ p < n
      /\ Response(c).header = AnswerHeader(MAGIC_HEADER)
  <2>1. Response(c) = [ok |-> TRUE, header |-> AnswerHeader(MAGIC_HEADER)]
    BY <1>1, <1>2
  <2>2. Response(c).header = AnswerHeader(MAGIC_HEADER)
    BY <2>1
  <2> QED BY <1>1, <1>2, <2>2
<1>4. Kept(lat, rej, bad, n, p, 0, cnt) /\ Track(lat, rej, FALSE, bad, n, p, 0, cnt)
  <2>1. (pc[c] = "payload") = FALSE
    BY <1>1
  <2> QED BY <1>2, <1>3, <2>1 DEF KeptOf, InStream
<1>5. Response(c).header.length = Len(TestPayload)
  BY <1>3 DEF AnswerHeader
<1>6. Len(TestPayload) = 8 * Chunks /\ Chunks \in Nat /\ Len(TestPayload) \in Nat
  BY Lengths, LenProperties, PayloadBytes
<1>7. 8 \in 0 .. Len(toClient[c])
  <2>1. Len(toClient[c]) \in Nat
    BY NumbersOf
  <2> QED BY <1>1, <2>1 DEF CanRead, HEADER_SIZE
<1>8. v \in Nat /\ At(c) = 8 * v
  <2>1. (pc[c] = "payload") = FALSE
    BY <1>1
  <2>2. Wide(lat) \in Nat /\ rej \in Nat
    BY NumbersOf, WideAt
  <2> DEFINE a == Wide(lat)
             d == rej
  <2>3. v = a + d + 0 /\ a \in Nat /\ d \in Nat
    BY <2>2 DEF Pieces
  <2> HIDE DEF a, d, v
  <2>4. v \in Nat
    BY <2>3
  <2> QED BY <2>1, <2>4 DEF At, Pay, v
<1> HIDE DEF lat, rej, bad, v
<1>9. CASE Chunks = 0
  <2>1. Len(TestPayload) = 0
    BY <1>6, <1>9
  <2>2. TestPayload = <<>>
    BY <2>1, PayloadBytes, EmptySeq
  <2>3. payloadBuf[c] = TestPayload
    BY <2>2 DEF ClientOK, Life
  <2>4. Completed(c, TestPayload)
    BY <1>5, <2>1, <2>3 DEF ReadHeader, HasPayload
  <2>5. /\ Kept(lat + 1, rej, bad, n, p + 1, 0, cnt)
        /\ Track(lat + 1, rej, FALSE, bad, n, p + 1, 0, cnt)
        /\ Pieces(lat + 1, rej, FALSE) = v + 1
    BY <1>3, <1>4, <1>9, TrackHeader DEF v
  <2>6. 8 * Pieces(lat + 1, rej, FALSE) = At(c) + 8
    <3> DEFINE w == Pieces(lat + 1, rej, FALSE)
               a == At(c)
    <3>1. w = v + 1 /\ v \in Nat /\ a = 8 * v
      BY <1>8, <2>5
    <3> HIDE DEF w, a
    <3>2. 8 * w = a + 8
      BY <3>1
    <3> QED BY <3>2 DEF w, a
  <2> QED BY <1>1, <1>2, <1>7, <2>4, <2>5, <2>6, CompletedKeeps DEF lat, rej, bad
<1>10. CASE Chunks # 0
  <2>1. HasPayload(Response(c).header)
    BY <1>5, <1>6, <1>10 DEF HasPayload
  <2>2. /\ respLength'[c] = Len(TestPayload) /\ pc'[c] = "payload"
        /\ link'[c] = link[c] /\ toServer'[c] = toServer[c] /\ sentBad'[c] = bad
        /\ done'[c] = done[c] /\ payloadBuf'[c] = payloadBuf[c]
        /\ threadLatencies'[c] = lat /\ rejected'[c] = rej
    BY <1>5, <2>1 DEF TypeOK, ReadHeader, Goes, lat, rej, bad, streamVars
  <2>3. Kept(lat, rej, bad, n, p, 1, cnt)
    BY <1>3, <1>4, <1>10, TrackHeader
  <2>4. Track(lat, rej, TRUE, bad, n, p, 1, cnt)
    BY <1>3, <1>4, <1>10, TrackHeader
  <2>5. Pieces(lat, rej, TRUE) = v + 1
    BY <1>3, <1>4, <1>10, TrackHeader DEF v
  <2>6. (pc'[c] = "payload") = TRUE
    BY <2>2
  <2>7. At(c)' = At(c) + 8
    <3>1. At(c)' = 8 * (v + 1)
      BY <2>2, <2>5, <2>6 DEF At, Pay
    <3> QED BY <1>8, <3>1
  <2>8. KeptOf(c, n, p, 1, cnt)'
    BY <2>2, <2>3 DEF KeptOf
  <2>9. Track(threadLatencies'[c], rejected'[c], pc'[c] = "payload", sentBad'[c], n, p, 1, cnt)
    BY <2>2, <2>4, <2>6
  <2>10. Written(c)' = Written(c)
    BY <1>1, <2>2 DEF Written
  <2>11. toClient'[c] \in Seq(Byte) /\ Streams(c)' /\ Bounded(c)'
    BY <1>1, <1>2, <1>7, <2>2, <2>7, <2>8, <2>9, <2>10, ReadKeeps
  <2>12. Life(c)'
    BY <1>1, <2>2 DEF ClientOK, Life, lat, rej
  <2>13. TypeOK'
    <3>1. toClient' \in [Client -> Seq(Byte)]
      BY <2>11 DEF TypeOK, ReadHeader, Reads
    <3>2. respLength' \in [Client -> Nat] /\ pc' \in [Client -> Places]
      BY <1>5, <1>6, <2>1 DEF TypeOK, ReadHeader, Goes, Places
    <3> QED BY <2>1, <3>1, <3>2 DEF TypeOK, ReadHeader, totalVars
  <2>14. Others(c)
    BY <2>1 DEF Others, Same, TypeOK, ReadHeader, Goes, Reads
  <2> QED BY <2>2, <2>11, <2>12, <2>13, <2>14 DEF ClientOK, Echoed, lat
<1> QED BY <1>9, <1>10

(* The bytes that follow that header are the test payload.                 *)
LEMMA PayloadAhead ==
  ASSUME NEW q \in Seq(Byte), NEW at, NEW cnt, Carries(q, at, Answered(cnt)),
         NEW p \in Nat, Place(at, p, 8), ~Wrong(cnt, p), Len(q) >= Len(TestPayload)
  PROVE  SubSeq(q, 1, Len(TestPayload)) = TestPayload
<1> DEFINE m == Len(TestPayload)
           r == SubSeq(q, 1, m)
           f == Answered(cnt)
<1>1. m \in Nat /\ Span = 8 + m /\ Len(q) \in Nat /\ m <= Len(q)
  BY Lengths, LenProperties
<1>2. f[p] = GoodAnswer
  BY DEF Answered, Wrong
<1>3. ASSUME NEW i \in 1 .. m
      PROVE  q[i] = TestPayload[i]
  <2>1. i \in 1 .. Len(q) /\ 8 + i <= Span
    BY <1>1
  <2>2. Carries(q, at, f)
    OBVIOUS
  <2> HIDE DEF f
  <2>3. q[i] = f[p][8 + i]
    BY <2>1, <2>2, CarriesBytes
  <2>4. GoodAnswer[8 + i] = TestPayload[i]
    BY AnswerBytes
  <2> QED BY <1>2, <2>3, <2>4
<1>4. r \in Seq(Byte) /\ Len(r) = m /\ \A i \in 1 .. m : r[i] = q[i]
  <2> HIDE DEF m
  <2>1. 1 \in 1 .. Len(q) + 1 /\ m \in 1 - 1 .. Len(q)
    BY <1>1
  <2> QED BY <1>1, <2>1, SubSeqProperties
<1> HIDE DEF r
<1>5. r = TestPayload
  BY <1>3, <1>4, PayloadBytes, SeqEqual
<1> QED BY <1>5 DEF r

LEMMA PayloadKeeps ==
  ASSUME TypeOK, NEW c \in Client, ClientOK(c), ReadPayload(c)
  PROVE  TypeOK' /\ ClientOK(c)' /\ Others(c) /\ Echoed(c)
<1>1. /\ pc[c] = "payload" /\ CanRead(c, respLength[c]) /\ Reads(c, respLength[c])
      /\ Completed(c, SubSeq(toClient[c], 1, respLength[c]))
  BY DEF ReadPayload, In
<1>2. link[c] \in {"up", "broken"}
  BY <1>1 DEF ClientOK, Life
<1>3. PICK k \in Nat, n \in Nat, p \in Nat, s \in 0 .. Chunks, cnt \in [Nat -> Nat] :
           KeptOf(c, n, p, s, cnt) /\ InStream(c, k, n, p, s, cnt)
  BY <1>2, StreamOf DEF ClientOK
<1> DEFINE lat == threadLatencies[c]
           rej == rejected[c]
           bad == sentBad[c]
           q == toClient[c]
           at == At(c)
<1>4. /\ Kept(lat, rej, bad, n, p, s, cnt) /\ Track(lat, rej, TRUE, bad, n, p, s, cnt)
      /\ respLength[c] = Len(TestPayload) /\ at = 8 * Pieces(lat, rej, TRUE)
      /\ Carries(q, at, Answered(cnt))
  <2>1. (pc[c] = "payload") = TRUE
    BY <1>1
  <2> QED BY <1>1, <1>3, <2>1 DEF KeptOf, InStream, Wire, At, Pay
<1>5. q \in Seq(Byte) /\ Len(q) \in Nat /\ Len(q) >= Len(TestPayload)
  BY <1>1, <1>4, NumbersOf DEF CanRead
<1>6. Completed(c, SubSeq(q, 1, Len(TestPayload))) /\ Reads(c, Len(TestPayload))
  BY <1>1, <1>4
<1> HIDE DEF lat, rej, bad, q, at
<1>7. p < n /\ s = 1 /\ cnt[p + 1] = cnt[p] /\ Pieces(lat, rej, TRUE) = Wide(p) + 1
  <2>1. s = 1 /\ p < n /\ cnt[p + 1] = cnt[p]
    BY <1>4 DEF Track
  <2>2. Pieces(lat, rej, TRUE) = Wide(p) + 1
    BY <1>4, <2>1 DEF Track
  <2> QED BY <2>1, <2>2, Zenon
<1>8. Kept(lat + 1, rej, bad, n, p + 1, 0, cnt)
  BY <1>4, TrackPayload
<1>9. Track(lat + 1, rej, FALSE, bad, n, p + 1, 0, cnt)
  BY <1>4, TrackPayload
<1>10. Pieces(lat + 1, rej, FALSE) = Pieces(lat, rej, TRUE) + Chunks
  BY <1>4, TrackPayload
<1>11. /\ Chunks \in Nat /\ Chunks >= 1 /\ Len(TestPayload) = 8 * Chunks
       /\ Width = Chunks + 1 /\ Span = 8 * Width /\ Span = 8 + Len(TestPayload)
  BY <1>3, <1>7, Lengths DEF Width, Span
<1>12. Place(at, p, 8)
  <2> DEFINE w == Wide(p)
  <2>1. w \in Nat /\ at = 8 * (w + 1)
    BY <1>4, <1>7, WideAt
  <2>2. Span * p = 8 * w
    BY <1>11 DEF Wide
  <2> HIDE DEF w
  <2>3. at = Span * p + 8
    BY <2>1, <2>2
  <2>4. 8 \in 0 .. Span - 1
    BY <1>11
  <2> QED BY <2>3, <2>4 DEF Place
<1>13. SubSeq(q, 1, Len(TestPayload)) = TestPayload
  BY <1>4, <1>5, <1>7, <1>12, PayloadAhead DEF Wrong
<1>14. Completed(c, TestPayload)
  BY <1>6, <1>13
<1>15. 8 * Pieces(lat + 1, rej, FALSE) = at + Len(TestPayload)
  <2> DEFINE v == Pieces(lat, rej, TRUE)
             w == Pieces(lat + 1, rej, FALSE)
             a == Wide(p)
  <2>1. w = v + Chunks /\ at = 8 * v /\ v = a + 1 /\ a \in Nat
    BY <1>4, <1>7, <1>10, WideAt
  <2> HIDE DEF v, w, a
  <2>2. 8 * w = at + Len(TestPayload)
    BY <1>11, <2>1
  <2> QED BY <2>2 DEF w
<1>16. Len(TestPayload) \in 0 .. Len(toClient[c])
  BY <1>5, <1>11 DEF q
<1> QED BY <1>1, <1>3, <1>6, <1>8, <1>9, <1>14, <1>15, <1>16, CompletedKeeps DEF lat, rej, bad, at
-----------------------------------------------------------------------------
(***************************************************************************)
(* The totals.  A step adds to the globals what it adds to the counters    *)
(* of its client: completed to its latencies; completed and errors to the  *)
(* requests gone through, and to the threads that failed; latencies to     *)
(* those of the threads that ended.                                        *)
(***************************************************************************)
HasFailed(c) == IF pc[c] = "failed" THEN 1 ELSE 0
HasMerged(c) == IF pc[c] = "ended" THEN threadLatencies[c] ELSE 0
Merged == [c \in Client |-> HasMerged(c)]

Booked(c) ==
  /\ completed' + threadLatencies[c] = completed + threadLatencies'[c]
  /\ completed' + errors' + done[c] + HasFailed(c)
       = completed + errors + done'[c] + HasFailed(c)'
  /\ latencies' + HasMerged(c) = latencies + HasMerged(c)'

(* No thread leaves its end, or goes back to before its start.             *)
Onward(c) ==
  /\ main' = main
  /\ \/ pc'[c] = pc[c]
     \/ pc[c] \notin {"ended", "failed"} /\ pc'[c] # "not started"

(* A step that counts nothing.                                             *)
Quiet(c) ==
  /\ main' = main /\ completed' = completed /\ errors' = errors /\ latencies' = latencies
  /\ threadLatencies'[c] = threadLatencies[c] /\ done'[c] = done[c]
  /\ \/ pc'[c] = pc[c]
     \/ /\ pc[c] \notin {"ended", "failed"}
        /\ pc'[c] \notin {"ended", "failed", "not started"}

LEMMA QuietBooks ==
  ASSUME NEW c, Quiet(c)
  PROVE  Booked(c) /\ Onward(c) /\ Echoed(c)
<1>1. HasFailed(c)' = HasFailed(c) /\ HasMerged(c)' = HasMerged(c)
  BY DEF Quiet, HasFailed, HasMerged
<1> QED BY <1>1 DEF Quiet, Booked, Onward, Echoed

LEMMA ThrowsBooks ==
  ASSUME TypeOK, NEW c \in Client, Throws(c), pc[c] \notin {"ended", "failed"}
  PROVE  Booked(c) /\ Onward(c) /\ Echoed(c)
<1>1. /\ pc'[c] = "failed" /\ main' = main /\ completed' = completed
      /\ errors' = errors + 1 /\ latencies' = latencies
      /\ threadLatencies'[c] = threadLatencies[c] /\ done'[c] = done[c]
  BY DEF TypeOK, Throws, Goes, CountsError
<1>2. /\ HasFailed(c) = 0 /\ HasFailed(c)' = 1
      /\ HasMerged(c) = 0 /\ HasMerged(c)' = 0
  BY <1>1 DEF HasFailed, HasMerged
<1>3. completed' + errors' + done[c] + 0 = completed + errors + done'[c] + 1
  <2> DEFINE a == completed
             b == errors
             d == done[c]
  <2>1. a \in Nat /\ b \in Nat /\ d \in Nat
    BY NumbersOf DEF TypeOK
  <2> HIDE DEF a, b, d
  <2>2. a + (b + 1) + d + 0 = a + b + d + 1
    BY <2>1
  <2> QED BY <1>1, <2>2 DEF a, b, d
<1> QED BY <1>1, <1>2, <1>3 DEF Booked, Onward, Echoed

LEMMA MergeBooks ==
  ASSUME TypeOK, NEW c \in Client, Merge(c)
  PROVE  Booked(c) /\ Onward(c) /\ Echoed(c)
<1>1. /\ pc[c] = "merge" /\ pc'[c] = "ended" /\ main' = main /\ completed' = completed
      /\ errors' = errors /\ latencies' = latencies + threadLatencies[c]
      /\ threadLatencies'[c] = threadLatencies[c] /\ done'[c] = done[c]
  BY DEF TypeOK, Merge, In, Goes
<1>2. /\ HasFailed(c) = 0 /\ HasFailed(c)' = 0
      /\ HasMerged(c) = 0 /\ HasMerged(c)' = threadLatencies[c]
  BY <1>1 DEF HasFailed, HasMerged
<1>3. latencies' + 0 = latencies + threadLatencies[c]
  <2> DEFINE a == latencies
             b == threadLatencies[c]
  <2>1. a \in Nat /\ b \in Nat /\ latencies' = a + b
    BY <1>1, NumbersOf DEF TypeOK
  <2> HIDE DEF a, b
  <2>2. latencies' + 0 = a + b
    BY <2>1
  <2> QED BY <2>2 DEF a, b
<1> QED BY <1>1, <1>2, <1>3 DEF Booked, Onward, Echoed

(* A request is gone through: completed, or rejected.                      *)
LEMMA RequestBooks ==
  ASSUME TypeOK, NEW c \in Client, pc[c] \in {"header", "payload"}, main' = main,
         NextRequest(c), latencies' = latencies,
         \/ /\ completed' = completed + 1 /\ errors' = errors
            /\ threadLatencies'[c] = threadLatencies[c] + 1
         \/ /\ completed' = completed /\ errors' = errors + 1
            /\ threadLatencies'[c] = threadLatencies[c]
  PROVE  Booked(c) /\ Onward(c)
<1>1. done'[c] = done[c] + 1 /\ pc'[c] \in {"write", "goodbye"}
  BY DEF TypeOK, NextRequest, Goes
<1>2. /\ HasFailed(c) = 0 /\ HasFailed(c)' = 0
      /\ HasMerged(c) = 0 /\ HasMerged(c)' = 0
  BY <1>1 DEF HasFailed, HasMerged
<1> DEFINE a == completed
           b == errors
           d == done[c]
           l == threadLatencies[c]
           a1 == completed'
           b1 == errors'
           d1 == done'[c]
           l1 == threadLatencies'[c]
<1>3. /\ a \in Nat /\ b \in Nat /\ d \in Nat /\ l \in Nat /\ d1 = d + 1
      /\ \/ a1 = a + 1 /\ b1 = b /\ l1 = l + 1
         \/ a1 = a /\ b1 = b + 1 /\ l1 = l
  BY <1>1, NumbersOf DEF TypeOK
<1> HIDE DEF a, b, d, l, a1, b1, d1, l1
<1>4. a1 + l = a + l1 /\ a1 + b1 + d + 0 = a + b + d1 + 0
  BY <1>3
<1>5. completed' + threadLatencies[c] = completed + threadLatencies'[c]
  BY <1>4 DEF a, l, a1, l1
<1>6. completed' + errors' + done[c] + 0 = completed + errors + done'[c] + 0
  BY <1>4 DEF a, b, d, a1, b1, d1
<1> QED BY <1>1, <1>2, <1>5, <1>6 DEF Booked, Onward

(***************************************************************************)
(* A step of client c, of its server, or of its connection.                *)
(***************************************************************************)
ClientStep(c) == Spawn(c) \/ Worker(c) \/ Server(c) \/ LinkBreaks(c)
AllKept(c) ==
  TypeOK' /\ ClientOK(c)' /\ Others(c) /\ Booked(c) /\ Onward(c) /\ Echoed(c)

LEMMA ThrowingStep ==
  ASSUME TypeOK, NEW c \in Client, ClientOK(c), Throws(c), pc[c] \notin {"ended", "failed"}
  PROVE  AllKept(c)
  BY ThrowsKeeps, ThrowsBooks DEF AllKept

LEMMA WorkerStep ==
  ASSUME TypeOK, NEW c \in Client, ClientOK(c), Worker(c)
  PROVE  AllKept(c)
<1>1. CASE Connect(c)
  <2>1. Quiet(c)
    BY <1>1 DEF TypeOK, Quiet, Connect, In, Goes, More, totalVars
  <2> QED BY <1>1, <2>1, ConnectKeeps, QuietBooks DEF AllKept
<1>2. CASE WriteRequest(c)
  <2>1. Quiet(c)
    BY <1>2 DEF TypeOK, Quiet, WriteRequest, In, Goes, totalVars
  <2> QED BY <1>2, <2>1, WriteKeeps, QuietBooks DEF AllKept
<1>3. CASE Goodbye(c)
  <2>1. Quiet(c)
    BY <1>3 DEF TypeOK, Quiet, Goodbye, In, Goes, totalVars
  <2> QED BY <1>3, <2>1, GoodbyeKeeps, QuietBooks DEF AllKept
<1>4. CASE Merge(c)
  BY <1>4, MergeKeeps, MergeBooks DEF AllKept
<1>5. CASE RejectHeader(c)
  <2>1. Booked(c) /\ Onward(c)
    BY <1>5, RequestBooks DEF TypeOK, RejectHeader, In, CountsError
  <2> QED BY <1>5, <2>1, RejectKeeps DEF AllKept
<1>6. CASE ReadPayload(c)
  <2>1. Booked(c) /\ Onward(c)
    BY <1>6, RequestBooks DEF TypeOK, ReadPayload, Completed, In
  <2> QED BY <1>6, <2>1, PayloadKeeps DEF AllKept
<1>7. CASE ReadHeader(c)
  <2>1. CASE HasPayload(Response(c).header)
    <3>1. Quiet(c)
      BY <1>7, <2>1 DEF TypeOK, Quiet, ReadHeader, In, Goes, totalVars
    <3> QED BY <1>7, <3>1, HeaderKeeps, QuietBooks DEF AllKept
  <2>2. CASE ~HasPayload(Response(c).header)
    <3>1. Booked(c) /\ Onward(c)
      BY <1>7, <2>2, RequestBooks DEF TypeOK, ReadHeader, Completed, In
    <3> QED BY <1>7, <3>1, HeaderKeeps DEF AllKept
  <2> QED BY <2>1, <2>2
<1>8. CASE \/ ConnectThrows(c) \/ WriteThrows(c) \/ HeaderThrows(c)
           \/ PayloadThrows(c) \/ GoodbyeThrows(c)
  <2>1. Throws(c) /\ pc[c] \notin {"ended", "failed"}
    BY <1>8 DEF ConnectThrows, WriteThrows, HeaderThrows, PayloadThrows, GoodbyeThrows,
                ReadThrows, In
  <2> QED BY <2>1, ThrowingStep
<1> QED BY <1>1, <1>2, <1>3, <1>4, <1>5, <1>6, <1>7, <1>8 DEF Worker

LEMMA EachStep ==
  ASSUME TypeOK, NEW c \in Client, ClientOK(c), ClientStep(c)
  PROVE  AllKept(c)
<1>1. CASE Spawn(c)
  <2>1. Quiet(c)
    BY <1>1 DEF TypeOK, Quiet, Spawn, totalVars
  <2> QED BY <1>1, <2>1, SpawnKeeps, QuietBooks DEF AllKept
<1>2. CASE ServerEchoes(c)
  <2>1. Quiet(c)
    BY <1>2 DEF Quiet, ServerEchoes, Answers, threadVars, totalVars
  <2> QED BY <1>2, <2>1, EchoesKeeps, QuietBooks DEF AllKept
<1>3. CASE ServerErrs(c)
  <2>1. Quiet(c)
    BY <1>3 DEF Quiet, ServerErrs, Answers, threadVars, totalVars
  <2> QED BY <1>3, <2>1, ErrsKeeps, QuietBooks DEF AllKept
<1>4. CASE LinkBreaks(c)
  <2>1. Quiet(c)
    BY <1>4 DEF Quiet, LinkBreaks, threadVars, totalVars
  <2> QED BY <1>4, <2>1, BreaksKeeps, QuietBooks DEF AllKept
<1> QED BY <1>1, <1>2, <1>3, <1>4, WorkerStep DEF ClientStep, Server
-----------------------------------------------------------------------------
Counted ==
  /\ completed = Total(threadLatencies, Client)
  /\ completed + errors = Total(done, Client) + Cardinality(Failed)
  /\ latencies = Total(Merged, Client)

(* main() goes on when every thread is started, and then when all are over. *)
MainOK ==
  /\ main = "joining" => \A c \in Client : pc[c] # "not started"
  /\ main = "reported" => \A c \in Client : pc[c] \in {"ended", "failed"}

IInv == TypeOK /\ (\A c \in Client : ClientOK(c)) /\ MainOK /\ Counted

(* The terms of the sums.                                                  *)
LEMMA Terms ==
  ASSUME TypeOK
  PROVE  /\ IsFiniteSet(Client)
         /\ \A c \in Client : /\ threadLatencies[c] \in Nat /\ done[c] \in Nat
                              /\ Merged[c] \in Nat /\ Merged[c] = HasMerged(c)
         /\ IsFiniteSet(Failed) /\ Cardinality(Failed) \in Nat
<1>1. IsFiniteSet(Client)
  BY BenchmarkClientAssumption
<1>2. IsFiniteSet(Failed) /\ Cardinality(Failed) \in Nat
  BY <1>1, FS_Subset, FS_CardinalityType DEF Failed
<1>3. ASSUME NEW c \in Client
      PROVE  /\ threadLatencies[c] \in Nat /\ done[c] \in Nat
             /\ Merged[c] \in Nat /\ Merged[c] = HasMerged(c)
  BY NumbersOf DEF Merged, HasMerged
<1> QED BY <1>1, <1>2, <1>3

LEMMA FailedChange ==
  ASSUME TypeOK, NEW c \in Client, Others(c)
  PROVE  Cardinality(Failed') + HasFailed(c) = Cardinality(Failed) + HasFailed(c)'
<1> DEFINE F == Failed
           G == Failed'
           H == F \ {c}
<1>1. G \ {c} = H
  BY DEF Others, Same, Failed
<1>2. /\ c \in F <=> pc[c] = "failed"
      /\ c \in G <=> pc'[c] = "failed"
  BY DEF Failed
<1>3. IsFiniteSet(Client) /\ F \in SUBSET Client /\ G \in SUBSET Client
  BY Terms DEF Failed
<1> HIDE DEF F, G
<1>4. IsFiniteSet(F) /\ IsFiniteSet(G) /\ IsFiniteSet(H)
  BY <1>3, FS_Subset
<1>5. /\ Cardinality(F) = Cardinality(H) + (IF c \in F THEN 1 ELSE 0)
      /\ Cardinality(G) = Cardinality(H) + (IF c \in G THEN 1 ELSE 0)
  <2>1. ASSUME NEW S, IsFiniteSet(S), S \ {c} = H
        PROVE  Cardinality(S) = Cardinality(H) + (IF c \in S THEN 1 ELSE 0)
    <3>1. Cardinality(S) \in Nat /\ Cardinality(H) \in Nat
      BY <1>4, <2>1, FS_CardinalityType
    <3>2. Cardinality(H) = IF c \in S THEN Cardinality(S) - 1 ELSE Cardinality(S)
      BY <2>1, FS_RemoveElement
    <3> QED BY <3>1, <3>2
  <2> QED BY <1>1, <1>4, <2>1
<1>6. HasFailed(c) = (IF c \in F THEN 1 ELSE 0) /\ HasFailed(c)' = (IF c \in G THEN 1 ELSE 0)
  BY <1>2 DEF HasFailed
<1>7. Cardinality(H) \in Nat
  BY <1>4, FS_CardinalityType
<1> HIDE DEF H
<1>8. Cardinality(G) + HasFailed(c) = Cardinality(F) + HasFailed(c)'
  <2> DEFINE h == Cardinality(H)
             f == IF c \in F THEN 1 ELSE 0
             g == IF c \in G THEN 1 ELSE 0
  <2>1. h \in Nat /\ f \in Nat /\ g \in Nat
    BY <1>7
  <2> HIDE DEF h, f, g
  <2>2. (h + g) + f = (h + f) + g
    BY <2>1
  <2> QED BY <1>5, <1>6, <2>2 DEF h, f, g
<1> QED BY <1>8 DEF F, G

LEMMA CountedStep ==
  ASSUME TypeOK, TypeOK', NEW c \in Client, Others(c), Booked(c), Counted
  PROVE  Counted'
<1>1. /\ IsFiniteSet(Client)
      /\ \A d \in Client : /\ threadLatencies[d] \in Nat /\ done[d] \in Nat
                           /\ Merged[d] \in Nat /\ Merged[d] = HasMerged(d)
      /\ Cardinality(Failed) \in Nat
  BY Terms
<1>2. /\ \A d \in Client : /\ threadLatencies'[d] \in Nat /\ done'[d] \in Nat
                           /\ Merged'[d] \in Nat /\ Merged'[d] = HasMerged(d)'
      /\ Cardinality(Failed') \in Nat
  <2>1. ASSUME NEW d \in Client
        PROVE  /\ threadLatencies'[d] \in Nat /\ done'[d] \in Nat
               /\ Merged'[d] \in Nat /\ Merged'[d] = HasMerged(d)'
    <3>1. threadLatencies'[d] \in Nat /\ done'[d] \in Nat
      BY BenchmarkClientAssumption DEF TypeOK
    <3> QED BY <3>1 DEF Merged, HasMerged
  <2>2. Cardinality(Failed') \in Nat
    <3>1. Failed' \in SUBSET Client
      BY DEF Failed
    <3> QED BY <1>1, <3>1, FS_Subset, FS_CardinalityType
  <2> QED BY <2>1, <2>2
<1>3. \A d \in Client \ {c} : /\ threadLatencies'[d] = threadLatencies[d]
                              /\ done'[d] = done[d] /\ Merged'[d] = Merged[d]
  <2>1. ASSUME NEW d \in Client \ {c}
        PROVE  /\ threadLatencies'[d] = threadLatencies[d]
               /\ done'[d] = done[d] /\ Merged'[d] = Merged[d]
    <3>1. Same(d)
      BY DEF Others
    <3>2. HasMerged(d)' = HasMerged(d)
      BY <3>1 DEF Same, HasMerged
    <3> QED BY <1>1, <1>2, <3>1, <3>2 DEF Same
  <2> QED BY <2>1
<1>4. ASSUME NEW f, NEW g, \A d \in Client : f[d] \in Nat /\ g[d] \in Nat,
             \A d \in Client \ {c} : g[d] = f[d]
      PROVE  /\ Total(g, Client) + f[c] = Total(f, Client) + g[c]
             /\ Total(f, Client) \in Nat /\ Total(g, Client) \in Nat
  BY <1>1, <1>4, TotalChange, TotalNat
<1> DEFINE f == threadLatencies  f1 == threadLatencies'
           h == done             h1 == done'
           m == Merged           m1 == Merged'
<1>5. /\ \A d \in Client : f[d] \in Nat /\ f1[d] \in Nat /\ h[d] \in Nat /\ h1[d] \in Nat
      /\ \A d \in Client : m[d] \in Nat /\ m1[d] \in Nat
      /\ \A d \in Client \ {c} : f1[d] = f[d] /\ h1[d] = h[d] /\ m1[d] = m[d]
  BY <1>1, <1>2, <1>3
<1> DEFINE X == Total(f, Client)  X1 == Total(f1, Client)
           Y == Total(h, Client)  Y1 == Total(h1, Client)
           Z == Total(m, Client)  Z1 == Total(m1, Client)
<1>6. X1 + f[c] = X + f1[c] /\ X \in Nat /\ X1 \in Nat
  <2> HIDE DEF f, f1
  <2> QED BY <1>4, <1>5
<1>7. Y1 + h[c] = Y + h1[c] /\ Y \in Nat /\ Y1 \in Nat
  <2> HIDE DEF h, h1
  <2> QED BY <1>4, <1>5
<1>8. Z1 + m[c] = Z + m1[c] /\ Z \in Nat /\ Z1 \in Nat
  <2> HIDE DEF m, m1
  <2> QED BY <1>4, <1>5
<1>9. completed = X /\ completed + errors = Y + Cardinality(Failed) /\ latencies = Z
  BY DEF Counted
<1>10. /\ completed' + f[c] = completed + f1[c]
       /\ completed' + errors' + h[c] + HasFailed(c) = completed + errors + h1[c] + HasFailed(c)'
       /\ latencies' + m[c] = latencies + m1[c]
  BY <1>1, <1>2 DEF Booked
<1>11. Cardinality(Failed') + HasFailed(c) = Cardinality(Failed) + HasFailed(c)'
  BY FailedChange
<1> DEFINE a == completed   a1 == completed'  b == errors  b1 == errors'
           l == latencies   l1 == latencies'
           q == HasFailed(c)  q1 == HasFailed(c)'
           n == Cardinality(Failed)  n1 == Cardinality(Failed')
           fc == f[c]  fc1 == f1[c]  hc == h[c]  hc1 == h1[c]  mc == m[c]  mc1 == m1[c]
<1>12. /\ a \in Nat /\ a1 \in Nat /\ b \in Nat /\ b1 \in Nat /\ l \in Nat /\ l1 \in Nat
       /\ q \in Nat /\ q1 \in Nat /\ n \in Nat /\ n1 \in Nat
       /\ fc \in Nat /\ fc1 \in Nat /\ hc \in Nat /\ hc1 \in Nat /\ mc \in Nat /\ mc1 \in Nat
  BY <1>1, <1>2, <1>5 DEF TypeOK, HasFailed
<1>13. /\ X1 + fc = X + fc1 /\ Y1 + hc = Y + hc1 /\ Z1 + mc = Z + mc1
       /\ X \in Nat /\ X1 \in Nat /\ Y \in Nat /\ Y1 \in Nat /\ Z \in Nat /\ Z1 \in Nat
  BY <1>6, <1>7, <1>8
<1>14. /\ a = X /\ a + b = Y + n /\ l = Z
       /\ a1 + fc = a + fc1 /\ a1 + b1 + hc + q = a + b + hc1 + q1 /\ l1 + mc = l + mc1
       /\ n1 + q = n + q1
  BY <1>9, <1>10, <1>11
<1> HIDE DEF X, X1, Y, Y1, Z, Z1, a, a1, b, b1, l, l1, q, q1, n, n1, fc, fc1, hc, hc1, mc, mc1
<1>15. a1 = X1 /\ a1 + b1 = Y1 + n1 /\ l1 = Z1
  BY <1>12, <1>13, <1>14
<1> QED BY <1>15 DEF Counted, X1, Y1, Z1, a1, b1, l1, n1
-----------------------------------------------------------------------------
(***************************************************************************)
(* The invariant is inductive.                                             *)
(***************************************************************************)
LEMMA InitIInv == Init => IInv
<1> SUFFICES ASSUME Init PROVE IInv
  OBVIOUS
<1>1. Requests \in Nat /\ MaxBad \in Nat /\ IsFiniteSet(Client) /\ <<>> \in Seq(Byte)
  BY BenchmarkClientAssumption
<1>2. TypeOK
  <2>1. /\ main \in {"spawning"} /\ pc \in [Client -> Places]
        /\ link \in [Client -> {"none", "up", "broken", "closed"}]
    BY DEF Init, Places
  <2>2. toServer \in [Client -> Seq(Byte)] /\ toClient \in [Client -> Seq(Byte)]
        /\ payloadBuf \in [Client -> Seq(Byte)]
    BY <1>1 DEF Init
  <2>3. done \in [Client -> 0 .. Requests] /\ sentBad \in [Client -> 0 .. MaxBad]
    <3>1. 0 \in 0 .. Requests /\ 0 \in 0 .. MaxBad
      BY <1>1
    <3> QED BY <3>1 DEF Init
  <2>4. /\ respLength \in [Client -> Nat] /\ threadLatencies \in [Client -> Nat]
        /\ rejected \in [Client -> Nat]
        /\ completed \in Nat /\ errors \in Nat /\ latencies \in Nat
    BY DEF Init
  <2> QED BY <2>1, <2>2, <2>3, <2>4 DEF TypeOK
<1>3. ASSUME NEW c \in Client PROVE ClientOK(c)
  <2>0. /\ pc[c] = "not started" /\ link[c] = "none" /\ done[c] = 0
        /\ toServer[c] = <<>> /\ toClient[c] = <<>> /\ payloadBuf[c] = <<>>
        /\ threadLatencies[c] = 0 /\ rejected[c] = 0 /\ sentBad[c] = 0
    BY DEF Init
  <2>1. Life(c)
    <3>1. done[c] = threadLatencies[c] + rejected[c]
      <4> DEFINE a == threadLatencies[c]
                 b == rejected[c]
                 d == done[c]
      <4>1. a = 0 /\ b = 0 /\ d = 0
        BY <2>0
      <4> HIDE DEF a, b, d
      <4>2. d = a + b
        BY <4>1
      <4> QED BY <4>2 DEF a, b, d
    <3> QED BY <2>0, <3>1 DEF Life
  <2>2. Streams(c)
    BY DEF Init, Streams
  <2>3. Bounded(c)
    <3>1. Wide(0) \in Nat
      BY WideAt
    <3>2. 0 <= Wide(0)
      <4> DEFINE w == Wide(0)
      <4> HIDE DEF w
      <4>1. 0 <= w
        BY <3>1 DEF w
      <4> QED BY <4>1 DEF w
    <3>3. Wide(sentBad[c]) = Wide(0)
      BY <2>0
    <3> QED BY <2>0, <3>2, <3>3 DEF Bounded
  <2> QED BY <2>1, <2>2, <2>3 DEF ClientOK
<1>4. MainOK
  BY DEF Init, MainOK
<1>5. Counted
  <2>1. ASSUME NEW f, \A c \in Client : f[c] = 0
        PROVE  Total(f, Client) = 0
    <3>1. Total(f, Client) = Cardinality(Client) * 0
      BY <1>1, <2>1, TotalBound
    <3>2. Cardinality(Client) \in Nat
      BY <1>1, FS_CardinalityType
    <3> QED BY <3>1, <3>2
  <2>2. \A c \in Client : threadLatencies[c] = 0 /\ done[c] = 0 /\ Merged[c] = 0
    BY DEF Init, Merged, HasMerged
  <2> DEFINE f == threadLatencies  h == done  m == Merged
  <2>3. \A c \in Client : f[c] = 0 /\ h[c] = 0 /\ m[c] = 0
    BY <2>2
  <2> HIDE DEF f, h, m
  <2>4. Total(f, Client) = 0 /\ Total(h, Client) = 0 /\ Total(m, Client) = 0
    BY <2>1, <2>3
  <2>5. Failed = {}
    BY DEF Init, Failed
  <2>6. Cardinality(Failed) = 0
    BY <2>5, FS_EmptySet
  <2>7. completed = 0 /\ errors = 0 /\ latencies = 0
    BY DEF Init
  <2> QED BY <2>4, <2>6, <2>7 DEF Counted, f, h, m
<1> QED BY <1>2, <1>3, <1>4, <1>5 DEF IInv

LEMMA NextIInv == IInv /\ [Next]_vars => IInv'
<1> SUFFICES ASSUME IInv, [Next]_vars PROVE IInv'
  OBVIOUS
<1>1. ASSUME NEW c \in Client, ClientStep(c) PROVE IInv'
  <2>1. AllKept(c)
    BY <1>1, EachStep DEF IInv
  <2>2. ASSUME NEW d \in Client PROVE ClientOK(d)'
    <3>1. CASE d = c
      BY <2>1, <3>1 DEF AllKept
    <3>2. CASE d # c
      BY <2>1, <3>2, SameClient DEF AllKept, Others, IInv
    <3> QED BY <3>1, <3>2
  <2>3. MainOK'
    BY <2>1 DEF AllKept, Onward, Others, Same, MainOK, IInv
  <2>4. Counted'
    BY <2>1, CountedStep DEF AllKept, IInv
  <2> QED BY <2>1, <2>2, <2>3, <2>4 DEF AllKept, IInv
<1>2. ASSUME UNCHANGED <<streamVars, threadVars, totalVars>>,
             \/ main' = main
             \/ main' = "terminated"
             \/ main' = "joining" /\ \A c \in Client : pc[c] # "not started"
             \/ main' = "reported" /\ \A c \in Client : pc[c] \in {"ended", "failed"}
      PROVE  IInv'
  <2>1. TypeOK'
    BY <1>2 DEF IInv, TypeOK, streamVars, threadVars, totalVars
  <2>2. ASSUME NEW d \in Client PROVE ClientOK(d)'
    <3>1. Same(d)
      BY <1>2 DEF Same, streamVars, threadVars
    <3> QED BY <3>1, SameClient DEF IInv
  <2>3. MainOK'
    BY <1>2 DEF IInv, MainOK, threadVars
  <2>4. Counted'
    <3>1. Failed' = Failed /\ Merged' = Merged
      BY <1>2 DEF Failed, Merged, HasMerged, threadVars
    <3> QED BY <1>2, <3>1 DEF IInv, Counted, threadVars, totalVars
  <2> QED BY <2>1, <2>2, <2>3, <2>4 DEF IInv
<1>3. CASE SpawnFails
  BY <1>2, <1>3 DEF SpawnFails
<1>4. CASE AllSpawned
  BY <1>2, <1>4 DEF AllSpawned
<1>5. CASE Report
  BY <1>2, <1>5 DEF Report
<1>6. CASE UNCHANGED vars
  BY <1>2, <1>6 DEF vars
<1> QED BY <1>1, <1>3, <1>4, <1>5, <1>6 DEF Next, Main, ClientStep

THEOREM AlwaysIInv == Spec => []IInv
<1>1. Init => IInv
  BY InitIInv
<1>2. IInv /\ [Next]_vars => IInv'
  BY NextIInv
<1> QED BY <1>1, <1>2, PTL DEF Spec

(***************************************************************************)
(* Type correctness.                                                       *)
(***************************************************************************)
THEOREM TypeCorrect == Spec => []TypeOK
<1>1. IInv => TypeOK
  BY DEF IInv
<1> QED BY <1>1, AlwaysIInv, PTL

(***************************************************************************)
(* The report adds up (main(), lines 128-158): successes and failures make *)
(* the workload and the profile holds every success, unless a thread threw *)
(* (lines 97-99); for every number of clients and whatever goes wrong.     *)
(***************************************************************************)
THEOREM ReportIsTrue == Spec => []ReportAddsUp
<1>1. ASSUME IInv PROVE ReportAddsUp
  <2>1. /\ IsFiniteSet(Client)
        /\ \A c \in Client : /\ threadLatencies[c] \in Nat /\ done[c] \in Nat
                             /\ Merged[c] \in Nat /\ Merged[c] = HasMerged(c)
        /\ IsFiniteSet(Failed) /\ Cardinality(Failed) \in Nat
    BY <1>1, Terms DEF IInv
  <2>2. \A c \in Client : done[c] <= Requests
    BY <1>1, BenchmarkClientAssumption DEF IInv, TypeOK
  <2> DEFINE f == threadLatencies  h == done  m == Merged
             X == Total(f, Client)  Y == Total(h, Client)  Z == Total(m, Client)
             n == Cardinality(Failed)
  <2>3. X \in Nat /\ Y \in Nat /\ Z \in Nat /\ n \in Nat
    <3> HIDE DEF f, h, m
    <3>1. \A c \in Client : f[c] \in Nat /\ h[c] \in Nat /\ m[c] \in Nat
      BY <2>1 DEF f, h, m
    <3> QED BY <2>1, <3>1, TotalNat
  <2>4. completed = X /\ completed + errors = Y + n /\ latencies = Z
    BY <1>1 DEF IInv, Counted
  <2>5. Y <= Workload /\ Workload \in Nat /\ ((\A c \in Client : done[c] = Requests) => Y = Workload)
    <3>1. \A c \in Client : h[c] \in Nat /\ h[c] <= Requests
      BY <2>1, <2>2
    <3>2. Requests \in Nat /\ Cardinality(Client) \in Nat
      BY <2>1, FS_CardinalityType, BenchmarkClientAssumption
    <3>3. Workload \in Nat
      BY <3>2 DEF Workload
    <3> HIDE DEF h
    <3>4. Y <= Workload /\ ((\A c \in Client : h[c] = Requests) => Y = Workload)
      BY <2>1, <3>1, <3>2, TotalBound DEF Workload
    <3> QED BY <3>3, <3>4 DEF h
  <2>6. Z <= X
    <3>1. \A c \in Client : m[c] \in Nat /\ f[c] \in Nat /\ m[c] <= f[c]
      BY <2>1 DEF HasMerged
    <3> HIDE DEF m, f
    <3> QED BY <2>1, <3>1, TotalMonotone
  <2>7. ASSUME main = "reported", Failed = {}
        PROVE  n = 0 /\ Y = Workload /\ Z = X
    <3>1. \A c \in Client : pc[c] = "ended"
      BY <1>1, <2>7 DEF IInv, MainOK, Failed
    <3>2. \A c \in Client : done[c] = Requests
      BY <1>1, <3>1 DEF IInv, ClientOK, Life
    <3>3. \A c \in Client : m[c] = f[c]
      BY <2>1, <3>1 DEF HasMerged
    <3>4. Z = X
      <4> HIDE DEF m, f
      <4> QED BY <2>1, <3>3, TotalSame
    <3> QED BY <2>5, <2>7, <3>2, <3>4, FS_EmptySet
  <2>8. completed \in Nat /\ errors \in Nat /\ latencies \in Nat
    BY <1>1 DEF IInv, TypeOK
  <2> HIDE DEF X, Y, Z, n
  <2>9. completed + errors <= Workload + n /\ latencies <= completed
    BY <2>3, <2>4, <2>5, <2>6, <2>8
  <2>10. ASSUME main = "reported", Failed = {}
         PROVE  completed + errors = Workload /\ latencies = completed
    BY <2>3, <2>4, <2>5, <2>7, <2>8, <2>10
  <2> QED BY <2>9, <2>10 DEF ReportAddsUp, n
<1> QED BY <1>1, AlwaysIInv, PTL

(***************************************************************************)
(* A client that rejected no header is in step with its connection, and    *)
(* one that did lags by the payloads it left there (line 65) and no more;  *)
(* it rejects no more headers than the wrong answers hold.                 *)
(***************************************************************************)
THEOREM StaysInStep == Spec => []InStep
<1>1. ASSUME IInv, NEW c \in Client, pc[c] = "write", link[c] = "up"
      PROVE  Unread(c) = rejected[c] * Len(TestPayload)
  <2>1. PICK k \in Nat, n \in Nat, p \in Nat, s \in 0 .. Chunks, cnt \in [Nat -> Nat] :
           InStream(c, k, n, p, s, cnt)
    BY <1>1 DEF IInv, ClientOK, Streams
  <2> DEFINE lat == threadLatencies[c]
             rej == rejected[c]
             x == Len(toClient[c])
             y == Len(toServer[c])
  <2>2. lat \in Nat /\ rej \in Nat /\ x \in Nat /\ y \in Nat
    BY <1>1, NumbersOf DEF IInv
  <2>3. n + k = lat + rej
    <3>1. n + k = done[c] + 0 /\ done[c] = lat + rej /\ done[c] \in Nat
      BY <1>1, <2>1, NumbersOf DEF InStream, Written, IInv, ClientOK, Life
    <3> DEFINE d == done[c]
    <3>2. n + k = d + 0 /\ d = lat + rej /\ d \in Nat
      BY <3>1
    <3> HIDE DEF d, lat, rej
    <3> QED BY <3>2
  <2>4. 8 * Pieces(lat, rej, FALSE) + x = Span * n /\ y = Span * k
    <3>1. (pc[c] = "payload") = FALSE /\ (link[c] = "up") = TRUE
      BY <1>1
    <3> QED BY <2>1, <3>1 DEF InStream, Wire
  <2>5. Pieces(lat, rej, FALSE) = Wide(lat) + rej + 0
    BY DEF Pieces
  <2>6. Wide(lat) = Width * lat
    BY DEF Wide
  <2>7. /\ Width \in Nat /\ Span = 8 * Width /\ Span = 8 + Len(TestPayload)
        /\ Len(TestPayload) \in Nat
    BY Lengths, LenProperties, PayloadBytes DEF Span
  <2> HIDE DEF lat, rej, x, y
  <2>8. 8 * (Width * lat + rej) + x = Span * n
    <3>1. Width * lat \in Nat
      BY <2>2, <2>7
    <3>2. (Width * lat + rej) + 0 = Width * lat + rej
      BY <2>2, <3>1
    <3> QED BY <2>4, <2>5, <2>6, <3>2
  <2>9. 8 * (Width * lat + rej) = Span * lat + 8 * rej
    BY <2>2, <2>7
  <2>10. Span * n + Span * k = Span * lat + Span * rej
    <3>1. Span * (n + k) = Span * (lat + rej)
      BY <2>3
    <3> QED BY <2>2, <2>7, <3>1
  <2>11. Span * rej = 8 * rej + rej * Len(TestPayload)
    <3>1. ASSUME NEW a \in Nat, NEW b \in Nat PROVE (8 + a) * b = 8 * b + b * a
      OBVIOUS
    <3>2. Span * rej = (8 + Len(TestPayload)) * rej
      BY <2>7
    <3> QED BY <2>2, <2>7, <3>1, <3>2
  <2> DEFINE A == Span * n  B == Span * k  C == Span * lat  D == Span * rej
             E == rej * Len(TestPayload)
  <2>12. /\ A \in Nat /\ B \in Nat /\ C \in Nat /\ D \in Nat /\ E \in Nat
         /\ C + 8 * rej + x = A /\ y = B /\ A + B = C + D /\ D = 8 * rej + E
    BY <2>2, <2>4, <2>7, <2>8, <2>9, <2>10, <2>11
  <2> HIDE DEF A, B, C, D, E
  <2>13. y + x = E
    BY <2>2, <2>12
  <2> QED BY <2>13 DEF E, x, y, rej, Unread
<1>2. ASSUME IInv, NEW c \in Client
      PROVE  rejected[c] <= sentBad[c] * (1 + Len(TestPayload) \div HEADER_SIZE)
  <2> DEFINE b == sentBad[c]
  <2>1. rejected[c] <= Wide(b) /\ b \in Nat
    BY <1>2, NumbersOf DEF IInv, ClientOK, Bounded
  <2> HIDE DEF b
  <2>2. Wide(b) = b * (1 + Chunks)
    BY <2>1, Widths DEF Wide
  <2> QED BY <2>1, <2>2 DEF b, Chunks
<1>3. IInv => InStep
  BY <1>1, <1>2 DEF InStep
<1> QED BY <1>3, AlwaysIInv, PTL

(***************************************************************************)
(* What the client counts as a success is a whole echo of the test         *)
(* payload, although it looks at no more than the magic number (lines      *)
(* 63-81).                                                                 *)
(***************************************************************************)
THEOREM OnlyEchoesComplete == Spec => CompletedMeansEchoed
<1> DEFINE A == \A c \in Client :
                  threadLatencies'[c] # threadLatencies[c] => payloadBuf'[c] = TestPayload
<1>1. ASSUME IInv, [Next]_vars PROVE A
  <2>1. ASSUME NEW c \in Client, ClientStep(c), NEW d \in Client,
               threadLatencies'[d] # threadLatencies[d]
        PROVE  payloadBuf'[d] = TestPayload
    <3>1. AllKept(c)
      BY <1>1, <2>1, EachStep DEF IInv
    <3> QED BY <2>1, <3>1 DEF AllKept, Others, Same, Echoed
  <2>2. CASE SpawnFails \/ AllSpawned \/ Report \/ UNCHANGED vars
    BY <2>2 DEF SpawnFails, AllSpawned, Report, vars, threadVars
  <2> QED BY <1>1, <2>1, <2>2 DEF Next, Main, ClientStep
<1>2. IInv /\ [Next]_vars => [A]_vars
  BY <1>1
<1> QED BY <1>2, AlwaysIInv, PTL DEF Spec, CompletedMeansEchoed
=============================================================================
