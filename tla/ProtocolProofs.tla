--------------------------- MODULE ProtocolProofs ---------------------------
(***************************************************************************)
(* What one end of a connection encodes is what the other end decodes, for *)
(* every header and payload the fields can hold.                           *)
(***************************************************************************)
EXTENDS Protocol, SequenceTheorems, TLAPS

(* htons() gives two bytes, and ntohs() gives the number back.             *)
LEMMA ShortSurvives ==
  ASSUME NEW n \in UInt16
  PROVE  /\ Len(htons(n)) = 2
         /\ \A i \in 1 .. 2 : htons(n)[i] \in Byte
         /\ ntohs(htons(n), 1) = n
<1> DEFINE a == n \div 256
           b == n % 256
<1>1. a \in Byte /\ b \in Byte /\ a * 256 + b = n BY DEF UInt16, Byte
<1>2. htons(n) = <<a, b>> BY DEF htons
<1> QED BY <1>1, <1>2 DEF ntohs

(* htonl() gives four, and ntohl() gives the number back.                  *)
LEMMA LongSurvives ==
  ASSUME NEW n, IsUInt32(n)
  PROVE  /\ Len(htonl(n)) = 4
         /\ \A i \in 1 .. 4 : htonl(n)[i] \in Byte
         /\ ntohl(htonl(n), 1) = n
<1>1. n \in Nat BY DEF IsUInt32
<1> DEFINE a == n \div 16777216
           b == (n \div 65536) % 256
           c == (n \div 256) % 256
           d == n % 256
<1>2. a \in Byte BY DEF IsUInt32
<1>3. b \in Byte /\ c \in Byte /\ d \in Byte BY <1>1 DEF Byte
<1>4. a * 16777216 + b * 65536 + c * 256 + d = n BY <1>1
<1>5. htonl(n) = <<a, b, c, d>> BY DEF htonl
<1> QED BY <1>2, <1>3, <1>4, <1>5 DEF ntohl

(* What is where in two byte strings one after the other.                  *)
LEMMA ConcatParts ==
  ASSUME NEW a \in Seq(Byte), NEW b \in Seq(Byte)
  PROVE  /\ a \o b \in Seq(Byte)
         /\ Len(a \o b) = Len(a) + Len(b)
         /\ \A i \in 1 .. Len(a) : (a \o b)[i] = a[i]
         /\ \A i \in 1 .. Len(b) : (a \o b)[i + Len(a)] = b[i]
<1> DEFINE c == a \o b
<1>1. /\ c \in Seq(Byte) /\ Len(c) = Len(a) + Len(b)
      /\ \A i \in 1 .. Len(a) + Len(b) :
           c[i] = IF i <= Len(a) THEN a[i] ELSE b[i - Len(a)]
  BY ConcatProperties
<1>2. Len(a) \in Nat /\ Len(b) \in Nat BY LenProperties
<1> HIDE DEF c
<1>3. \A i \in 1 .. Len(b) : c[i + Len(a)] = b[i]
  <2> TAKE i \in 1 .. Len(b)
  <2>1. c[i + Len(a)] = b[(i + Len(a)) - Len(a)] BY <1>1, <1>2
  <2> QED BY <2>1, <1>2
<1>4. \A i \in 1 .. Len(a) : c[i] = a[i] BY <1>1, <1>2
<1> QED BY <1>1, <1>3, <1>4 DEF c

(* The bytes of a header, by position.                                     *)
LEMMA HeaderBytes ==
  ASSUME NEW h, IsHeader(h)
  PROVE  /\ serializeHeader(h) \in Seq(Byte)
         /\ Len(serializeHeader(h)) = HEADER_SIZE
         /\ \A i \in 1 .. 2 :
              /\ serializeHeader(h)[i] = htons(h.magic)[i]
              /\ serializeHeader(h)[i + 2] = htons(h.type)[i]
         /\ \A i \in 1 .. 4 : serializeHeader(h)[i + 4] = htonl(h.length)[i]
<1> DEFINE m == htons(h.magic)
           t == htons(h.type)
           l == htonl(h.length)
<1>1. m \in Seq(Byte) /\ Len(m) = 2
  <2>1. \A i \in 1 .. 2 : m[i] \in Byte BY ShortSurvives DEF IsHeader
  <2>2. h.magic \div 256 \in Byte /\ h.magic % 256 \in Byte
    BY <2>1 DEF htons
  <2> QED BY <2>2 DEF htons
<1>2. t \in Seq(Byte) /\ Len(t) = 2
  <2>1. \A i \in 1 .. 2 : t[i] \in Byte BY ShortSurvives DEF IsHeader
  <2>2. h.type \div 256 \in Byte /\ h.type % 256 \in Byte BY <2>1 DEF htons
  <2> QED BY <2>2 DEF htons
<1>3. l \in Seq(Byte) /\ Len(l) = 4
  <2>1. IsUInt32(h.length) BY DEF IsHeader
  <2>2. \A i \in 1 .. 4 : l[i] \in Byte BY <2>1, LongSurvives
  <2> DEFINE a == h.length \div 16777216
             b == (h.length \div 65536) % 256
             c == (h.length \div 256) % 256
             e == h.length % 256
  <2>3. l = <<a, b, c, e>> BY DEF htonl
  <2> HIDE DEF a, b, c, e, l
  <2>4. a \in Byte /\ b \in Byte /\ c \in Byte /\ e \in Byte BY <2>2, <2>3
  <2> QED BY <2>3, <2>4
<1> HIDE DEF m, t, l
<1>4. serializeHeader(h) = m \o t \o l BY DEF serializeHeader, m, t, l
<1>5. /\ m \o t \in Seq(Byte) /\ Len(m \o t) = 4
      /\ \A i \in 1 .. 2 : (m \o t)[i] = m[i] /\ (m \o t)[i + 2] = t[i]
  <2>1. /\ m \o t \in Seq(Byte) /\ Len(m \o t) = Len(m) + Len(t)
        /\ \A i \in 1 .. Len(m) : (m \o t)[i] = m[i]
        /\ \A i \in 1 .. Len(t) : (m \o t)[i + Len(m)] = t[i]
    BY <1>1, <1>2, ConcatParts, Zenon
  <2> HIDE DEF m, t
  <2> QED BY <1>1, <1>2, <2>1
<1>6. /\ m \o t \o l \in Seq(Byte) /\ Len(m \o t \o l) = 8
      /\ \A i \in 1 .. 4 : /\ (m \o t \o l)[i] = (m \o t)[i]
                           /\ (m \o t \o l)[i + 4] = l[i]
  <2> DEFINE k == m \o t
  <2> HIDE DEF k
  <2>0. k \in Seq(Byte) /\ Len(k) = 4 BY <1>5 DEF k
  <2>1. /\ k \o l \in Seq(Byte) /\ Len(k \o l) = Len(k) + Len(l)
        /\ \A i \in 1 .. Len(k) : (k \o l)[i] = k[i]
        /\ \A i \in 1 .. Len(l) : (k \o l)[i + Len(k)] = l[i]
    BY <1>3, <2>0, ConcatParts, Zenon
  <2>2. /\ k \o l \in Seq(Byte) /\ Len(k \o l) = 8
        /\ \A i \in 1 .. 4 : (k \o l)[i] = k[i] /\ (k \o l)[i + 4] = l[i]
    BY <1>3, <2>0, <2>1
  <2> QED BY <2>2 DEF k
<1>7. \A i \in 1 .. 2 : /\ (m \o t \o l)[i] = m[i]
                        /\ (m \o t \o l)[i + 2] = t[i]
  BY SMTT(20), <1>5, <1>6
<1> QED BY <1>4, <1>6, <1>7 DEF HEADER_SIZE, m, t, l

(* Decoding a header that was encoded gives it back, and accepts it if its *)
(* magic number is the right one, whatever follows it in the buffer and    *)
(* whatever the output parameter held (Protocol.cpp:7-43).                 *)
THEOREM HeaderSurvives ==
  ASSUME NEW h, IsHeader(h), NEW rest \in Seq(Byte), NEW out
  PROVE  deserializeHeader(serializeHeader(h) \o rest, out)
           = [ok |-> h.magic = MAGIC_HEADER, header |-> h]
<1> DEFINE s == serializeHeader(h)
           d == s \o rest
<1>1. s \in Seq(Byte) /\ Len(s) = 8 BY HeaderBytes DEF HEADER_SIZE
<1>2. /\ \A i \in 1 .. 2 : s[i] = htons(h.magic)[i] /\ s[i + 2] = htons(h.type)[i]
      /\ \A i \in 1 .. 4 : s[i + 4] = htonl(h.length)[i]
  BY HeaderBytes
<1> HIDE DEF s
<1>3. Len(d) >= HEADER_SIZE /\ \A i \in 1 .. 8 : d[i] = s[i]
  <2>1. Len(rest) \in Nat BY LenProperties
  <2>2. /\ Len(d) = Len(s) + Len(rest)
        /\ \A i \in 1 .. Len(s) : d[i] = s[i]
    BY <1>1, ConcatParts, Zenon
  <2> HIDE DEF d
  <2> QED BY <1>1, <2>1, <2>2 DEF HEADER_SIZE
<1> HIDE DEF d
<1>4. ntohs(d, 1) = h.magic
  <2>1. ntohs(d, 1) = ntohs(htons(h.magic), 1) BY <1>2, <1>3 DEF ntohs
  <2> QED BY <2>1, ShortSurvives DEF IsHeader
<1>5. ntohs(d, 3) = h.type
  <2>1. ntohs(d, 3) = ntohs(htons(h.type), 1) BY <1>2, <1>3 DEF ntohs
  <2> QED BY <2>1, ShortSurvives DEF IsHeader
<1>6. ntohl(d, 5) = h.length
  <2>1. ntohl(d, 5) = ntohl(htonl(h.length), 1) BY <1>2, <1>3 DEF ntohl
  <2> QED BY <2>1, LongSurvives DEF IsHeader
<1>7. deserializeHeader(d, out)
        = [ok |-> h.magic = MAGIC_HEADER,
           header |-> [magic |-> h.magic, type |-> h.type, length |-> h.length]]
  BY <1>1, <1>3, <1>4, <1>5, <1>6 DEF deserializeHeader, HEADER_SIZE
<1> QED BY <1>7 DEF IsHeader, d, s
=============================================================================
