------------------------------ MODULE Protocol ------------------------------
(***************************************************************************)
(* The wire format of 01_AsyncNet_Server (Protocol.cpp, Common.hpp): a     *)
(* header of eight bytes, its fields in network byte order, then the       *)
(* payload.  A byte is a number below 256, a stream a sequence of bytes.   *)
(* TLC's integers have 32 bits, so a run keeps lengths below 2^31; the     *)
(* proofs do not need that.                                                *)
(***************************************************************************)
EXTENDS Integers, Sequences

Byte == 0 .. 255
UInt16 == 0 .. 65535

MAGIC_HEADER == 65 * 256 + 78            \* 0x414E, "AN"
HEADER_SIZE == 8

(* Any other value can come from the network.                              *)
MessageType ==
  [PING |-> 1, PONG |-> 2, ECHO_REQUEST |-> 3, ECHO_RESPONSE |-> 4,
   DATA_STREAM |-> 5, DISCONNECT |-> 255, UNKNOWN |-> 65535]

(* 256 * 256 * 256 * 256 would be too large for TLC.                       *)
IsUInt32(n) == n \in Nat /\ n \div 16777216 \in Byte

IsHeader(h) ==
  /\ h = [magic |-> h.magic, type |-> h.type, length |-> h.length]
  /\ h.magic \in UInt16 /\ h.type \in UInt16 /\ IsUInt32(h.length)

(* htons() and htonl(), copied into the buffer.                            *)
htons(n) == <<n \div 256, n % 256>>
htonl(n) == <<n \div 16777216, (n \div 65536) % 256, (n \div 256) % 256, n % 256>>

(* ntohs() and ntohl() of the bytes at an offset.  The mutant takes them   *)
(* in the order of a little-endian host.                                   *)
UnswappedLong(data, at) == data[at + 3] * 16777216 + data[at + 2] * 65536
                             + data[at + 1] * 256 + data[at]
ntohs(data, at) == data[at] * 256 + data[at + 1]
ntohl(data, at) == data[at] * 16777216 + data[at + 1] * 65536
                     + data[at + 2] * 256 + data[at + 3]

serializeHeader(h) == htons(h.magic) \o htons(h.type) \o htonl(h.length)

(* Whether the header is accepted, and what the output parameter holds     *)
(* then: a buffer that is too short leaves it alone.  No limit is put on   *)
(* the length here.                                                        *)
deserializeHeader(data, header) ==
  IF Len(data) < HEADER_SIZE
  THEN [ok |-> FALSE, header |-> header]
  ELSE LET h == [magic |-> ntohs(data, 1), type |-> ntohs(data, 3),
                 length |-> ntohl(data, 5)]
       IN  [ok |-> h.magic = MAGIC_HEADER, header |-> h]

(* The length the packet's header claims is replaced by the payload's.     *)
serializePacket(p) ==
  serializeHeader([p.header EXCEPT !.length = Len(p.payload)]) \o p.payload

Packet(type, payload) ==
  [header |-> [magic |-> MAGIC_HEADER, type |-> type, length |-> Len(payload)],
   payload |-> payload]
createEchoResponse(payload) == Packet(MessageType.ECHO_RESPONSE, payload)
createPongPacket == Packet(MessageType.PONG, <<>>)
=============================================================================
