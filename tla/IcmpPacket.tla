----------------------------- MODULE IcmpPacket -----------------------------
(***************************************************************************)
(* The echo requests that the program sends and how it reads the replies   *)
(* (IcmpPacket.h, the buffer that Ping::start fills, the first half of     *)
(* socketReadHandler).  Sender and receiver agree on offsets only: both    *)
(* cast into a buffer of bytes.                                            *)
(*                                                                         *)
(* A byte has B values (256), a word, unsigned short, two bytes.  The      *)
(* machine stores the low byte of a word first.  A timestamp is its bytes: *)
(* it is written and read through the same type.                           *)
(***************************************************************************)
EXTENDS Integers, Sequences

CONSTANTS
  B,            \* values of a byte
  K,            \* bytes of a timestamp, 8
  EchoRequest,  \* ICMP_ECHO
  Pings,        \* the pings sent: records of tid, stamp and idx
  Strings,      \* other contents, which the prototype sends
  Ids,          \* identifiers
  HeaderWords,  \* ip_hl of the datagrams received
  Junk          \* what new unsigned char[] may leave in the checksum's place

Byte == 0..(B - 1)
W    == B * B
Word == 0..(W - 1)

ASSUME IcmpAssumption ==
  /\ B \in Nat \ 0..2
  /\ K \in Nat \ {0}
  /\ EchoRequest \in Byte \ {0}
  /\ Pings \subseteq [tid : Word, stamp : [1..K -> Byte], idx : Word]
  /\ Strings \subseteq Seq(Byte)
  /\ \A s \in Strings : Len(s) < W
  /\ K < W - 4
  /\ Ids \subseteq Word
  /\ HeaderWords \subseteq 0..15
  /\ Junk \subseteq Byte

VARIABLES
  pc,    \* where the constructor, or the handler, is
  sent,  \* the ping sent, or a string
  id,    \* the identifier
  buf,   \* IcmpPacket::buf, offset to byte
  iter,  \* the loop of calcCheckSum
  sum,   \* its accumulator, an unsigned int
  got    \* what socketReadHandler has read

vars == <<pc, sent, id, buf, iter, sum, got>>

HeaderSize == 8      \* ICMP_HEADER_SIZE, ICMP_MINLEN
Extra      == K + 4  \* EXTRA_PROTO_SIZE
NoGot      == [tid |-> 0, stamp |-> <<>>, idx |-> 0, id |-> 0, type |-> 0]

LowHigh(x) == <<x % B, x \div B>>

\* Ping::start: the content of a ping's packet.
PingData(p) == LowHigh(p.tid) \o p.stamp \o LowHigh(p.idx)

\* A packet before its checksum is known.  The sequence number is always 0,
\* and so is the byte that both constructors put at the end.
Fresh(i, content, j, k) ==
  LET header == <<EchoRequest, 0, j, k, i % B, i \div B, 0, 0>>
      bytes  == header \o content \o <<0>>
  IN [o \in 0..(Len(bytes) - 1) |-> bytes[o + 1]]

Size == HeaderSize + 1
          + (IF sent.kind = "ping" THEN Extra ELSE Len(sent.content))

Init ==
  /\ pc = "header"
  /\ \/ \E p \in Pings : sent = [kind |-> "ping", ping |-> p]
     \/ \E s \in Strings : sent = [kind |-> "string", content |-> s]
  /\ id \in Ids
  /\ \E j, k \in Junk :
       buf = Fresh(id, IF sent.kind = "ping" THEN PingData(sent.ping)
                                             ELSE sent.content, j, k)
  /\ iter = HeaderSize
  /\ sum = 0
  /\ got = NoGot

(***************************************************************************)
(* calcCheckSum: the header without the checksum, then the content without *)
(* the last byte.                                                          *)
(***************************************************************************)
\* Mutant: the accumulator is an unsigned short.
UShort(n) == n % W

UInt(n) == n % (W * W)

SumHeader ==
  /\ pc = "header"
  /\ sum' = UInt((buf[0] * B + buf[1]) + (buf[4] * B + buf[5])
                   + (buf[6] * B + buf[7]))
  /\ pc' = "sum"
  /\ UNCHANGED <<sent, id, buf, iter, got>>

DataEnd == Size - 1

SumData ==
  /\ pc = "sum"
  /\ iter # DataEnd
  /\ sum' = UInt(sum + buf[iter] * B
                   + (IF iter + 1 # DataEnd THEN buf[iter + 1] ELSE 0))
  /\ iter' = IF iter + 1 # DataEnd THEN iter + 2 ELSE iter + 1
  /\ UNCHANGED <<pc, sent, id, buf, got>>

\* Mutant: the carry of the first addition is dropped.
FoldOnce(s) == ((s \div W) + (s % W)) % W

\* The high half is added to the low half, and then the carry.
Fold(s) ==
  LET t == (s \div W) + (s % W)
  IN (t + (t \div W)) % W

Complement(w) == W - 1 - w

\* htons: the checksum is stored with its high byte first.
Store ==
  /\ pc = "sum"
  /\ iter = DataEnd
  /\ LET c == Complement(Fold(sum))
     IN buf' = [buf EXCEPT ![2] = c \div B, ![3] = c % B]
  /\ pc' = "built"
  /\ UNCHANGED <<sent, id, iter, sum, got>>

(***************************************************************************)
(* A host answers: the type becomes 0, the checksum changes and the rest   *)
(* comes back.  The IP header in front has hl words of four bytes, and the *)
(* end of the datagram may be cut off.                                     *)
(***************************************************************************)
Reply == [o \in 0..(Size - 1) |-> IF o = 0 THEN 0 ELSE buf[o]]

TooShort(hl, nrecv) == 4 * hl < 20 \/ nrecv < 4 * hl + HeaderSize + Extra

WordAt(r, o)  == r[o] + B * r[o + 1]
StampAt(r, o) == [j \in 1..K |-> r[o + j - 1]]

\* Mutant: the index is looked for where the timestamp would end if it had
\* the size of a word less.
ParseEarly(r) ==
  [tid   |-> WordAt(r, HeaderSize),
   stamp |-> StampAt(r, HeaderSize + 2),
   idx   |-> WordAt(r, HeaderSize + K),
   id    |-> WordAt(r, 4),
   type  |-> r[0]]

Parse(r) ==
  [tid   |-> WordAt(r, HeaderSize),
   stamp |-> StampAt(r, HeaderSize + 2),
   idx   |-> WordAt(r, HeaderSize + K + 2),
   id    |-> WordAt(r, 4),
   type  |-> r[0]]

SocketRead(hl, cut) ==
  /\ pc = "built"
  /\ IF TooShort(hl, 4 * hl + Size - cut)
     THEN pc' = "dropped" /\ UNCHANGED got
     ELSE pc' = "parsed" /\ got' = Parse([o \in 0..(Size - cut - 1) |-> Reply[o]])
  /\ UNCHANGED <<sent, id, buf, iter, sum>>

Done == pc \in {"parsed", "dropped"} /\ UNCHANGED vars

Next ==
  \/ SumHeader
  \/ SumData
  \/ Store
  \/ \E hl \in HeaderWords, cut \in 0..Size : SocketRead(hl, cut)
  \/ Done

Spec == Init /\ [][Next]_vars

-----------------------------------------------------------------------------
(***************************************************************************)
(* What the other end computes (RFC 1071): the sum, with end-around carry, *)
(* of all words of the packet, an odd last byte being the high one.        *)
(***************************************************************************)
PacketWord(k) ==
  buf[2 * k] * B + (IF 2 * k + 1 < Size THEN buf[2 * k + 1] ELSE 0)

OnesSum ==
  LET upTo[k \in 0..((Size + 1) \div 2)] ==
        IF k = 0 THEN 0
        ELSE LET t == upTo[k - 1] + PacketWord(k - 1)
             IN IF t < W THEN t ELSE t - W + 1
  IN upTo[(Size + 1) \div 2]

\* Every packet that is built passes the check of the host that receives it,
\* whatever was in the memory before (calcCheckSum leaves the checksum's own
\* place and the last byte out).
Verifies == pc \in {"built", "parsed", "dropped"} => OnesSum = W - 1

\* What the handler reads from a reply is what Ping::start wrote, also when the
\* reply has lost its last byte or the IP header has options.
ReadsBack ==
  pc = "parsed" /\ sent.kind = "ping"
    => got = [tid |-> sent.ping.tid, stamp |-> sent.ping.stamp,
              idx |-> sent.ping.idx, id |-> id, type |-> 0]

\* The accumulator of calcCheckSum never wraps, for it never goes down.
NeverWraps == [][sum' >= sum]_vars
=============================================================================
