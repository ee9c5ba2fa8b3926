-------------------------- MODULE IcmpPacketProofs --------------------------
(***************************************************************************)
(* For any size of a byte and of a timestamp, and packets of any content:  *)
(* calcCheckSum never wraps, its checksum is accepted by the receiver, and *)
(* the handler reads from a reply what was written.                        *)
(***************************************************************************)
EXTENDS IcmpPacket, WellFoundedInduction, TLAPS

LEMMA ConcatBytes ==
  \A s, t \in Seq(Byte) :
    s \o t \in Seq(Byte) /\ Len(s \o t) = Len(s) + Len(t) /\ Len(s) \in Nat
OBVIOUS

LEMMA WordType == W \in Nat /\ W >= 9 /\ B * B = W
BY IcmpAssumption DEF W

LEMMA DivMod ==
  ASSUME NEW w \in Nat \ {0}, NEW s \in Nat
  PROVE  /\ s \div w \in Nat /\ s % w \in 0..(w - 1)
         /\ s = w * (s \div w) + (s % w)
OBVIOUS

\* Two additions of the high half are enough for 32 bits: the result is a word,
\* and it differs from s by a multiple of W - 1.
LEMMA FoldRange ==
  ASSUME NEW s \in 0..(W * W - 1)
  PROVE  /\ Fold(s) \in 0..(W - 1)
         /\ \E k \in Nat : s = Fold(s) + k * (W - 1)
         /\ s > 0 => Fold(s) > 0
<1> DEFINE h == s \div W
           l == s % W
           t == h + l
<1>1. h \in Nat /\ l \in 0..(W - 1) /\ s = W * h + l
  <2>1. W \in Nat \ {0} /\ s \in Nat
    BY WordType
  <2> QED
    BY <2>1, DivMod
<1>2. h <= W - 1
  <2>1. W * h < W * W
    BY <1>1, WordType
  <2> HIDE DEF h
  <2> QED
    BY <2>1, <1>1, WordType
<1>3. s = t + h * (W - 1)
  BY <1>1, WordType
<1>4. t \in 0..(2 * W - 2)
  BY <1>1, <1>2, WordType
<1>5. Fold(s) = (t + (t \div W)) % W
  BY DEF Fold
<1> HIDE DEF h, l
<1>6. CASE t < W
  <2>1. t \div W = 0
    BY <1>4, <1>6, WordType
  <2>2. Fold(s) = t
    <3>1. t % W = t
      BY <1>4, <1>6, WordType
    <3> QED
      BY <1>4, <1>5, <2>1, <3>1
  <2>3. s = Fold(s) + h * (W - 1)
    BY <1>3, <2>2
  <2>4. s > 0 => t > 0
    <3>1. t = 0 => h = 0 /\ l = 0
      BY <1>1
    <3> QED
      BY <1>1, <1>3, <1>4, <3>1, WordType
  <2>5. \E k \in Nat : s = Fold(s) + k * (W - 1)
    BY <1>1, <2>3, Zenon
  <2>6. t \in 0..(W - 1)
    BY <1>4, <1>6, WordType
  <2> QED
    BY <2>2, <2>4, <2>5, <2>6
<1>7. CASE t >= W
  <2>1. t \div W = 1
    BY <1>4, <1>7, WordType
  <2>2. Fold(s) = t + 1 - W
    <3>1. (t + 1) % W = t + 1 - W
      BY <1>4, <1>7, WordType
    <3> QED
      BY <1>5, <2>1, <3>1
  <2>3. s = Fold(s) + (h + 1) * (W - 1)
    BY <1>1, <1>3, <1>4, <2>2, WordType
  <2>4. Fold(s) \in 1..(W - 1)
    BY <1>4, <1>7, <2>2, WordType
  <2>5. h + 1 \in Nat
    BY <1>1
  <2>6. \E k \in Nat : s = Fold(s) + k * (W - 1)
    BY <2>3, <2>5, Zenon
  <2> QED
    BY <2>4, <2>6, WordType
<1> QED
  BY <1>4, <1>6, <1>7, WordType

\* A host that adds all words of a packet, the checksum among them, folds them
\* to all ones: s is the sum of the other words.
THEOREM FoldsToOnes ==
  \A s \in Nat : s + W <= W * W => Fold(s + Complement(Fold(s))) = W - 1
<1> SUFFICES ASSUME NEW s \in Nat, s + W <= W * W
             PROVE  Fold(s + Complement(Fold(s))) = W - 1
  OBVIOUS
<1> DEFINE f == Fold(s)
           u == s + (W - 1 - f)
           g == Fold(u)
<1>1. s \in 0..(W * W - 1)
  BY WordType
<1>2. f \in 0..(W - 1) /\ \E k \in Nat : s = f + k * (W - 1)
  BY <1>1, FoldRange
<1>3. u \in 0..(W * W - 1) /\ u > 0
  <2>1. f = W - 1 => s # 0
    BY <1>1, <1>2, WordType
  <2> HIDE DEF f
  <2> QED
    BY <1>2, <2>1, WordType
<1>4. g \in 1..(W - 1) /\ \E k \in Nat : u = g + k * (W - 1)
  <2> HIDE DEF u
  <2>1. /\ g \in 0..(W - 1) /\ \E k \in Nat : u = g + k * (W - 1)
        /\ u > 0 => g > 0
    BY <1>3, FoldRange
  <2> HIDE DEF g
  <2>2. g \in 1..(W - 1)
    BY <1>3, <2>1, WordType
  <2> QED
    BY <2>1, <2>2
<1> HIDE DEF f, g
<1>5. PICK k \in Nat : s = f + k * (W - 1)
  BY <1>2
<1>6. PICK m \in Nat : u = g + m * (W - 1)
  BY <1>4
<1>7. g = (k + 1 - m) * (W - 1)
  BY <1>2, <1>4, <1>5, <1>6, WordType
<1>8. k + 1 - m = 1
  <2>1. k + 1 - m >= 1
    BY <1>4, <1>7, WordType
  <2>2. ~ (k + 1 - m >= 2)
    BY <1>4, <1>7, WordType
  <2> QED
    BY <2>1, <2>2
<1>9. g = W - 1
  BY <1>7, <1>8, WordType
<1> QED
  BY <1>9 DEF f, g, Complement

-----------------------------------------------------------------------------
\* What the loop of calcCheckSum has added so far.
Summing ==
  /\ sent.kind \in {"ping", "string"}
  /\ Size \in 9..(W + 8)
  /\ buf \in [0..(Size - 1) -> Byte]
  /\ iter \in HeaderSize..DataEnd
  /\ sum \in Nat
  /\ pc = "header" => iter = HeaderSize /\ sum = 0
  /\ pc = "sum" => \/ 2 * sum <= (iter - 2) * (W - 1)
                   \/ iter = DataEnd /\ 2 * sum <= (iter - 1) * (W - 1)

\* Where the parts of a packet are.
Layout ==
  /\ buf[0] = EchoRequest /\ buf[Size - 1] = 0
  /\ sent.kind = "ping" =>
       /\ Size = K + 13 /\ id \in Word
       /\ WordAt(buf, 4) = id
       /\ WordAt(buf, 8) = sent.ping.tid
       /\ sent.ping.stamp \in [1..K -> Byte]
       /\ \A j \in 1..K : buf[j + 9] = sent.ping.stamp[j]
       /\ WordAt(buf, K + 10) = sent.ping.idx

\* Both halves of a word are bytes.
LEMMA WordBytes == \A i \in Word : i % B \in Byte /\ i \div B \in Byte
<1> TAKE i \in Word
<1> DEFINE q == i \div B
<1>1. B \in Nat \ {0} /\ B >= 3 /\ i \in Nat /\ i < B * B
  BY IcmpAssumption, WordType DEF Word, W
<1>2. q \in Nat /\ i % B \in 0..(B - 1) /\ i = B * q + (i % B)
  BY <1>1, DivMod
<1> HIDE DEF q
<1>3. B * q < B * B
  BY <1>1, <1>2
<1>4. q < B
  BY <1>1, <1>2, <1>3
<1> QED
  BY <1>1, <1>2, <1>4 DEF q, Byte

\* The two bytes of a word make it again.
LEMMA BytesWord == \A i \in Word : (i % B) + B * (i \div B) = i
<1> TAKE i \in Word
<1>1. B \in Nat \ {0} /\ i \in Nat
  BY IcmpAssumption, WordType DEF Word, W
<1>2. i \div B \in Nat /\ i % B \in 0..(B - 1) /\ i = B * (i \div B) + (i % B)
  BY <1>1, DivMod
<1> QED
  BY <1>1, <1>2

\* Where the parts of a concatenation are.
LEMMA TwoParts ==
  ASSUME NEW a \in Seq(Byte), NEW b \in Seq(Byte)
  PROVE  /\ a \o b \in Seq(Byte)
         /\ Len(a \o b) = Len(a) + Len(b)
         /\ \A o \in 1..Len(a) : (a \o b)[o] = a[o]
         /\ \A o \in 1..Len(b) : (a \o b)[o + Len(a)] = b[o]
OBVIOUS

LEMMA ThreeParts ==
  ASSUME NEW a \in Seq(Byte), NEW b \in Seq(Byte), NEW c \in Seq(Byte),
         Len(a) = 2, Len(c) = 2
  PROVE  /\ (a \o b) \o c \in Seq(Byte) /\ Len((a \o b) \o c) = Len(b) + 4
         /\ ((a \o b) \o c)[1] = a[1] /\ ((a \o b) \o c)[2] = a[2]
         /\ \A o \in 1..Len(b) : ((a \o b) \o c)[o + 2] = b[o]
         /\ ((a \o b) \o c)[Len(b) + 3] = c[1]
         /\ ((a \o b) \o c)[Len(b) + 4] = c[2]
<1> DEFINE ab  == a \o b
           abc == ab \o c
<1>1. /\ ab \in Seq(Byte) /\ Len(b) \in Nat /\ Len(ab) = Len(b) + 2
      /\ ab[1] = a[1] /\ ab[2] = a[2]
      /\ \A o \in 1..Len(b) : ab[o + 2] = b[o]
  <2>1. /\ ab \in Seq(Byte)
        /\ Len(ab) = Len(a) + Len(b)
        /\ \A o \in 1..Len(a) : ab[o] = a[o]
        /\ \A o \in 1..Len(b) : ab[o + Len(a)] = b[o]
    BY TwoParts
  <2> HIDE DEF ab
  <2> QED
    BY <2>1
<1> HIDE DEF ab
<1>2. /\ abc \in Seq(Byte)
      /\ Len(abc) = Len(ab) + Len(c)
      /\ \A o \in 1..Len(ab) : abc[o] = ab[o]
      /\ \A o \in 1..Len(c) : abc[o + Len(ab)] = c[o]
  BY <1>1, TwoParts
<1> HIDE DEF abc
<1>3. \A o \in 1..Len(b) : o + 2 \in 1..Len(ab) /\ abc[o + 2] = b[o]
  BY <1>1, <1>2
<1>4. /\ Len(b) + 3 = 1 + Len(ab) /\ Len(b) + 4 = 2 + Len(ab)
      /\ abc[1] = a[1] /\ abc[2] = a[2]
  BY <1>1, <1>2
<1>5. abc[1 + Len(ab)] = c[1] /\ abc[2 + Len(ab)] = c[2]
  BY <1>2
<1> QED
  BY <1>1, <1>2, <1>3, <1>4, <1>5 DEF abc, ab

\* A new packet is a buffer of bytes.
LEMMA PacketBytes ==
  ASSUME NEW i \in Word, NEW content \in Seq(Byte),
         NEW j \in Byte, NEW k \in Byte
  PROVE  /\ Fresh(i, content, j, k) \in [0..(Len(content) + 8) -> Byte]
         /\ Fresh(i, content, j, k)[0] = EchoRequest
         /\ Fresh(i, content, j, k)[4] = i % B
         /\ Fresh(i, content, j, k)[5] = i \div B
         /\ \A o \in 1..Len(content) : Fresh(i, content, j, k)[o + 7] = content[o]
         /\ Fresh(i, content, j, k)[Len(content) + 8] = 0
<1>1. B \in Nat /\ B >= 3
  BY IcmpAssumption
<1>2. i % B \in Byte /\ i \div B \in Byte
  BY WordBytes
<1> DEFINE head == <<EchoRequest, 0, j, k, i % B, i \div B, 0, 0>>
           bytes == head \o content \o <<0>>
<1>3. 0 \in Byte /\ EchoRequest \in Byte
  BY <1>1, IcmpAssumption DEF Byte
<1>4. head \in Seq(Byte) /\ Len(head) = 8
  BY <1>2, <1>3
<1>5. Fresh(i, content, j, k) = [o \in 0..(Len(bytes) - 1) |-> bytes[o + 1]]
  BY DEF Fresh
<1> HIDE DEF head
<1>6. head \o content \in Seq(Byte) /\ Len(head \o content) = Len(content) + 8
  <2>1. /\ head \o content \in Seq(Byte)
        /\ Len(head \o content) = Len(head) + Len(content)
        /\ Len(content) \in Nat
    BY <1>4, ConcatBytes, Zenon
  <2> QED
    BY <1>4, <2>1
<1>7. bytes \in Seq(Byte) /\ Len(bytes) = Len(content) + 9 /\ Len(content) \in Nat
  BY <1>3, <1>6
<1>8. /\ head[1] = EchoRequest /\ head[5] = i % B /\ head[6] = i \div B
  BY DEF head
<1>9. /\ bytes[1] = EchoRequest /\ bytes[5] = i % B /\ bytes[6] = i \div B
      /\ \A o \in 1..Len(content) : bytes[o + 8] = content[o]
      /\ bytes[Len(content) + 9] = 0
  <2> DEFINE front == head \o content
  <2>1. /\ front \in Seq(Byte) /\ Len(front) = Len(content) + 8
        /\ Len(content) \in Nat
        /\ \A n \in 1..8 : front[n] = head[n]
        /\ \A o \in 1..Len(content) : front[o + 8] = content[o]
    BY <1>4, <1>6
  <2> HIDE DEF front
  <2>2. /\ \A n \in 1..(Len(content) + 8) : (front \o <<0>>)[n] = front[n]
        /\ (front \o <<0>>)[Len(content) + 9] = 0
    BY <2>1
  <2> QED
    BY <1>8, <2>1, <2>2 DEF front
<1> HIDE DEF bytes
<1> QED
  BY <1>5, <1>7, <1>9

LEMMA PingBytes ==
  ASSUME NEW p, p.tid \in Word, p.idx \in Word, p.stamp \in [1..K -> Byte]
  PROVE  /\ PingData(p) \in Seq(Byte) /\ Len(PingData(p)) = K + 4
         /\ PingData(p)[1] = p.tid % B /\ PingData(p)[2] = p.tid \div B
         /\ \A j \in 1..K : PingData(p)[j + 2] = p.stamp[j]
         /\ PingData(p)[K + 3] = p.idx % B /\ PingData(p)[K + 4] = p.idx \div B
<1> DEFINE a == LowHigh(p.tid)
           b == p.stamp
           c == LowHigh(p.idx)
<1>1. /\ a \in Seq(Byte) /\ Len(a) = 2 /\ c \in Seq(Byte) /\ Len(c) = 2
      /\ a[1] = p.tid % B /\ a[2] = p.tid \div B
      /\ c[1] = p.idx % B /\ c[2] = p.idx \div B
  BY WordBytes DEF LowHigh
<1>2. b \in Seq(Byte) /\ Len(b) = K /\ K \in Nat
  BY IcmpAssumption
<1>3. PingData(p) = (a \o b) \o c
  BY DEF PingData
<1> HIDE DEF a, b, c
<1> DEFINE d == (a \o b) \o c
<1>4. /\ PingData(p) \in Seq(Byte) /\ Len(PingData(p)) = Len(b) + 4
      /\ PingData(p)[1] = a[1] /\ PingData(p)[2] = a[2]
      /\ \A o \in 1..Len(b) : PingData(p)[o + 2] = b[o]
      /\ PingData(p)[Len(b) + 3] = c[1] /\ PingData(p)[Len(b) + 4] = c[2]
  <2>1. /\ d \in Seq(Byte) /\ Len(d) = Len(b) + 4
        /\ d[1] = a[1] /\ d[2] = a[2]
        /\ \A o \in 1..Len(b) : d[o + 2] = b[o]
        /\ d[Len(b) + 3] = c[1] /\ d[Len(b) + 4] = c[2]
    <3>1. a \in Seq(Byte) /\ Len(a) = 2 /\ c \in Seq(Byte) /\ Len(c) = 2
          /\ b \in Seq(Byte)
      BY <1>1, <1>2
    <3> QED
      BY <3>1, ThreeParts, Zenon
  <2> HIDE DEF d
  <2> QED
    BY <1>3, <2>1 DEF d
<1> QED
  BY <1>1, <1>2, <1>4 DEF b

LEMMA SummingInit == Init => Summing /\ Layout
<1> SUFFICES ASSUME Init PROVE Summing /\ Layout
  OBVIOUS
<1>1. PICK j \in Junk, k \in Junk :
        buf = Fresh(id, IF sent.kind = "ping" THEN PingData(sent.ping)
                                              ELSE sent.content, j, k)
  BY DEF Init
<1>2. j \in Byte /\ k \in Byte /\ id \in Word
  BY <1>1, IcmpAssumption DEF Init
<1>3. CASE \E p \in Pings : sent = [kind |-> "ping", ping |-> p]
  <2>1. PICK p \in Pings : sent = [kind |-> "ping", ping |-> p]
    BY <1>3
  <2>2. p.tid \in Word /\ p.idx \in Word /\ p.stamp \in [1..K -> Byte]
    BY IcmpAssumption
  <2>5. PingData(p) \in Seq(Byte) /\ Len(PingData(p)) = Extra
    BY <2>2, PingBytes DEF Extra
  <2>6. buf = Fresh(id, PingData(p), j, k) /\ sent.kind = "ping"
    BY <1>1, <2>1
  <2>7. Size = Extra + 9 /\ Size \in 9..(W + 8)
    BY <2>6, WordType, IcmpAssumption DEF Size, HeaderSize, Extra
  <2>8. buf \in [0..(Size - 1) -> Byte]
    <3>1. Fresh(id, PingData(p), j, k) \in [0..(Len(PingData(p)) + 8) -> Byte]
      BY <1>2, <2>5, PacketBytes
    <3>2. Len(PingData(p)) + 8 = Size - 1
      BY <2>5, <2>7, IcmpAssumption DEF Extra
    <3> QED
      BY <2>6, <3>1, <3>2
  <2>9. Layout
    <3> DEFINE d == PingData(p)
               f == Fresh(id, d, j, k)
    <3>1. /\ d \in Seq(Byte) /\ Len(d) = K + 4
          /\ d[1] = p.tid % B /\ d[2] = p.tid \div B
          /\ \A m \in 1..K : d[m + 2] = p.stamp[m]
          /\ d[K + 3] = p.idx % B /\ d[K + 4] = p.idx \div B
      BY <2>2, PingBytes
    <3> HIDE DEF d
    <3>2. /\ f[0] = EchoRequest /\ f[4] = id % B /\ f[5] = id \div B
          /\ \A o \in 1..Len(d) : f[o + 7] = d[o]
          /\ f[Len(d) + 8] = 0
      BY <1>2, <3>1, PacketBytes
    <3> HIDE DEF f
    <3>3. K \in Nat \ {0}
      BY IcmpAssumption
    <3>4. /\ f[8] = p.tid % B /\ f[9] = p.tid \div B
          /\ \A m \in 1..K : f[m + 9] = p.stamp[m]
          /\ f[K + 10] = p.idx % B /\ f[K + 11] = p.idx \div B
          /\ f[K + 12] = 0
      <4>1. f[8] = d[1] /\ f[9] = d[2] /\ f[K + 10] = d[K + 3] /\ f[K + 11] = d[K + 4]
        BY <3>1, <3>2, <3>3
      <4>2. \A m \in 1..K : f[m + 9] = d[m + 2]
        BY <3>1, <3>2, <3>3
      <4> QED
        BY <3>1, <3>2, <3>3, <4>1, <4>2
    <3>5. Size = K + 13
      BY <2>7, <3>3 DEF Extra
    <3>6. /\ WordAt(f, 4) = id /\ WordAt(f, 8) = p.tid
          /\ WordAt(f, K + 10) = p.idx
      <4>1. K + 10 + 1 = K + 11
        BY <3>3
      <4> QED
        BY <1>2, <2>2, <3>2, <3>4, <4>1, BytesWord DEF WordAt
    <3>7. buf = f /\ sent.kind = "ping" /\ sent.ping = p
      BY <2>1, <2>6 DEF f, d
    <3> QED
      BY <1>2, <2>2, <3>2, <3>3, <3>4, <3>5, <3>6, <3>7 DEF Layout
  <2> QED
    BY <2>6, <2>7, <2>8, <2>9 DEF Init, Summing, HeaderSize, DataEnd
<1>4. CASE \E s \in Strings : sent = [kind |-> "string", content |-> s]
  <2>1. PICK s \in Strings : sent = [kind |-> "string", content |-> s]
    BY <1>4
  <2>2. s \in Seq(Byte) /\ Len(s) \in Nat /\ Len(s) < W
    BY IcmpAssumption
  <2>3. buf = Fresh(id, s, j, k) /\ sent.kind = "string" /\ sent.content = s
    BY <1>1, <2>1
  <2>4. Size = Len(s) + 9 /\ Size \in 9..(W + 8)
    BY <2>2, <2>3, WordType DEF Size, HeaderSize
  <2>5. buf \in [0..(Size - 1) -> Byte]
    BY <1>2, <2>2, <2>3, <2>4, PacketBytes
  <2>6. Layout
    <3>1. /\ Fresh(id, s, j, k)[0] = EchoRequest
          /\ Fresh(id, s, j, k)[Len(s) + 8] = 0
      BY <1>2, <2>2, PacketBytes
    <3>2. Size - 1 = Len(s) + 8
      BY <2>2, <2>4
    <3> QED
      BY <2>3, <3>1, <3>2 DEF Layout
  <2> QED
    BY <2>3, <2>4, <2>5, <2>6 DEF Init, Summing, HeaderSize, DataEnd
<1> QED
  BY <1>3, <1>4 DEF Init

\* Two bytes make at most a word.
LEMMA TwoBytes == \A a, b \in Byte : a * B + b \in 0..(W - 1)
<1> TAKE a, b \in Byte
<1>1. B \in Nat /\ B >= 3 /\ a \in Nat /\ b \in Nat /\ a <= B - 1 /\ b <= B - 1
  BY IcmpAssumption DEF Byte
<1>2. a * B <= (B - 1) * B /\ a * B \in Nat
  BY <1>1
<1>3. (B - 1) * B = W - B
  BY <1>1, WordType
<1> QED
  BY <1>1, <1>2, <1>3, WordType

LEMMA NoRest == \A n \in 0..(W * W - 1) : UInt(n) = n
  BY WordType DEF UInt

\* What is added of the header.
LEMMA HeaderSum ==
  ASSUME Summing, SumHeader
  PROVE  /\ sum' = (buf[0] * B + buf[1]) + (buf[4] * B + buf[5])
                      + (buf[6] * B + buf[7])
         /\ sum' \in Nat /\ sum' <= 3 * (W - 1)
<1> DEFINE n == (buf[0] * B + buf[1]) + (buf[4] * B + buf[5])
                  + (buf[6] * B + buf[7])
<1>1. n \in Nat /\ n <= 3 * (W - 1)
  <2>1. \A o \in 0..7 : buf[o] \in Byte
    BY WordType DEF Summing
  <2>2. /\ buf[0] * B + buf[1] \in 0..(W - 1)
        /\ buf[4] * B + buf[5] \in 0..(W - 1)
        /\ buf[6] * B + buf[7] \in 0..(W - 1)
    BY <2>1, TwoBytes
  <2> QED
    BY <2>2, WordType
<1>2. n \in 0..(W * W - 1)
  <2>1. W * W >= 9 * W
    BY WordType
  <2> QED
    BY <1>1, <2>1, WordType
<1>3. sum' = UInt(n)
  BY DEF SumHeader
<1> HIDE DEF n
<1>4. sum' = n
  BY <1>2, <1>3, NoRest
<1> QED
  BY <1>1, <1>4 DEF n

\* What the loop adds in a turn.
LEMMA DataSum ==
  ASSUME Summing, SumData
  PROVE  /\ iter \in 8..(DataEnd - 1) /\ pc = "sum"
         /\ 2 * sum <= (iter - 2) * (W - 1)
         /\ \E n \in 0..(W - 1) :
              /\ n = buf[iter] * B + (IF iter + 1 # DataEnd THEN buf[iter + 1] ELSE 0)
              /\ sum' = sum + n
<1> DEFINE low == IF iter + 1 # DataEnd THEN buf[iter + 1] ELSE 0
           n   == buf[iter] * B + low
<1>1. /\ Size \in 9..(W + 8) /\ buf \in [0..(Size - 1) -> Byte]
      /\ iter \in 8..(Size - 1) /\ sum \in Nat /\ DataEnd = Size - 1
  BY WordType DEF Summing, HeaderSize, DataEnd
<1>2. iter < DataEnd /\ pc = "sum"
  BY <1>1 DEF SumData
<1>3. 2 * sum <= (iter - 2) * (W - 1)
  BY <1>1, <1>2 DEF Summing
<1>4. n \in 0..(W - 1)
  <2>1. buf[iter] \in Byte /\ low \in Byte
    BY <1>1, <1>2, IcmpAssumption DEF Byte
  <2> HIDE DEF low
  <2> QED
    BY <2>1, TwoBytes
<1>5. sum + n \in 0..(W * W - 1)
  <2> HIDE DEF n
  <2>1. 2 * (sum + n) <= iter * (W - 1)
    BY <1>1, <1>3, <1>4, WordType
  <2>2. iter <= W + 6
    BY <1>1, <1>2, WordType
  <2>3. iter * (W - 1) <= (W + 6) * (W - 1)
    BY <1>1, <2>2, WordType
  <2>4. (W + 6) * (W - 1) < 2 * (W * W)
    BY WordType
  <2> QED
    BY <1>1, <1>4, <2>1, <2>3, <2>4, WordType
<1>6. sum' = sum + n
  <2>1. sum + buf[iter] * B + low = sum + n
    <3>1. buf[iter] \in Nat /\ low \in Nat /\ B \in Nat
      BY <1>1, <1>2, IcmpAssumption DEF Byte
    <3> HIDE DEF low
    <3>2. buf[iter] * B \in Nat
      BY <3>1
    <3> QED
      BY <1>1, <3>1, <3>2
  <2>2. sum' = UInt(sum + n)
    BY <2>1 DEF SumData
  <2> HIDE DEF n
  <2> QED
    BY <1>5, <2>2, NoRest
<1>7. n = buf[iter] * B + (IF iter + 1 # DataEnd THEN buf[iter + 1] ELSE 0)
  OBVIOUS
<1>8. iter \in 8..(DataEnd - 1)
  BY <1>1, <1>2
<1> HIDE DEF n
<1> QED
  BY <1>2, <1>3, <1>4, <1>6, <1>7, <1>8

\* When the checksum is stored, the sum has its 32 bits.
LEMMA SumFits ==
  ASSUME Summing, Store
  PROVE  sum \in 0..(W * W - 1)
<1>1. Size \in 9..(W + 8) /\ iter \in 8..(Size - 1) /\ sum \in Nat
  BY WordType DEF Summing, HeaderSize, DataEnd
<1>2. 2 * sum <= (iter - 1) * (W - 1)
  <2>1. (iter - 2) * (W - 1) <= (iter - 1) * (W - 1)
    BY <1>1, WordType
  <2> QED
    BY <1>1, <2>1, WordType DEF Summing, Store
<1>3. (iter - 1) * (W - 1) <= (W + 6) * (W - 1)
  BY <1>1, WordType
<1>4. (W + 6) * (W - 1) < 2 * (W * W)
  BY WordType
<1> QED
  BY <1>1, <1>2, <1>3, <1>4, WordType

\* The loop adds no more than a word per turn.
LEMMA SummingStep ==
  ASSUME Summing, Next
  PROVE  /\ Summing'
         /\ sum' >= sum
<1>1. /\ Size \in 9..(W + 8) /\ buf \in [0..(Size - 1) -> Byte]
      /\ iter \in 8..(Size - 1) /\ sum \in Nat /\ DataEnd = Size - 1
  BY WordType DEF Summing, HeaderSize, DataEnd
<1>4. CASE SumHeader
  <2>1. /\ pc = "header" /\ pc' = "sum" /\ iter' = iter /\ buf' = buf /\ sent' = sent
        /\ sum' \in Nat /\ sum' <= 3 * (W - 1)
    BY <1>4, HeaderSum DEF SumHeader
  <2>2. sum = 0 /\ iter = 8
    BY <2>1 DEF Summing, HeaderSize
  <2>3. 2 * sum' <= (iter' - 2) * (W - 1)
    <3>1. iter' - 2 = 6
      BY <2>1, <2>2
    <3>2. W \in Nat /\ sum' \in Nat /\ sum' <= 3 * (W - 1)
      BY <2>1, WordType
    <3>3. \A x, y \in Nat : x <= 3 * (y - 1) => 2 * x <= 6 * (y - 1)
      OBVIOUS
    <3>4. 2 * sum' <= 6 * (W - 1)
      BY <3>2, <3>3
    <3> QED
      BY <3>1, <3>4
  <2> QED
    BY <2>1, <2>2, <2>3 DEF Summing, Size, DataEnd
<1>5. CASE SumData
  <2>1. iter \in 8..(DataEnd - 1) /\ pc = "sum" /\ 2 * sum <= (iter - 2) * (W - 1)
    BY <1>5, DataSum
  <2>2. PICK n \in 0..(W - 1) : sum' = sum + n
    BY <1>5, DataSum
  <2>3. /\ pc' = pc /\ buf' = buf /\ sent' = sent
        /\ iter' = IF iter + 1 # DataEnd THEN iter + 2 ELSE iter + 1
    BY <1>5 DEF SumData
  <2>4. /\ iter' \in HeaderSize..DataEnd
        /\ \/ 2 * sum' <= (iter' - 2) * (W - 1)
           \/ iter' = DataEnd /\ 2 * sum' <= (iter' - 1) * (W - 1)
    BY <1>1, <2>1, <2>2, <2>3, WordType DEF HeaderSize
  <2> QED
    BY <1>1, <2>1, <2>2, <2>3, <2>4 DEF Summing, Size, DataEnd
<1>6. CASE Store
  <2>1. pc' = "built" /\ sent' = sent /\ iter' = iter /\ sum' = sum
    BY <1>6 DEF Store
  <2>2. sum \in 0..(W * W - 1)
    BY <1>6, SumFits
  <2>3. Complement(Fold(sum)) \in Word
    BY <2>2, FoldRange, WordType DEF Complement, Word
  <2>4. buf' \in [0..(Size - 1) -> Byte]
    BY <1>1, <1>6, <2>3, WordBytes DEF Store
  <2> QED
    BY <1>1, <2>1, <2>4 DEF Summing, Size, DataEnd
<1>7. CASE \E hl \in HeaderWords, cut \in 0..Size : SocketRead(hl, cut)
  BY <1>1, <1>7 DEF SocketRead, Summing, Size, DataEnd
<1>8. CASE Done
  BY <1>1, <1>8 DEF Done, vars, Summing, Size, DataEnd
<1> QED
  BY <1>4, <1>5, <1>6, <1>7, <1>8 DEF Next

\* The 32 bits of calcCheckSum's accumulator are enough for every packet that
\* an IP datagram can hold.
THEOREM NoWrap == Spec => NeverWraps
<1>1. Summing /\ [Next]_vars => Summing'
  <2>1. Summing /\ UNCHANGED vars => Summing'
    BY DEF vars, Summing, Size, DataEnd
  <2> QED
    BY <2>1, SummingStep
<1>2. Summing /\ [Next]_vars => [sum' >= sum]_vars
  BY SummingStep
<1> QED
  BY <1>1, <1>2, SummingInit, PTL DEF Spec, NeverWraps

-----------------------------------------------------------------------------
(***************************************************************************)
(* What the handler reads is what the sender wrote.                        *)
(***************************************************************************)
\* Only the checksum's own place is written after the constructor's first part.
LEMMA BufferFrame ==
  ASSUME Summing, [Next]_vars
  PROVE  /\ sent' = sent /\ id' = id /\ Size' = Size /\ DataEnd' = DataEnd
         /\ buf' \in [0..(Size - 1) -> Byte]
         /\ \A o \in 0..(Size - 1) : o \notin {2, 3} => buf'[o] = buf[o]
<1>1. Size \in 9..(W + 8) /\ buf \in [0..(Size - 1) -> Byte]
  BY DEF Summing
<1>2. sent' = sent /\ id' = id
  BY DEF Next, SumHeader, SumData, Store, SocketRead, Done, vars
<1>3. Size' = Size /\ DataEnd' = DataEnd
  BY <1>2 DEF Size, DataEnd
<1>4. CASE Store
  <2> DEFINE c == Complement(Fold(sum))
  <2>1. buf' = [buf EXCEPT ![2] = c \div B, ![3] = c % B]
    BY <1>4 DEF Store
  <2>2. buf' \in [0..(Size - 1) -> Byte]
    <3>1. Summing'
      BY <1>4, SummingStep DEF Next
    <3> QED
      BY <1>3, <3>1 DEF Summing
  <2> HIDE DEF c
  <2> QED
    BY <1>1, <1>2, <1>3, <2>1, <2>2
<1>5. CASE UNCHANGED buf
  BY <1>1, <1>2, <1>3, <1>5
<1> QED
  BY <1>4, <1>5 DEF Next, SumHeader, SumData, SocketRead, Done, vars

LEMMA LayoutStep ==
  ASSUME Summing, Layout, [Next]_vars
  PROVE  Layout'
<1>1. /\ sent' = sent /\ id' = id /\ Size' = Size
      /\ buf' \in [0..(Size - 1) -> Byte]
      /\ \A o \in 0..(Size - 1) : o \notin {2, 3} => buf'[o] = buf[o]
  BY BufferFrame
<1>2. Size \in Nat /\ Size >= 9
  BY WordType DEF Summing
<1>3. buf'[0] = EchoRequest /\ buf'[Size - 1] = 0
  <2>1. 0 \in 0..(Size - 1) /\ Size - 1 \in 0..(Size - 1) /\ Size - 1 >= 8
    BY <1>2
  <2> QED
    BY <1>1, <2>1 DEF Layout
<1>4. ASSUME sent.kind = "ping"
      PROVE  /\ WordAt(buf', 4) = id /\ WordAt(buf', 8) = sent.ping.tid
             /\ \A j \in 1..K : buf'[j + 9] = sent.ping.stamp[j]
             /\ WordAt(buf', K + 10) = sent.ping.idx
  <2>1. Size = K + 13 /\ K \in Nat
    BY <1>4, IcmpAssumption DEF Layout
  <2>2. ASSUME NEW o \in 4..(K + 11) PROVE buf'[o] = buf[o]
    BY <1>1, <2>1
  <2>3. ASSUME NEW o \in 4..(K + 10) PROVE WordAt(buf', o) = WordAt(buf, o)
    <3>1. o \in 4..(K + 11) /\ o + 1 \in 4..(K + 11)
      BY <2>1
    <3> QED
      BY <2>2, <3>1 DEF WordAt
  <2>4. /\ 4 \in 4..(K + 10) /\ 8 \in 4..(K + 10) /\ K + 10 \in 4..(K + 10)
        /\ \A j \in 1..K : j + 9 \in 4..(K + 11)
    BY <2>1
  <2> QED
    BY <1>4, <2>2, <2>3, <2>4 DEF Layout
<1> QED
  BY <1>1, <1>3, <1>4 DEF Layout

LEMMA ReadsBackStep ==
  ASSUME Summing, Layout, ReadsBack, [Next]_vars
  PROVE  ReadsBack'
<1>1. sent' = sent /\ id' = id
  BY BufferFrame
<1>2. ASSUME NEW hl \in HeaderWords, NEW cut \in 0..Size, SocketRead(hl, cut),
             pc' = "parsed", sent.kind = "ping"
      PROVE  got' = [tid |-> sent.ping.tid, stamp |-> sent.ping.stamp,
                     idx |-> sent.ping.idx, id |-> id, type |-> 0]
  <2> DEFINE r == [o \in 0..(Size - cut - 1) |-> Reply[o]]
  <2>1. K \in Nat \ {0} /\ Size = K + 13 /\ hl \in Nat
    BY <1>2, IcmpAssumption DEF Layout
  <2>2. got' = Parse(r) /\ ~TooShort(hl, 4 * hl + Size - cut)
    BY <1>2 DEF SocketRead
  <2>3. Size - cut >= K + 12
    BY <2>1, <2>2 DEF TooShort, HeaderSize, Extra
  <2>4. ASSUME NEW o \in 0..(K + 11)
        PROVE  r[o] = IF o = 0 THEN 0 ELSE buf[o]
    BY <2>1, <2>3 DEF Reply
  <2> HIDE DEF r
  <2>5. ASSUME NEW o \in 1..(K + 10) PROVE WordAt(r, o) = WordAt(buf, o)
    <3>1. o \in 0..(K + 11) /\ o + 1 \in 0..(K + 11) /\ o # 0 /\ o + 1 # 0
      BY <2>1
    <3> QED
      BY <2>4, <3>1 DEF WordAt
  <2>6. /\ r[0] = 0 /\ WordAt(r, 4) = id
        /\ WordAt(r, 8) = sent.ping.tid /\ WordAt(r, K + 10) = sent.ping.idx
    <3>1. 0 \in 0..(K + 11) /\ 4 \in 1..(K + 10) /\ 8 \in 1..(K + 10)
          /\ K + 10 \in 1..(K + 10)
      BY <2>1
    <3> QED
      BY <1>2, <2>4, <2>5, <3>1 DEF Layout
  <2>7. StampAt(r, 10) = sent.ping.stamp
    <3>1. ASSUME NEW j \in 1..K PROVE r[10 + j - 1] = sent.ping.stamp[j]
      <4>1. 10 + j - 1 = j + 9 /\ j + 9 \in 0..(K + 11) /\ j + 9 # 0
        BY <2>1
      <4> QED
        BY <1>2, <2>4, <4>1 DEF Layout
    <3>2. sent.ping.stamp = [j \in 1..K |-> sent.ping.stamp[j]]
      BY <1>2 DEF Layout
    <3> QED
      BY <3>1, <3>2 DEF StampAt
  <2>8. HeaderSize = 8 /\ HeaderSize + 2 = 10 /\ HeaderSize + K + 2 = K + 10
    BY <2>1 DEF HeaderSize
  <2> QED
    BY <2>2, <2>6, <2>7, <2>8 DEF Parse
<1>3. CASE pc' # "parsed"
  BY <1>3 DEF ReadsBack
<1>4. CASE UNCHANGED <<pc, got>>
  BY <1>1, <1>4 DEF ReadsBack
<1>5. ~(pc' = "parsed") \/ UNCHANGED <<pc, got>>
        \/ \E hl \in HeaderWords, cut \in 0..Size : SocketRead(hl, cut)
  BY DEF Next, SumHeader, SumData, Store, Done, vars
<1> QED
  BY <1>1, <1>2, <1>3, <1>4, <1>5 DEF ReadsBack

\* A reply is read as it was written, whatever the sizes of a byte and of a
\* timestamp, and also when its last byte is missing.
THEOREM ReadAsWritten == Spec => []ReadsBack
<1>1. Init => ReadsBack
  BY DEF Init, ReadsBack
<1>2. Summing /\ [Next]_vars => Summing'
  <2>1. Summing /\ UNCHANGED vars => Summing'
    BY DEF vars, Summing, Size, DataEnd
  <2> QED
    BY <2>1, SummingStep
<1>3. Summing /\ Layout /\ ReadsBack /\ [Next]_vars => Layout' /\ ReadsBack'
  BY LayoutStep, ReadsBackStep
<1> QED
  BY <1>1, <1>2, <1>3, SummingInit, PTL DEF Spec

-----------------------------------------------------------------------------
(***************************************************************************)
(* Sums over the words of a packet.  The library's induction theorems take *)
(* an operator; this one takes the set of the numbers it has been shown    *)
(* for, so it can be cited.                                                *)
(***************************************************************************)
LEMMA SetInduction ==
  ASSUME NEW S, 0 \in S, \A n \in Nat : n \in S => n + 1 \in S
  PROVE  Nat \subseteq S
<1> DEFINE T == Nat \ S
<1> SUFFICES ASSUME T # {} PROVE FALSE
  OBVIOUS
<1>1. PICK x \in T : \A y \in T : ~ (<<y, x>> \in OpToRel(<,Nat))
  <2>1. T \subseteq Nat
    OBVIOUS
  <2> HIDE DEF T
  <2> QED
    BY <2>1, WFMin, NatLessThanWellFounded
<1>2. x \in Nat /\ x \notin S /\ x # 0
  OBVIOUS
<1>3. x - 1 \in Nat /\ (x - 1) + 1 = x /\ x - 1 < x
  BY <1>2
<1>4. x - 1 \in T
  BY <1>2, <1>3
<1>5. <<x - 1, x>> \in OpToRel(<,Nat)
  BY <1>2, <1>3 DEF OpToRel
<1> QED
  BY <1>1, <1>4, <1>5

\* The first value of v is d, and rule s makes the next of each.
Follows(v, n, D, d, s) ==
  /\ v \in [0..n -> D]
  /\ v[0] = d
  /\ \A k \in 0..(n - 1) : v[k + 1] = s[k][v[k]]

\* There is such a function of any length.
LEMMA Recursion ==
  ASSUME NEW D, NEW d \in D, NEW s \in [Nat -> [D -> D]], NEW m \in Nat
  PROVE  \E v : Follows(v, m, D, d, s)
<1> USE DEF Follows
<1> DEFINE Good(n, v) == Follows(v, n, D, d, s)
           S == {n \in Nat : \E v \in [0..n -> D] : Good(n, v)}
<1>1. 0 \in S
  <2> DEFINE v == [k \in 0..0 |-> d]
  <2>1. v \in [0..0 -> D] /\ Good(0, v)
    OBVIOUS
  <2> QED
    BY <2>1
<1>2. ASSUME NEW n \in Nat, n \in S PROVE n + 1 \in S
  <2>1. PICK v \in [0..n -> D] : Good(n, v)
    BY <1>2
  <2> DEFINE u == [k \in 0..(n + 1) |-> IF k = n + 1 THEN s[n][v[n]] ELSE v[k]]
  <2>2. n \in 0..n /\ v[n] \in D /\ s[n][v[n]] \in D
    OBVIOUS
  <2>3. /\ u \in [0..(n + 1) -> D] /\ u[n + 1] = s[n][v[n]]
        /\ \A k \in 0..n : u[k] = v[k]
    <3>1. \A k \in 0..(n + 1) : k = n + 1 \/ k \in 0..n
      OBVIOUS
    <3>2. n + 1 \in 0..(n + 1) /\ \A k \in 0..n : k \in 0..(n + 1) /\ k # n + 1
      OBVIOUS
    <3> QED
      BY <2>2, <3>1, <3>2
  <2> HIDE DEF u
  <2>4. u[0] = d
    BY <2>1, <2>3
  <2>5. ASSUME NEW k \in 0..n PROVE u[k + 1] = s[k][u[k]]
    <3>1. CASE k = n
      BY <2>3, <3>1
    <3>2. CASE k # n
      <4>1. k \in 0..(n - 1) /\ k + 1 \in 0..n
        BY <3>2
      <4> QED
        BY <2>1, <2>3, <4>1
    <3> QED
      BY <3>1, <3>2
  <2>6. Good(n + 1, u)
    <3>1. (n + 1) - 1 = n
      OBVIOUS
    <3>2. \A k \in 0..((n + 1) - 1) : u[k + 1] = s[k][u[k]]
      BY <2>5, <3>1
    <3>3. u \in [0..(n + 1) -> D]
      BY <2>3
    <3> QED
      BY <2>4, <3>2, <3>3, Zenon DEF Follows
  <2> HIDE DEF Follows
  <2>7. n + 1 \in Nat
    OBVIOUS
  <2>8. \E w \in [0..(n + 1) -> D] : Good(n + 1, w)
    BY <2>3, <2>6
  <2> QED
    BY <2>7, <2>8, Zenon
<1> HIDE DEF S
<1>3. Nat \subseteq S
  BY <1>1, <1>2, SetInduction
<1> QED
  BY <1>3 DEF S

Words == (Size + 1) \div 2

\* An odd last byte is the high byte of its word.
LEMMA WordsAre ==
  ASSUME Summing
  PROVE  /\ Words \in Nat /\ Words >= 5
         /\ Size = 2 * Words \/ Size = 2 * Words - 1
         /\ \A k \in 0..(Words - 1) : PacketWord(k) \in 0..(W - 1)
<1>1. Size \in Nat /\ Size >= 9 /\ buf \in [0..(Size - 1) -> Byte]
  BY WordType DEF Summing
<1>2. Words \in Nat /\ Words >= 5 /\ (Size = 2 * Words \/ Size = 2 * Words - 1)
  BY <1>1 DEF Words
<1>3. ASSUME NEW k \in 0..(Words - 1) PROVE PacketWord(k) \in 0..(W - 1)
  <2> DEFINE low == IF 2 * k + 1 < Size THEN buf[2 * k + 1] ELSE 0
  <2>1. 2 * k \in 0..(Size - 1) /\ (2 * k + 1 < Size => 2 * k + 1 \in 0..(Size - 1))
    BY <1>1, <1>2
  <2>2. buf[2 * k] \in Byte /\ low \in Byte
    BY <1>1, <2>1, IcmpAssumption DEF Byte
  <2>3. PacketWord(k) = buf[2 * k] * B + low
    BY DEF PacketWord
  <2> HIDE DEF low
  <2> QED
    BY <2>2, <2>3, TwoBytes
<1> QED
  BY <1>2, <1>3

\* The addition of the receiver, with end-around carry.
AddWord(x, y) ==
  LET t == x + y
  IN IF t < W THEN t ELSE t - W + 1

\* OnesSum is the last of the sums of the first words.
LEMMA OnesSums ==
  ASSUME Summing
  PROVE  \E g : /\ OnesSum = g[Words] /\ g[0] = 0
                /\ \A k \in 0..(Words - 1) : g[k + 1] = AddWord(g[k], PacketWord(k))
<1> DEFINE N == (Size + 1) \div 2
           Sums(g) == g = [k \in 0..N |->
                             IF k = 0 THEN 0 ELSE AddWord(g[k - 1], PacketWord(k - 1))]
           G == CHOOSE g : Sums(g)
<1>1. OnesSum = G[N]
  BY DEF OnesSum, AddWord
<1>2. \E g : Sums(g)
  <2> DEFINE D == 0..(W - 1)
             s == [k \in Nat |-> [x \in D |->
                     IF k < N THEN AddWord(x, PacketWord(k)) ELSE 0]]
  <2>1. /\ N \in Nat /\ W \in Nat /\ W >= 9
        /\ \A k \in 0..(N - 1) : PacketWord(k) \in D
    BY WordsAre, WordType DEF Words
  <2> HIDE DEF N
  <2>2. \A x, y \in D : AddWord(x, y) \in D
    BY <2>1 DEF AddWord
  <2>3. ASSUME NEW k \in Nat, NEW x \in D
        PROVE  s[k][x] \in D /\ (k < N => s[k][x] = AddWord(x, PacketWord(k)))
    <3>1. s[k][x] = IF k < N THEN AddWord(x, PacketWord(k)) ELSE 0
      OBVIOUS
    <3>2. 0 \in D
      BY <2>1
    <3>3. k < N => k \in 0..(N - 1)
      BY <2>1
    <3> HIDE DEF s
    <3> QED
      BY <2>1, <2>2, <3>1, <3>2, <3>3
  <2> HIDE DEF s
  <2>4. 0 \in D
    BY <2>1
  <2>5. PICK v \in [0..N -> D] :
          v[0] = 0 /\ \A k \in 0..(N - 1) : v[k + 1] = s[k][v[k]]
    <3>1. s \in [Nat -> [D -> D]]
      BY <2>2, <2>1 DEF s
    <3> HIDE DEF D
    <3>2. \E v : Follows(v, N, D, 0, s)
      BY <2>1, <2>4, <3>1, Recursion
    <3> QED
      BY <3>2 DEF Follows
  <2>6. ASSUME NEW k \in 0..N
        PROVE  v[k] = IF k = 0 THEN 0 ELSE AddWord(v[k - 1], PacketWord(k - 1))
    <3>1. CASE k = 0
      BY <2>5, <3>1
    <3>2. CASE k # 0
      <4>1. k - 1 \in 0..(N - 1) /\ k - 1 \in Nat /\ k - 1 < N /\ (k - 1) + 1 = k
        BY <2>1, <3>2
      <4>2. v[k - 1] \in D
        <5>1. k - 1 \in 0..N
          BY <2>1, <4>1
        <5> HIDE DEF D
        <5> QED
          BY <5>1
      <4>3. v[k] = AddWord(v[k - 1], PacketWord(k - 1))
        BY <2>3, <2>5, <4>1, <4>2
      <4> QED
        BY <3>2, <4>3
    <3> QED
      BY <3>1, <3>2
  <2>7. v = [k \in 0..N |-> v[k]]
    OBVIOUS
  <2> QED
    BY <2>6, <2>7
<1>3. Sums(G)
  <2> HIDE DEF Sums
  <2> QED
    BY <1>2
<1>4. N \in Nat /\ Words = N
  BY WordsAre DEF Words
<1> HIDE DEF G, N
<1>5. G[0] = 0
  <2>1. 0 \in 0..N
    BY <1>4
  <2> QED
    BY <1>3, <2>1
<1>6. ASSUME NEW k \in 0..(N - 1) PROVE G[k + 1] = AddWord(G[k], PacketWord(k))
  <2>1. k + 1 \in 0..N /\ k + 1 # 0 /\ (k + 1) - 1 = k
    BY <1>4
  <2>2. G[k + 1] = AddWord(G[(k + 1) - 1], PacketWord((k + 1) - 1))
    BY <1>3, <2>1
  <2> QED
    BY <2>1, <2>2
<1> QED
  BY <1>1, <1>4, <1>5, <1>6

-----------------------------------------------------------------------------
(***************************************************************************)
(* The receiver's check.  calcCheckSum adds the same words as the receiver *)
(* but for its own, and leaves only bytes out that are zero.               *)
(***************************************************************************)
BareWord(k) == IF k = 1 THEN 0 ELSE PacketWord(k)

\* v has the sums of the first words, without the checksum.
BareSums(v) ==
  /\ v \in [0..Words -> Nat]
  /\ v[0] = 0
  /\ \A k \in 0..(Words - 1) : v[k + 1] = v[k] + BareWord(k)

LEMMA BareSumsExist ==
  ASSUME Summing
  PROVE  \E v : BareSums(v)
<1> DEFINE s == [k \in Nat |-> [x \in Nat |->
                  IF k < Words THEN x + BareWord(k) ELSE 0]]
<1>1. /\ Words \in Nat /\ W \in Nat
      /\ \A k \in 0..(Words - 1) : PacketWord(k) \in 0..(W - 1)
  BY WordsAre, WordType
<1>2. \A k \in Nat : k < Words => BareWord(k) \in Nat
  <2>1. \A k \in Nat : k < Words => k \in 0..(Words - 1)
    BY <1>1
  <2>2. \A n \in 0..(W - 1) : n \in Nat
    BY <1>1
  <2> QED
    BY <1>1, <2>1, <2>2 DEF BareWord
<1>3. s \in [Nat -> [Nat -> Nat]]
  BY <1>2
<1>4. \A k \in 0..(Words - 1), x \in Nat : s[k][x] = x + BareWord(k)
  BY <1>1
<1> HIDE DEF s
<1>5. PICK v : Follows(v, Words, Nat, 0, s)
  BY <1>1, <1>3, Recursion
<1>6. v \in [0..Words -> Nat] /\ v[0] = 0
  BY <1>5 DEF Follows
<1>7. ASSUME NEW k \in 0..(Words - 1) PROVE v[k + 1] = v[k] + BareWord(k)
  <2>1. v[k] \in Nat
    BY <1>1, <1>6
  <2>2. v[k + 1] = s[k][v[k]]
    BY <1>5 DEF Follows
  <2> QED
    BY <1>4, <2>1, <2>2
<1> QED
  BY <1>6, <1>7 DEF BareSums

LEMMA BareSumsFrame ==
  ASSUME Summing, [Next]_vars, NEW v, BareSums(v)
  PROVE  Words' = Words /\ BareSums(v)'
<1>1. /\ Size' = Size
      /\ \A o \in 0..(Size - 1) : o \notin {2, 3} => buf'[o] = buf[o]
  BY BufferFrame
<1>2. Words' = Words
  BY <1>1 DEF Words
<1>3. /\ Words \in Nat /\ Size \in Nat
      /\ Size = 2 * Words \/ Size = 2 * Words - 1
  BY WordsAre DEF Summing
<1>4. ASSUME NEW k \in 0..(Words - 1), k # 1
      PROVE  PacketWord(k)' = PacketWord(k)
  <2>1. /\ 2 * k \in 0..(Size - 1) /\ 2 * k \notin {2, 3}
        /\ 2 * k + 1 < Size => 2 * k + 1 \in 0..(Size - 1)
        /\ 2 * k + 1 \notin {2, 3}
    BY <1>3, <1>4
  <2>2. buf'[2 * k] = buf[2 * k]
    BY <1>1, <2>1
  <2>3. 2 * k + 1 < Size => buf'[2 * k + 1] = buf[2 * k + 1]
    BY <1>1, <2>1
  <2> QED
    BY <1>1, <2>2, <2>3 DEF PacketWord
<1>5. \A k \in 0..(Words - 1) : BareWord(k)' = BareWord(k)
  BY <1>4 DEF BareWord
<1> QED
  BY <1>2, <1>5 DEF BareSums

\* In the loop the sum has the first n words, of which an odd end is zero.
Added(v, n) ==
  /\ BareSums(v)
  /\ n \in 4..Words
  /\ \/ iter = 2 * n
     \/ iter = DataEnd /\ iter = 2 * n - 1
  /\ sum = v[n]

\* The checksum is the complement of the sum of the other words.
Stored(v) ==
  /\ BareSums(v)
  /\ v[Words] \in 0..(W * W - 1)
  /\ PacketWord(1) = Complement(Fold(v[Words]))

Adding ==
  /\ pc = "sum" => \E v, n : Added(v, n)
  /\ pc \in {"built", "parsed", "dropped"} => \E v : Stored(v)

LEMMA AddedHeader ==
  ASSUME Summing, SumHeader
  PROVE  \E v, n : Added(v, n)'
<1>1. PICK v : BareSums(v)
  BY BareSumsExist
<1>2. BareSums(v)' /\ Words' = Words
  BY <1>1, BareSumsFrame DEF Next
<1>3. /\ Words \in Nat /\ Words >= 5
      /\ Size \in Nat /\ Size >= 9 /\ B \in Nat
      /\ \A o \in 0..8 : buf[o] \in Nat
  <2>1. /\ Size \in Nat /\ Size >= 9 /\ buf \in [0..(Size - 1) -> Byte]
        /\ B \in Nat
    BY WordType, IcmpAssumption DEF Summing
  <2> QED
    BY <2>1, WordsAre DEF Byte
<1>4. /\ BareWord(0) = buf[0] * B + buf[1] /\ BareWord(1) = 0
      /\ BareWord(2) = buf[4] * B + buf[5] /\ BareWord(3) = buf[6] * B + buf[7]
  BY <1>3 DEF BareWord, PacketWord
<1> DEFINE w0 == buf[0] * B + buf[1]
           w2 == buf[4] * B + buf[5]
           w3 == buf[6] * B + buf[7]
<1>5. w0 \in Nat /\ w2 \in Nat /\ w3 \in Nat /\ sum' = w0 + w2 + w3
  BY <1>3, HeaderSum
<1>6. BareWord(0) = w0 /\ BareWord(2) = w2 /\ BareWord(3) = w3
  BY <1>4
<1> HIDE DEF w0, w2, w3
<1>7. v[4] = sum'
  <2>1. /\ v[0 + 1] = v[0] + BareWord(0) /\ v[1 + 1] = v[1] + BareWord(1)
        /\ v[2 + 1] = v[2] + BareWord(2) /\ v[3 + 1] = v[3] + BareWord(3)
        /\ v[0] = 0
    BY <1>1, <1>3 DEF BareSums
  <2> QED
    BY <1>4, <1>5, <1>6, <2>1
<1>8. iter' = 2 * 4
  BY DEF Summing, SumHeader, HeaderSize
<1>9. 4 \in 4..Words'
  BY <1>2, <1>3
<1>10. Added(v, 4)'
  BY <1>2, <1>7, <1>8, <1>9 DEF Added
<1> QED
  BY <1>10

LEMMA AddedData ==
  ASSUME Summing, Layout, SumData, NEW v, NEW n, Added(v, n)
  PROVE  Added(v, n + 1)'
<1>1. BareSums(v)' /\ Words' = Words /\ DataEnd' = DataEnd
  BY BareSumsFrame, BufferFrame DEF Next, Added
<1>2. /\ Words \in Nat /\ Size \in Nat /\ B \in Nat
      /\ Size = 2 * Words \/ Size = 2 * Words - 1
      /\ DataEnd = Size - 1 /\ buf[Size - 1] = 0
      /\ n \in Nat /\ n >= 4
  BY WordsAre, IcmpAssumption DEF Summing, DataEnd, Layout, Added
<1>3. iter \in 8..(DataEnd - 1) /\ iter = 2 * n
  <2>1. iter \in 8..(DataEnd - 1) /\ DataEnd \in Nat
    BY <1>2, DataSum, WordType DEF Summing
  <2> QED
    BY <2>1 DEF Added
<1>4. n \in 0..(Words - 1) /\ n + 1 \in 4..Words /\ n # 1
  BY <1>2, <1>3
<1>5. sum' = sum + PacketWord(n)
  <2>1. sum' = sum + (buf[iter] * B
                        + (IF iter + 1 # DataEnd THEN buf[iter + 1] ELSE 0))
    BY DataSum
  <2>2. 2 * n + 1 < Size
    BY <1>2, <1>3
  <2>3. PacketWord(n) = buf[iter] * B + buf[iter + 1]
    BY <1>3, <2>2 DEF PacketWord
  <2>4. iter + 1 = DataEnd => buf[iter + 1] = 0
    BY <1>2
  <2> QED
    BY <2>1, <2>3, <2>4
<1>6. v[n + 1] = sum'
  BY <1>4, <1>5 DEF Added, BareSums, BareWord
<1>7. \/ iter' = 2 * (n + 1)
      \/ iter' = DataEnd /\ iter' = 2 * (n + 1) - 1
  BY <1>2, <1>3 DEF SumData
<1>8. n + 1 \in 4..Words'
  BY <1>1, <1>4
<1> QED
  BY <1>1, <1>6, <1>7, <1>8 DEF Added

LEMMA StoredChecksum ==
  ASSUME Summing, Layout, Store, NEW v, NEW n, Added(v, n)
  PROVE  Stored(v)'
<1> DEFINE c == Complement(Fold(sum))
<1>1. BareSums(v)' /\ Words' = Words /\ Size' = Size
  BY BareSumsFrame, BufferFrame DEF Next, Added
<1>2. sum \in 0..(W * W - 1) /\ c \in Word
  BY SumFits, FoldRange, WordType DEF Complement, Word
<1>3. /\ Words \in Nat /\ Words >= 5 /\ Size \in Nat /\ B \in Nat
      /\ Size = 2 * Words \/ Size = 2 * Words - 1
      /\ DataEnd = Size - 1 /\ buf[Size - 1] = 0
      /\ n \in 4..Words /\ BareSums(v) /\ sum = v[n]
      /\ buf \in [0..(Size - 1) -> Byte]
  BY WordsAre, IcmpAssumption DEF Summing, DataEnd, Layout, Added
<1>4. sum = v[Words]
  <2>1. \/ n = Words
        \/ n = Words - 1 /\ Size = 2 * n + 1
    BY <1>3 DEF Store, Added
  <2>2. CASE n = Words - 1 /\ Size = 2 * n + 1
    <3>1. PacketWord(n) = 0
      <4>1. 2 * n = Size - 1 /\ ~(2 * n + 1 < Size)
        BY <1>3, <2>2
      <4>2. PacketWord(n) = 0 * B + 0
        BY <1>3, <4>1 DEF PacketWord
      <4> QED
        BY <1>3, <4>2
    <3>2. v[n + 1] = v[n] + 0 /\ n + 1 = Words
      BY <1>3, <2>2, <3>1 DEF BareSums, BareWord
    <3> QED
      BY <1>2, <1>3, <3>2, WordType
  <2> QED
    BY <1>3, <2>1, <2>2
<1>5. PacketWord(1)' = c
  <2>1. buf' = [buf EXCEPT ![2] = c \div B, ![3] = c % B]
    BY DEF Store
  <2>2. 2 * 1 = 2 /\ 2 * 1 + 1 = 3 /\ 3 < Size /\ 2 \in 0..(Size - 1)
        /\ 3 \in 0..(Size - 1)
    BY <1>3
  <2>3. c % B \in Nat /\ c \div B \in Nat /\ (c % B) + B * (c \div B) = c
    BY <1>2, WordBytes, BytesWord, IcmpAssumption DEF Byte
  <2> HIDE DEF c
  <2>4. PacketWord(1)' = (c \div B) * B + (c % B)
    BY <1>1, <1>3, <2>1, <2>2 DEF PacketWord
  <2> QED
    BY <1>3, <2>3, <2>4
<1> QED
  BY <1>1, <1>2, <1>4, <1>5 DEF Stored

LEMMA StoredFrame ==
  ASSUME Summing, [Next]_vars, buf' = buf, NEW v, Stored(v)
  PROVE  Stored(v)'
<1>1. Words' = Words /\ BareSums(v)' /\ Size' = Size
  BY BareSumsFrame, BufferFrame DEF Stored
<1>2. PacketWord(1)' = PacketWord(1)
  BY <1>1 DEF PacketWord
<1> QED
  BY <1>1, <1>2 DEF Stored

LEMMA AddingStep ==
  ASSUME Summing, Layout, Adding, [Next]_vars
  PROVE  Adding'
<1>1. CASE SumHeader
  BY <1>1, AddedHeader DEF SumHeader, Adding
<1>2. CASE SumData
  BY <1>2, AddedData DEF SumData, Adding
<1>3. CASE Store
  BY <1>3, StoredChecksum DEF Store, Adding
<1>4. CASE \E hl \in HeaderWords, cut \in 0..Size : SocketRead(hl, cut)
  BY <1>4, StoredFrame DEF SocketRead, Adding
<1>5. CASE UNCHANGED vars
  <2>1. ASSUME NEW v, NEW n, Added(v, n) PROVE Added(v, n)'
    BY <1>5, <2>1, BareSumsFrame, BufferFrame DEF vars, Added
  <2> QED
    BY <1>5, <2>1, StoredFrame DEF vars, Adding
<1> QED
  BY <1>1, <1>2, <1>3, <1>4, <1>5 DEF Next, Done

LEMMA AddWordIs ==
  ASSUME NEW x \in 0..(W - 1), NEW y \in 0..(W - 1)
  PROVE  /\ AddWord(x, y) \in 0..(W - 1)
         /\ x > 0 \/ y > 0 => AddWord(x, y) > 0
         /\ AddWord(x, y) = x + y \/ AddWord(x, y) = x + y - (W - 1)
BY WordType DEF AddWord

\* The first k words add up to what calcCheckSum has for them, and from the
\* second on to the checksum as well, but for multiples of W - 1.
SumsTo(x, v, c, k) ==
  /\ x \in 0..(W - 1)
  /\ k > 0 => x > 0
  /\ \E m \in Int : x = v[k] + (IF k >= 2 THEN c ELSE 0) - m * (W - 1)

LEMMA ReceiverAdds ==
  ASSUME Summing, Layout, NEW v, BareSums(v), NEW g, g[0] = 0,
         \A k \in 0..(Words - 1) : g[k + 1] = AddWord(g[k], PacketWord(k)),
         NEW n \in 0..(Words - 1), SumsTo(g[n], v, PacketWord(1), n)
  PROVE  SumsTo(g[n + 1], v, PacketWord(1), n + 1)
<1> DEFINE c == PacketWord(1)
           y == PacketWord(n)
           x == g[n]
           z == g[n + 1]
<1>1. /\ W \in Nat /\ W >= 9 /\ Words \in Nat /\ Words >= 5 /\ n \in Nat
      /\ y \in 0..(W - 1) /\ c \in 0..(W - 1)
  BY WordsAre, WordType
<1>2. z = AddWord(x, y) /\ x \in 0..(W - 1)
  BY DEF SumsTo
<1>3. v[n] \in Nat /\ v[n + 1] = v[n] + BareWord(n)
  BY <1>1 DEF BareSums
<1>4. n = 0 => y > 0
  <2>1. /\ buf[0] = EchoRequest /\ EchoRequest \in Nat /\ EchoRequest > 0
        /\ B \in Nat /\ B >= 3 /\ Size >= 9 /\ Size \in Nat
        /\ buf[1] \in Nat
    <3>1. Size \in 9..(W + 8) /\ buf \in [0..(Size - 1) -> Byte]
      BY DEF Summing
    <3> QED
      BY <3>1, WordType, IcmpAssumption DEF Layout, Byte
  <2>2. PacketWord(0) = EchoRequest * B + buf[1]
    BY <2>1 DEF PacketWord
  <2>3. EchoRequest * B > 0
    BY <2>1
  <2>4. EchoRequest * B \in Nat
    BY <2>1
  <2> QED
    BY <2>1, <2>2, <2>3, <2>4
<1>5. PICK m \in Int : x = v[n] + (IF n >= 2 THEN c ELSE 0) - m * (W - 1)
  BY DEF SumsTo
<1>6. v[n + 1] = v[n] + (IF n = 1 THEN 0 ELSE y) /\ (n = 1 => y = c)
  BY <1>3 DEF BareWord
<1>7. n > 0 => x > 0
  BY DEF SumsTo
<1> HIDE DEF c, y, x, z
<1>8. /\ z \in 0..(W - 1) /\ z > 0
      /\ z = x + y \/ z = x + y - (W - 1)
  <2>1. x > 0 \/ y > 0
    BY <1>1, <1>4, <1>7
  <2> QED
    BY <1>1, <1>2, <2>1, AddWordIs
<1>9. \E q \in Int :
        z = v[n + 1] + (IF n + 1 >= 2 THEN c ELSE 0) - q * (W - 1)
  <2>1. x + y = v[n + 1] + (IF n + 1 >= 2 THEN c ELSE 0) - m * (W - 1)
    <3> DEFINE r == m * (W - 1)
    <3>1. r \in Int
      BY <1>1
    <3>2. x = v[n] + (IF n >= 2 THEN c ELSE 0) - r
      BY <1>5
    <3> HIDE DEF r
    <3>3. x + y = v[n + 1] + (IF n + 1 >= 2 THEN c ELSE 0) - r
      BY <1>1, <1>3, <1>6, <3>1, <3>2
    <3> QED
      BY <3>3 DEF r
  <2>2. CASE z = x + y
    BY <2>1, <2>2
  <2>3. CASE z = x + y - (W - 1)
    <3>1. z = v[n + 1] + (IF n + 1 >= 2 THEN c ELSE 0) - (m + 1) * (W - 1)
      <4>1. (m + 1) * (W - 1) = m * (W - 1) + (W - 1) /\ m * (W - 1) \in Int
        BY <1>1
      <4>2. v[n + 1] \in Int
        BY <1>1, <1>3, <1>6
      <4>3. (IF n + 1 >= 2 THEN c ELSE 0) \in Int
        BY <1>1
      <4> DEFINE d == IF n + 1 >= 2 THEN c ELSE 0
                 r == m * (W - 1)
      <4>4. /\ r \in Int /\ d \in Int /\ (m + 1) * (W - 1) = r + (W - 1)
            /\ x + y = v[n + 1] + d - r
        BY <2>1, <4>1, <4>3
      <4> HIDE DEF d, r
      <4>5. z = v[n + 1] + d - (m + 1) * (W - 1)
        BY <1>1, <1>2, <2>3, <4>2, <4>4
      <4> QED
        BY <4>5 DEF d
    <3> QED
      BY <3>1
  <2> QED
    BY <1>8, <2>2, <2>3
<1> QED
  BY <1>8, <1>9 DEF SumsTo, z, c

LEMMA StoredVerifies ==
  ASSUME Summing, Layout, NEW v, Stored(v)
  PROVE  OnesSum = W - 1
<1>1. PICK g : /\ OnesSum = g[Words] /\ g[0] = 0
               /\ \A k \in 0..(Words - 1) :
                    g[k + 1] = AddWord(g[k], PacketWord(k))
  BY OnesSums
<1> DEFINE c == PacketWord(1)
           f == Fold(v[Words])
           x == g[Words]
           S == {k \in Nat : k <= Words => SumsTo(g[k], v, c, k)}
<1>2. Words \in Nat /\ Words >= 5 /\ W \in Nat /\ W >= 9
  BY WordsAre, WordType
<1>3. SumsTo(x, v, c, Words)
  <2>1. 0 \in S
    <3>1. 0 * (W - 1) = 0 /\ ~(0 >= 2) /\ 0 \in 0..(W - 1) /\ v[0] = 0
      BY <1>2 DEF Stored, BareSums
    <3> HIDE DEF c
    <3>2. g[0] = v[0] + (IF 0 >= 2 THEN c ELSE 0) - 0 * (W - 1)
      BY <1>1, <3>1
    <3>3. \E m \in Int : g[0] = v[0] + (IF 0 >= 2 THEN c ELSE 0) - m * (W - 1)
      BY <3>2
    <3>4. SumsTo(g[0], v, c, 0)
      BY <1>1, <3>1, <3>3 DEF SumsTo
    <3> QED
      BY <3>4
  <2>2. ASSUME NEW k \in Nat, k \in S PROVE k + 1 \in S
    <3> SUFFICES ASSUME k + 1 <= Words PROVE SumsTo(g[k + 1], v, c, k + 1)
      OBVIOUS
    <3>1. k \in 0..(Words - 1) /\ SumsTo(g[k], v, c, k)
      BY <1>2, <2>2
    <3> QED
      BY <1>1, <3>1, ReceiverAdds DEF Stored
  <2> HIDE DEF S
  <2>3. Nat \subseteq S
    BY <2>1, <2>2, SetInduction
  <2> QED
    BY <1>2, <2>3 DEF S
<1> HIDE DEF c, x, S
<1>4. PICK m \in Int : x = v[Words] + c - m * (W - 1)
  <2>1. Words >= 2
    BY <1>2
  <2> QED
    BY <1>3, <2>1 DEF SumsTo
<1>5. x \in 1..(W - 1)
  BY <1>2, <1>3 DEF SumsTo
<1>6. c = W - 1 - f
  BY DEF Stored, Complement, c
<1>7. f \in 0..(W - 1) /\ \E k \in Nat : v[Words] = f + k * (W - 1)
  BY FoldRange DEF Stored
<1>8. PICK k \in Nat : v[Words] = f + k * (W - 1)
  BY <1>7
<1> HIDE DEF f
<1>9. x = (k + 1 - m) * (W - 1)
  BY <1>2, <1>4, <1>6, <1>7, <1>8
<1>10. k + 1 - m = 1
  <2>1. k + 1 - m >= 1
    BY <1>2, <1>5, <1>9
  <2>2. ~ (k + 1 - m >= 2)
    BY <1>2, <1>5, <1>9
  <2> QED
    BY <2>1, <2>2
<1>11. x = W - 1
  BY <1>2, <1>9, <1>10
<1> QED
  BY <1>1, <1>11 DEF x

\* Every packet that calcCheckSum finishes passes the check of its receiver,
\* whatever the size of a byte, the identifier, the content and its length, and
\* what was in the memory before.
THEOREM ChecksOut == Spec => []Verifies
<1>1. Init => Adding
  BY DEF Init, Adding
<1>2. Summing /\ [Next]_vars => Summing'
  <2>1. Summing /\ UNCHANGED vars => Summing'
    BY DEF vars, Summing, Size, DataEnd
  <2> QED
    BY <2>1, SummingStep
<1>3. Summing /\ Layout /\ Adding /\ [Next]_vars => Layout' /\ Adding'
  BY LayoutStep, AddingStep
<1>4. Summing /\ Layout /\ Adding => Verifies
  BY StoredVerifies DEF Adding, Verifies
<1> QED
  BY <1>1, <1>2, <1>3, <1>4, SummingInit, PTL DEF Spec
=============================================================================
