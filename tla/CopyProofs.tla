------------------------------ MODULE CopyProofs ------------------------------
(***************************************************************************)
(* That what JsonValue::toString writes, of any Value that was parsed, is  *)
(* read back as the same Value.                                            *)
(***************************************************************************)
EXTENDS Copy, ReaderProofs, FiniteSetTheorems, FunctionTheorems

-----------------------------------------------------------------------------
(***************************************************************************)
(* decodeString.                                                           *)
(***************************************************************************)
\* The text after each character.
Decoding(g, s) ==
  /\ g[0] = <<>>
  /\ \A k \in 0..(Len(s) - 1) :
       g[k + 1] = IF s[k + 1] = "u" THEN g[k] ELSE Append(g[k], s[k + 1])

LEMMA DecodingIs ==
  ASSUME NEW S, NEW s \in Seq(S)
  PROVE  \E g : Decoding(g, s) /\ DecodeString(s) = g[Len(s)]
<1> DEFINE N == Len(s)
           D == Seq(S)
           Makes(g) == g = [i \in 0..N |->
                              IF i = 0 THEN <<>>
                              ELSE IF s[i] = "u" THEN g[i - 1]
                              ELSE Append(g[i - 1], s[i])]
           G == CHOOSE g : Makes(g)
           rule == [k \in Nat |-> [x \in D |->
                      IF k < N /\ s[k + 1] # "u" THEN Append(x, s[k + 1]) ELSE x]]
<1>1. DecodeString(s) = G[N]
  BY DEF DecodeString
<1>2. N \in Nat /\ \A k \in 1..N : s[k] \in S
  OBVIOUS
<1>3. <<>> \in D
  OBVIOUS
<1> HIDE DEF N
<1>4. rule \in [Nat -> [D -> D]]
  <2>1. ASSUME NEW k \in Nat, NEW x \in D
        PROVE  (IF k < N /\ s[k + 1] # "u" THEN Append(x, s[k + 1]) ELSE x) \in D
    <3>1. k < N => s[k + 1] \in S
      BY <1>2
    <3>2. k < N => Append(x, s[k + 1]) \in D
      BY <3>1
    <3> HIDE DEF D
    <3> QED
      BY <3>2
  <2> HIDE DEF D
  <2> QED
    BY <2>1
<1>5. \A k \in 0..(N - 1), x \in D :
        rule[k][x] = IF s[k + 1] = "u" THEN x ELSE Append(x, s[k + 1])
  BY <1>2
<1> HIDE DEF rule, D
<1>6. PICK v : Follows(v, N, D, <<>>, rule)
  BY <1>2, <1>3, <1>4, Recursion
<1>7. v \in [0..N -> D] /\ v[0] = <<>>
  BY <1>6 DEF Follows
<1>8. ASSUME NEW k \in 0..(N - 1)
      PROVE  v[k + 1] = IF s[k + 1] = "u" THEN v[k] ELSE Append(v[k], s[k + 1])
  <2>1. v[k] \in D
    BY <1>2, <1>7
  <2>2. v[k + 1] = rule[k][v[k]]
    BY <1>6 DEF Follows
  <2> QED
    BY <1>5, <2>1, <2>2
<1>9. Makes(v)
  <2>1. ASSUME NEW k \in 0..N
        PROVE  v[k] = IF k = 0 THEN <<>>
                      ELSE IF s[k] = "u" THEN v[k - 1] ELSE Append(v[k - 1], s[k])
    <3>1. CASE k = 0
      BY <1>7, <3>1
    <3>2. CASE k # 0
      <4>1. k - 1 \in 0..(N - 1) /\ (k - 1) + 1 = k
        BY <1>2, <3>2
      <4> QED
        BY <1>8, <3>2, <4>1
    <3> QED
      BY <3>1, <3>2
  <2>2. v = [k \in 0..N |-> v[k]]
    BY <1>7
  <2> QED
    BY <2>1, <2>2
<1>10. Makes(G)
  <2> HIDE DEF Makes
  <2> QED
    BY <1>9
<1> HIDE DEF G
<1>11. ASSUME NEW k \in 0..N
       PROVE  G[k] = IF k = 0 THEN <<>>
                     ELSE IF s[k] = "u" THEN G[k - 1] ELSE Append(G[k - 1], s[k])
  BY <1>10
<1>12. Decoding(G, s)
  <2>1. G[0] = <<>>
    BY <1>2, <1>11
  <2>2. ASSUME NEW k \in 0..(N - 1)
        PROVE  G[k + 1] = IF s[k + 1] = "u" THEN G[k] ELSE Append(G[k], s[k + 1])
    <3>1. k + 1 \in 0..N /\ k + 1 # 0 /\ (k + 1) - 1 = k
      BY <1>2
    <3> QED
      BY <1>11, <3>1
  <2> QED
    BY <2>1, <2>2 DEF Decoding, N
<1> QED
  BY <1>1, <1>12 DEF N

\* What decodeString makes of characters of S are characters of S, and no \uXXXX.
LEMMA DecodeType ==
  ASSUME NEW S, NEW s \in Seq(S)
  PROVE  DecodeString(s) \in Seq(S \ {"u"})
<1> DEFINE N == Len(s)
           T == S \ {"u"}
<1>1. N \in Nat /\ \A k \in 1..N : s[k] \in S
  OBVIOUS
<1>2. PICK g : Decoding(g, s) /\ DecodeString(s) = g[N]
  BY <1>1, DecodingIs
<1>3. /\ g[0] = <<>>
      /\ \A k \in 0..(N - 1) :
           g[k + 1] = IF s[k + 1] = "u" THEN g[k] ELSE Append(g[k], s[k + 1])
  BY <1>2 DEF Decoding
<1> HIDE DEF N
<1> DEFINE K == {k \in Nat : k <= N => g[k] \in Seq(T)}
<1>4. 0 \in K
  BY <1>3, EmptySeq
<1>5. ASSUME NEW k \in Nat, k \in K PROVE k + 1 \in K
  <2> SUFFICES ASSUME k + 1 <= N PROVE g[k + 1] \in Seq(T)
    OBVIOUS
  <2>1. k \in 0..(N - 1) /\ k + 1 \in 1..N /\ k <= N
    BY <1>1
  <2>2. g[k] \in Seq(T) /\ s[k + 1] \in S
    BY <1>1, <1>5, <2>1
  <2>3. CASE s[k + 1] = "u"
    BY <1>3, <2>1, <2>2, <2>3
  <2>4. CASE s[k + 1] # "u"
    <3>1. s[k + 1] \in T
      BY <2>2, <2>4
    <3>2. g[k + 1] = Append(g[k], s[k + 1])
      BY <1>3, <2>1, <2>4
    <3> HIDE DEF T
    <3> QED
      BY <2>2, <3>1, <3>2, AppendProperties
  <2> QED
    BY <2>3, <2>4
<1> HIDE DEF K
<1>6. Nat \subseteq K
  BY <1>4, <1>5, SetInduction
<1> QED
  BY <1>1, <1>2, <1>6 DEF K

\* A text without \uXXXX is its own value.
LEMMA DecodePlain ==
  ASSUME NEW s \in Seq(STRING), \A i \in 1..Len(s) : s[i] # "u"
  PROVE  DecodeString(s) = s
<1> DEFINE N == Len(s)
<1>1. N \in Nat /\ \A k \in 1..N : s[k] \in STRING
  OBVIOUS
<1>2. PICK g : Decoding(g, s) /\ DecodeString(s) = g[N]
  BY DecodingIs
<1>3. g[0] = <<>> /\ \A k \in 0..(N - 1) : g[k + 1] = Append(g[k], s[k + 1])
  <2>1. \A k \in 0..(N - 1) : s[k + 1] # "u"
    BY <1>1
  <2> QED
    BY <1>2, <2>1 DEF Decoding
<1> HIDE DEF N
<1> DEFINE K == {k \in Nat : k <= N => g[k] = SubSeq(s, 1, k)}
<1>4. 0 \in K
  <2>1. SubSeq(s, 1, 0) = <<>>
    BY SubSeqEmpty
  <2> QED
    BY <1>3, <2>1
<1>5. ASSUME NEW k \in Nat, k \in K PROVE k + 1 \in K
  <2> SUFFICES ASSUME k + 1 <= N PROVE g[k + 1] = SubSeq(s, 1, k + 1)
    OBVIOUS
  <2>1. k \in 0..(N - 1) /\ k + 1 \in 1..N /\ k <= N
    BY <1>1
  <2>2. g[k + 1] = Append(SubSeq(s, 1, k), s[k + 1])
    BY <1>3, <1>5, <2>1
  <2>3. SubSeq(s, 1, k + 1) = Append(SubSeq(s, 1, k), s[k + 1])
    BY <2>1, SubSeqRecursiveSecond DEF N
  <2> QED
    BY <2>2, <2>3
<1> HIDE DEF K
<1>6. Nat \subseteq K
  BY <1>4, <1>5, SetInduction
<1>7. DecodeString(s) = SubSeq(s, 1, N)
  BY <1>1, <1>2, <1>6 DEF K
<1> QED
  BY <1>7, SubSeqFull DEF N

-----------------------------------------------------------------------------
(***************************************************************************)
(* uintToString.                                                           *)
(***************************************************************************)
\* The digits of n, given those of smaller numbers.
Spelled(g, n) == IF n < 10 THEN <<n>> ELSE Append(g[n \div 10], n % 10)

\* h has the digits of every number up to m.
Spells(m, h) ==
  /\ h \in [0..m -> Seq(0..9)]
  /\ \A n \in 0..m : h[n] = Spelled(h, n)

LEMMA Quotients ==
  ASSUME NEW n \in Nat, n >= 10
  PROVE  /\ n \div 10 \in 0..(n - 1) /\ n % 10 \in 0..9
         /\ n = (n \div 10) * 10 + (n % 10)
<1>1. n \div 10 \in Int /\ n % 10 \in 0..9 /\ n = 10 * (n \div 10) + (n % 10)
  OBVIOUS
<1>2. \A q, r \in Int :
        r \in 0..9 /\ n = 10 * q + r => q \in 0..(n - 1) /\ n = q * 10 + r
  OBVIOUS
<1>3. n % 10 \in Int
  BY <1>1
<1>4. n \div 10 \in 0..(n - 1) /\ n = (n \div 10) * 10 + (n % 10)
  BY <1>1, <1>2, <1>3, Zenon
<1> QED
  BY <1>1, <1>4, Zenon

\* They depend on nothing but the digits of a smaller number.
LEMMA SpelledSame ==
  ASSUME NEW n \in Nat, NEW g, NEW h,
         \A k \in 0..(n - 1) : g[k] = h[k]
  PROVE  Spelled(g, n) = Spelled(h, n)
BY Quotients DEF Spelled

LEMMA SpelledType ==
  ASSUME NEW n \in Nat, NEW g, \A k \in 0..(n - 1) : g[k] \in Seq(0..9)
  PROVE  Spelled(g, n) \in Seq(0..9)
<1>1. CASE n < 10
  <2>1. n \in 0..9 /\ Spelled(g, n) = <<n>>
    BY <1>1 DEF Spelled
  <2> QED
    BY <2>1
<1>2. CASE ~(n < 10)
  <2>1. /\ g[n \div 10] \in Seq(0..9) /\ n % 10 \in 0..9
        /\ Spelled(g, n) = Append(g[n \div 10], n % 10)
    BY <1>2, Quotients DEF Spelled
  <2> QED
    BY <2>1, AppendProperties
<1> QED
  BY <1>1, <1>2

LEMMA SpellsExists ==
  ASSUME NEW m \in Nat
  PROVE  \E h : Spells(m, h)
<1> DEFINE S == {k \in Nat : \E h : Spells(k, h)}
<1>1. 0 \in S
  <2> DEFINE h == [n \in 0..0 |-> Spelled(<<>>, 0)]
  <2>1. Spelled(<<>>, 0) \in Seq(0..9)
    BY SpelledType
  <2>2. h \in [0..0 -> Seq(0..9)] /\ h[0] = Spelled(<<>>, 0)
    BY <2>1
  <2> HIDE DEF h
  <2>3. Spelled(<<>>, 0) = Spelled(h, 0)
    BY SpelledSame
  <2>4. \A n \in 0..0 : n = 0
    OBVIOUS
  <2>5. Spells(0, h)
    BY <2>2, <2>3, <2>4 DEF Spells
  <2> QED
    BY <2>5
<1>2. ASSUME NEW k \in Nat, k \in S PROVE k + 1 \in S
  <2>1. PICK h : Spells(k, h)
    BY <1>2
  <2> DEFINE new == Spelled(h, k + 1)
             u == [n \in 0..(k + 1) |-> IF n = k + 1 THEN new ELSE h[n]]
  <2>2. h \in [0..k -> Seq(0..9)] /\ (k + 1) - 1 = k
    BY <2>1 DEF Spells
  <2>3. new \in Seq(0..9)
    BY <2>2, SpelledType
  <2>4. \A n \in 0..(k + 1) : n = k + 1 \/ n \in 0..k
    OBVIOUS
  <2>5. \A n \in 0..k : n \in 0..(k + 1) /\ n # k + 1
    OBVIOUS
  <2> HIDE DEF new
  <2>6. /\ u \in [0..(k + 1) -> Seq(0..9)]
        /\ u[k + 1] = new
        /\ \A n \in 0..k : u[n] = h[n]
    BY <2>2, <2>3, <2>4, <2>5
  <2> HIDE DEF u
  <2>7. ASSUME NEW n \in 0..(k + 1) PROVE u[n] = Spelled(u, n)
    <3>1. n \in Nat /\ \A j \in 0..(n - 1) : u[j] = h[j]
      BY <2>6
    <3>2. Spelled(u, n) = Spelled(h, n)
      BY <3>1, SpelledSame
    <3>3. CASE n = k + 1
      BY <2>6, <3>2, <3>3 DEF new
    <3>4. CASE n \in 0..k
      BY <2>1, <2>6, <3>2, <3>4 DEF Spells
    <3> QED
      BY <2>4, <3>3, <3>4
  <2>8. Spells(k + 1, u)
    BY <2>6, <2>7, Zenon DEF Spells
  <2> QED
    BY <2>8
<1> HIDE DEF S
<1>3. Nat \subseteq S
  BY <1>1, <1>2, SetInduction
<1> QED
  BY <1>3 DEF S

LEMMA SpellsSame ==
  ASSUME NEW m \in Nat, NEW l \in Nat, NEW g, NEW h, Spells(m, g), Spells(l, h),
         NEW i \in Nat, i <= m, i <= l
  PROVE  g[i] = h[i]
<1> DEFINE S == {k \in Nat : \A n \in 0..k : n <= m /\ n <= l => g[n] = h[n]}
<1>1. /\ \A n \in 0..m : g[n] = Spelled(g, n)
      /\ \A n \in 0..l : h[n] = Spelled(h, n)
  BY DEF Spells
<1>2. 0 \in S
  <2>1. Spelled(g, 0) = Spelled(h, 0)
    BY SpelledSame
  <2>2. \A n \in 0..0 : n = 0
    OBVIOUS
  <2> QED
    BY <1>1, <2>1, <2>2
<1>3. ASSUME NEW k \in Nat, k \in S PROVE k + 1 \in S
  <2>1. ASSUME k + 1 <= m, k + 1 <= l PROVE g[k + 1] = h[k + 1]
    <3>1. \A j \in 0..((k + 1) - 1) : g[j] = h[j]
      BY <1>3, <2>1
    <3>2. Spelled(g, k + 1) = Spelled(h, k + 1)
      BY <3>1, SpelledSame
    <3>3. k + 1 \in 0..m /\ k + 1 \in 0..l
      BY <2>1
    <3> QED
      BY <1>1, <3>2, <3>3
  <2>2. \A n \in 0..(k + 1) : n = k + 1 \/ n \in 0..k
    OBVIOUS
  <2> QED
    BY <1>3, <2>1, <2>2
<1> HIDE DEF S
<1>4. i \in S
  BY <1>2, <1>3, SetInduction
<1> QED
  BY <1>4 DEF S

\* Digits is what its definition says.
LEMMA DigitsIs ==
  /\ \A n \in Nat : Digits[n] \in Seq(0..9)
  /\ \A n \in Nat : Digits[n] = Spelled(Digits, n)
<1> DEFINE Makes(g) == g = [n \in Nat |-> IF n < 10 THEN <<n>>
                                          ELSE Append(g[n \div 10], n % 10)]
           H(n) == CHOOSE h : Spells(n, h)
           v == [n \in Nat |-> H(n)[n]]
<1>1. \A n \in Nat : Spells(n, H(n))
  BY SpellsExists
<1> HIDE DEF H
<1>2. ASSUME NEW n \in Nat
      PROVE  v[n] = Spelled(v, n)
  <2>1. v[n] = Spelled(H(n), n)
    BY <1>1 DEF Spells
  <2>2. ASSUME NEW k \in 0..(n - 1) PROVE v[k] = H(n)[k]
    <3>1. k \in Nat /\ k <= n /\ k <= k
      OBVIOUS
    <3>2. Spells(n, H(n)) /\ Spells(k, H(k))
      BY <1>1, <3>1
    <3>3. H(n)[k] = H(k)[k]
      BY <3>1, <3>2, SpellsSame
    <3> QED
      BY <3>1, <3>3
  <2> HIDE DEF v
  <2>3. Spelled(v, n) = Spelled(H(n), n)
    BY <2>2, SpelledSame
  <2> QED
    BY <2>1, <2>3
<1>3. Makes(v)
  <2>1. v = [n \in Nat |-> v[n]]
    OBVIOUS
  <2> HIDE DEF v
  <2>2. \A n \in Nat : v[n] = IF n < 10 THEN <<n>>
                              ELSE Append(v[n \div 10], n % 10)
    BY <1>2 DEF Spelled
  <2> QED
    BY <2>1, <2>2, Zenon
<1>4. Makes(Digits)
  <2>1. Digits = CHOOSE g : Makes(g)
    BY DEF Digits
  <2> HIDE DEF Makes, v
  <2> QED
    BY <1>3, <2>1
<1>5. \A n \in Nat : Digits[n] = Spelled(Digits, n)
  BY <1>4, Zenon DEF Spelled
<1> DEFINE S == {k \in Nat : \A n \in 0..k : Digits[n] \in Seq(0..9)}
<1>6. 0 \in S
  <2>1. Spelled(Digits, 0) \in Seq(0..9)
    BY SpelledType
  <2>2. \A n \in 0..0 : n = 0
    OBVIOUS
  <2> QED
    BY <1>5, <2>1, <2>2
<1>7. ASSUME NEW k \in Nat, k \in S PROVE k + 1 \in S
  <2>1. Spelled(Digits, k + 1) \in Seq(0..9)
    BY <1>7, SpelledType
  <2>2. \A n \in 0..(k + 1) : n = k + 1 \/ n \in 0..k
    OBVIOUS
  <2>3. k + 1 \in Nat
    OBVIOUS
  <2> QED
    BY <1>5, <1>7, <2>1, <2>2, <2>3
<1> HIDE DEF S
<1>8. Nat \subseteq S
  BY <1>6, <1>7, SetInduction
<1>9. \A n \in Nat : Digits[n] \in Seq(0..9)
  BY <1>8 DEF S
<1> QED
  BY <1>5, <1>9

\* What digits that end in d stand for.
LEMMA DecimalsAppend ==
  ASSUME NEW digits \in Seq(0..9), NEW d \in 0..9, NEW v,
         Decimals(v, Append(digits, d))
  PROVE  \E w : /\ Decimals(w, digits)
                /\ v[Len(digits) + 1] = w[Len(digits)] * 10 + d
<1> DEFINE N == Len(digits)
           w == [k \in 0..N |-> v[k]]
           all == Append(digits, d)
<1>1. /\ N \in Nat /\ Len(all) = N + 1 /\ all[N + 1] = d
      /\ \A k \in 1..N : all[k] = digits[k]
  OBVIOUS
<1> HIDE DEF all
<1>2. /\ v \in [0..(N + 1) -> Nat] /\ v[0] = 0
      /\ \A k \in 0..N : v[k + 1] = v[k] * 10 + all[k + 1]
  <2>1. Len(all) - 1 = N
    BY <1>1
  <2> QED
    BY <1>1, <2>1 DEF Decimals, all
<1>3. w \in [0..N -> Nat] /\ w[0] = 0 /\ w[N] = v[N]
  BY <1>1, <1>2
<1>4. ASSUME NEW k \in 0..(N - 1) PROVE w[k + 1] = w[k] * 10 + digits[k + 1]
  <2>1. k \in 0..N /\ k + 1 \in 0..N /\ k + 1 \in 1..N
    BY <1>1
  <2> QED
    BY <1>1, <1>2, <2>1
<1> HIDE DEF w
<1>5. Decimals(w, digits)
  BY <1>3, <1>4 DEF Decimals
<1>6. v[N + 1] = w[N] * 10 + d
  BY <1>1, <1>2, <1>3
<1> QED
  BY <1>5, <1>6

\* The digits of n stand for n.
LEMMA DigitsValue ==
  ASSUME NEW n \in Nat, NEW v, Decimals(v, Digits[n])
  PROVE  v[Len(Digits[n])] = n
<1> DEFINE Good(k) == \A u : Decimals(u, Digits[k]) => u[Len(Digits[k])] = k
           S == {k \in Nat : \A i \in 0..k : Good(i)}
<1>1. ASSUME NEW k \in Nat, \A i \in 0..(k - 1) : Good(i) PROVE Good(k)
  <2> SUFFICES ASSUME NEW u, Decimals(u, Digits[k]) PROVE u[Len(Digits[k])] = k
    OBVIOUS
  <2>1. CASE k < 10
    <3>1. Digits[k] = <<k>>
      BY <2>1, DigitsIs DEF Spelled
    <3>2. Decimals(u, <<k>>)
      BY <3>1
    <3>3. Len(<<k>>) = 1 /\ <<k>>[1] = k
      OBVIOUS
    <3>4. u[0] = 0 /\ u[0 + 1] = u[0] * 10 + k
      BY <3>2, <3>3 DEF Decimals
    <3> QED
      BY <3>1, <3>3, <3>4
  <2>2. CASE ~(k < 10)
    <3> DEFINE q == k \div 10
               r == k % 10
    <3>1. q \in 0..(k - 1) /\ r \in 0..9 /\ k = q * 10 + r
      BY <2>2, Quotients
    <3>2. Digits[k] = Append(Digits[q], r)
      BY <2>2, DigitsIs DEF Spelled
    <3> HIDE DEF q, r
    <3>3. Digits[q] \in Seq(0..9)
      BY <3>1, DigitsIs
    <3>4. PICK w : /\ Decimals(w, Digits[q])
                   /\ u[Len(Digits[q]) + 1] = w[Len(Digits[q])] * 10 + r
      BY <3>1, <3>2, <3>3, DecimalsAppend
    <3>5. w[Len(Digits[q])] = q
      BY <1>1, <3>1, <3>4
    <3>6. Len(Digits[k]) = Len(Digits[q]) + 1
      BY <3>1, <3>2, <3>3
    <3> QED
      BY <3>1, <3>4, <3>5, <3>6
  <2> QED
    BY <2>1, <2>2
<1> HIDE DEF Good
<1>2. 0 \in S
  <2>1. \A i \in 0..(0 - 1) : Good(i)
    OBVIOUS
  <2>2. Good(0)
    BY <1>1, <2>1
  <2>3. \A i \in 0..0 : i = 0
    OBVIOUS
  <2> QED
    BY <2>2, <2>3
<1>3. ASSUME NEW k \in Nat, k \in S PROVE k + 1 \in S
  <2>1. \A i \in 0..((k + 1) - 1) : Good(i)
    BY <1>3
  <2>2. Good(k + 1)
    BY <1>1, <2>1
  <2>3. \A i \in 0..(k + 1) : i = k + 1 \/ i \in 0..k
    OBVIOUS
  <2> QED
    BY <1>3, <2>2, <2>3
<1> HIDE DEF S
<1>4. n \in S
  BY <1>2, <1>3, SetInduction
<1>5. Good(n)
  BY <1>4 DEF S
<1> QED
  BY <1>5 DEF Good

\* What sscanf reads.
LEMMA DoubleIs ==
  ASSUME NEW minus \in BOOLEAN, NEW digits \in Seq(0..9), NEW tail
  PROVE  \E v : /\ Decimals(v, digits)
                /\ DoubleOf(Numeral(minus, digits, tail))
                     = LET size == IF tail = "huge" THEN MaxDouble + 1
                                   ELSE Stored(4 * v[Len(digits)] + Fraction(tail))
                       IN IF minus THEN -size ELSE size
<1> DEFINE N == Len(digits)
           Makes(g) == g = [i \in 0..N |->
                              IF i = 0 THEN 0 ELSE g[i - 1] * 10 + digits[i]]
           G == CHOOSE g : Makes(g)
<1>1. PICK v : Decimals(v, digits)
  BY DecimalsExist
<1>2. N \in Nat /\ \A k \in 1..N : digits[k] \in 0..9
  OBVIOUS
<1>3. /\ v \in [0..N -> Nat] /\ v[0] = 0
      /\ \A k \in 0..(N - 1) : v[k + 1] = v[k] * 10 + digits[k + 1]
  BY <1>1 DEF Decimals
<1>4. DoubleOf(Numeral(minus, digits, tail))
        = LET size == IF tail = "huge" THEN MaxDouble + 1
                      ELSE Stored(4 * G[N] + Fraction(tail))
          IN IF minus THEN -size ELSE size
  BY DEF DoubleOf, Numeral
<1> HIDE DEF N
<1>5. Makes(v)
  <2>1. ASSUME NEW k \in 0..N
        PROVE  v[k] = IF k = 0 THEN 0 ELSE v[k - 1] * 10 + digits[k]
    <3>1. CASE k = 0
      BY <1>3, <3>1
    <3>2. CASE k # 0
      <4>1. k - 1 \in 0..(N - 1) /\ (k - 1) + 1 = k
        BY <1>2, <3>2
      <4>2. v[(k - 1) + 1] = v[k - 1] * 10 + digits[(k - 1) + 1]
        BY <1>3, <4>1
      <4> QED
        BY <3>2, <4>1, <4>2
    <3> QED
      BY <3>1, <3>2
  <2>2. v = [k \in 0..N |-> v[k]]
    BY <1>3
  <2> QED
    BY <2>1, <2>2
<1>6. Makes(G)
  <2> HIDE DEF Makes
  <2> QED
    BY <1>5
<1> HIDE DEF G
<1>7. ASSUME NEW k \in 0..N
      PROVE  G[k] = IF k = 0 THEN 0 ELSE G[k - 1] * 10 + digits[k]
  BY <1>6
<1>8. G[N] = v[N]
  <2> DEFINE S == {k \in Nat : k <= N => G[k] = v[k]}
  <2>1. 0 \in S
    BY <1>2, <1>3, <1>7
  <2>2. ASSUME NEW k \in Nat, k \in S PROVE k + 1 \in S
    <3> SUFFICES ASSUME k + 1 <= N PROVE G[k + 1] = v[k + 1]
      OBVIOUS
    <3>1. /\ k \in 0..(N - 1) /\ k + 1 \in 0..N /\ (k + 1) - 1 = k /\ k + 1 # 0
          /\ k <= N
      BY <1>2
    <3>2. G[k + 1] = G[(k + 1) - 1] * 10 + digits[k + 1]
      BY <1>7, <3>1
    <3> QED
      BY <1>3, <2>2, <3>1, <3>2
  <2> HIDE DEF S
  <2>3. N \in S
    BY <1>2, <2>1, <2>2, SetInduction
  <2> QED
    BY <1>2, <2>3 DEF S
<1> QED
  BY <1>1, <1>4, <1>8 DEF N

LEMMA StoredIs ==
  ASSUME NEW size \in Nat
  PROVE  /\ Stored(size) \in Nat
         /\ Stored(size) # MaxDouble + 1 => Stored(Stored(size)) = Stored(size)
         /\ size <= MaxExact => Stored(size) = size
<1> DEFINE k == (size + 4) \div 8
<1>1. /\ MaxExact \in Nat /\ MaxDouble \in Nat /\ MaxExact <= MaxDouble
      /\ MaxExact % 8 = 0 /\ MaxDouble % 8 = 0
  BY DoubleAssumption
<1>2. k \in Nat /\ (8 * k + 4) \div 8 = k
  OBVIOUS
<1> HIDE DEF k
<1>3. Stored(size) = IF size <= MaxExact THEN size
                     ELSE IF 8 * k > MaxDouble THEN MaxDouble + 1 ELSE 8 * k
  BY <1>1, <1>2 DEF Stored, k
<1>4. ASSUME Stored(size) = 8 * k, 8 * k <= MaxDouble
      PROVE  Stored(8 * k) = 8 * k
  BY <1>1, <1>2, <1>4 DEF Stored
<1>5. ASSUME size <= MaxExact PROVE Stored(size) = size
  BY <1>3, <1>5
<1>6. Stored(size) \in Nat
  BY <1>1, <1>2, <1>3
<1>7. \/ size <= MaxExact /\ Stored(size) = size
      \/ Stored(size) = MaxDouble + 1
      \/ Stored(size) = 8 * k /\ 8 * k <= MaxDouble
  BY <1>1, <1>2, <1>3
<1>8. Stored(size) # MaxDouble + 1 => Stored(Stored(size)) = Stored(size)
  BY <1>4, <1>7
<1> QED
  BY <1>5, <1>6, <1>8

\* q is the value of a double, or an infinity.
DoubleNumber(q) ==
  q \in Int /\ (Abs(q) = MaxDouble + 1 \/ Stored(Abs(q)) = Abs(q))

\* What ten decimals leave of a double is a double, and of its sign.
LEMMA RoundedIs ==
  ASSUME NEW q, DoubleNumber(q), ~Infinite(q)
  PROVE  LET size == Abs(Rounded(q))
             tail == IF size % 4 = 2 THEN "half" ELSE "none"
         IN /\ size \in Nat /\ size \div 4 \in Nat
            /\ 4 * (size \div 4) + Fraction(tail) = size
            /\ Stored(size) = size
            /\ Rounded(q) = IF q < 0 THEN -size ELSE size
<1> DEFINE size == Abs(Rounded(q))
           tail == IF size % 4 = 2 THEN "half" ELSE "none"
<1>1. /\ MaxExact \in Nat /\ MaxDouble \in Nat /\ MaxExact <= MaxDouble
      /\ MaxExact % 8 = 0 /\ MaxDouble % 8 = 0
  BY DoubleAssumption
<1>2. q \in Int /\ Abs(q) \in Nat /\ Abs(q) <= MaxDouble
  BY <1>1 DEF DoubleNumber, Infinite, Abs
<1>3. /\ Rounded(q) \in Int /\ size \in Nat
      /\ Rounded(q) = IF q < 0 THEN -size ELSE size
      /\ size % 2 = 0
      /\ q % 2 = 0 => size = Abs(q)
      /\ q % 2 # 0 => size % 4 = 0 /\ size <= Abs(q) + 1 /\ Abs(q) % 2 = 1
  BY <1>2 DEF Rounded, Abs
<1> HIDE DEF size
<1>4. Fraction("half") = 2 /\ Fraction("none") = 0
  BY DEF Fraction
<1>5. size \div 4 \in Nat /\ 4 * (size \div 4) + Fraction(tail) = size
  <2>1. size % 4 = 2 \/ size % 4 = 0
    BY <1>3
  <2> QED
    BY <1>3, <1>4, <2>1
<1>6. Stored(Abs(q)) = Abs(q)
  BY <1>1, <1>2 DEF DoubleNumber
<1>7. Stored(size) = size
  <2>1. CASE q % 2 = 0
    BY <1>3, <1>6, <2>1
  <2>2. CASE q % 2 # 0
    <3>1. Abs(q) <= MaxExact
      <4> SUFFICES ASSUME ~(Abs(q) <= MaxExact) PROVE FALSE
        OBVIOUS
      <4>1. Abs(q) = 8 * ((Abs(q) + 4) \div 8) \/ Abs(q) = MaxDouble + 1
        BY <1>1, <1>2, <1>6 DEF Stored
      <4>2. Abs(q) % 2 = 1
        BY <1>3, <2>2
      <4> QED
        BY <1>1, <1>2, <4>1, <4>2
    <3>2. size <= MaxExact
      BY <1>1, <1>2, <1>3, <2>2, <3>1
    <3> QED
      BY <1>3, <3>2, StoredIs
  <2> QED
    BY <2>1, <2>2
<1> QED
  BY <1>3, <1>5, <1>7 DEF size

\* A number of either type, in quarters.
Quarters(type, num) == IF type = "real" THEN num ELSE 4 * num

Signed(minus, quarters) == IF minus THEN -quarters ELSE quarters

\* A double of this whole part and fraction.
HasParts(quarters, size, tail) ==
  quarters \in Nat /\ quarters = 4 * size + Fraction(tail) /\ Stored(quarters) = quarters

\* decodeNumber makes a number of this size of n.
Reads(n, quarters) ==
  \E type \in {"int", "uint", "real"}, num \in Int :
    DecodeNumber(n) = Leaf(type, num, <<>>) /\ Quarters(type, num) = quarters

\* decodeNumber, of what uintToString writes after a sign and before a fraction.
LEMMA NumberReads ==
  ASSUME NEW minus \in BOOLEAN, NEW size \in Nat, NEW tail \in {"none", "half"},
         NEW quarters, HasParts(quarters, size, tail)
  PROVE  Reads(Numeral(minus, Digits[size], tail), Signed(minus, quarters))
<1> DEFINE ds == Digits[size]
           n == Numeral(minus, ds, tail)
           value == IntegerOf(minus, ds)
           signed == IF minus THEN -quarters ELSE quarters
           made == DecodeNumber(n)
<1>0. /\ quarters \in Nat /\ quarters = 4 * size + Fraction(tail)
      /\ Stored(quarters) = quarters
  BY DEF HasParts
<1>1. ds \in Seq(0..9)
  BY DigitsIs
<1>2. n.minus = minus /\ n.digits = ds /\ n.tail = tail
  BY DEF Numeral
<1>3. DoubleOf(n) = signed
  <2>1. PICK v : /\ Decimals(v, ds)
                 /\ DoubleOf(n) = LET s == IF tail = "huge" THEN MaxDouble + 1
                                           ELSE Stored(4 * v[Len(ds)] + Fraction(tail))
                                  IN IF minus THEN -s ELSE s
    BY <1>1, DoubleIs
  <2>2. v[Len(ds)] = size
    BY <2>1, DigitsValue
  <2> QED
    BY <1>0, <2>1, <2>2
<1>4. signed \in Int
  BY <1>0
<1>5. CASE IsDouble(n)
  <2>1. made = Leaf("real", signed, <<>>)
    BY <1>3, <1>5 DEF DecodeNumber
  <2> HIDE DEF n, made, signed, ds
  <2>2. made = Leaf("real", signed, <<>>) /\ Quarters("real", signed) = signed
    BY <2>1 DEF Quarters
  <2> QED
    BY <1>4, <2>2 DEF made, n, ds, signed, Reads, Signed
<1>6. CASE ~IsDouble(n)
  <2>1. tail = "none" /\ value # TooBig
    BY <1>2, <1>6 DEF IsDouble
  <2>2. quarters = 4 * size
    BY <1>0, <2>1 DEF Fraction
  <2>3. PICK v : Decimals(v, ds) /\ value = v[Len(ds)]
    BY <1>1, <2>1, DecodesExactly
  <2>4. value = size
    BY <2>3, DigitsValue
  <2>5. made = IF minus THEN Leaf("int", -size, <<>>)
               ELSE IF FitsInt(size) THEN Leaf("int", size, <<>>)
               ELSE Leaf("uint", size, <<>>)
    BY <1>2, <1>6, <2>4 DEF DecodeNumber
  <2>6. signed = IF minus THEN 4 * (-size) ELSE 4 * size
    BY <2>2
  <2> HIDE DEF n, made, signed, ds
  <2>7. CASE minus
    <3>1. made = Leaf("int", -size, <<>>) /\ Quarters("int", -size) = signed
      BY <2>5, <2>6, <2>7 DEF Quarters
    <3> QED
      BY <3>1 DEF made, n, ds, signed, Reads, Signed
  <2>8. CASE ~minus
    <3>1. PICK type \in {"int", "uint"} : made = Leaf(type, size, <<>>)
      BY <2>5, <2>8
    <3>2. Quarters(type, size) = signed
      BY <2>6, <2>8, <3>1 DEF Quarters
    <3> QED
      BY <3>1, <3>2 DEF made, n, ds, signed, Reads, Signed
  <2> QED
    BY <2>7, <2>8
<1> QED
  BY <1>5, <1>6

-----------------------------------------------------------------------------
(***************************************************************************)
(* A value without children.                                               *)
(***************************************************************************)
\* A character that needs no \uXXXX and is not the text of an unknown escape.
Plain == STRING \ {"u", "bad"}

\* A node that a Value can have.
Sound(n) ==
  /\ n.type = "null" => n.num = 0 /\ n.str = <<>>
  /\ n.type \in {"int", "uint"} => n.num \in (-MaxUInt)..MaxUInt /\ n.str = <<>>
  /\ n.type = "real" => DoubleNumber(n.num) /\ n.str = <<>>
  /\ n.type = "string" => n.num = 0 /\ n.str \in Seq(Plain)
  /\ n.type = "bool" => n.num \in {0, 1} /\ n.str = <<>>
  /\ n.type \in {"array", "object"} => n.num = 0 /\ n.str = <<>>
  /\ n.type \in Types

\* The same number.
LEMMA SameNumber ==
  ASSUME NEW m, NEW n, {m.type, n.type} \subseteq {"int", "uint", "real"},
         Quarters(m.type, m.num) = Rounded(Quarters(n.type, n.num))
  PROVE  SameValue(m, n)
BY DEF Quarters, SameValue, NumberTypes, AsDouble, Converted

LEMMA IntegerReads ==
  ASSUME NEW k \in (-MaxUInt)..MaxUInt
  PROVE  Reads(IntegerText(k), 4 * k)
<1> DEFINE minus == k < 0
           size == IF k < 0 THEN -k ELSE k
           quarters == 4 * size
<1>0. MaxUInt \in Nat /\ MaxExact \in Nat /\ 4 * MaxUInt <= MaxExact
  BY ValueAssumption, DoubleAssumption DEF MaxUInt
<1>1. minus \in BOOLEAN /\ size \in Nat /\ quarters \in Nat
  BY <1>0
<1>2. Signed(minus, quarters) = 4 * k
  BY <1>0 DEF Signed
<1>5. quarters <= MaxExact /\ quarters = 4 * size + Fraction("none")
  BY <1>0 DEF Fraction
<1>3. IntegerText(k) = Numeral(minus, Digits[size], "none")
  BY DEF IntegerText
<1> HIDE DEF minus, size
<1>4. Reads(Numeral(minus, Digits[size], "none"), Signed(minus, quarters))
  <2>1. HasParts(quarters, size, "none")
    BY <1>1, <1>5, StoredIs DEF HasParts
  <2> HIDE DEF quarters
  <2> QED
    BY <1>1, <2>1, NumberReads
<1> HIDE DEF quarters
<1> QED
  BY <1>2, <1>3, <1>4

LEMMA DoubleReads ==
  ASSUME NEW k, DoubleNumber(k), ~Infinite(k)
  PROVE  Reads(DoubleText(k), Rounded(k))
<1> DEFINE minus == k < 0
           size == Abs(Rounded(k))
           tail == IF size % 4 = 2 THEN "half" ELSE "none"
<1>1. /\ size \div 4 \in Nat
      /\ HasParts(size, size \div 4, tail)
      /\ Signed(minus, size) = Rounded(k)
  BY RoundedIs DEF HasParts, Signed
<1>2. minus \in BOOLEAN /\ tail \in {"none", "half"}
  OBVIOUS
<1>3. DoubleText(k) = Numeral(minus, Digits[size \div 4], tail)
  BY DEF DoubleText
<1> HIDE DEF minus, size, tail
<1>4. Reads(Numeral(minus, Digits[size \div 4], tail), Signed(minus, size))
  BY <1>1, <1>2, NumberReads
<1> QED
  BY <1>1, <1>3, <1>4

\* A node with this type, number and text is the same value as n.
Equals(type, num, str, n) ==
  \A m : m.type = type /\ m.num = num /\ m.str = str => SameValue(m, n)

\* The lexemes that a writer makes.
LEMMA LexemeTypes ==
  /\ \A type \in Kinds : Lexeme(type) \in LexemeType /\ Lexeme(type).type = type
  /\ \A s \in Seq(STRING) : StringLexeme(s) \in LexemeType
  /\ \A num \in NumeralType : NumberLexeme(num) \in LexemeType
<1>1. Zero \in NumeralType
  BY DEF Numeral, Zero, NumeralType
<1>2. <<>> \in Seq(STRING)
  BY EmptySeq
<1>3. "string" \in Kinds /\ "number" \in Kinds
  BY DEF Kinds
<1>4. \A type \in Kinds, s \in Seq(STRING), num \in NumeralType :
        [type |-> type, str |-> s, num |-> num] \in LexemeType
  BY DEF LexemeType
<1>5. /\ \A type \in Kinds : Lexeme(type) \in LexemeType
      /\ \A s \in Seq(STRING) : StringLexeme(s) \in LexemeType
      /\ \A num \in NumeralType : NumberLexeme(num) \in LexemeType
  BY <1>1, <1>2, <1>3, <1>4 DEF Lexeme, StringLexeme, NumberLexeme
<1>6. \A type \in Kinds : Lexeme(type).type = type
  BY DEF Lexeme
<1> QED
  BY <1>5, <1>6

LEMMA NumeralTypes ==
  ASSUME NEW k \in Int
  PROVE  /\ NumberLexeme(IntegerText(k)) \in LexemeType
         /\ NumberLexeme(DoubleText(k)) \in LexemeType
         /\ IntegerText(k).tail # "bad" /\ DoubleText(k).tail # "bad"
<1>1. \A minus \in BOOLEAN, digits \in Seq(0..9), tail \in {"none", "half"} :
        /\ Numeral(minus, digits, tail) \in NumeralType
        /\ Numeral(minus, digits, tail).tail # "bad"
  BY DEF Numeral, NumeralType
<1>2. IntegerText(k) = Numeral(k < 0, Digits[IF k < 0 THEN -k ELSE k], "none")
  BY DEF IntegerText
<1>3. Digits[IF k < 0 THEN -k ELSE k] \in Seq(0..9)
  BY DigitsIs
<1> DEFINE size == Abs(Rounded(k))
           tail == IF size % 4 = 2 THEN "half" ELSE "none"
<1>4. DoubleText(k) = Numeral(k < 0, Digits[size \div 4], tail)
  BY DEF DoubleText
<1>5. tail \in {"none", "half"}
  OBVIOUS
<1>6. size \in Nat
  BY DEF Rounded, Abs
<1> HIDE DEF tail, size
<1>7. size \div 4 \in Nat
  BY <1>6
<1>8. Digits[size \div 4] \in Seq(0..9)
  BY <1>7, DigitsIs
<1>9. (k < 0) \in BOOLEAN
  OBVIOUS
<1>10. IntegerText(k).tail # "bad" /\ NumberLexeme(IntegerText(k)) \in LexemeType
  BY <1>1, <1>2, <1>3, <1>9, LexemeTypes
<1>11. DoubleText(k).tail # "bad" /\ NumberLexeme(DoubleText(k)) \in LexemeType
  BY <1>1, <1>4, <1>5, <1>8, <1>9, LexemeTypes
<1> QED
  BY <1>10, <1>11

\* Whatever value without children a writer writes, but an infinite double or
\* one that is too long for its buffer, it writes one token, and readValue makes
\* the same value of it, to ten decimals: valueToString, valueToQuotedString, and
\* decodeNumber, decodeDouble and decodeString.  Of an int near the limits it
\* makes a double.
THEOREM ScalarsReadBack ==
  ASSUME NEW n, Sound(n), n.type \notin {"array", "object"}, WritesWhole(n)
  PROVE  /\ ScalarText(n) = <<ScalarLexeme(n)>>
         /\ ScalarLexeme(n) \in LexemeType
         /\ ScalarLexeme(n).type \in ScalarToken
         /\ ~BadScalar(ScalarLexeme(n))
         /\ \E type, num, str :
              /\ Scalar(ScalarLexeme(n)) = Leaf(type, num, str)
              /\ Equals(type, num, str, n)
<1> DEFINE x == ScalarLexeme(n)
<1>1. ScalarText(n) = <<x>>
  BY DEF ScalarText, WritesWhole
<1>2. ASSUME NEW type \in {"true", "false", "null"}
      PROVE  /\ Lexeme(type) \in LexemeType
             /\ Lexeme(type).type = type
             /\ Lexeme(type).type \in ScalarToken
             /\ ~BadScalar(Lexeme(type))
  <2>1. Lexeme(type) \in LexemeType /\ Lexeme(type).type = type
    BY LexemeTypes DEF Kinds
  <2> QED
    BY <2>1 DEF BadScalar, ScalarToken
<1>3. ASSUME NEW num, num.tail # "bad"
      PROVE  /\ NumberLexeme(num).type \in ScalarToken
             /\ ~BadScalar(NumberLexeme(num))
             /\ Scalar(NumberLexeme(num)) = DecodeNumber(num)
  BY <1>3 DEF NumberLexeme, BadScalar, ScalarToken, Scalar
<1>4. CASE n.type = "null"
  <2>1. x = Lexeme("null")
    BY <1>4 DEF ScalarLexeme
  <2>2. Scalar(Lexeme("null")) = Leaf("null", 0, <<>>)
    BY <1>2 DEF Scalar, NewValue
  <2>3. Equals("null", 0, <<>>, n)
    BY <1>4 DEF Equals, Sound, SameValue, NumberTypes
  <2> QED
    BY <1>1, <1>2, <2>1, <2>2, <2>3
<1>5. CASE n.type = "bool"
  <2>1. PICK type \in {"true", "false"} :
          x = Lexeme(type) /\ (n.num = IF type = "true" THEN 1 ELSE 0)
    BY <1>5 DEF ScalarLexeme, Sound
  <2>2. Scalar(Lexeme(type)) = Leaf("bool", n.num, <<>>)
    BY <1>2, <2>1 DEF Scalar
  <2>3. Equals("bool", n.num, <<>>, n)
    BY <1>5 DEF Equals, Sound, SameValue, NumberTypes
  <2> QED
    BY <1>1, <1>2, <2>1, <2>2, <2>3
<1>6. CASE n.type = "string"
  <2>1. x = StringLexeme(n.str) /\ n.str \in Seq(Plain) /\ n.num = 0
    BY <1>6 DEF ScalarLexeme, Sound
  <2>2. \A i \in 1..Len(n.str) : n.str[i] \in Plain
    BY <2>1
  <2>3. n.str \in Seq(STRING)
    BY <2>1, SeqMonotonic DEF Plain
  <2>4. DecodeString(n.str) = n.str
    BY <2>2, <2>3, DecodePlain DEF Plain
  <2>5. DOMAIN n.str = 1..Len(n.str)
    BY <2>1
  <2>6. ~BadScalar(StringLexeme(n.str))
    BY <2>2, <2>5 DEF StringLexeme, BadScalar, Plain
  <2>7. StringLexeme(n.str) \in LexemeType /\ StringLexeme(n.str).type \in ScalarToken
    BY <2>3, LexemeTypes DEF StringLexeme, ScalarToken
  <2>8. Scalar(StringLexeme(n.str)) = Leaf("string", 0, n.str)
    BY <2>4 DEF Scalar, StringLexeme
  <2>9. Equals("string", 0, n.str, n)
    BY <1>6, <2>1 DEF Equals, SameValue, NumberTypes
  <2> QED
    BY <1>1, <2>1, <2>6, <2>7, <2>8, <2>9
<1>7. ASSUME NEW num, NumberLexeme(num) \in LexemeType, num.tail # "bad",
             x = NumberLexeme(num), n.type \in {"int", "uint", "real"},
             NEW type \in {"int", "uint", "real"}, NEW k \in Int,
             DecodeNumber(num) = Leaf(type, k, <<>>),
             Quarters(type, k) = Rounded(Quarters(n.type, n.num))
      PROVE  /\ x \in LexemeType
             /\ x.type \in ScalarToken
             /\ ~BadScalar(x)
             /\ \E t, i, s : Scalar(x) = Leaf(t, i, s) /\ Equals(t, i, s, n)
  <2>1. ASSUME NEW m, m.type = type, m.num = k PROVE SameValue(m, n)
    BY <1>7, <2>1, SameNumber
  <2>2. Equals(type, k, <<>>, n)
    BY <2>1 DEF Equals
  <2>3. Scalar(x) = Leaf(type, k, <<>>)
    BY <1>3, <1>7
  <2> HIDE DEF x
  <2> QED
    BY <1>3, <1>7, <2>2, <2>3
<1>8. CASE n.type \in {"int", "uint"}
  <2>0. n.num \in (-MaxUInt)..MaxUInt /\ MaxUInt \in Nat
    BY <1>8, ValueAssumption DEF Sound, MaxUInt
  <2>1. n.num \in Int /\ Rounded(Quarters(n.type, n.num)) = 4 * n.num
    BY <1>8, <2>0 DEF Quarters, Rounded
  <2>2. x = NumberLexeme(IntegerText(n.num))
    BY <1>8 DEF ScalarLexeme
  <2>3. PICK type \in {"int", "uint", "real"}, k \in Int :
          /\ DecodeNumber(IntegerText(n.num)) = Leaf(type, k, <<>>)
          /\ Quarters(type, k) = 4 * n.num
    BY <2>0, IntegerReads DEF Reads
  <2> HIDE DEF x
  <2> QED
    BY <1>1, <1>7, <1>8, <2>1, <2>2, <2>3, NumeralTypes DEF x
<1>9. CASE n.type = "real"
  <2>1. n.num \in Int /\ Rounded(Quarters(n.type, n.num)) = Rounded(n.num)
    BY <1>9 DEF Sound, Quarters, DoubleNumber
  <2>2. x = NumberLexeme(DoubleText(n.num))
    BY <1>9 DEF ScalarLexeme
  <2>3. PICK type \in {"int", "uint", "real"}, k \in Int :
          /\ DecodeNumber(DoubleText(n.num)) = Leaf(type, k, <<>>)
          /\ Quarters(type, k) = Rounded(n.num)
    BY <1>9, DoubleReads DEF Sound, WritesWhole, Reads
  <2> HIDE DEF x
  <2> QED
    BY <1>1, <1>7, <1>9, <2>1, <2>2, <2>3, NumeralTypes DEF x
<1> QED
  BY <1>1, <1>4, <1>5, <1>6, <1>8, <1>9 DEF Sound, Types

\* The text of one that is not written whole is lexemes too.
LEMMA ScalarTextType ==
  ASSUME NEW n, Sound(n), n.type \notin {"array", "object"}
  PROVE  ScalarText(n) \in Seq(LexemeType)
<1>1. CASE WritesWhole(n)
  <2> DEFINE c == ScalarLexeme(n)
  <2>1. ScalarText(n) = <<c>> /\ c \in LexemeType
    BY <1>1, ScalarsReadBack
  <2> HIDE DEF c
  <2> QED
    BY <2>1
<1>2. CASE ~WritesWhole(n)
  <2>1. n.type = "real" /\ n.num \in Int
    BY <1>2 DEF WritesWhole, Sound, DoubleNumber
  <2>2. Lexeme("error") \in LexemeType
    BY LexemeTypes DEF Kinds
  <2>3. NumberLexeme(Numeral(TRUE, <<>>, "none")) \in LexemeType
    <3>1. Numeral(TRUE, <<>>, "none") \in NumeralType
      BY DEF Numeral, NumeralType
    <3> QED
      BY <3>1, LexemeTypes
  <2> DEFINE a == NumberLexeme(Numeral(TRUE, <<>>, "none"))
             b == Lexeme("error")
  <2>4. CASE Infinite(n.num)
    <3>1. ScalarText(n) = (IF n.num < 0 THEN <<a>> ELSE <<>>) \o <<b>>
      BY <2>1, <2>4 DEF ScalarText, InfiniteText
    <3>2. a \in LexemeType /\ b \in LexemeType
      BY <2>2, <2>3
    <3> HIDE DEF a, b
    <3>3. <<a>> \in Seq(LexemeType) /\ <<b>> \in Seq(LexemeType)
      BY <3>2
    <3>4. <<a>> \o <<b>> \in Seq(LexemeType) /\ <<>> \o <<b>> \in Seq(LexemeType)
      BY <3>3, EmptySeq, ConcatProperties
    <3> QED
      BY <3>1, <3>4
  <2>5. CASE ~Infinite(n.num)
    <3> DEFINE c == NumberLexeme(DoubleText(n.num))
    <3>1. ScalarText(n) = <<c>>
      BY <2>1, <2>5 DEF ScalarText, ScalarLexeme
    <3>2. c \in LexemeType
      BY <2>1, NumeralTypes
    <3> HIDE DEF c
    <3> QED
      BY <3>1, <3>2
  <2> QED
    BY <2>4, <2>5
<1> QED
  BY <1>1, <1>2

-----------------------------------------------------------------------------
(***************************************************************************)
(* The order of the members in their std::map.                             *)
(***************************************************************************)
Letters == {Alphabet[i] : i \in DOMAIN Alphabet}
Words == Seq(Letters)

\* The k-th character decides that a comes before b.
Decides(k, a, b) ==
  /\ \A j \in 1..(k - 1) : j <= Len(a) /\ j <= Len(b) /\ a[j] = b[j]
  /\ \/ k = Len(a) + 1 /\ k <= Len(b)
     \/ k <= Len(a) /\ k <= Len(b) /\ Rank(a[k]) < Rank(b[k])

LEMMA RankIs ==
  ASSUME NEW c \in Letters
  PROVE  Rank(c) \in Nat /\ Alphabet[Rank(c)] = c
<1>1. PICK i \in DOMAIN Alphabet : Alphabet[i] = c
  BY DEF Letters
<1>2. Rank(c) \in DOMAIN Alphabet /\ Alphabet[Rank(c)] = c
  BY <1>1 DEF Rank
<1>3. DOMAIN Alphabet \subseteq Nat
  BY ValueAssumption
<1> QED
  BY <1>2, <1>3

LEMMA PrecedesIs ==
  ASSUME NEW a \in Words, NEW b \in Words
  PROVE  Precedes(a, b) <=> \E k \in Nat \ {0} : Decides(k, a, b)
<1>1. /\ Len(a) \in Nat /\ Len(b) \in Nat
      /\ DOMAIN a = 1..Len(a) /\ DOMAIN b = 1..Len(b)
  BY DEF Words
<1>2. ASSUME Len(a) < Len(b), a = SubSeq(b, 1, Len(a))
      PROVE  \E k \in Nat \ {0} : Decides(k, a, b)
  <2>1. \A j \in 1..Len(a) : a[j] = b[j]
    <3>1. \A j \in 1..Len(a) : b[j] \in Letters
      BY <1>1, <1>2 DEF Words
    <3>2. \A j \in 1..Len(a) : SubSeq(b, 1, Len(a))[j] = b[1 + j - 1]
      BY <1>1, <3>1, SubSeqProperties
    <3>3. \A j \in 1..Len(a) : 1 + j - 1 = j
      BY <1>1
    <3> QED
      BY <1>2, <3>2, <3>3
  <2>2. Decides(Len(a) + 1, a, b)
    BY <1>1, <1>2, <2>1 DEF Decides
  <2> QED
    BY <1>1, <2>2
<1>3. ASSUME NEW i \in DOMAIN a \cap DOMAIN b, \A j \in 1..(i - 1) : a[j] = b[j],
             Rank(a[i]) < Rank(b[i])
      PROVE  \E k \in Nat \ {0} : Decides(k, a, b)
  <2>1. i \in Nat \ {0} /\ Decides(i, a, b)
    BY <1>1, <1>3 DEF Decides
  <2> QED
    BY <2>1
<1>4. ASSUME NEW k \in Nat \ {0}, Decides(k, a, b) PROVE Precedes(a, b)
  <2>1. CASE k = Len(a) + 1 /\ k <= Len(b)
    <3>1. \A j \in 1..Len(a) : a[j] = b[j]
      BY <1>1, <1>4, <2>1 DEF Decides
    <3>2. \A j \in 1..Len(a) : b[j] \in Letters
      BY <1>1, <2>1 DEF Words
    <3>3. /\ SubSeq(b, 1, Len(a)) \in Words
          /\ Len(SubSeq(b, 1, Len(a))) = Len(a)
          /\ \A j \in 1..Len(a) : SubSeq(b, 1, Len(a))[j] = b[j]
      BY <1>1, <3>2, SubSeqProperties DEF Words
    <3>4. a = SubSeq(b, 1, Len(a))
      BY <3>1, <3>3, SeqEqual DEF Words
    <3>5. Len(a) < Len(b)
      BY <1>1, <2>1
    <3> QED
      BY <3>4, <3>5 DEF Precedes
  <2>2. CASE k <= Len(a) /\ k <= Len(b) /\ Rank(a[k]) < Rank(b[k])
    <3>1. k \in DOMAIN a \cap DOMAIN b /\ \A j \in 1..(k - 1) : a[j] = b[j]
      BY <1>1, <1>4, <2>2 DEF Decides
    <3> QED
      BY <2>2, <3>1 DEF Precedes
  <2> QED
    BY <1>4, <2>1, <2>2 DEF Decides
<1> QED
  BY <1>2, <1>3, <1>4 DEF Precedes

LEMMA PrecedesIrreflexive ==
  ASSUME NEW a \in Words
  PROVE  ~Precedes(a, a)
<1> SUFFICES ASSUME Precedes(a, a) PROVE FALSE
  OBVIOUS
<1>1. PICK k \in Nat \ {0} : Decides(k, a, a)
  BY PrecedesIs
<1>2. Len(a) \in Nat /\ \A j \in 1..Len(a) : a[j] \in Letters
  BY DEF Words
<1>3. k <= Len(a) /\ Rank(a[k]) < Rank(a[k])
  BY <1>1, <1>2 DEF Decides
<1>4. Rank(a[k]) \in Nat
  BY <1>2, <1>3, RankIs
<1> QED
  BY <1>3, <1>4

LEMMA PrecedesTransitive ==
  ASSUME NEW a \in Words, NEW b \in Words, NEW c \in Words,
         Precedes(a, b), Precedes(b, c)
  PROVE  Precedes(a, c)
<1>1. PICK k \in Nat \ {0} : Decides(k, a, b)
  BY PrecedesIs
<1>2. PICK l \in Nat \ {0} : Decides(l, b, c)
  BY PrecedesIs
<1>3. /\ Len(a) \in Nat /\ Len(b) \in Nat /\ Len(c) \in Nat
      /\ \A j \in 1..Len(a) : Rank(a[j]) \in Nat
      /\ \A j \in 1..Len(b) : Rank(b[j]) \in Nat
      /\ \A j \in 1..Len(c) : Rank(c[j]) \in Nat
  BY RankIs DEF Words
<1>4. /\ \A j \in 1..(k - 1) : j <= Len(a) /\ j <= Len(b) /\ a[j] = b[j]
      /\ k <= Len(b)
      /\ k = Len(a) + 1 \/ (k <= Len(a) /\ Rank(a[k]) < Rank(b[k]))
  BY <1>1 DEF Decides
<1>5. /\ \A j \in 1..(l - 1) : j <= Len(b) /\ j <= Len(c) /\ b[j] = c[j]
      /\ l <= Len(c)
      /\ l = Len(b) + 1 \/ (l <= Len(b) /\ Rank(b[l]) < Rank(c[l]))
  BY <1>2 DEF Decides
<1>6. CASE k < l
  <2>1. k \in 1..(l - 1) /\ \A j \in 1..(k - 1) : j \in 1..(l - 1)
    BY <1>6
  <2>2. Decides(k, a, c)
    BY <1>3, <1>4, <1>5, <2>1 DEF Decides
  <2> QED
    BY <2>2, PrecedesIs
<1>7. CASE l < k
  <2>1. l \in 1..(k - 1) /\ \A j \in 1..(l - 1) : j \in 1..(k - 1)
    BY <1>7
  <2>2. l <= Len(a) /\ l <= Len(b) /\ a[l] = b[l]
    BY <1>4, <2>1
  <2>3. Rank(b[l]) < Rank(c[l])
    BY <1>3, <1>5, <2>2
  <2>4. Decides(l, a, c)
    BY <1>4, <1>5, <2>1, <2>2, <2>3 DEF Decides
  <2> QED
    BY <2>4, PrecedesIs
<1>8. CASE k = l
  <2>1. \A j \in 1..(k - 1) : j <= Len(a) /\ j <= Len(c) /\ a[j] = c[j]
    BY <1>4, <1>5, <1>8
  <2>2. Rank(b[k]) < Rank(c[k]) /\ k <= Len(c)
    BY <1>3, <1>4, <1>5, <1>8
  <2>3. k = Len(a) + 1 \/ (k <= Len(a) /\ Rank(a[k]) < Rank(c[k]))
    <3>1. ASSUME k <= Len(a), Rank(a[k]) < Rank(b[k])
          PROVE  Rank(a[k]) < Rank(c[k])
      <4>1. Rank(a[k]) \in Nat /\ Rank(b[k]) \in Nat /\ Rank(c[k]) \in Nat
        BY <1>3, <1>4, <2>2, <3>1
      <4> QED
        BY <2>2, <3>1, <4>1
    <3> QED
      BY <1>4, <3>1
  <2>4. Decides(k, a, c)
    BY <2>1, <2>2, <2>3 DEF Decides
  <2> QED
    BY <2>4, PrecedesIs
<1> QED
  BY <1>6, <1>7, <1>8

LEMMA PrecedesTotal ==
  ASSUME NEW a \in Words, NEW b \in Words, a # b
  PROVE  Precedes(a, b) \/ Precedes(b, a)
<1> SUFFICES ASSUME \A k \in Nat \ {0} : ~Decides(k, a, b) /\ ~Decides(k, b, a)
             PROVE  FALSE
  BY PrecedesIs
<1> DEFINE Agree(k) == \A j \in 1..k : j <= Len(a) /\ j <= Len(b) /\ a[j] = b[j]
           S == {k \in Nat : Agree(k)}
<1>1. /\ Len(a) \in Nat /\ Len(b) \in Nat
      /\ \A j \in 1..Len(a) : a[j] \in Letters
      /\ \A j \in 1..Len(b) : b[j] \in Letters
  BY DEF Words
<1>2. 0 \in S
  OBVIOUS
<1>3. ASSUME NEW k \in Nat, k \in S PROVE k + 1 \in S
  <2>1. Agree(k) /\ k <= Len(a) /\ k <= Len(b)
    BY <1>1, <1>3
  <2>2. ~(k = Len(a) /\ k = Len(b))
    BY <2>1, SeqEqual DEF Words
  <2>3. (k + 1) - 1 = k /\ k + 1 \in Nat \ {0}
    OBVIOUS
  <2>4. k + 1 <= Len(a) /\ k + 1 <= Len(b)
    BY <1>1, <2>1, <2>2, <2>3 DEF Decides
  <2>5. a[k + 1] \in Letters /\ b[k + 1] \in Letters
    BY <1>1, <2>4
  <2>6. ~(Rank(a[k + 1]) < Rank(b[k + 1])) /\ ~(Rank(b[k + 1]) < Rank(a[k + 1]))
    BY <2>1, <2>3, <2>4 DEF Decides
  <2>7. a[k + 1] = b[k + 1]
    BY <2>5, <2>6, RankIs
  <2>8. \A j \in 1..(k + 1) : j = k + 1 \/ j \in 1..k
    OBVIOUS
  <2> QED
    BY <2>1, <2>4, <2>7, <2>8
<1> HIDE DEF S
<1>4. Len(a) + 1 \in S
  BY <1>1, <1>2, <1>3, SetInduction
<1> QED
  BY <1>1, <1>4 DEF S

\* A finite set of names has a last one.
LEMMA LastName ==
  ASSUME NEW X \in SUBSET Words, IsFiniteSet(X), X # {}
  PROVE  \E m \in X : \A y \in X \ {m} : Precedes(y, m)
<1> DEFINE Last(Y) == \E m \in Y : \A y \in Y \ {m} : Precedes(y, m)
           S == {n \in Nat : \A Y \in SUBSET Words :
                   IsFiniteSet(Y) /\ Cardinality(Y) = n /\ Y # {} => Last(Y)}
<1>1. 0 \in S
  BY FS_EmptySet
<1>2. ASSUME NEW n \in Nat, n \in S PROVE n + 1 \in S
  <2> SUFFICES ASSUME NEW Y \in SUBSET Words, IsFiniteSet(Y),
                      Cardinality(Y) = n + 1, Y # {}
               PROVE  Last(Y)
    OBVIOUS
  <2>1. PICK x \in Y : TRUE
    OBVIOUS
  <2> DEFINE Z == Y \ {x}
  <2>2. IsFiniteSet(Z) /\ Cardinality(Z) = n /\ Z \in SUBSET Words
    <3>1. IsFiniteSet(Z) /\ Cardinality(Z) = Cardinality(Y) - 1
      BY <2>1, FS_RemoveElement
    <3> QED
      BY <3>1
  <2>3. CASE Z = {}
    <3>1. \A y \in Y \ {x} : Precedes(y, x)
      BY <2>3
    <3> QED
      BY <2>1, <3>1
  <2>4. CASE Z # {}
    <3>1. Last(Z)
      BY <1>2, <2>2, <2>4
    <3>2. PICK m \in Z : \A y \in Z \ {m} : Precedes(y, m)
      BY <3>1
    <3>3. x \in Words /\ m \in Words /\ m # x /\ m \in Y
      BY <2>1, <3>2
    <3>4. CASE Precedes(m, x)
      <4>1. ASSUME NEW y \in Y \ {x} PROVE Precedes(y, x)
        <5>1. y = m \/ Precedes(y, m)
          BY <3>2, <4>1
        <5>2. y \in Words
          BY <4>1
        <5> QED
          BY <3>3, <3>4, <5>1, <5>2, PrecedesTransitive
      <4> QED
        BY <2>1, <4>1
    <3>5. CASE Precedes(x, m)
      <4>1. \A y \in Y \ {m} : Precedes(y, m)
        BY <3>2, <3>5
      <4> QED
        BY <3>3, <4>1
    <3> QED
      BY <3>3, <3>4, <3>5, PrecedesTotal
  <2> QED
    BY <2>3, <2>4
<1> HIDE DEF S
<1>3. Cardinality(X) \in S
  BY <1>1, <1>2, SetInduction, FS_CardinalityType
<1> QED
  BY <1>3 DEF S

Sorted(s, n, X) ==
  /\ s \in [1..n -> X]
  /\ \A i, j \in 1..n : i < j => Precedes(s[i], s[j])

LEMMA SortedExists ==
  ASSUME NEW X \in SUBSET Words, IsFiniteSet(X)
  PROVE  \E s : Sorted(s, Cardinality(X), X)
<1> DEFINE S == {n \in Nat : \A Y \in SUBSET Words :
                   IsFiniteSet(Y) /\ Cardinality(Y) = n => \E s : Sorted(s, n, Y)}
<1>1. 0 \in S
  <2> SUFFICES ASSUME NEW Y PROVE \E s : Sorted(s, 0, Y)
    OBVIOUS
  <2> DEFINE s == [i \in 1..0 |-> i]
  <2>1. Sorted(s, 0, Y)
    BY DEF Sorted
  <2> QED
    BY <2>1
<1>2. ASSUME NEW n \in Nat, n \in S PROVE n + 1 \in S
  <2> SUFFICES ASSUME NEW Y \in SUBSET Words, IsFiniteSet(Y),
                      Cardinality(Y) = n + 1
               PROVE  \E s : Sorted(s, n + 1, Y)
    OBVIOUS
  <2>1. Y # {}
    BY FS_EmptySet
  <2>2. PICK m \in Y : \A y \in Y \ {m} : Precedes(y, m)
    BY <2>1, LastName
  <2> DEFINE Z == Y \ {m}
  <2>3. IsFiniteSet(Z) /\ Cardinality(Z) = n /\ Z \in SUBSET Words
    <3>1. IsFiniteSet(Z) /\ Cardinality(Z) = Cardinality(Y) - 1
      BY <2>2, FS_RemoveElement
    <3> QED
      BY <3>1
  <2>4. PICK r : Sorted(r, n, Z)
    BY <1>2, <2>3
  <2> DEFINE s == [i \in 1..(n + 1) |-> IF i <= n THEN r[i] ELSE m]
  <2>5. r \in [1..n -> Z] /\ \A i, j \in 1..n : i < j => Precedes(r[i], r[j])
    BY <2>4 DEF Sorted
  <2>6. \A i \in 1..n : r[i] \in Y /\ Precedes(r[i], m)
    BY <2>2, <2>5
  <2> HIDE DEF Z
  <2>7. \A i \in 1..(n + 1) : i \in 1..n \/ i = n + 1
    OBVIOUS
  <2>8. s \in [1..(n + 1) -> Y]
    BY <2>6
  <2>9. \A i \in 1..n : s[i] = r[i]
    OBVIOUS
  <2>10. s[n + 1] = m
    OBVIOUS
  <2> HIDE DEF s
  <2>11. ASSUME NEW i \in 1..(n + 1), NEW j \in 1..(n + 1), i < j
         PROVE  Precedes(s[i], s[j])
    <3>1. i \in 1..n
      BY <2>11
    <3> QED
      BY <2>5, <2>6, <2>7, <2>9, <2>10, <2>11, <3>1
  <2>12. Sorted(s, n + 1, Y)
    BY <2>8, <2>11 DEF Sorted
  <2> QED
    BY <2>12
<1> HIDE DEF S
<1>3. Cardinality(X) \in S
  BY <1>1, <1>2, SetInduction, FS_CardinalityType
<1> QED
  BY <1>3 DEF S

\* The members are written each once.
LEMMA InOrderIs ==
  ASSUME NEW X \in SUBSET Words, IsFiniteSet(X)
  PROVE  /\ Cardinality(X) \in Nat
         /\ InOrder(X) \in [1..Cardinality(X) -> X]
         /\ \A i, j \in 1..Cardinality(X) : InOrder(X)[i] = InOrder(X)[j] => i = j
         /\ \A x \in X : \E i \in 1..Cardinality(X) : InOrder(X)[i] = x
<1> DEFINE n == Cardinality(X)
           f == InOrder(X)
           Good(s) == \A i, j \in DOMAIN s : i < j => Precedes(s[i], s[j])
<1>1. n \in Nat
  BY FS_CardinalityType
<1>2. PICK s : Sorted(s, n, X)
  BY SortedExists
<1>3. s \in [1..n -> X] /\ Good(s)
  BY <1>2 DEF Sorted
<1>4. f = CHOOSE g \in [1..n -> X] : Good(g)
  BY DEF InOrder
<1> HIDE DEF Good, n
<1>5. f \in [1..n -> X] /\ Good(f)
  BY <1>3, <1>4
<1> HIDE DEF f
<1>6. ASSUME NEW i \in 1..n, NEW j \in 1..n, i < j PROVE f[i] # f[j]
  <2>1. Precedes(f[i], f[j])
    BY <1>5, <1>6 DEF Good
  <2>2. f[i] \in Words
    BY <1>5
  <2> QED
    BY <2>1, <2>2, PrecedesIrreflexive
<1>7. ASSUME NEW i \in 1..n, NEW j \in 1..n, f[i] = f[j] PROVE i = j
  <2>1. ~(i < j) /\ ~(j < i)
    BY <1>6, <1>7
  <2> QED
    BY <2>1
<1>8. f \in Injection(1..n, X)
  BY <1>5, <1>7, Fun_IsInj
<1>9. Cardinality(1..n) = n
  BY <1>1, FS_Interval
<1>10. f \in Surjection(1..n, X)
  <2>1. Cardinality(1..n) = Cardinality(X)
    BY <1>9 DEF n
  <2>2. Cardinality(1..n) = Cardinality(X) <=> f \in Surjection(1..n, X)
    <3> DEFINE D == 1..n
    <3>1. f \in Injection(D, X)
      BY <1>8
    <3> HIDE DEF D
    <3>2. Cardinality(D) = Cardinality(X) <=> f \in Surjection(D, X)
      BY <3>1, FS_Injection
    <3> QED
      BY <3>2 DEF D
  <2> QED
    BY <2>1, <2>2, Zenon
<1>11. \A x \in X : \E i \in 1..n : f[i] = x
  <2> DEFINE D == 1..n
  <2>1. f \in Surjection(D, X)
    BY <1>10
  <2> HIDE DEF D
  <2>2. \A x \in X : \E i \in D : f[i] = x
    BY <2>1, Fun_SurjectionProperties
  <2> QED
    BY <2>2 DEF D
<1> QED
  BY <1>1, <1>5, <1>7, <1>11 DEF n, f

-----------------------------------------------------------------------------
(***************************************************************************)
(* The trees that can be parsed, and the children of a Value.              *)
(***************************************************************************)
PlainName == Seq(Letters \ {"u", "bad"})
PlainKey == {Name(s) : s \in PlainName} \cup {Index(i) : i \in Nat}
PlainPath == Seq(PlainKey)

\* The array at p has its elements from the first to the n-th.
HasElements(t, p, n) ==
  \A i \in Nat : Append(p, Index(i)) \in DOMAIN t <=> i < n

WellFormed(t) ==
  /\ IsFiniteSet(DOMAIN t)
  /\ DOMAIN t \subseteq PlainPath
  /\ <<>> \in DOMAIN t
  /\ \A p \in DOMAIN t : Sound(t[p])
  /\ \A p \in PlainPath, k \in PlainKey :
       Append(p, k) \in DOMAIN t =>
         p \in DOMAIN t /\ t[p].type = (IF k.isName THEN "object" ELSE "array")
  /\ \A p \in DOMAIN t :
       t[p].type = "array" => \E n \in Nat : HasElements(t, p, n)

LEMMA KeyFacts ==
  /\ \A s : Name(s).isName = TRUE /\ Name(s).cstr = s
  /\ \A i : Index(i).isName = FALSE /\ Index(i).index = i
  /\ \A s \in PlainName : Name(s) \in PlainKey
  /\ \A i \in Nat : Index(i) \in PlainKey
  /\ \A k \in PlainKey : k.isName => k.cstr \in PlainName /\ k = Name(k.cstr)
  /\ \A k \in PlainKey : ~k.isName => k.index \in Nat /\ k = Index(k.index)
<1>1. /\ \A s : Name(s).isName = TRUE /\ Name(s).cstr = s
      /\ \A i : Index(i).isName = FALSE /\ Index(i).index = i
  BY DEF Name, Index
<1>2. \A k \in PlainKey : \/ \E s \in PlainName : k = Name(s)
                          \/ \E i \in Nat : k = Index(i)
  BY DEF PlainKey
<1> QED
  BY <1>1, <1>2 DEF PlainKey

LEMMA AppendPath ==
  ASSUME NEW p \in PlainPath, NEW k \in PlainKey
  PROVE  /\ Append(p, k) \in PlainPath
         /\ Len(Append(p, k)) = Len(p) + 1
         /\ Append(p, k)[Len(p) + 1] = k
         /\ SubSeq(Append(p, k), 1, Len(p)) = p
         /\ Below(p, Append(p, k))
         /\ Len(p) \in Nat
<1>1. /\ Append(p, k) \in PlainPath /\ Len(Append(p, k)) = Len(p) + 1
      /\ Append(p, k)[Len(p) + 1] = k /\ Len(p) \in Nat
  BY AppendProperties, LenProperties DEF PlainPath
<1>2. Pop(Append(p, k)) = p
  BY PopAppend DEF PlainPath
<1>3. SubSeq(Append(p, k), 1, Len(p)) = p
  <2>1. Len(Append(p, k)) - 1 = Len(p)
    BY <1>1
  <2> QED
    BY <1>2, <2>1 DEF Pop
<1> QED
  BY <1>1, <1>3 DEF Below

LEMMA KeysAre ==
  ASSUME NEW t, WellFormed(t), NEW p \in DOMAIN t
  PROVE  \A k : k \in Keys(t, p) <=> k \in PlainKey /\ Append(p, k) \in DOMAIN t
<1>1. DOMAIN t \subseteq PlainPath /\ p \in PlainPath
  BY DEF WellFormed
<1>2. ASSUME NEW k, k \in Keys(t, p)
      PROVE  k \in PlainKey /\ Append(p, k) \in DOMAIN t
  <2>1. /\ k \in {q[Len(p) + 1] : q \in {r \in DOMAIN t : Below(p, r)}}
        /\ Append(p, k) \in DOMAIN t
    BY <1>2 DEF Keys
  <2>2. PICK q \in DOMAIN t : Below(p, q) /\ k = q[Len(p) + 1]
    BY <2>1
  <2>3. q \in Seq(PlainKey) /\ Len(q) > Len(p) /\ Len(p) \in Nat /\ Len(q) \in Nat
    BY <1>1, <2>2, LenProperties DEF Below, PlainPath
  <2>4. k \in PlainKey
    BY <2>2, <2>3, ElementOfSeq
  <2> QED
    BY <2>1, <2>4
<1>3. ASSUME NEW k \in PlainKey, Append(p, k) \in DOMAIN t
      PROVE  k \in Keys(t, p)
  <2> DEFINE c == Append(p, k)
  <2>1. Below(p, c) /\ c[Len(p) + 1] = k
    BY <1>1, AppendPath
  <2>2. c \in DOMAIN t
    BY <1>3
  <2> HIDE DEF c
  <2>3. k \in {q[Len(p) + 1] : q \in {r \in DOMAIN t : Below(p, r)}}
    BY <2>1, <2>2
  <2> QED
    BY <1>3, <2>3 DEF Keys
<1> QED
  BY <1>2, <1>3

\* The children of a container, each once.
IsChildren(t, p, c) ==
  /\ c \in Seq(DOMAIN t)
  /\ \A i \in 1..Len(c) : \E k \in PlainKey : c[i] = Append(p, k)
  /\ \A i, j \in 1..Len(c) : c[i] = c[j] => i = j
  /\ \A k \in PlainKey :
       Append(p, k) \in DOMAIN t => \E i \in 1..Len(c) : c[i] = Append(p, k)
  /\ t[p].type = "array" => \A i \in 1..Len(c) : c[i] = Append(p, Index(i - 1))

LEMMA ArrayKeys ==
  ASSUME NEW t, WellFormed(t), NEW p \in DOMAIN t, t[p].type = "array",
         NEW n \in Nat, HasElements(t, p, n)
  PROVE  \A k : k \in Keys(t, p) <=> \E i \in 0..(n - 1) : k = Index(i)
<1>1. p \in PlainPath
  BY DEF WellFormed
<1>2. ASSUME NEW k \in Keys(t, p) PROVE \E i \in 0..(n - 1) : k = Index(i)
  <2>1. k \in PlainKey /\ Append(p, k) \in DOMAIN t
    BY KeysAre
  <2>2. ~k.isName
    BY <1>1, <2>1 DEF WellFormed
  <2>3. k.index \in Nat /\ k = Index(k.index)
    BY <2>1, <2>2, KeyFacts
  <2>4. k.index < n
    BY <2>1, <2>3 DEF HasElements
  <2> QED
    BY <2>3, <2>4
<1>3. ASSUME NEW i \in 0..(n - 1) PROVE Index(i) \in Keys(t, p)
  <2>1. Append(p, Index(i)) \in DOMAIN t
    BY DEF HasElements
  <2> QED
    BY <2>1, KeysAre, KeyFacts
<1> QED
  BY <1>2, <1>3

LEMMA ArraySize ==
  ASSUME NEW t, WellFormed(t), NEW p \in DOMAIN t, t[p].type = "array",
         NEW n \in Nat, HasElements(t, p, n)
  PROVE  Size(t, p) = n
<1> DEFINE ks == Keys(t, p)
           Largest(i) == \A k \in ks : k.index <= i
           indices == {k.index : k \in ks}
           largest == CHOOSE i \in indices : Largest(i)
<1>1. \A k : k \in ks <=> \E i \in 0..(n - 1) : k = Index(i)
  BY ArrayKeys
<1>2. Size(t, p) = IF ks = {} THEN 0 ELSE 1 + largest
  BY DEF Size
<1> HIDE DEF ks, largest
<1>3. CASE n = 0
  BY <1>1, <1>2, <1>3
<1>4. CASE n # 0
  <2>1. \A i \in 0..(n - 1) : Index(i) \in ks /\ Index(i).index = i
    BY <1>1, KeyFacts
  <2>2. n - 1 \in 0..(n - 1) /\ ks # {}
    BY <1>4, <2>1
  <2>3. \A k \in ks : k.index \in 0..(n - 1)
    BY <1>1, KeyFacts
  <2>4. n - 1 \in indices /\ Largest(n - 1)
    BY <2>1, <2>2, <2>3
  <2>5. \A i \in indices : Largest(i) => i = n - 1
    <3>1. \A i \in indices : i \in 0..(n - 1)
      BY <2>3
    <3>2. \A i : Largest(i) => n - 1 <= i
      BY <2>1, <2>2
    <3> HIDE DEF Largest, indices
    <3> QED
      BY <3>1, <3>2
  <2> HIDE DEF Largest, indices
  <2>6. largest \in indices /\ Largest(largest)
    BY <2>4, Zenon DEF largest
  <2>7. largest = n - 1
    BY <2>5, <2>6
  <2> QED
    BY <1>2, <2>2, <2>7
<1> QED
  BY <1>3, <1>4

LEMMA ArrayChildren ==
  ASSUME NEW t, WellFormed(t), NEW p \in DOMAIN t, t[p].type = "array"
  PROVE  IsChildren(t, p, Children(t, p))
<1>1. PICK n \in Nat : HasElements(t, p, n)
  BY DEF WellFormed
<1>2. p \in PlainPath
  BY DEF WellFormed
<1> DEFINE c == [i \in 1..n |-> Append(p, Index(i - 1))]
<1>3. Children(t, p) = c
  BY <1>1, ArraySize DEF Children
<1>4. \A i \in 1..n : /\ Append(p, Index(i - 1)) \in DOMAIN t
                      /\ Index(i - 1) \in PlainKey
  BY <1>1, KeyFacts DEF HasElements
<1>5. c \in Seq(DOMAIN t) /\ Len(c) = n
  <2>1. c \in [1..n -> DOMAIN t]
    BY <1>4
  <2> HIDE DEF c
  <2>2. c \in Seq(DOMAIN t)
    BY <2>1, SeqDef
  <2>3. DOMAIN c = 1..n /\ DOMAIN c = 1..Len(c) /\ Len(c) \in Nat
    BY <2>1, <2>2, LenProperties
  <2> QED
    BY <2>2, <2>3
<1>6. \A i \in 1..Len(c) : c[i] = Append(p, Index(i - 1))
  BY <1>5
<1> HIDE DEF c
<1>7. \A i \in 1..Len(c) : \E k \in PlainKey : c[i] = Append(p, k)
  BY <1>4, <1>5, <1>6
<1>8. ASSUME NEW i \in 1..Len(c), NEW j \in 1..Len(c), c[i] = c[j] PROVE i = j
  <2>1. Index(i - 1) = Index(j - 1)
    <3>1. /\ c[i][Len(p) + 1] = Index(i - 1)
          /\ c[j][Len(p) + 1] = Index(j - 1)
      BY <1>2, <1>4, <1>5, <1>6, AppendPath
    <3> QED
      BY <1>8, <3>1
  <2>2. i - 1 = j - 1
    BY <2>1, KeyFacts
  <2> QED
    BY <1>5, <2>2
<1>9. ASSUME NEW k \in PlainKey, Append(p, k) \in DOMAIN t
      PROVE  \E i \in 1..Len(c) : c[i] = Append(p, k)
  <2>1. PICK i \in 0..(n - 1) : k = Index(i)
    BY <1>1, <1>9, ArrayKeys, KeysAre
  <2>2. i + 1 \in 1..Len(c) /\ (i + 1) - 1 = i
    BY <1>5
  <2>3. c[i + 1] = Append(p, Index(i))
    BY <1>6, <2>2
  <2> QED
    BY <2>1, <2>2, <2>3
<1> QED
  BY <1>3, <1>5, <1>6, <1>7, <1>8, <1>9 DEF IsChildren

LEMMA ObjectChildren ==
  ASSUME NEW t, WellFormed(t), NEW p \in DOMAIN t, t[p].type = "object"
  PROVE  IsChildren(t, p, Children(t, p))
<1> DEFINE names == {k.cstr : k \in Keys(t, p)}
           n == Cardinality(names)
           f == InOrder(names)
           c == [i \in 1..n |-> Append(p, Name(f[i]))]
           from == {q \in DOMAIN t : Below(p, q) /\ q[Len(p) + 1] \in Keys(t, p)}
           s == [q \in from |-> q[Len(p) + 1].cstr]
<1>1. p \in PlainPath
  BY DEF WellFormed
<1>2. ASSUME NEW k \in Keys(t, p)
      PROVE  /\ k \in PlainKey /\ Append(p, k) \in DOMAIN t
             /\ k.cstr \in PlainName /\ k = Name(k.cstr)
  <2>1. k \in PlainKey /\ Append(p, k) \in DOMAIN t
    BY KeysAre
  <2>2. k.isName
    BY <1>1, <2>1 DEF WellFormed
  <2> QED
    BY <2>1, <2>2, KeyFacts
<1>3. names \in SUBSET Words
  <2>1. PlainName \subseteq Words
    <3>1. Letters \ {"u", "bad"} \subseteq Letters
      OBVIOUS
    <3>2. ASSUME NEW q \in PlainName PROVE q \in Words
      BY <3>1, SeqMonotonic DEF PlainName, Words
    <3> QED
      BY <3>2
  <2> QED
    BY <1>2, <2>1
<1>4. IsFiniteSet(names)
  <2>1. IsFiniteSet(from)
    <3>1. IsFiniteSet(DOMAIN t) /\ from \in SUBSET DOMAIN t
      BY DEF WellFormed
    <3> HIDE DEF from
    <3> QED
      BY <3>1, FS_Subset
  <2>2. s \in [from -> names]
    OBVIOUS
  <2>3. ASSUME NEW x \in names PROVE \E q \in from : s[q] = x
    <3>1. PICK k \in Keys(t, p) : x = k.cstr
      OBVIOUS
    <3>2. k \in PlainKey /\ Append(p, k) \in DOMAIN t
      BY <1>2
    <3>3. Below(p, Append(p, k)) /\ Append(p, k)[Len(p) + 1] = k
      BY <1>1, <3>2, AppendPath
    <3>4. Append(p, k) \in from
      BY <3>2, <3>3
    <3>5. s[Append(p, k)] = x
      BY <3>1, <3>3, <3>4
    <3> QED
      BY <3>4, <3>5
  <2> HIDE DEF s, from, names
  <2>4. s \in Surjection(from, names)
    BY <2>2, <2>3, Fun_IsSurj
  <2> QED
    BY <2>1, <2>4, FS_Surjection
<1>5. Children(t, p) = c
  <2>1. GetMemberNames(t, p) = f
    BY DEF GetMemberNames
  <2>2. f \in [1..n -> names]
    BY <1>3, <1>4, InOrderIs
  <2>3. DOMAIN f = 1..n
    BY <2>2
  <2> HIDE DEF f, n
  <2>4. Children(t, p) = [i \in DOMAIN f |-> Append(p, Name(f[i]))]
    BY <2>1 DEF Children
  <2> QED
    BY <2>3, <2>4
<1>6. /\ n \in Nat
      /\ f \in [1..n -> names]
      /\ \A i, j \in 1..n : f[i] = f[j] => i = j
      /\ \A x \in names : \E i \in 1..n : f[i] = x
  BY <1>3, <1>4, InOrderIs
<1>7. \A x \in names : x \in PlainName /\ Append(p, Name(x)) \in DOMAIN t
  BY <1>2
<1>8. \A k \in PlainKey :
        Append(p, k) \in DOMAIN t => k.cstr \in names /\ k = Name(k.cstr)
  BY <1>2, KeysAre
<1> HIDE DEF names, n, f
<1>9. \A i \in 1..n : /\ Append(p, Name(f[i])) \in DOMAIN t
                      /\ Name(f[i]) \in PlainKey
  BY <1>6, <1>7, KeyFacts
<1>10. c \in Seq(DOMAIN t) /\ Len(c) = n
  <2>1. c \in [1..n -> DOMAIN t]
    BY <1>9
  <2> HIDE DEF c
  <2>2. c \in Seq(DOMAIN t)
    BY <1>6, <2>1, SeqDef
  <2>3. DOMAIN c = 1..n /\ DOMAIN c = 1..Len(c) /\ Len(c) \in Nat
    BY <2>1, <2>2, LenProperties
  <2> QED
    BY <1>6, <2>2, <2>3
<1>11. \A i \in 1..Len(c) : c[i] = Append(p, Name(f[i]))
  BY <1>10
<1> HIDE DEF c
<1>12. \A i \in 1..Len(c) : \E k \in PlainKey : c[i] = Append(p, k)
  BY <1>9, <1>10, <1>11
<1>13. ASSUME NEW i \in 1..Len(c), NEW j \in 1..Len(c), c[i] = c[j] PROVE i = j
  <2>1. /\ c[i][Len(p) + 1] = Name(f[i])
        /\ c[j][Len(p) + 1] = Name(f[j])
    BY <1>1, <1>9, <1>10, <1>11, AppendPath
  <2>2. f[i] = f[j]
    BY <1>13, <2>1, KeyFacts
  <2> QED
    BY <1>6, <1>10, <2>2
<1>14. ASSUME NEW k \in PlainKey, Append(p, k) \in DOMAIN t
       PROVE  \E i \in 1..Len(c) : c[i] = Append(p, k)
  <2>1. k.cstr \in names /\ k = Name(k.cstr)
    BY <1>8, <1>14
  <2>2. PICK i \in 1..n : f[i] = k.cstr
    BY <1>6, <2>1
  <2> QED
    BY <1>10, <1>11, <2>1, <2>2
<1> QED
  BY <1>5, <1>10, <1>12, <1>13, <1>14 DEF IsChildren

\* The writers go through every element or member of a container, and through each
\* once, elements in the order of their indices.
THEOREM ChildrenAre ==
  ASSUME NEW t, WellFormed(t), NEW p \in DOMAIN t, IsContainer(t[p])
  PROVE  IsChildren(t, p, Children(t, p))
BY ArrayChildren, ObjectChildren DEF IsContainer

-----------------------------------------------------------------------------
(***************************************************************************)
(* FastWriter: the text is the concatenation that its definition says.     *)
(***************************************************************************)
LexemeText == Seq(LexemeType)

\* The children of p have texts.
HasTexts(t, p, text) ==
  \A i \in 1..Len(Children(t, p)) : text[Children(t, p)[i]] \in LexemeText

\* What is written from a child to the next.
Piece(t, p, text, i) ==
  FastComma(i) \o FastLabel(Children(t, p)[i]) \o text[Children(t, p)[i]]

RestRule(t, p, text, g, i) ==
  IF i > Len(Children(t, p)) THEN Closing(t[p])
  ELSE Piece(t, p, text, i) \o g[i + 1]

LEMMA PunctuationTypes ==
  /\ \A i : FastComma(i) \in LexemeText
  /\ \A n : Opening(n) \in LexemeText /\ Closing(n) \in LexemeText
  /\ <<Lexeme(":")>> \in LexemeText
<1>1. ASSUME NEW type \in Kinds PROVE <<Lexeme(type)>> \in LexemeText
  <2>1. Lexeme(type) \in LexemeType
    BY LexemeTypes
  <2> DEFINE x == Lexeme(type)
  <2> HIDE DEF x
  <2>2. x \in LexemeType => <<x>> \in Seq(LexemeType)
    OBVIOUS
  <2> QED
    BY <2>1, <2>2 DEF x, LexemeText
<1>2. <<>> \in LexemeText
  BY EmptySeq DEF LexemeText
<1> QED
  BY <1>1, <1>2 DEF FastComma, Opening, Closing, Kinds

LEMMA LabelType ==
  ASSUME NEW p \in PlainPath, NEW k \in PlainKey
  PROVE  /\ FastLabel(Append(p, k)) \in LexemeText
         /\ k.isName => /\ StringLexeme(k.cstr) \in LexemeType
                        /\ FastLabel(Append(p, k))
                             = <<StringLexeme(k.cstr)>> \o <<Lexeme(":")>>
         /\ ~k.isName => FastLabel(Append(p, k)) = <<>>
<1> DEFINE c == Append(p, k)
<1>1. c[Len(c)] = k
  BY AppendPath
<1> HIDE DEF c
<1>2. CASE k.isName
  <2>1. k.cstr \in Seq(STRING)
    <3>1. k.cstr \in PlainName
      BY <1>2, KeyFacts
    <3>2. Letters \ {"u", "bad"} \subseteq STRING
      BY ValueAssumption DEF Letters
    <3> QED
      BY <3>1, <3>2, SeqMonotonic DEF PlainName
  <2>2. StringLexeme(k.cstr) \in LexemeType
    BY <2>1, LexemeTypes
  <2> DEFINE x == StringLexeme(k.cstr)
  <2>3. FastLabel(c) = <<x>> \o <<Lexeme(":")>>
    BY <1>1, <1>2 DEF FastLabel, MemberLabel
  <2> HIDE DEF x
  <2>4. <<x>> \in LexemeText
    BY <2>2 DEF x, LexemeText
  <2>5. FastLabel(c) \in LexemeText
    BY <2>3, <2>4, PunctuationTypes, ConcatProperties DEF LexemeText
  <2> QED
    BY <1>2, <2>2, <2>3, <2>5 DEF c, x
<1>3. CASE ~k.isName
  <2>1. FastLabel(c) = <<>>
    BY <1>1, <1>3 DEF FastLabel
  <2> QED
    BY <1>3, <2>1, EmptySeq DEF c, LexemeText
<1> QED
  BY <1>2, <1>3

LEMMA PieceType ==
  ASSUME NEW t, WellFormed(t), NEW p \in DOMAIN t, IsContainer(t[p]),
         NEW text, HasTexts(t, p, text), NEW i \in 1..Len(Children(t, p))
  PROVE  Piece(t, p, text, i) \in LexemeText
<1> DEFINE c == Children(t, p)[i]
<1>1. PICK k \in PlainKey : c = Append(p, k)
  BY ChildrenAre DEF IsChildren
<1>2. FastLabel(c) \in LexemeText
  BY <1>1, LabelType DEF WellFormed
<1>3. text[c] \in LexemeText
  BY DEF HasTexts
<1>4. Piece(t, p, text, i) = (FastComma(i) \o FastLabel(c)) \o text[c]
  BY DEF Piece
<1> HIDE DEF c
<1>5. FastComma(i) \o FastLabel(c) \in LexemeText
  BY <1>2, PunctuationTypes, ConcatProperties DEF LexemeText
<1> QED
  BY <1>3, <1>4, <1>5, ConcatProperties DEF LexemeText

LEMMA RestIs ==
  ASSUME NEW t, WellFormed(t), NEW p \in DOMAIN t, IsContainer(t[p]),
         NEW text, HasTexts(t, p, text)
  PROVE  \A i \in 1..(Len(Children(t, p)) + 1) :
           /\ FastRest(t, p, text)[i] = RestRule(t, p, text, FastRest(t, p, text), i)
           /\ FastRest(t, p, text)[i] \in LexemeText
<1> DEFINE n == Len(Children(t, p))
           Makes(g) == g = [i \in 1..(n + 1) |->
             IF i > n THEN Closing(t[p])
             ELSE FastComma(i) \o FastLabel(Children(t, p)[i])
                    \o text[Children(t, p)[i]] \o g[i + 1]]
           F == FastRest(t, p, text)
           rule == [k \in Nat |-> [x \in LexemeText |->
                      IF k < n THEN Piece(t, p, text, n - k) \o x ELSE x]]
<1>1. F = CHOOSE g : Makes(g)
  BY DEF FastRest
<1>2. n \in Nat
  BY ChildrenAre, LenProperties DEF IsChildren
<1>3. \A g : Makes(g) <=> g = [i \in 1..(n + 1) |-> RestRule(t, p, text, g, i)]
  BY DEF RestRule, Piece
<1>4. \A i \in 1..n : Piece(t, p, text, i) \in LexemeText
  BY PieceType
<1>5. \A x, y \in LexemeText : x \o y \in LexemeText
  BY ConcatProperties DEF LexemeText
<1> HIDE DEF n, Makes, F
<1>6. rule \in [Nat -> [LexemeText -> LexemeText]]
  <2>1. ASSUME NEW k \in Nat, NEW x \in LexemeText
        PROVE  (IF k < n THEN Piece(t, p, text, n - k) \o x ELSE x) \in LexemeText
    <3>1. k < n => n - k \in 1..n
      BY <1>2
    <3> QED
      BY <1>4, <1>5, <3>1
  <2> QED
    BY <2>1
<1>7. \A k \in 0..(n - 1), x \in LexemeText :
        rule[k][x] = Piece(t, p, text, n - k) \o x
  BY <1>2
<1> HIDE DEF rule
<1>8. Closing(t[p]) \in LexemeText
  BY PunctuationTypes
<1>9. PICK v : Follows(v, n, LexemeText, Closing(t[p]), rule)
  BY <1>2, <1>6, <1>8, Recursion
<1>10. /\ v \in [0..n -> LexemeText] /\ v[0] = Closing(t[p])
       /\ \A k \in 0..(n - 1) : v[k + 1] = Piece(t, p, text, n - k) \o v[k]
  <2>1. /\ v \in [0..n -> LexemeText] /\ v[0] = Closing(t[p])
        /\ \A k \in 0..(n - 1) : v[k + 1] = rule[k][v[k]]
    BY <1>9 DEF Follows
  <2>2. \A k \in 0..(n - 1) : v[k] \in LexemeText
    BY <1>2, <2>1
  <2> QED
    BY <1>7, <2>1, <2>2
<1> DEFINE h == [i \in 1..(n + 1) |-> v[n + 1 - i]]
<1>11. Makes(h)
  <2>1. ASSUME NEW i \in 1..(n + 1)
        PROVE  h[i] = RestRule(t, p, text, h, i)
    <3>1. CASE i > n
      <4>1. h[i] = Closing(t[p])
        BY <1>2, <1>10, <3>1
      <4> QED
        BY <3>1, <4>1 DEF RestRule, n
    <3>2. CASE ~(i > n)
      <4>1. n - i \in 0..(n - 1) /\ (n - i) + 1 = n + 1 - i /\ n - (n - i) = i
        BY <1>2, <3>2
      <4>2. h[i] = Piece(t, p, text, i) \o v[n - i]
        BY <1>10, <4>1
      <4>3. h[i + 1] = v[n - i]
        BY <1>2, <3>2
      <4> QED
        BY <3>2, <4>2, <4>3 DEF RestRule, n
    <3> QED
      BY <3>1, <3>2
  <2>2. h = [i \in 1..(n + 1) |-> h[i]]
    OBVIOUS
  <2> HIDE DEF h
  <2> QED
    BY <1>3, <2>1, <2>2
<1>12. Makes(F)
  <2> HIDE DEF h
  <2> QED
    BY <1>1, <1>11, Zenon
<1>13. ASSUME NEW i \in 1..(n + 1) PROVE F[i] = RestRule(t, p, text, F, i)
  BY <1>3, <1>12
<1> DEFINE S == {k \in Nat : k <= n => F[n + 1 - k] \in LexemeText}
<1>14. 0 \in S
  <2>1. n + 1 - 0 \in 1..(n + 1) /\ n + 1 - 0 > n
    BY <1>2
  <2> QED
    BY <1>8, <1>13, <2>1 DEF RestRule, n
<1>15. ASSUME NEW k \in Nat, k \in S PROVE k + 1 \in S
  <2> SUFFICES ASSUME k + 1 <= n PROVE F[n + 1 - (k + 1)] \in LexemeText
    OBVIOUS
  <2> DEFINE i == n - k
  <2>1. /\ i \in 1..n /\ i \in 1..(n + 1) /\ ~(i > n)
        /\ n + 1 - (k + 1) = i /\ i + 1 = n + 1 - k
    BY <1>2
  <2>2. F[i + 1] \in LexemeText
    BY <1>2, <1>15, <2>1
  <2> HIDE DEF i
  <2>3. F[i] = Piece(t, p, text, i) \o F[i + 1]
    BY <1>13, <2>1 DEF RestRule, n
  <2> QED
    BY <1>4, <1>5, <2>1, <2>2, <2>3
<1> HIDE DEF S
<1>16. Nat \subseteq S
  BY <1>14, <1>15, SetInduction
<1>17. ASSUME NEW i \in 1..(n + 1) PROVE F[i] \in LexemeText
  <2>1. n + 1 - i \in Nat /\ n + 1 - i <= n /\ n + 1 - (n + 1 - i) = i
    BY <1>2
  <2> QED
    BY <1>16, <2>1 DEF S
<1> QED
  BY <1>13, <1>17 DEF n, F

LEMMA RestSame ==
  ASSUME NEW t, WellFormed(t), NEW p \in DOMAIN t, IsContainer(t[p]),
         NEW f, HasTexts(t, p, f), NEW g, HasTexts(t, p, g),
         \A i \in 1..Len(Children(t, p)) : f[Children(t, p)[i]] = g[Children(t, p)[i]]
  PROVE  FastRest(t, p, f)[1] = FastRest(t, p, g)[1]
<1> DEFINE n == Len(Children(t, p))
           F == FastRest(t, p, f)
           G == FastRest(t, p, g)
           S == {k \in Nat : k <= n => F[n + 1 - k] = G[n + 1 - k]}
<1>1. n \in Nat
  BY ChildrenAre, LenProperties DEF IsChildren
<1>2. \A i \in 1..n : Piece(t, p, f, i) = Piece(t, p, g, i)
  BY DEF Piece
<1>3. \A i \in 1..(n + 1) : /\ F[i] = RestRule(t, p, f, F, i)
                            /\ G[i] = RestRule(t, p, g, G, i)
  BY RestIs
<1> HIDE DEF n, F, G
<1>4. 0 \in S
  <2>1. n + 1 - 0 \in 1..(n + 1) /\ n + 1 - 0 > n
    BY <1>1
  <2> QED
    BY <1>3, <2>1 DEF RestRule, n
<1>5. ASSUME NEW k \in Nat, k \in S PROVE k + 1 \in S
  <2> SUFFICES ASSUME k + 1 <= n PROVE F[n + 1 - (k + 1)] = G[n + 1 - (k + 1)]
    OBVIOUS
  <2> DEFINE i == n - k
  <2>1. /\ i \in 1..n /\ i \in 1..(n + 1) /\ ~(i > n)
        /\ n + 1 - (k + 1) = i /\ i + 1 = n + 1 - k
    BY <1>1
  <2>2. F[i + 1] = G[i + 1]
    BY <1>1, <1>5, <2>1
  <2> HIDE DEF i
  <2>3. F[i] = Piece(t, p, f, i) \o F[i + 1] /\ G[i] = Piece(t, p, g, i) \o G[i + 1]
    BY <1>3, <2>1 DEF RestRule, n
  <2> QED
    BY <1>2, <2>1, <2>2, <2>3
<1> HIDE DEF S
<1>6. n \in S
  BY <1>1, <1>4, <1>5, SetInduction
<1>7. n + 1 - n = 1
  BY <1>1
<1> QED
  BY <1>1, <1>6, <1>7 DEF S, F, G

TextRule(t, f, p) ==
  IF IsContainer(t[p]) THEN Opening(t[p]) \o FastRest(t, p, f)[1]
  ELSE ScalarText(t[p])

LEMMA TextRuleType ==
  ASSUME NEW t, WellFormed(t), NEW p \in DOMAIN t, NEW f,
         IsContainer(t[p]) => HasTexts(t, p, f)
  PROVE  TextRule(t, f, p) \in LexemeText
<1>1. CASE IsContainer(t[p])
  <2>1. Len(Children(t, p)) \in Nat
    BY <1>1, ChildrenAre, LenProperties DEF IsChildren
  <2>2. FastRest(t, p, f)[1] \in LexemeText
    BY <1>1, <2>1, RestIs
  <2> QED
    BY <1>1, <2>2, PunctuationTypes, ConcatProperties DEF TextRule, LexemeText
<1>2. CASE ~IsContainer(t[p])
  <2>1. ScalarText(t[p]) \in LexemeText
    BY <1>2, ScalarTextType DEF WellFormed, IsContainer, LexemeText
  <2> QED
    BY <1>2, <2>1 DEF TextRule
<1> QED
  BY <1>1, <1>2

LEMMA Shallow ==
  ASSUME NEW t, WellFormed(t)
  PROVE  \E m \in Nat : \A p \in DOMAIN t : Len(p) \in Nat /\ Len(p) <= m
<1>1. IsFiniteSet(DOMAIN t)
  BY DEF WellFormed
<1>2. PICK n \in Nat : ExistsSurjection(1..n, DOMAIN t)
  BY <1>1, FS_NatSurjection
<1> DEFINE D == 1..n
<1>3. PICK f : f \in Surjection(D, DOMAIN t)
  BY <1>2, Fun_ExistsSurj
<1> HIDE DEF D
<1>4. f \in [D -> DOMAIN t] /\ \A p \in DOMAIN t : \E i \in D : f[i] = p
  BY <1>3, Fun_SurjectionProperties
<1>5. \A i \in 1..n : Len(f[i]) \in Nat
  BY <1>4, LenProperties DEF WellFormed, PlainPath, D
<1> DEFINE S == {k \in Nat : k <= n => \E m \in Nat : \A i \in 1..k : Len(f[i]) <= m}
<1>6. 0 \in S
  OBVIOUS
<1>7. ASSUME NEW k \in Nat, k \in S PROVE k + 1 \in S
  <2> SUFFICES ASSUME k + 1 <= n
               PROVE  \E m \in Nat : \A i \in 1..(k + 1) : Len(f[i]) <= m
    OBVIOUS
  <2>1. PICK m \in Nat : \A i \in 1..k : Len(f[i]) <= m
    BY <1>7
  <2>2. k + 1 \in 1..n /\ Len(f[k + 1]) \in Nat
    BY <1>5
  <2>3. PICK l \in Nat : l >= m /\ l >= Len(f[k + 1])
    BY <2>2
  <2>4. \A i \in 1..(k + 1) : i \in 1..k \/ i = k + 1
    OBVIOUS
  <2>5. \A i \in 1..(k + 1) : Len(f[i]) <= l
    BY <1>5, <2>1, <2>2, <2>3, <2>4
  <2> QED
    BY <2>5
<1> HIDE DEF S
<1>8. n \in S
  BY <1>6, <1>7, SetInduction
<1>9. PICK m \in Nat : \A i \in 1..n : Len(f[i]) <= m
  BY <1>8 DEF S
<1> QED
  BY <1>4, <1>5, <1>9 DEF D

LEMMA ChildDeeper ==
  ASSUME NEW t, WellFormed(t), NEW p \in DOMAIN t, IsContainer(t[p]),
         NEW i \in 1..Len(Children(t, p))
  PROVE  /\ Children(t, p)[i] \in DOMAIN t
         /\ Len(Children(t, p)[i]) = Len(p) + 1
         /\ Len(p) \in Nat
<1>1. PICK k \in PlainKey : Children(t, p)[i] = Append(p, k)
  BY ChildrenAre DEF IsChildren
<1>2. Children(t, p)[i] \in DOMAIN t
  BY ChildrenAre, ElementOfSeq DEF IsChildren
<1> QED
  BY <1>1, <1>2, AppendPath DEF WellFormed

\* FastWriter::writeValue writes what its recursion says, and lexemes only.
THEOREM FastValueIs ==
  ASSUME NEW t, WellFormed(t)
  PROVE  \A p \in DOMAIN t : /\ FastValue(t)[p] = TextRule(t, FastValue(t), p)
                             /\ FastValue(t)[p] \in LexemeText
<1> DEFINE Makes(g) == g = [p \in DOMAIN t |->
             IF IsContainer(t[p]) THEN Opening(t[p]) \o FastRest(t, p, g)[1]
             ELSE ScalarText(t[p])]
           G == FastValue(t)
<1>1. G = CHOOSE g : Makes(g)
  BY DEF FastValue
<1>2. \A g : Makes(g) <=> g = [p \in DOMAIN t |-> TextRule(t, g, p)]
  BY DEF TextRule
<1> HIDE DEF Makes, G
<1>3. PICK m \in Nat : \A p \in DOMAIN t : Len(p) \in Nat /\ Len(p) <= m
  BY Shallow
<1> DEFINE Right(f, k) == \A p \in DOMAIN t : Len(p) + k > m => f[p] = TextRule(t, f, p)
           S == {k \in Nat : \E f \in [DOMAIN t -> LexemeText] : Right(f, k)}
<1>4. 0 \in S
  <2> DEFINE f == [p \in DOMAIN t |-> <<>>]
  <2>1. <<>> \in LexemeText
    BY EmptySeq DEF LexemeText
  <2>2. f \in [DOMAIN t -> LexemeText]
    BY <2>1
  <2>3. Right(f, 0)
    BY <1>3
  <2> QED
    BY <2>2, <2>3
<1>5. ASSUME NEW f \in [DOMAIN t -> LexemeText], NEW p \in DOMAIN t
      PROVE  IsContainer(t[p]) => HasTexts(t, p, f)
  BY ChildDeeper DEF HasTexts
<1>6. ASSUME NEW k \in Nat, k \in S PROVE k + 1 \in S
  <2>1. PICK f \in [DOMAIN t -> LexemeText] : Right(f, k)
    BY <1>6
  <2> DEFINE g == [p \in DOMAIN t |-> IF Len(p) + k > m THEN f[p] ELSE TextRule(t, f, p)]
  <2>2. \A p \in DOMAIN t : TextRule(t, f, p) \in LexemeText
    BY <1>5, TextRuleType
  <2>3. g \in [DOMAIN t -> LexemeText]
    BY <2>2
  <2>4. \A p \in DOMAIN t : Len(p) + k > m => g[p] = f[p]
    OBVIOUS
  <2>5. \A p \in DOMAIN t : g[p] = TextRule(t, f, p) \/ Len(p) + k > m
    OBVIOUS
  <2> HIDE DEF g
  <2>6. ASSUME NEW p \in DOMAIN t, Len(p) + (k + 1) > m
        PROVE  g[p] = TextRule(t, g, p)
    <3>1. g[p] = TextRule(t, f, p)
      BY <2>1, <2>4, <2>5
    <3>2. CASE IsContainer(t[p])
      <4>1. \A i \in 1..Len(Children(t, p)) :
              f[Children(t, p)[i]] = g[Children(t, p)[i]]
        <5> TAKE i \in 1..Len(Children(t, p))
        <5> DEFINE c == Children(t, p)[i]
        <5>1. c \in DOMAIN t /\ Len(c) = Len(p) + 1 /\ Len(p) \in Nat
          BY <3>2, ChildDeeper
        <5> HIDE DEF c
        <5>2. Len(c) + k > m
          BY <1>3, <2>6, <5>1
        <5> QED
          BY <2>4, <5>1, <5>2 DEF c
      <4>2. HasTexts(t, p, f) /\ HasTexts(t, p, g)
        BY <1>5, <2>3, <3>2
      <4>3. FastRest(t, p, f)[1] = FastRest(t, p, g)[1]
        BY <3>2, <4>1, <4>2, RestSame
      <4> QED
        BY <3>1, <3>2, <4>3 DEF TextRule
    <3>3. CASE ~IsContainer(t[p])
      BY <3>1, <3>3 DEF TextRule
    <3> QED
      BY <3>2, <3>3
  <2>7. Right(g, k + 1)
    BY <2>6
  <2> QED
    BY <2>3, <2>7
<1> HIDE DEF S
<1>7. m + 1 \in S
  BY <1>4, <1>6, SetInduction
<1>8. PICK f \in [DOMAIN t -> LexemeText] : Right(f, m + 1)
  BY <1>7 DEF S
<1>9. \A p \in DOMAIN t : f[p] = TextRule(t, f, p)
  <2>1. \A p \in DOMAIN t : Len(p) + (m + 1) > m
    BY <1>3
  <2> QED
    BY <1>8, <2>1
<1>10. Makes(f)
  BY <1>2, <1>9
<1>11. Makes(G)
  BY <1>1, <1>10, Zenon
<1>12. \A p \in DOMAIN t : G[p] = TextRule(t, G, p)
  BY <1>2, <1>11
<1> DEFINE T == {k \in Nat : \A p \in DOMAIN t : Len(p) + k > m => G[p] \in LexemeText}
<1>13. 0 \in T
  BY <1>3
<1>14. ASSUME NEW k \in Nat, k \in T PROVE k + 1 \in T
  <2> SUFFICES ASSUME NEW p \in DOMAIN t, Len(p) + (k + 1) > m
               PROVE  G[p] \in LexemeText
    OBVIOUS
  <2>1. ASSUME IsContainer(t[p]) PROVE HasTexts(t, p, G)
    <3> SUFFICES ASSUME NEW i \in 1..Len(Children(t, p))
                 PROVE  G[Children(t, p)[i]] \in LexemeText
      BY DEF HasTexts
    <3> DEFINE c == Children(t, p)[i]
    <3>1. c \in DOMAIN t /\ Len(c) = Len(p) + 1 /\ Len(p) \in Nat
      BY <2>1, ChildDeeper
    <3> HIDE DEF c
    <3>2. Len(c) + k > m
      BY <1>3, <3>1
    <3>3. G[c] \in LexemeText
      BY <1>14, <3>1, <3>2
    <3> QED
      BY <3>3 DEF c
  <2> QED
    BY <1>12, <2>1, TextRuleType
<1> HIDE DEF T
<1>15. m + 1 \in T
  BY <1>13, <1>14, SetInduction
<1>16. \A p \in DOMAIN t : G[p] \in LexemeText
  <2>1. \A p \in DOMAIN t : Len(p) + (m + 1) > m
    BY <1>3
  <2> QED
    BY <1>15, <2>1 DEF T
<1> QED
  BY <1>12, <1>16 DEF G

-----------------------------------------------------------------------------
(***************************************************************************)
(* The reader makes such trees.                                            *)
(***************************************************************************)
LEMMA PrefixAppend ==
  ASSUME NEW q \in PlainPath, NEW k \in PlainKey, NEW m \in 0..Len(q)
  PROVE  SubSeq(Append(q, k), 1, m) = SubSeq(q, 1, m)
<1>1. /\ Append(q, k) \in Seq(PlainKey) /\ q \in Seq(PlainKey) /\ Len(q) \in Nat
      /\ Len(Append(q, k)) = Len(q) + 1
      /\ \A i \in 1..Len(q) : Append(q, k)[i] = q[i]
  BY AppendProperties, LenProperties DEF PlainPath
<1> DEFINE a == Append(q, k)
<1> HIDE DEF a
<1>2. \A i \in 1..m : a[i] \in PlainKey /\ q[i] \in PlainKey /\ a[i] = q[i]
  BY <1>1, ElementOfSeq DEF a
<1>3. /\ SubSeq(a, 1, m) \in Seq(PlainKey)
      /\ Len(SubSeq(a, 1, m)) = IF 1 <= m THEN m - 1 + 1 ELSE 0
      /\ \A i \in 1..(m - 1 + 1) : SubSeq(a, 1, m)[i] = a[1 + i - 1]
  BY <1>2, SubSeqProperties
<1>4. /\ SubSeq(q, 1, m) \in Seq(PlainKey)
      /\ Len(SubSeq(q, 1, m)) = IF 1 <= m THEN m - 1 + 1 ELSE 0
      /\ \A i \in 1..(m - 1 + 1) : SubSeq(q, 1, m)[i] = q[1 + i - 1]
  BY <1>2, SubSeqProperties
<1> DEFINE s == SubSeq(a, 1, m)
           r == SubSeq(q, 1, m)
<1> HIDE DEF s, r
<1>5. /\ s \in Seq(PlainKey) /\ r \in Seq(PlainKey) /\ Len(s) = m /\ Len(r) = m
      /\ \A i \in 1..m : s[i] = a[i] /\ r[i] = q[i]
  <2>1. \A i \in 1..m : 1 + i - 1 = i /\ i \in 1..(m - 1 + 1)
    OBVIOUS
  <2>2. m \in Nat
    BY <1>1
  <2> QED
    BY <1>3, <1>4, <2>1, <2>2 DEF s, r
<1>6. s = r
  BY <1>2, <1>5, SeqEqual
<1> QED
  BY <1>6 DEF s, r, a

LEMMA BelowAppend ==
  ASSUME NEW p \in PlainPath, NEW q \in PlainPath, NEW k \in PlainKey
  PROVE  /\ Below(p, Append(q, k)) <=> q = p \/ Below(p, q)
         /\ ~Below(p, p)
<1>1. Len(p) \in Nat /\ Len(q) \in Nat /\ Len(Append(q, k)) = Len(q) + 1
  BY AppendPath
<1>2. ~Below(p, p)
  BY <1>1 DEF Below
<1>3. SubSeq(q, 1, Len(q)) = q /\ SubSeq(p, 1, Len(p)) = p
  BY SubSeqFull DEF PlainPath
<1>4. CASE Len(p) > Len(q)
  BY <1>1, <1>4 DEF Below
<1>5. CASE Len(p) <= Len(q)
  <2>1. SubSeq(Append(q, k), 1, Len(p)) = SubSeq(q, 1, Len(p))
    BY <1>1, <1>5, PrefixAppend
  <2>2. CASE Len(p) = Len(q)
    BY <1>1, <1>3, <2>1, <2>2 DEF Below
  <2>3. CASE Len(p) # Len(q)
    BY <1>1, <1>5, <2>1, <2>3 DEF Below
  <2> QED
    BY <2>2, <2>3
<1> QED
  BY <1>1, <1>2, <1>4, <1>5

\* Only comments differ.
SameShape(s, t) ==
  /\ DOMAIN s = DOMAIN t
  /\ \A q \in DOMAIN t : /\ s[q].type = t[q].type
                         /\ s[q].num = t[q].num
                         /\ s[q].str = t[q].str

LEMMA CommentShape ==
  ASSUME NEW t, NEW ps, NEW placement, NEW text, GoodNodes(t)
  PROVE  SameShape(SetComment(t, ps, placement, text), t)
<1>1. ASSUME NEW n, GoodNode(n)
      PROVE  /\ [n EXCEPT !.com[placement] = text].type = n.type
             /\ [n EXCEPT !.com[placement] = text].num = n.num
             /\ [n EXCEPT !.com[placement] = text].str = n.str
  BY <1>1 DEF GoodNode
<1> QED
  BY <1>1 DEF SameShape, SetComment, GoodNodes

LEMMA CommentedShape ==
  ASSUME GoodNodes(tree)
  PROVE  SameShape(Commented, tree)
<1>1. SameShape(tree, tree)
  BY DEF SameShape
<1> QED
  BY <1>1, CommentShape DEF Commented

LEMMA ShapeKeeps ==
  ASSUME NEW s, NEW t, SameShape(s, t), WellFormed(t)
  PROVE  WellFormed(s)
<1>1. \A p \in DOMAIN s : Sound(s[p])
  <2>1. \A m, n : Sound(n) /\ m.type = n.type /\ m.num = n.num /\ m.str = n.str
                    => Sound(m)
    BY DEF Sound
  <2> QED
    BY <2>1 DEF WellFormed, SameShape
<1>2. \A p, n : HasElements(t, p, n) => HasElements(s, p, n)
  BY DEF HasElements, SameShape
<1>3. \A p \in DOMAIN s : s[p].type = "array" => \E n \in Nat : HasElements(s, p, n)
  BY <1>2 DEF WellFormed, SameShape
<1>4. \A p \in PlainPath, k \in PlainKey :
        Append(p, k) \in DOMAIN s =>
          p \in DOMAIN s /\ s[p].type = (IF k.isName THEN "object" ELSE "array")
  BY DEF WellFormed, SameShape
<1>5. IsFiniteSet(DOMAIN s) /\ DOMAIN s \subseteq PlainPath /\ <<>> \in DOMAIN s
  BY DEF WellFormed, SameShape
<1> QED
  BY <1>1, <1>3, <1>4, <1>5 DEF WellFormed

\* A value or an empty container takes the place of what p held.
LEMMA ReplacedFormed ==
  ASSUME NEW t, WellFormed(t), NEW p \in DOMAIN t, NEW node, Sound(node)
  PROVE  /\ WellFormed(Replaced(t, p, node))
         /\ \A k \in PlainKey : Append(p, k) \notin DOMAIN Replaced(t, p, node)
         /\ \A q \in PlainPath : \A n : ~Below(p, q) /\ q # p /\ HasElements(t, q, n)
              => HasElements(Replaced(t, p, node), q, n)
<1> DEFINE r == Replaced(t, p, node)
<1>1. /\ p \in PlainPath /\ DOMAIN t \subseteq PlainPath /\ IsFiniteSet(DOMAIN t)
      /\ <<>> \in DOMAIN t /\ \A q \in DOMAIN t : Sound(t[q])
      /\ \A q \in PlainPath, k \in PlainKey :
           Append(q, k) \in DOMAIN t =>
             q \in DOMAIN t /\ t[q].type = (IF k.isName THEN "object" ELSE "array")
      /\ \A q \in DOMAIN t : t[q].type = "array" => \E n \in Nat : HasElements(t, q, n)
  BY DEF WellFormed
<1>2. /\ \A q : q \in DOMAIN r <=> q \in DOMAIN t /\ ~Below(p, q)
      /\ \A q \in DOMAIN r : r[q] = IF q = p THEN node ELSE t[q]
  BY DEF Replaced
<1> HIDE DEF r
<1>3. \A k \in PlainKey : Append(p, k) \notin DOMAIN r
  BY <1>1, <1>2, BelowAppend
<1>4. ASSUME NEW q \in PlainPath, NEW n, ~Below(p, q), q # p, HasElements(t, q, n)
      PROVE  HasElements(r, q, n)
  <2> SUFFICES ASSUME NEW i \in Nat
               PROVE  Append(q, Index(i)) \in DOMAIN r <=> i < n
    BY DEF HasElements
  <2>1. Append(q, Index(i)) \in DOMAIN t <=> i < n
    BY <1>4 DEF HasElements
  <2>2. ~Below(p, Append(q, Index(i)))
    BY <1>1, <1>4, BelowAppend, KeyFacts
  <2> QED
    BY <1>2, <2>1, <2>2
<1>5. IsFiniteSet(DOMAIN r)
  <2>1. DOMAIN r \in SUBSET DOMAIN t
    BY <1>2
  <2> QED
    BY <1>1, <2>1, FS_Subset
<1>6. <<>> \in DOMAIN r
  <2>1. ~Below(p, <<>>)
    <3>1. Len(p) \in Nat /\ Len(<<>>) = 0
      BY <1>1, LenProperties DEF PlainPath
    <3> QED
      BY <3>1 DEF Below
  <2> QED
    BY <1>1, <1>2, <2>1
<1>7. \A q \in DOMAIN r : Sound(r[q])
  BY <1>1, <1>2
<1>8. ASSUME NEW q \in PlainPath, NEW k \in PlainKey, Append(q, k) \in DOMAIN r
      PROVE  q \in DOMAIN r /\ r[q].type = (IF k.isName THEN "object" ELSE "array")
  <2>1. q # p /\ ~Below(p, q)
    BY <1>1, <1>2, <1>8, BelowAppend
  <2> QED
    BY <1>1, <1>2, <1>8, <2>1
<1>9. ASSUME NEW q \in DOMAIN r, r[q].type = "array"
      PROVE  \E n \in Nat : HasElements(r, q, n)
  <2>1. CASE q = p
    <3>1. HasElements(r, p, 0)
      BY <1>3, KeyFacts DEF HasElements
    <3> QED
      BY <2>1, <3>1
  <2>2. CASE q # p
    BY <1>1, <1>2, <1>4, <1>9, <2>2
  <2> QED
    BY <2>1, <2>2
<1>10. DOMAIN r \subseteq PlainPath
  BY <1>1, <1>2
<1> QED
  BY <1>3, <1>4, <1>5, <1>6, <1>7, <1>8, <1>9, <1>10 DEF WellFormed, r

\* The tree with null at c, unless c has a value.
Extended(t, c) ==
  [q \in DOMAIN t \cup {c} |-> IF q \in DOMAIN t THEN t[q] ELSE NullNode]

\* A member, or the next element, is looked up in p.
LEMMA ExtendedFormed ==
  ASSUME NEW t, WellFormed(t), NEW p \in DOMAIN t, NEW k \in PlainKey,
         t[p].type = (IF k.isName THEN "object" ELSE "array"),
         ~k.isName => HasElements(t, p, k.index)
  PROVE  /\ WellFormed(Extended(t, Append(p, k)))
         /\ ~k.isName => HasElements(Extended(t, Append(p, k)), p, k.index + 1)
         /\ \A q \in PlainPath : \A n : q # p /\ HasElements(t, q, n)
              => HasElements(Extended(t, Append(p, k)), q, n)
<1> DEFINE c == Append(p, k)
           r == Extended(t, c)
<1>1. /\ p \in PlainPath /\ DOMAIN t \subseteq PlainPath /\ IsFiniteSet(DOMAIN t)
      /\ <<>> \in DOMAIN t /\ \A q \in DOMAIN t : Sound(t[q])
      /\ \A q \in PlainPath, l \in PlainKey :
           Append(q, l) \in DOMAIN t =>
             q \in DOMAIN t /\ t[q].type = (IF l.isName THEN "object" ELSE "array")
      /\ \A q \in DOMAIN t : t[q].type = "array" => \E n \in Nat : HasElements(t, q, n)
  BY DEF WellFormed
<1>2. DOMAIN r = DOMAIN t \cup {c} /\ \A q \in DOMAIN t : r[q] = t[q]
  BY DEF Extended
<1>3. \A q \in DOMAIN r : q \notin DOMAIN t => q = c /\ r[q] = NullNode
  BY DEF Extended
<1>4. c \in PlainPath
  BY <1>1, AppendPath
<1>5. \A q \in PlainPath, l \in PlainKey : Append(q, l) = c => q = p /\ l = k
  BY <1>1, AppendInjective DEF PlainPath
<1> HIDE DEF r, c
<1>6. Sound(NullNode)
  BY DEF Sound, NullNode, Node, Types
<1>7. NullNode.type = "null"
  BY DEF NullNode, Node
<1>8. ASSUME NEW q \in PlainPath, NEW n, q # p, HasElements(t, q, n)
      PROVE  HasElements(r, q, n)
  <2> SUFFICES ASSUME NEW i \in Nat
               PROVE  Append(q, Index(i)) \in DOMAIN r <=> i < n
    BY DEF HasElements
  <2>1. Append(q, Index(i)) \in DOMAIN t <=> i < n
    BY <1>8 DEF HasElements
  <2>2. Append(q, Index(i)) # c
    BY <1>5, <1>8, KeyFacts
  <2> QED
    BY <1>2, <2>1, <2>2
<1>9. ASSUME ~k.isName PROVE k.index \in Nat /\ HasElements(r, p, k.index + 1)
  <2>1. k.index \in Nat /\ k = Index(k.index) /\ HasElements(t, p, k.index)
    BY <1>9, KeyFacts
  <2> SUFFICES ASSUME NEW i \in Nat
               PROVE  Append(p, Index(i)) \in DOMAIN r <=> i < k.index + 1
    BY <2>1 DEF HasElements
  <2>2. Append(p, Index(i)) \in DOMAIN t <=> i < k.index
    BY <2>1 DEF HasElements
  <2>3. Append(p, Index(i)) = c <=> i = k.index
    <3>1. Append(p, Index(i)) = c => Index(i) = k
      BY <1>1, <1>5, KeyFacts
    <3>2. Index(i) = k => i = k.index
      BY <2>1, KeyFacts
    <3>3. i = k.index => Append(p, Index(i)) = c
      BY <2>1 DEF c
    <3> QED
      BY <3>1, <3>2, <3>3
  <2>4. i < k.index + 1 <=> i < k.index \/ i = k.index
    BY <2>1
  <2> QED
    BY <1>2, <2>2, <2>3, <2>4
<1>10. IsFiniteSet(DOMAIN r)
  BY <1>1, <1>2, FS_AddElement
<1>11. DOMAIN r \subseteq PlainPath /\ <<>> \in DOMAIN r
  BY <1>1, <1>2, <1>4
<1>12. \A q \in DOMAIN r : Sound(r[q])
  BY <1>1, <1>2, <1>3, <1>6
<1>13. ASSUME NEW q \in PlainPath, NEW l \in PlainKey, Append(q, l) \in DOMAIN r
       PROVE  q \in DOMAIN r /\ r[q].type = (IF l.isName THEN "object" ELSE "array")
  <2>1. CASE Append(q, l) \in DOMAIN t
    BY <1>1, <1>2, <2>1
  <2>2. CASE Append(q, l) \notin DOMAIN t
    BY <1>2, <1>5, <1>13, <2>2
  <2> QED
    BY <2>1, <2>2
<1>14. ASSUME NEW q \in DOMAIN r, r[q].type = "array"
       PROVE  \E n \in Nat : HasElements(r, q, n)
  <2>1. q \in DOMAIN t /\ t[q].type = "array"
    BY <1>2, <1>3, <1>7, <1>14
  <2>2. CASE q = p
    <3>1. ~k.isName
      BY <2>1, <2>2
    <3> QED
      BY <1>9, <2>2, <3>1
  <2>3. CASE q # p
    BY <1>1, <1>8, <2>1, <2>3
  <2> QED
    BY <2>2, <2>3
<1> QED
  BY <1>8, <1>9, <1>10, <1>11, <1>12, <1>13, <1>14 DEF WellFormed, r, c

\* The lexemes of a text.
PlainLexeme == {x \in LexemeType : x.type = "string" => x.str \in Seq(Characters)}
PlainNext == FirstElement \/ \E x \in PlainLexeme : Read(x)

LEMMA PlainStep ==
  /\ [ReaderNext]_readerVars => [PlainNext]_readerVars
  /\ [PlainNext]_readerVars => [AnyNext]_readerVars
<1>1. \A x \in Texts : x \in PlainLexeme
  BY ReaderAssumption, CopyAssumption DEF PlainLexeme
<1>2. \A x \in PlainLexeme : x \in LexemeType
  BY DEF PlainLexeme
<1>3. ReaderNext => PlainNext
  BY <1>1 DEF ReaderNext, PlainNext
<1>4. PlainNext => AnyNext
  BY <1>2 DEF AnyNext, PlainNext
<1> QED
  BY <1>3, <1>4

LEMMA PlainString ==
  ASSUME NEW s \in Seq(Characters), \A i \in DOMAIN s : s[i] # "bad"
  PROVE  DecodeString(s) \in PlainName /\ DecodeString(s) \in Seq(Plain)
<1> DEFINE S == Characters \ {"bad"}
<1>1. s \in Seq(S)
  <2>1. \A i \in 1..Len(s) : s[i] \in S
    BY ElementOfSeq
  <2>2. s \in [1..Len(s) -> S] /\ Len(s) \in Nat
    BY <2>1, LenProperties
  <2> HIDE DEF S
  <2> QED
    BY <2>2, SeqDef
<1>2. DecodeString(s) \in Seq(S \ {"u"})
  BY <1>1, DecodeType
<1>3. S \ {"u"} \subseteq Letters \ {"u", "bad"}
  BY DEF Characters, Letters
<1>4. S \ {"u"} \subseteq Plain
  BY ValueAssumption DEF Plain, Characters
<1> HIDE DEF S
<1> QED
  BY <1>2, <1>3, <1>4, SeqMonotonic DEF PlainName

\* What readValue makes of a scalar token that can be read.
LEMMA PlainScalar ==
  ASSUME NEW x \in PlainLexeme, x.type \in ScalarToken, ~BadScalar(x)
  PROVE  \E type, num, str :
           /\ Scalar(x) = Leaf(type, num, str)
           /\ \A n : n.type = type /\ n.num = num /\ n.str = str => Sound(n)
           /\ type \notin {"array", "object"}
<1> DEFINE Makes(type, num, str) ==
             /\ Scalar(x) = Leaf(type, num, str)
             /\ \A n : n.type = type /\ n.num = num /\ n.str = str => Sound(n)
             /\ type \notin {"array", "object"}
<1>1. CASE x.type = "number"
  <2> DEFINE minus == x.num.minus
             digits == x.num.digits
             value == IntegerOf(minus, digits)
  <2>1. minus \in BOOLEAN /\ digits \in Seq(0..9)
    BY DEF LexemeType, NumeralType, PlainLexeme
  <2>2. Scalar(x) = DecodeNumber(x.num)
    BY <1>1 DEF Scalar
  <2>3. ASSUME NEW type \in {"int", "uint", "real"}, NEW num,
               IF type = "real" THEN DoubleNumber(num) ELSE num \in (-MaxUInt)..MaxUInt,
               DecodeNumber(x.num) = Leaf(type, num, <<>>)
        PROVE  Makes(type, num, <<>>)
    BY <2>2, <2>3 DEF Sound, Types
  <2>4. CASE IsDouble(x.num)
    <3>1. DoubleNumber(DoubleOf(x.num))
      <4>1. x.num = Numeral(minus, digits, x.num.tail)
        BY DEF LexemeType, NumeralType, PlainLexeme, Numeral
      <4>2. PICK v : /\ Decimals(v, digits)
                     /\ DoubleOf(Numeral(minus, digits, x.num.tail))
                          = LET size == IF x.num.tail = "huge" THEN MaxDouble + 1
                                        ELSE Stored(4 * v[Len(digits)]
                                                      + Fraction(x.num.tail))
                            IN IF minus THEN -size ELSE size
        BY <2>1, DoubleIs
      <4>3. v[Len(digits)] \in Nat
        BY <2>1, <4>2, LenProperties DEF Decimals
      <4> HIDE DEF minus, digits
      <4> DEFINE whole == 4 * v[Len(digits)] + Fraction(x.num.tail)
                 size == IF x.num.tail = "huge" THEN MaxDouble + 1 ELSE Stored(whole)
      <4>4. whole \in Nat
        BY <4>3 DEF Fraction
      <4>5. MaxDouble \in Nat
        BY DoubleAssumption
      <4> HIDE DEF whole
      <4>6. size \in Nat /\ (size = MaxDouble + 1 \/ Stored(size) = size)
        BY <4>4, <4>5, StoredIs
      <4>7. DoubleOf(x.num) = IF minus THEN -size ELSE size
        BY <4>1, <4>2 DEF whole
      <4> HIDE DEF size
      <4>8. DoubleOf(x.num) \in Int /\ Abs(DoubleOf(x.num)) = size
        BY <4>6, <4>7 DEF Abs
      <4> QED
        BY <4>6, <4>8 DEF DoubleNumber
    <3>2. DecodeNumber(x.num) = Leaf("real", DoubleOf(x.num), <<>>)
      BY <2>4 DEF DecodeNumber
    <3>3. Makes("real", DoubleOf(x.num), <<>>)
      BY <2>3, <3>1, <3>2
    <3> QED
      BY <3>3
  <2>5. CASE ~IsDouble(x.num)
    <3>1. value \in 0..(IF minus THEN MaxInt + 1 ELSE MaxUInt)
      BY <2>1, <2>5, DecodesExactly DEF IsDouble
    <3>2. value \in (-MaxUInt)..MaxUInt /\ -value \in (-MaxUInt)..MaxUInt
      BY <3>1, ValueAssumption DEF MaxUInt
    <3>3. \E type \in {"int", "uint"}, num \in {value, -value} :
            DecodeNumber(x.num) = Leaf(type, num, <<>>)
      BY <2>5 DEF DecodeNumber
    <3> HIDE DEF value
    <3>4. PICK type \in {"int", "uint"}, num \in {value, -value} :
            DecodeNumber(x.num) = Leaf(type, num, <<>>)
      BY <3>3
    <3>5. Makes(type, num, <<>>)
      BY <2>3, <3>2, <3>4
    <3> QED
      BY <3>5
  <2> QED
    BY <2>4, <2>5
<1>2. CASE x.type = "string"
  <2>1. x.str \in Seq(Characters) /\ \A i \in DOMAIN x.str : x.str[i] # "bad"
    BY <1>2 DEF PlainLexeme, BadScalar
  <2>2. DecodeString(x.str) \in Seq(Plain)
    BY <2>1, PlainString
  <2>3. Makes("string", 0, DecodeString(x.str))
    BY <1>2, <2>2 DEF Scalar, Sound, Types
  <2> QED
    BY <2>3
<1>3. CASE x.type \in {"true", "false"}
  <2>1. Makes("bool", IF x.type = "true" THEN 1 ELSE 0, <<>>)
    BY <1>3 DEF Scalar, Sound, Types
  <2> QED
    BY <2>1
<1>4. CASE x.type = "null"
  <2>1. Makes("null", 0, <<>>)
    BY <1>4 DEF Scalar, NewValue, Sound, Types
  <2> QED
    BY <2>1
<1> QED
  BY <1>1, <1>2, <1>3, <1>4 DEF ScalarToken

\* f is a call of readObject or readArray that fills the container at p.
OpenCall(t, p, f) ==
  /\ p \in DOMAIN t
  /\ t[p].type = (IF f.object THEN "object" ELSE "array")
  /\ ~f.object => HasElements(t, p, f.index)
  /\ f.name \in PlainName

Grown ==
  /\ WellFormed(tree)
  /\ \A i \in 1..Len(frames) : OpenCall(tree, nodes[i], frames[i])

\* The calls that are left when readValue returns.
LEMMA ResumeKeeps ==
  ASSUME LiveInv, NEW fs, NEW ok, Resume(fs, ok),
         \/ pc \in Values /\ fs = frames
         \/ pc \in Inside /\ fs = Pop(frames)
  PROVE  /\ fs \in Seq(FrameType) /\ Len(fs) \in Nat
         /\ Len(fs) = Len(nodes) - 1
         /\ \A i \in 1..Len(fs) : /\ i \in 1..Len(frames)
                                  /\ fs[i] = frames[i]
                                  /\ nodes'[i] = nodes[i]
         /\ fs # <<>> => nodes' = Pop(nodes) /\ Len(nodes') = Len(fs)
<1>1. /\ nodes \in Seq(Path) /\ frames \in Seq(FrameType)
      /\ Len(nodes) \in Nat /\ Len(nodes) >= 1 /\ Len(frames) \in Nat
  BY TopFacts DEF LiveInv, Typed
<1>2. /\ fs \in Seq(FrameType) /\ Len(fs) \in Nat /\ Len(fs) = Len(nodes) - 1
      /\ \A i \in 1..Len(fs) : i \in 1..Len(frames) /\ fs[i] = frames[i]
  <2>1. CASE pc \in Values /\ fs = frames
    BY <1>1, <2>1 DEF LiveInv, Depth
  <2>2. CASE pc \in Inside /\ fs = Pop(frames)
    <3>1. Len(frames) >= 1 /\ Len(nodes) = Len(frames)
      BY <2>2 DEF LiveInv, Depth
    <3>2. /\ Pop(frames) \in Seq(FrameType) /\ Len(Pop(frames)) = Len(frames) - 1
          /\ \A i \in 1..(Len(frames) - 1) : Pop(frames)[i] = frames[i]
      BY <1>1, <3>1, PopPath
    <3> QED
      BY <1>1, <2>2, <3>1, <3>2
  <2> QED
    BY <2>1, <2>2
<1>3. /\ Len(Pop(nodes)) = Len(nodes) - 1
      /\ \A i \in 1..(Len(nodes) - 1) : Pop(nodes)[i] = nodes[i]
  BY <1>1, PopPath
<1>4. CASE fs = <<>>
  <2>1. \A i \in 1..Len(fs) : FALSE
    BY <1>4
  <2> QED
    BY <1>2, <1>4, <2>1, Zenon
<1>5. CASE fs # <<>>
  <2>1. nodes' = Pop(nodes)
    BY <1>5 DEF Resume
  <2> QED
    BY <1>2, <1>3, <2>1
<1> QED
  BY <1>4, <1>5

\* A step that changes no more of the tree than its comments.
LEMMA GrownStays ==
  ASSUME Grown, SameShape(tree', tree),
         \A i \in 1..Len(frames') : /\ i \in 1..Len(frames)
                                    /\ nodes'[i] = nodes[i]
                                    /\ frames'[i].object = frames[i].object
                                    /\ frames'[i].index = frames[i].index
                                    /\ frames'[i].name \in PlainName
  PROVE  Grown'
<1>1. WellFormed(tree')
  BY ShapeKeeps DEF Grown
<1>2. ASSUME NEW i \in 1..Len(frames') PROVE OpenCall(tree', nodes'[i], frames'[i])
  <2>1. OpenCall(tree, nodes[i], frames[i])
    BY DEF Grown
  <2>2. \A n : HasElements(tree, nodes[i], n) => HasElements(tree', nodes[i], n)
    BY DEF HasElements, SameShape
  <2> QED
    BY <2>1, <2>2 DEF OpenCall, SameShape
<1> QED
  BY <1>1, <1>2 DEF Grown

LEMMA NodeWithIs ==
  ASSUME NEW type, NEW num, NEW str, NEW n
  PROVE  /\ NodeWith(type, num, str, n).type = type
         /\ NodeWith(type, num, str, n).num = num
         /\ NodeWith(type, num, str, n).str = str
BY DEF NodeWith, Node

\* A value is made at the top of nodes_.
LEMMA GrownMakes ==
  ASSUME LiveInv, GoodNodes(tree), Grown, pc \in Values, NEW type, NEW num, NEW str,
         \A n : n.type = type /\ n.num = num /\ n.str = str => Sound(n),
         tree' = Assign(Commented, Top, Leaf(type, num, str))
  PROVE  /\ WellFormed(tree')
         /\ \A i \in 1..Len(frames) : OpenCall(tree', nodes[i], frames[i])
         /\ Top \in DOMAIN tree' /\ tree'[Top].type = type
         /\ HasElements(tree', Top, 0)
<1> DEFINE t == Commented
           node == NodeWith(type, num, str, t[Top])
           r == Replaced(t, Top, node)
<1>1. /\ Len(nodes) \in Nat /\ Len(frames) \in Nat /\ Len(nodes) = Len(frames) + 1
      /\ Top \in Path /\ Len(Top) = Len(nodes) - 1 /\ Top \in DOMAIN tree
      /\ \A i \in 1..Len(nodes) : Len(nodes[i]) = i - 1
  BY TopFacts DEF LiveInv, Depth, Chain
<1>2. SameShape(t, tree)
  BY CommentedShape
<1>3. WellFormed(t)
  BY <1>2, ShapeKeeps DEF Grown
<1> HIDE DEF t
<1>4. Top \in DOMAIN t
  BY <1>1, <1>2 DEF SameShape
<1>5. tree' = r
  BY <1>1, <1>4, AssignIs DEF t
<1>6. node.type = type /\ node.num = num /\ node.str = str
  BY NodeWithIs
<1>7. Sound(node)
  BY <1>6
<1> HIDE DEF node
<1>8. /\ WellFormed(r)
      /\ \A k \in PlainKey : Append(Top, k) \notin DOMAIN r
      /\ \A q \in PlainPath : \A n : ~Below(Top, q) /\ q # Top /\ HasElements(t, q, n)
           => HasElements(r, q, n)
  BY <1>3, <1>4, <1>7, ReplacedFormed
<1>9. /\ \A q : q \in DOMAIN r <=> q \in DOMAIN t /\ ~Below(Top, q)
      /\ \A q \in DOMAIN r : r[q] = IF q = Top THEN node ELSE t[q]
  BY DEF Replaced
<1> HIDE DEF r
<1>10. ASSUME NEW i \in 1..Len(frames) PROVE OpenCall(r, nodes[i], frames[i])
  <2>1. OpenCall(tree, nodes[i], frames[i])
    BY DEF Grown
  <2>2. Len(nodes[i]) < Len(Top) /\ Len(nodes[i]) \in Nat
    BY <1>1
  <2>3. nodes[i] # Top /\ ~Below(Top, nodes[i])
    BY <2>2 DEF Below
  <2>4. nodes[i] \in DOMAIN t /\ nodes[i] \in PlainPath
    BY <1>2, <1>3, <2>1 DEF OpenCall, SameShape, WellFormed
  <2>5. \A n : HasElements(tree, nodes[i], n) => HasElements(r, nodes[i], n)
    BY <1>2, <1>8, <2>3, <2>4 DEF HasElements, SameShape
  <2>6. nodes[i] \in DOMAIN r /\ r[nodes[i]].type = tree[nodes[i]].type
    BY <1>2, <1>9, <2>3, <2>4 DEF SameShape
  <2> QED
    BY <2>1, <2>5, <2>6 DEF OpenCall
<1>11. Top \in DOMAIN r /\ r[Top].type = type
  <2>1. ~Below(Top, Top)
    BY <1>1 DEF Below
  <2> QED
    BY <1>4, <1>6, <1>9, <2>1
<1>12. HasElements(r, Top, 0)
  BY <1>8, KeyFacts DEF HasElements
<1> QED
  BY <1>5, <1>8, <1>10, <1>11, <1>12

\* The index of the innermost call of readArray is counted up.
LEMMA IndexKeeps ==
  ASSUME LiveInv, pc \in Inside,
         frames' = [frames EXCEPT ![Len(frames)].index = @ + 1]
  PROVE  /\ Len(frames') = Len(frames)
         /\ \A i \in 1..Len(frames) : i # Len(frames) => frames'[i] = frames[i]
         /\ frames'[Len(frames)].object = frames[Len(frames)].object
         /\ frames'[Len(frames)].name = frames[Len(frames)].name
         /\ frames'[Len(frames)].index = frames[Len(frames)].index + 1
<1> DEFINE L == Len(frames)
           f == [frames[L] EXCEPT !.index = @ + 1]
<1>1. /\ frames \in Seq(FrameType) /\ L \in 1..Len(frames)
      /\ frames[L] \in FrameType
  BY TopFacts DEF LiveInv, Typed, Depth
<1>2. f \in FrameType
  <2>1. \A g \in FrameType : [g EXCEPT !.index = @ + 1] \in FrameType
    BY DEF FrameType
  <2> QED
    BY <1>1, <2>1
<1>3. /\ f.object = frames[L].object /\ f.name = frames[L].name
      /\ f.index = frames[L].index + 1
  BY <1>1 DEF FrameType
<1>4. frames' = [frames EXCEPT ![L] = f]
  OBVIOUS
<1> HIDE DEF f
<1>5. /\ Len(frames') = Len(frames)
      /\ \A i \in 1..Len(frames) : frames'[i] = IF i = L THEN f ELSE frames[i]
  BY <1>1, <1>2, <1>4, ExceptSeq
<1> QED
  BY <1>1, <1>3, <1>5

\* A member, or the next element, is looked up.
LEMMA GrownPushes ==
  ASSUME LiveInv, Grown, pc \in Inside,
         NEW k \in PlainKey, PushMember(k),
         k.isName <=> Back(frames).object,
         ~k.isName => k.index = Back(frames).index,
         frames' = IF k.isName THEN frames
                   ELSE [frames EXCEPT ![Len(frames)].index = @ + 1]
  PROVE  Grown'
<1> DEFINE L == Len(frames)
           c == Append(Top, k)
           r == Extended(tree, c)
<1>1. /\ nodes \in Seq(Path) /\ frames \in Seq(FrameType)
      /\ L \in Nat /\ L >= 1 /\ Len(nodes) = L
      /\ Top = nodes[L] /\ Top \in Path /\ Top \in DOMAIN tree
      /\ Back(frames) = frames[L] /\ frames[L] \in FrameType
      /\ \A i \in 1..L : Len(nodes[i]) = i - 1
  BY TopFacts DEF LiveInv, Typed, Depth, Chain, Back
<1>2. OpenCall(tree, Top, frames[L])
  BY <1>1 DEF Grown
<1>3. /\ tree[Top].type = (IF k.isName THEN "object" ELSE "array")
      /\ ~k.isName => HasElements(tree, Top, k.index)
  BY <1>1, <1>2 DEF OpenCall
<1>4. tree' = r /\ nodes' = Append(nodes, c)
  <2>1. tree[Top].type # "null"
    BY <1>3
  <2> QED
    BY <2>1 DEF PushMember, Resolve, Extended
<1>5. /\ WellFormed(r)
      /\ ~k.isName => HasElements(r, Top, k.index + 1)
      /\ \A q \in PlainPath : \A n : q # Top /\ HasElements(tree, q, n)
           => HasElements(r, q, n)
  BY <1>1, <1>3, ExtendedFormed DEF Grown
<1>6. /\ DOMAIN tree \subseteq DOMAIN r
      /\ \A q \in DOMAIN tree : r[q] = tree[q]
  BY DEF Extended
<1> HIDE DEF r, c, L
<1>7. \A i \in 1..L : nodes'[i] = nodes[i]
  BY <1>1, <1>4
<1>8. /\ Len(frames') = L
      /\ \A i \in 1..L : i # L => frames'[i] = frames[i]
      /\ frames'[L].object = frames[L].object /\ frames'[L].name = frames[L].name
      /\ k.isName => frames'[L].index = frames[L].index
      /\ ~k.isName => frames'[L].index = frames[L].index + 1
  <2>1. CASE k.isName
    BY <1>1, <2>1 DEF L
  <2>2. CASE ~k.isName
    BY <2>2, IndexKeeps DEF L
  <2> QED
    BY <2>1, <2>2
<1>9. ASSUME NEW i \in 1..L, i # L PROVE OpenCall(r, nodes'[i], frames'[i])
  <2>1. OpenCall(tree, nodes[i], frames[i])
    BY DEF Grown, L
  <2>2. nodes[i] # Top /\ nodes[i] \in PlainPath
    <3>1. Len(nodes[i]) # Len(Top)
      BY <1>1, <1>9
    <3> QED
      BY <2>1, <3>1 DEF OpenCall, Grown, WellFormed
  <2>3. \A n : HasElements(tree, nodes[i], n) => HasElements(r, nodes[i], n)
    BY <1>5, <2>2
  <2> QED
    BY <1>6, <1>7, <1>8, <1>9, <2>1, <2>3 DEF OpenCall
<1>10. OpenCall(r, nodes'[L], frames'[L])
  <2>1. L \in 1..L /\ nodes'[L] = Top
    BY <1>1, <1>7
  <2>2. ~k.isName => k.index = frames[L].index
    BY <1>1
  <2>3. k.isName <=> frames[L].object
    BY <1>1
  <2> QED
    BY <1>2, <1>3, <1>5, <1>6, <1>8, <2>1, <2>2, <2>3 DEF OpenCall
<1> QED
  BY <1>4, <1>5, <1>8, <1>9, <1>10 DEF Grown

\* What the innermost call reads next is what its kind of call reads.
CallKind ==
  /\ pc \in {"member", "colon", "comma", "dropped"} => Back(frames).object
  /\ pc \in {"first", "separator"} => ~Back(frames).object

LEMMA NameKeeps ==
  ASSUME LiveInv, pc \in Inside, NEW n,
         frames' = [frames EXCEPT ![Len(frames)].name = n]
  PROVE  /\ Len(frames') = Len(frames) /\ Len(frames) \in Nat /\ Len(frames) >= 1
         /\ \A i \in 1..Len(frames) :
              i # Len(frames) => frames'[i] = frames[i]
         /\ Back(frames).object \in BOOLEAN
         /\ Back(frames').object = Back(frames).object
         /\ Back(frames').index = Back(frames).index
         /\ Back(frames').name = n
<1> DEFINE L == Len(frames)
           f == [frames[L] EXCEPT !.name = n]
<1>1. /\ frames \in Seq(FrameType) /\ L \in Nat /\ L >= 1
      /\ Back(frames) = frames[L] /\ frames[L] \in FrameType
  BY TopFacts DEF LiveInv, Typed, Depth, Back
<1>2. /\ f.object = frames[L].object /\ f.index = frames[L].index /\ f.name = n
      /\ frames[L].object \in BOOLEAN
  <2>1. \A g \in FrameType : /\ [g EXCEPT !.name = n].object = g.object
                             /\ [g EXCEPT !.name = n].index = g.index
                             /\ [g EXCEPT !.name = n].name = n
                             /\ g.object \in BOOLEAN
    BY DEF FrameType
  <2> QED
    BY <1>1, <2>1
<1>3. frames' = [frames EXCEPT ![L] = f]
  OBVIOUS
<1> HIDE DEF f
<1>4. DOMAIN frames = 1..L
  BY <1>1
<1>5. /\ DOMAIN frames' = 1..L
      /\ \A i \in 1..L : frames'[i] = IF i = L THEN f ELSE frames[i]
  BY <1>3, <1>4
<1>6. Len(frames') = L
  <2>1. frames' \in Seq({frames[i] : i \in 1..L} \cup {f})
    <3> DEFINE S == {frames[i] : i \in 1..L} \cup {f}
    <3>1. frames' \in [1..L -> S]
      <4>1. \A i \in 1..L : frames'[i] \in S
        BY <1>5
      <4>2. frames' = [i \in 1..L |-> frames'[i]]
        BY <1>3, <1>4, <1>5
      <4> HIDE DEF S
      <4> QED
        BY <4>1, <4>2
    <3> HIDE DEF S
    <3>2. \A l \in Nat : [1..l -> S] \subseteq Seq(S)
      BY SeqDef
    <3>3. L \in Nat
      BY <1>1
    <3>4. frames' \in Seq(S)
      BY <3>1, <3>2, <3>3, Zenon
    <3> QED
      BY <3>4 DEF S
  <2>2. DOMAIN frames' = 1..Len(frames') /\ Len(frames') \in Nat
    BY <2>1, LenProperties
  <2> QED
    BY <1>1, <1>5, <2>2
<1>7. Back(frames') = f
  <2>1. L \in 1..L
    BY <1>1
  <2> QED
    BY <1>5, <1>6, <2>1 DEF Back
<1> QED
  BY <1>1, <1>2, <1>5, <1>6, <1>7

LEMMA KindStep ==
  ASSUME LiveInv, CallKind, [AnyNext]_readerVars
  PROVE  CallKind'
<1>1. ASSUME NEW fs, NEW ok, Resume(fs, ok), frames' = fs PROVE CallKind'
  BY <1>1 DEF Resume, CallKind
<1>2. ASSUME NEW fs, NEW ok, Return(fs, ok) PROVE CallKind'
  BY <1>1, <1>2 DEF Return
<1>3. ASSUME pc' \notin {"member", "colon", "comma", "dropped", "first", "separator"}
      PROVE  CallKind'
  BY <1>3 DEF CallKind
<1>4. ASSUME UNCHANGED <<pc, frames>> PROVE CallKind'
  BY <1>4 DEF CallKind
<1>5. CASE FirstElement
  BY <1>3, <1>5 DEF FirstElement, NextElement
<1>6. ASSUME Fail PROVE CallKind'
  BY <1>3, <1>6 DEF Fail
<1>7. ASSUME Finish PROVE CallKind'
  BY <1>2, <1>7 DEF Finish
<1>8. ASSUME NEW x \in LexemeType, ReadComment(x) PROVE CallKind'
  <2>1. CASE pc = "comma"
    BY <1>8, <2>1 DEF ReadComment, CallKind
  <2>2. CASE pc # "comma"
    <3>1. UNCHANGED <<pc, frames>> \/ pc' \in {"recover", "value"}
      BY <1>8, <2>2 DEF ReadComment
    <3> QED
      BY <1>3, <1>4, <3>1
  <2> QED
    BY <2>1, <2>2
<1>9. ASSUME NEW x \in LexemeType, Begin(x) PROVE CallKind'
  <2> DEFINE f == [object |-> x.type = "{", name |-> <<>>, index |-> 0]
  <2>1. frames' = Append(frames, f) /\ pc' = IF x.type = "{" THEN "member" ELSE "first"
    BY <1>9 DEF Begin
  <2>2. f \in FrameType /\ f.object = (x.type = "{")
    BY DEF FrameType, Names
  <2> HIDE DEF f
  <2>3. Back(frames') = f
    <3>1. frames \in Seq(FrameType)
      BY DEF LiveInv, Typed
    <3>2. f \in FrameType
      BY <2>2
    <3>3. /\ Len(Append(frames, f)) = Len(frames) + 1
          /\ Append(frames, f)[Len(frames) + 1] = f
      BY <3>1, <3>2, AppendProperties
    <3> QED
      BY <2>1, <3>3, Zenon DEF Back
  <2> QED
    BY <2>1, <2>2, <2>3 DEF CallKind
<1>10. ASSUME NEW x \in LexemeType, MemberName(x) PROVE CallKind'
  <2>1. CASE Finish \/ Fail
    BY <1>6, <1>7, <2>1
  <2>2. CASE ~(Finish \/ Fail)
    <3>1. /\ pc = "member" /\ pc' = "colon"
          /\ frames' = [frames EXCEPT ![Len(frames)].name = DecodeString(x.str)]
      BY <1>10, <2>2 DEF MemberName
    <3>2. Back(frames').object = Back(frames).object
      BY <3>1, NameKeeps DEF Inside
    <3> QED
      BY <3>1, <3>2 DEF CallKind
  <2> QED
    BY <2>1, <2>2
<1>11. ASSUME NEW x \in LexemeType, Colon(x) PROVE CallKind'
  BY <1>3, <1>6, <1>11 DEF Colon
<1>12. ASSUME NEW x \in LexemeType, Comma(x) PROVE CallKind'
  <2>1. CASE Finish \/ Fail
    BY <1>6, <1>7, <2>1
  <2>2. CASE ~(Finish \/ Fail)
    BY <1>12, <2>2 DEF Comma, CallKind
  <2> QED
    BY <2>1, <2>2
<1>13. ASSUME NEW x \in LexemeType, Separator(x) PROVE CallKind'
  BY <1>3, <1>6, <1>7, <1>13 DEF Separator, NextElement
<1>14. ASSUME NEW x \in LexemeType, Recover(x) PROVE CallKind'
  BY <1>2, <1>4, <1>14 DEF Recover
<1>15. ASSUME NEW x \in LexemeType, ReadScalar(x) \/ DecodeFails(x) PROVE CallKind'
  BY <1>2, <1>15 DEF ReadScalar, DecodeFails
<1>16. ASSUME NEW x \in LexemeType, SyntaxError(x) PROVE CallKind'
  BY <1>1, <1>16 DEF SyntaxError
<1>17. ASSUME NEW x \in LexemeType, End(x) PROVE CallKind'
  BY <1>3, <1>17 DEF End
<1>18. ASSUME NEW x \in LexemeType, SkipSpaces(x) \/ EmptyArray(x) PROVE CallKind'
  BY <1>4, <1>7, <1>18 DEF SkipSpaces, EmptyArray
<1>19. CASE UNCHANGED readerVars
  BY <1>4, <1>19 DEF readerVars
<1> QED
  BY <1>5, <1>8, <1>9, <1>10, <1>11, <1>12, <1>13, <1>14, <1>15, <1>16, <1>17, <1>18,
     <1>19 DEF AnyNext, Read

LEMMA GrownStep ==
  ASSUME LiveInv, CallKind, GoodNodes(tree), Grown, [PlainNext]_readerVars
  PROVE  Grown'
<1>1. \A i \in 1..Len(frames) : frames[i].name \in PlainName
  BY DEF Grown, OpenCall
<1>2. SameShape(tree, tree)
  BY DEF SameShape
<1>3. ASSUME SameShape(tree', tree), UNCHANGED <<nodes, frames>> PROVE Grown'
  BY <1>1, <1>3, GrownStays
<1>4. ASSUME NEW fs, NEW ok, Resume(fs, ok), frames' = fs, SameShape(tree', tree),
             (pc \in Values /\ fs = frames) \/ (pc \in Inside /\ fs = Pop(frames))
      PROVE  Grown'
  <2>1. \A i \in 1..Len(frames') :
          /\ i \in 1..Len(frames) /\ frames'[i] = frames[i] /\ nodes'[i] = nodes[i]
    BY <1>4, ResumeKeeps
  <2> QED
    BY <1>1, <1>4, <2>1, GrownStays
<1>5. ASSUME pc \in Inside, NEW ok, Return(Pop(frames), ok), tree' = tree PROVE Grown'
  BY <1>2, <1>4, <1>5 DEF Return
<1>6. ASSUME pc \in Inside, Finish PROVE Grown'
  BY <1>5, <1>6 DEF Finish
<1>7. ASSUME Fail PROVE Grown'
  BY <1>2, <1>3, <1>7 DEF Fail
<1>8. ASSUME NEW x \in PlainLexeme, SkipSpaces(x) PROVE Grown'
  BY <1>2, <1>3, <1>8 DEF SkipSpaces
<1>9. ASSUME NEW x \in PlainLexeme, ReadComment(x) PROVE Grown'
  <2>1. AddComment(x) /\ UNCHANGED <<nodes, frames>>
    BY <1>9 DEF ReadComment
  <2>2. tree' = tree \/ tree' = SetComment(tree, lastValue, "same", x.str)
    BY <2>1 DEF AddComment
  <2>3. SameShape(tree', tree)
    BY <1>2, <2>2, CommentShape
  <2> QED
    BY <1>3, <2>1, <2>3
<1>10. ASSUME NEW x \in PlainLexeme, ReadScalar(x) PROVE Grown'
  <2>1. /\ pc \in Values /\ x.type \in ScalarToken /\ ~BadScalar(x)
        /\ tree' = Assign(Commented, Top, Scalar(x)) /\ Resume(frames, TRUE)
        /\ frames' = frames
    BY <1>10 DEF ReadScalar, AtValue, Return, Values
  <2>2. PICK type, num, str :
          /\ Scalar(x) = Leaf(type, num, str)
          /\ \A n : n.type = type /\ n.num = num /\ n.str = str => Sound(n)
    BY <2>1, PlainScalar
  <2>3. /\ WellFormed(tree')
        /\ \A i \in 1..Len(frames) : OpenCall(tree', nodes[i], frames[i])
    BY <2>1, <2>2, GrownMakes
  <2>4. \A i \in 1..Len(frames) : nodes'[i] = nodes[i]
    BY <2>1, ResumeKeeps
  <2> QED
    BY <2>1, <2>3, <2>4 DEF Grown
<1>11. ASSUME NEW x \in PlainLexeme, DecodeFails(x) \/ SyntaxError(x) PROVE Grown'
  <2>1. /\ pc \in Values /\ tree' = Commented /\ Resume(frames, FALSE)
        /\ frames' = frames
    BY <1>11 DEF DecodeFails, SyntaxError, AtValue, Return, Values
  <2>2. SameShape(tree', tree)
    BY <2>1, CommentedShape
  <2> QED
    BY <1>4, <2>1, <2>2
<1>12. ASSUME NEW x \in PlainLexeme, Begin(x) PROVE Grown'
  <2> DEFINE type == IF x.type = "{" THEN "object" ELSE "array"
             f == [object |-> x.type = "{", name |-> <<>>, index |-> 0]
  <2>1. /\ pc \in Values /\ tree' = Assign(Commented, Top, Leaf(type, 0, <<>>))
        /\ frames' = Append(frames, f) /\ nodes' = nodes
    BY <1>12 DEF Begin, AtValue, Values, NewValue
  <2>2. \A n : n.type = type /\ n.num = 0 /\ n.str = <<>> => Sound(n)
    BY DEF Sound, Types
  <2>3. type = (IF f.object THEN "object" ELSE "array") /\ f.index = 0 /\ f.name = <<>>
    OBVIOUS
  <2>4. f \in FrameType
    BY DEF FrameType, Names
  <2> HIDE DEF type, f
  <2>5. /\ WellFormed(tree')
        /\ \A i \in 1..Len(frames) : OpenCall(tree', nodes[i], frames[i])
        /\ Top \in DOMAIN tree' /\ tree'[Top].type = type
        /\ HasElements(tree', Top, 0)
    BY <2>1, <2>2, GrownMakes
  <2>6. frames \in Seq(FrameType)
    BY DEF LiveInv, Typed
  <2>7. /\ Len(frames) \in Nat /\ Len(frames') = Len(frames) + 1
        /\ frames'[Len(frames) + 1] = f
        /\ \A i \in 1..Len(frames) : frames'[i] = frames[i]
    BY <2>1, <2>4, <2>6, AppendProperties, LenProperties
  <2>8. nodes[Len(frames) + 1] = Top
    BY <2>1, TopFacts DEF LiveInv, Depth
  <2>9. <<>> \in PlainName
    BY EmptySeq DEF PlainName
  <2>10. OpenCall(tree', Top, f)
    BY <2>3, <2>5, <2>9 DEF OpenCall
  <2>11. \A i \in 1..Len(frames') : i \in 1..Len(frames) \/ i = Len(frames) + 1
    BY <2>7
  <2> QED
    BY <2>1, <2>5, <2>7, <2>8, <2>10, <2>11 DEF Grown
<1>13. ASSUME NEW x \in PlainLexeme, MemberName(x) PROVE Grown'
  <2>1. pc \in Inside
    BY <1>13 DEF MemberName, Inside
  <2>2. CASE Finish \/ Fail
    BY <1>6, <1>7, <2>1, <2>2
  <2>3. CASE ~(Finish \/ Fail)
    <3>1. /\ frames' = [frames EXCEPT ![Len(frames)].name = DecodeString(x.str)]
          /\ tree' = tree /\ nodes' = nodes
          /\ x.type = "string" /\ ~BadScalar(x)
      BY <1>13, <2>3 DEF MemberName
    <3>2. DecodeString(x.str) \in PlainName
      <4>1. x.str \in Seq(Characters) /\ \A i \in DOMAIN x.str : x.str[i] # "bad"
        BY <3>1 DEF PlainLexeme, BadScalar
      <4> QED
        BY <4>1, PlainString
    <3>3. /\ Len(frames') = Len(frames) /\ Len(frames) \in Nat
          /\ \A i \in 1..Len(frames) : i # Len(frames) => frames'[i] = frames[i]
          /\ Back(frames').object = Back(frames).object
          /\ Back(frames').index = Back(frames).index
          /\ Back(frames').name = DecodeString(x.str)
      BY <2>1, <3>1, NameKeeps
    <3>4. ASSUME NEW i \in 1..Len(frames')
          PROVE  /\ i \in 1..Len(frames)
                 /\ nodes'[i] = nodes[i]
                 /\ frames'[i].object = frames[i].object
                 /\ frames'[i].index = frames[i].index
                 /\ frames'[i].name \in PlainName
      <4>1. CASE i = Len(frames)
        BY <3>1, <3>2, <3>3, <4>1 DEF Back
      <4>2. CASE i # Len(frames)
        BY <1>1, <3>1, <3>3, <4>2
      <4> QED
        BY <4>1, <4>2
    <3> QED
      BY <1>2, <3>1, <3>4, GrownStays
  <2> QED
    BY <2>2, <2>3
<1>14. ASSUME NEW x \in PlainLexeme, Colon(x) PROVE Grown'
  <2>1. pc \in Inside /\ Back(frames).object /\ Len(frames) >= 1 /\ Len(frames) \in Nat
    BY <1>14, TopFacts DEF Colon, Inside, CallKind, LiveInv, Depth
  <2>2. CASE Fail
    BY <1>7, <2>2
  <2>3. CASE ~Fail
    <3> DEFINE k == Name(Back(frames).name)
    <3>1. PushMember(k) /\ frames' = frames
      BY <1>14, <2>3 DEF Colon
    <3>2. Back(frames).name \in PlainName
      BY <1>1, <2>1 DEF Back
    <3>3. k \in PlainKey /\ k.isName
      BY <3>2, KeyFacts
    <3> HIDE DEF k
    <3> QED
      BY <2>1, <3>1, <3>3, GrownPushes
  <2> QED
    BY <2>2, <2>3
<1>15. ASSUME NEW x \in PlainLexeme, Comma(x) PROVE Grown'
  <2>1. pc \in Inside
    BY <1>15 DEF Comma, Inside
  <2>2. CASE Finish \/ Fail
    BY <1>6, <1>7, <2>1, <2>2
  <2>3. CASE ~(Finish \/ Fail)
    BY <1>2, <1>3, <1>15, <2>3 DEF Comma
  <2> QED
    BY <2>2, <2>3
<1>16. ASSUME pc \in {"first", "separator"}, NEW at, NextElement(at) PROVE Grown'
  <2> DEFINE k == Index(Back(frames).index)
  <2>1. pc \in Inside /\ ~Back(frames).object
    BY <1>16 DEF Inside, CallKind
  <2>2. Back(frames).index \in Nat
    BY <2>1, TopFacts DEF FrameType
  <2>3. /\ PushMember(k)
        /\ frames' = [frames EXCEPT ![Len(frames)].index = @ + 1]
    BY <1>16 DEF NextElement
  <2>4. k \in PlainKey /\ ~k.isName /\ k.index = Back(frames).index
    BY <2>2, KeyFacts
  <2> HIDE DEF k
  <2> QED
    BY <2>1, <2>3, <2>4, GrownPushes
<1>17. CASE FirstElement
  BY <1>16, <1>17 DEF FirstElement
<1>18. ASSUME NEW x \in PlainLexeme, EmptyArray(x) PROVE Grown'
  BY <1>6, <1>18 DEF EmptyArray, Inside
<1>19. ASSUME NEW x \in PlainLexeme, Separator(x) PROVE Grown'
  <2>1. pc \in Inside /\ pc \in {"first", "separator"}
    BY <1>19 DEF Separator, Inside
  <2>2. NextElement("value") \/ Finish \/ Fail
    BY <1>19 DEF Separator
  <2> QED
    BY <1>6, <1>7, <1>16, <2>1, <2>2
<1>20. ASSUME NEW x \in PlainLexeme, Recover(x) PROVE Grown'
  <2>1. pc \in Inside /\ tree' = tree
    BY <1>20 DEF Recover, Inside
  <2>2. Return(Pop(frames), FALSE) \/ UNCHANGED <<frames, nodes>>
    BY <1>20 DEF Recover
  <2> QED
    BY <1>2, <1>3, <1>5, <2>1, <2>2
<1>21. ASSUME NEW x \in PlainLexeme, End(x) PROVE Grown'
  <2>1. /\ UNCHANGED <<nodes, frames>>
        /\ tree' = tree \/ tree' = SetComment(tree, {<<>>}, "after", before)
    BY <1>21 DEF End
  <2>2. SameShape(tree', tree)
    BY <1>2, <2>1, CommentShape
  <2> QED
    BY <1>3, <2>1, <2>2
<1>22. CASE UNCHANGED readerVars
  BY <1>2, <1>3, <1>22 DEF readerVars
<1> QED
  BY <1>8, <1>9, <1>10, <1>11, <1>12, <1>13, <1>14, <1>15, <1>17, <1>18, <1>19, <1>20,
     <1>21, <1>22 DEF PlainNext, Read

-----------------------------------------------------------------------------
(***************************************************************************)
(* The reader on a text that FastWriter wrote.                             *)
(***************************************************************************)
LEMMA HeadTailCons ==
  ASSUME NEW S, NEW x \in S, NEW s \in Seq(S)
  PROVE  /\ <<x>> \o s \in Seq(S)
         /\ <<x>> \o s # <<>>
         /\ Head(<<x>> \o s) = x
         /\ Tail(<<x>> \o s) = s
<1> DEFINE c == <<x>> \o s
<1>1. <<x>> \in Seq(S) /\ Len(<<x>>) = 1 /\ <<x>>[1] = x /\ Len(s) \in Nat
  BY LenProperties
<1>2. /\ c \in Seq(S) /\ Len(c) = 1 + Len(s)
      /\ \A i \in 1..(1 + Len(s)) : c[i] = IF i <= 1 THEN <<x>>[i] ELSE s[i - 1]
  BY <1>1, ConcatProperties, Zenon
<1> HIDE DEF c
<1>3. c # <<>>
  BY <1>1, <1>2
<1>4. Head(c) = c[1]
  BY <1>2, <1>3
<1>5. c[1] = x
  BY <1>1, <1>2
<1>6. /\ Tail(c) \in Seq(S) /\ Len(Tail(c)) = Len(c) - 1
      /\ \A i \in 1..Len(Tail(c)) : Tail(c)[i] = c[i + 1]
  BY <1>2, <1>3, HeadTailProperties, Zenon
<1>7. Len(Tail(c)) = Len(s)
  BY <1>1, <1>2, <1>6
<1>8. \A i \in 1..Len(s) : Tail(c)[i] = s[i]
  BY <1>1, <1>2, <1>6, <1>7
<1>9. Tail(c) = s
  BY <1>6, <1>7, <1>8, SeqEqual
<1> QED
  BY <1>2, <1>3, <1>4, <1>5, <1>9 DEF c

LEMMA JoinType ==
  ASSUME NEW a \in LexemeText, NEW b \in LexemeText
  PROVE  a \o b \in LexemeText
BY ConcatProperties DEF LexemeText

LEMMA Joined ==
  ASSUME NEW a \in LexemeText, NEW b \in LexemeText, NEW c \in LexemeText
  PROVE  (a \o b) \o c = a \o (b \o c)
BY ConcatAssociative DEF LexemeText

\* One text after another.
Cat(x, y) == x \o y

LEMMA JoinedFive ==
  ASSUME NEW a \in LexemeText, NEW b \in LexemeText, NEW c \in LexemeText,
         NEW d \in LexemeText, NEW e \in LexemeText
  PROVE  (((a \o b) \o c) \o d) \o e = a \o (b \o (c \o (d \o e)))
<1>1. \A x, y \in LexemeText : Cat(x, y) \in LexemeText
  BY JoinType DEF Cat
<1>2. \A x, y, z \in LexemeText : Cat(Cat(x, y), z) = Cat(x, Cat(y, z))
  BY Joined DEF Cat
<1>3. /\ Cat(a, b) \in LexemeText /\ Cat(Cat(a, b), c) \in LexemeText
      /\ Cat(d, e) \in LexemeText
  BY <1>1
<1>4. Cat(Cat(Cat(Cat(a, b), c), d), e) = Cat(Cat(Cat(a, b), c), Cat(d, e))
  BY <1>2, <1>3
<1>5. Cat(Cat(Cat(a, b), c), Cat(d, e)) = Cat(Cat(a, b), Cat(c, Cat(d, e)))
  BY <1>2, <1>3
<1>6. Cat(c, Cat(d, e)) \in LexemeText
  BY <1>1, <1>3
<1>7. Cat(Cat(a, b), Cat(c, Cat(d, e))) = Cat(a, Cat(b, Cat(c, Cat(d, e))))
  BY <1>2, <1>6
<1>8. Cat(Cat(Cat(Cat(a, b), c), d), e) = Cat(a, Cat(b, Cat(c, Cat(d, e))))
  BY <1>4, <1>5, <1>7
<1> QED
  BY <1>8, Zenon DEF Cat

\* The text of the container at p after its i-th child.
After(t, p, i) == FastRest(t, p, FastValue(t))[i + 1]

LEMMA ChildTexts ==
  ASSUME NEW t, WellFormed(t), NEW p \in DOMAIN t, IsContainer(t[p])
  PROVE  /\ HasTexts(t, p, FastValue(t))
         /\ Len(Children(t, p)) \in Nat
         /\ \A i \in 0..Len(Children(t, p)) : After(t, p, i) \in LexemeText
<1> DEFINE n == Len(Children(t, p))
<1>1. HasTexts(t, p, FastValue(t))
  BY ChildDeeper, FastValueIs DEF HasTexts
<1>2. n \in Nat
  BY ChildrenAre, LenProperties DEF IsChildren
<1>3. \A i \in 1..(n + 1) : FastRest(t, p, FastValue(t))[i] \in LexemeText
  BY <1>1, RestIs
<1> HIDE DEF n
<1>4. \A i \in 0..n : i + 1 \in 1..(n + 1)
  BY <1>2
<1> QED
  BY <1>1, <1>2, <1>3, <1>4 DEF After, n

\* What comes before the text of a child: a comma but for the first, and a name.
\* The text of the container at p goes on with its child c, and b follows it all.
GoesOn(t, p, i, c, b) ==
  LET z == FastValue(t)[c] \o (After(t, p, i + 1) \o b)
  IN /\ c \in DOMAIN t
     /\ After(t, p, i + 1) \o b \in LexemeText
     /\ z \in LexemeText
     /\ FastLabel(c) \o z \in LexemeText
     /\ After(t, p, i) \o b = FastComma(i + 1) \o (FastLabel(c) \o z)

LEMMA NextText ==
  ASSUME NEW t, WellFormed(t), NEW p \in DOMAIN t, IsContainer(t[p]),
         NEW i \in Nat, i < Len(Children(t, p)), NEW b \in LexemeText
  PROVE  GoesOn(t, p, i, Children(t, p)[i + 1], b)
<1> DEFINE c == Children(t, p)[i + 1]
           a == After(t, p, i + 1)
           w == FastValue(t)[c]
           comma == FastComma(i + 1)
           label == FastLabel(c)
           n == Len(Children(t, p))
<1>1. /\ HasTexts(t, p, FastValue(t))
      /\ n \in Nat
      /\ \A j \in 0..n : After(t, p, j) \in LexemeText
  BY ChildTexts
<1>2. i + 1 \in 1..n /\ i + 1 \in 0..n /\ i + 1 \in 1..(n + 1) /\ ~(i + 1 > n)
  BY <1>1
<1>3. a \in LexemeText /\ c \in DOMAIN t /\ w \in LexemeText
  BY <1>1, <1>2, ChildDeeper, FastValueIs
<1>4. comma \in LexemeText
  BY PunctuationTypes
<1>5. label \in LexemeText
  <2>1. p \in PlainPath
    BY DEF WellFormed
  <2>2. PICK k \in PlainKey : c = Append(p, k)
    BY <1>2, ChildrenAre DEF IsChildren
  <2> HIDE DEF c
  <2> QED
    BY <2>1, <2>2, LabelType
<1>6. After(t, p, i) = Piece(t, p, FastValue(t), i + 1) \o After(t, p, i + 1)
  <2>1. FastRest(t, p, FastValue(t))[i + 1]
          = RestRule(t, p, FastValue(t), FastRest(t, p, FastValue(t)), i + 1)
    BY <1>1, <1>2, RestIs
  <2> QED
    BY <1>2, <2>1 DEF RestRule, After
<1>7. Piece(t, p, FastValue(t), i + 1) = (comma \o label) \o w
  BY DEF Piece
<1> HIDE DEF a, w, comma, label, c
<1>8. a \o b \in LexemeText /\ w \o (a \o b) \in LexemeText
      /\ label \o (w \o (a \o b)) \in LexemeText
  <2>1. a \o b \in LexemeText
    BY <1>3, JoinType
  <2>2. w \o (a \o b) \in LexemeText
    BY <1>3, <2>1, JoinType
  <2> QED
    BY <1>5, <2>1, <2>2, JoinType
<1>9. (((comma \o label) \o w) \o a) \o b = comma \o (label \o (w \o (a \o b)))
  <2>1. \A v, x, y, z, q \in LexemeText :
          (((v \o x) \o y) \o z) \o q = v \o (x \o (y \o (z \o q)))
    BY JoinedFive
  <2>2. \A y, z, q \in LexemeText :
          (((comma \o label) \o y) \o z) \o q = comma \o (label \o (y \o (z \o q)))
    BY <1>4, <1>5, <2>1
  <2>3. \A q \in LexemeText :
          (((comma \o label) \o w) \o a) \o q = comma \o (label \o (w \o (a \o q)))
    BY <1>3, <2>2
  <2> QED
    BY <2>3
<1> QED
  BY <1>3, <1>6, <1>7, <1>8, <1>9 DEF GoesOn, a, w, comma, label, c

\* What comes after the last child.
LEMMA LastText ==
  ASSUME NEW t, WellFormed(t), NEW p \in DOMAIN t, IsContainer(t[p])
  PROVE  After(t, p, Len(Children(t, p))) = Closing(t[p])
<1> DEFINE n == Len(Children(t, p))
<1>1. HasTexts(t, p, FastValue(t)) /\ n \in Nat
  BY ChildTexts
<1>2. n + 1 \in 1..(n + 1) /\ n + 1 > n
  BY <1>1
<1>3. FastRest(t, p, FastValue(t))[n + 1]
        = RestRule(t, p, FastValue(t), FastRest(t, p, FastValue(t)), n + 1)
  BY <1>1, <1>2, RestIs
<1> QED
  BY <1>2, <1>3 DEF RestRule, After

\* The text of a container goes on with its first child.
LEMMA FirstText ==
  ASSUME NEW t, WellFormed(t), NEW p \in DOMAIN t, IsContainer(t[p]),
         NEW b \in LexemeText
  PROVE  /\ After(t, p, 0) \o b \in LexemeText
         /\ FastValue(t)[p] \o b = Opening(t[p]) \o (After(t, p, 0) \o b)
<1>1. /\ Len(Children(t, p)) \in Nat
      /\ \A i \in 0..Len(Children(t, p)) : After(t, p, i) \in LexemeText
  BY ChildTexts
<1>2. After(t, p, 0) \in LexemeText
  BY <1>1
<1>3. Opening(t[p]) \in LexemeText
  BY PunctuationTypes
<1>4. FastValue(t)[p] = Opening(t[p]) \o After(t, p, 0)
  <2>1. FastValue(t)[p] = TextRule(t, FastValue(t), p)
    BY FastValueIs
  <2>2. 0 + 1 = 1
    OBVIOUS
  <2> QED
    BY <2>1, <2>2 DEF TextRule, After
<1> DEFINE a == After(t, p, 0)
           o == Opening(t[p])
<1> HIDE DEF a, o
<1>5. (o \o a) \o b = o \o (a \o b) /\ a \o b \in LexemeText
  BY <1>2, <1>3, ConcatAssociative, ConcatProperties DEF LexemeText, a, o
<1> QED
  BY <1>4, <1>5 DEF a, o

LEMMA NameReads ==
  ASSUME NEW s \in PlainName
  PROVE  /\ StringLexeme(s) \in LexemeType /\ StringLexeme(s).type = "string"
         /\ StringLexeme(s).str = s
         /\ ~BadScalar(StringLexeme(s))
         /\ DecodeString(s) = s
<1>1. Letters \ {"u", "bad"} \subseteq STRING
  <2>1. Alphabet \in Seq(STRING)
    BY ValueAssumption
  <2>2. \A i \in DOMAIN Alphabet : Alphabet[i] \in STRING
    BY <2>1
  <2> QED
    BY <2>2 DEF Letters
<1>2. s \in Seq(STRING) /\ \A i \in 1..Len(s) : s[i] \in Letters \ {"u", "bad"}
  <2>1. s \in Seq(Letters \ {"u", "bad"})
    BY DEF PlainName
  <2>2. \A i \in 1..Len(s) : s[i] \in Letters \ {"u", "bad"}
    BY <2>1, ElementOfSeq
  <2>3. s \in Seq(STRING)
    BY <1>1, <2>1, <2>2, SeqDef
  <2> QED
    BY <2>2, <2>3
<1>3. DecodeString(s) = s
  BY <1>2, DecodePlain
<1>4. StringLexeme(s) \in LexemeType
  BY <1>2, LexemeTypes
<1>5. ~BadScalar(StringLexeme(s))
  <2>1. DOMAIN s = 1..Len(s)
    BY <1>2
  <2> QED
    BY <1>2, <2>1 DEF BadScalar, StringLexeme
<1> QED
  BY <1>3, <1>4, <1>5 DEF StringLexeme

\* What is written before the text z of a member c, and how its path ends.
Labelled(p, c, z) ==
  \E s \in PlainName :
    /\ c = Append(p, Name(s))
    /\ <<Lexeme(":")>> \o z \in LexemeText
    /\ FastLabel(c) \o z = <<StringLexeme(s)>> \o (<<Lexeme(":")>> \o z)

LEMMA ChildKey ==
  ASSUME NEW t, WellFormed(t), NEW p \in DOMAIN t, IsContainer(t[p]),
         NEW i \in Nat, i < Len(Children(t, p)), NEW z \in LexemeText
  PROVE  /\ t[p].type = "array" =>
              /\ Children(t, p)[i + 1] = Append(p, Index(i))
              /\ FastLabel(Children(t, p)[i + 1]) \o z = z
         /\ t[p].type = "object" => Labelled(p, Children(t, p)[i + 1], z)
<1> DEFINE n == Len(Children(t, p))
           c == Children(t, p)[i + 1]
<1>1. i + 1 \in 1..n /\ (i + 1) - 1 = i
  BY ChildTexts
<1>2. p \in PlainPath /\ c \in DOMAIN t
  BY <1>1, ChildDeeper DEF WellFormed
<1>2a. IsChildren(t, p, Children(t, p))
  BY ChildrenAre
<1>3. PICK k \in PlainKey : c = Append(p, k)
  BY <1>1, <1>2a DEF IsChildren
<1>4. t[p].type = "array" => c = Append(p, Index(i))
  BY <1>1, <1>2a DEF IsChildren
<1>5. t[p].type = (IF k.isName THEN "object" ELSE "array")
  BY <1>2, <1>3 DEF WellFormed
<1> HIDE DEF c
<1>6. CASE t[p].type = "array"
  <2>1. FastLabel(c) = <<>>
    BY <1>2, <1>3, <1>5, <1>6, LabelType
  <2>2. <<>> \o z = z
    BY ConcatEmptySeq DEF LexemeText
  <2> QED
    BY <1>4, <1>6, <2>1, <2>2 DEF c
<1>7. CASE t[p].type = "object"
  <2>1. k.isName
    BY <1>5, <1>7
  <2> DEFINE s == k.cstr
  <2>2. s \in PlainName /\ k = Name(s)
    BY <2>1, KeyFacts
  <2>3. FastLabel(c) = <<StringLexeme(s)>> \o <<Lexeme(":")>>
    BY <1>2, <1>3, <2>1, LabelType
  <2>4. StringLexeme(s) \in LexemeType
    BY <2>2, NameReads
  <2>5. <<StringLexeme(s)>> \in LexemeText /\ <<Lexeme(":")>> \in LexemeText
    BY <2>4, PunctuationTypes DEF LexemeText
  <2> HIDE DEF s
  <2>6. /\ <<Lexeme(":")>> \o z \in LexemeText
        /\ (<<StringLexeme(s)>> \o <<Lexeme(":")>>) \o z
             = <<StringLexeme(s)>> \o (<<Lexeme(":")>> \o z)
    BY <2>5, JoinType, Joined
  <2> QED
    BY <1>3, <1>7, <2>2, <2>3, <2>6 DEF c, Labelled
<1> QED
  BY <1>6, <1>7 DEF c

\* What is read so far of the tree t, of which the text is read: frame d has
\* begun the first idx[d] children of its container, and u[d] is the text that is
\* left from there.
AtOrBelow(p, q) == q = p \/ Below(p, q)

ReadIn(s, t, q) == q \in DOMAIN s /\ SameValue(s[q], t[q])

\* q is a child, or below one, that a call has not begun.
Later(t, ns, n, idx, q) ==
  \E d \in 1..n : \E j \in 1..Len(Children(t, ns[d])) :
    j > idx[d] /\ AtOrBelow(Children(t, ns[d])[j], q)

Level(t, p, f, i, r, b) ==
  /\ p \in DOMAIN t
  /\ t[p].type = (IF f.object THEN "object" ELSE "array")
  /\ i \in 0..Len(Children(t, p))
  /\ ~f.object => f.index = i
  /\ r = After(t, p, i) \o b

\* Each call reads the child that it has begun last.
Inner(t, ns, idx, d) ==
  d < Len(ns) => idx[d] >= 1 /\ ns[d + 1] = Children(t, ns[d])[idx[d]]

Stack(t, idx, u) ==
  \A d \in 1..Len(frames) :
    /\ Level(t, nodes[d], frames[d], idx[d], u[d], u[d - 1])
    /\ Inner(t, nodes, idx, d)

\* The child of the innermost container after its i-th one, and all the text from
\* there on but for the comma and the name, b being what follows the container.
Child(t, i) == Children(t, Top)[i + 1]

ChildText(t, i, b) == FastValue(t)[Child(t, i)] \o (After(t, Top, i + 1) \o b)

\* The text that is left: of the innermost call r, of the others b.
Left(t, i, r, b) ==
  /\ pc \in Values => Top \in DOMAIN t /\ rest = FastValue(t)[Top] \o r
  /\ pc = "first" => i = 0 /\ rest = r
  /\ pc \in {"comma", "separator"} => i >= 1 /\ rest = r
  /\ pc = "member" => \/ i = 0 /\ rest = r /\ Back(frames).name = <<>>
                      \/ i >= 1 /\ r = <<Lexeme(",")>> \o rest
  /\ pc = "colon" =>
       /\ i < Len(Children(t, Top))
       /\ Child(t, i) = Append(Top, Name(Back(frames).name))
       /\ rest = <<Lexeme(":")>> \o ChildText(t, i, b)
  /\ pc \in Ends => rest = <<>> /\ successful
  /\ pc \notin {"recover", "dropped"}

Copies(t, idx, u) ==
  /\ Writable(t)
  /\ idx \in [Nat -> Nat] /\ u \in [Nat -> LexemeText] /\ u[0] = <<>>
  /\ rest \in LexemeText
  /\ before = <<>>
  /\ DOMAIN tree \subseteq DOMAIN t
  /\ Stack(t, idx, u)
  /\ Left(t, idx[Len(frames)], u[Len(frames)], u[Len(frames) - 1])
  /\ \A q \in DOMAIN t : \/ ReadIn(tree, t, q)
                         \/ Later(t, nodes, Len(frames), idx, q)
                         \/ pc \in Values /\ AtOrBelow(Top, q)

\* readValue returns, with the value made.
LEMMA CopiesReturn ==
  ASSUME LiveInv, NEW t, NEW idx, NEW u, Copies(t, idx, u),
         NEW fs, Return(fs, TRUE), before' = <<>>, rest' = u[Len(fs)],
         \/ pc \in Values /\ fs = frames
         \/ pc \in Inside /\ fs = Pop(frames),
         DOMAIN tree' \subseteq DOMAIN t,
         \A q \in DOMAIN t : ReadIn(tree', t, q) \/ Later(t, nodes, Len(fs), idx, q)
  PROVE  Copies(t, idx, u)'
<1>1. Resume(fs, TRUE) /\ frames' = fs
  BY DEF Return
<1>2. /\ fs \in Seq(FrameType) /\ Len(fs) \in Nat
      /\ Len(fs) = Len(nodes) - 1
      /\ \A i \in 1..Len(fs) : /\ i \in 1..Len(frames)
                               /\ fs[i] = frames[i]
                               /\ nodes'[i] = nodes[i]
      /\ fs # <<>> => nodes' = Pop(nodes) /\ Len(nodes') = Len(fs)
  BY <1>1, ResumeKeeps
<1>3. idx \in [Nat -> Nat] /\ u \in [Nat -> LexemeText] /\ u[0] = <<>>
  BY DEF Copies
<1>4. rest' \in LexemeText
  BY <1>2, <1>3
<1>5. Stack(t, idx, u)'
  <2> SUFFICES ASSUME NEW d \in 1..Len(fs)
               PROVE  /\ Level(t, nodes'[d], fs[d], idx[d], u[d], u[d - 1])
                      /\ Inner(t, nodes', idx, d)
    BY <1>1 DEF Stack
  <2>1. /\ Level(t, nodes[d], frames[d], idx[d], u[d], u[d - 1])
        /\ Inner(t, nodes, idx, d)
    BY <1>2 DEF Copies, Stack
  <2>2. nodes'[d] = nodes[d] /\ fs[d] = frames[d]
    BY <1>2
  <2>3. fs # <<>> /\ Len(nodes') = Len(fs)
    BY <1>2
  <2>4. CASE d = Len(fs)
    BY <1>2, <2>1, <2>2, <2>3, <2>4 DEF Inner
  <2>5. CASE d # Len(fs)
    <3>1. d + 1 \in 1..Len(fs) /\ d < Len(nodes)
      BY <1>2, <2>5
    <3> QED
      BY <1>2, <2>1, <2>2, <3>1 DEF Inner
  <2> QED
    BY <2>4, <2>5
<1>6. Left(t, idx[Len(frames)], u[Len(frames)], u[Len(frames) - 1])'
  <2>1. CASE fs = <<>>
    <3>1. pc' = "end" /\ successful' /\ Len(fs) = 0
      BY <1>1, <2>1 DEF Resume
    <3>2. rest' = <<>>
      BY <1>3, <3>1
    <3> QED
      BY <3>1, <3>2 DEF Left, Values, Ends
  <2>2. CASE fs # <<>>
    <3>1. pc' \in {"comma", "separator"}
      BY <1>1, <2>2 DEF Resume
    <3>2. Len(fs) \in 1..Len(fs) /\ Len(fs) < Len(nodes)
      <4>1. Len(fs) # 0
        BY <1>2, <2>2
      <4> QED
        BY <1>2, <4>1
    <3>3. idx[Len(fs)] >= 1
      BY <1>2, <3>2 DEF Copies, Stack, Inner
    <3> QED
      BY <1>1, <3>1, <3>3 DEF Left, Values, Ends
  <2> QED
    BY <2>1, <2>2
<1>7. ASSUME NEW q \in DOMAIN t
      PROVE  ReadIn(tree', t, q) \/ Later(t, nodes', Len(fs), idx, q)
  <2>1. CASE Later(t, nodes, Len(fs), idx, q)
    BY <1>2, <2>1 DEF Later
  <2> QED
    BY <2>1
<1> QED
  BY <1>1, <1>3, <1>4, <1>5, <1>6, <1>7 DEF Copies

\* What is below p is a child of p or below one.
LEMMA BelowChild ==
  ASSUME NEW t, WellFormed(t), NEW p \in DOMAIN t, NEW q \in DOMAIN t, Below(p, q)
  PROVE  /\ IsContainer(t[p])
         /\ \E j \in 1..Len(Children(t, p)) : AtOrBelow(Children(t, p)[j], q)
<1> DEFINE Found(r) == \E k \in PlainKey :
                         Append(p, k) \in DOMAIN t /\ AtOrBelow(Append(p, k), r)
           N == {n \in Nat : \A r \in DOMAIN t : Len(r) = n /\ Below(p, r) => Found(r)}
<1>1. p \in PlainPath /\ DOMAIN t \subseteq PlainPath
  BY DEF WellFormed
<1>2. Len(p) \in Nat
  BY <1>1, LenProperties DEF PlainPath
<1>3. 0 \in N
  <2> SUFFICES ASSUME NEW r \in DOMAIN t, Len(r) = 0, Below(p, r) PROVE FALSE
    OBVIOUS
  <2> QED
    BY <1>2 DEF Below
<1>4. ASSUME NEW n \in Nat, n \in N PROVE n + 1 \in N
  <2> SUFFICES ASSUME NEW r \in DOMAIN t, Len(r) = n + 1, Below(p, r) PROVE Found(r)
    OBVIOUS
  <2>1. r \in PlainPath /\ r # <<>>
    BY <1>1
  <2>2. PICK s \in PlainPath, k \in PlainKey : r = Append(s, k)
    BY <2>1, SequenceEmptyOrAppend DEF PlainPath
  <2>3. Len(s) = n /\ s \in DOMAIN t
    <3>1. Len(r) = Len(s) + 1 /\ Len(s) \in Nat
      BY <2>2, AppendPath
    <3> QED
      BY <2>2, <3>1 DEF WellFormed
  <2>4. CASE s = p
    BY <2>2, <2>4 DEF AtOrBelow
  <2>5. CASE s # p
    <3>1. Below(p, s)
      BY <1>1, <2>2, <2>5, BelowAppend
    <3>2. PICK m \in PlainKey :
            Append(p, m) \in DOMAIN t /\ AtOrBelow(Append(p, m), s)
      BY <1>4, <2>3, <3>1
    <3>3. Append(p, m) \in PlainPath
      BY <1>1, <3>2
    <3>4. Below(Append(p, m), r)
      BY <2>2, <3>2, <3>3, BelowAppend DEF AtOrBelow
    <3> QED
      BY <3>2, <3>4 DEF AtOrBelow
  <2> QED
    BY <2>4, <2>5
<1> HIDE DEF N
<1>5. Nat \subseteq N
  BY <1>3, <1>4, SetInduction
<1>6. Found(q)
  <2>1. Len(q) \in Nat
    BY <1>1, LenProperties DEF PlainPath
  <2> QED
    BY <1>5, <2>1 DEF N
<1>7. PICK k \in PlainKey : Append(p, k) \in DOMAIN t /\ AtOrBelow(Append(p, k), q)
  BY <1>6
<1>8. IsContainer(t[p])
  BY <1>1, <1>7 DEF WellFormed, IsContainer
<1>9. \E j \in 1..Len(Children(t, p)) : Children(t, p)[j] = Append(p, k)
  BY <1>7, <1>8, ChildrenAre DEF IsChildren
<1> QED
  BY <1>7, <1>8, <1>9

\* A node takes the place of what Top held.
LEMMA MadeHere ==
  ASSUME LiveInv, before = <<>>, NEW type, NEW num, NEW str,
         tree' = Assign(Commented, Top, Leaf(type, num, str)),
         NEW t, Equals(type, num, str, t[Top])
  PROVE  /\ DOMAIN tree' \subseteq DOMAIN tree
         /\ ReadIn(tree', t, Top)
         /\ \A q : ReadIn(tree, t, q) /\ ~AtOrBelow(Top, q) => ReadIn(tree', t, q)
<1> DEFINE node == NodeWith(type, num, str, tree[Top])
<1>1. Top \in Path /\ Top \in DOMAIN tree
  BY TopFacts
<1>2. ~Below(Top, Top) /\ tree' = Replaced(tree, Top, node)
  <2>1. Commented = tree
    BY DEF Commented
  <2> QED
    BY <1>1, <2>1, AssignIs
<1>3. SameValue(node, t[Top])
  BY NodeWithIs DEF Equals
<1> HIDE DEF node
<1> QED
  BY <1>1, <1>2, <1>3 DEF Replaced, ReadIn, AtOrBelow

\* What ReadAgain does with the rest of the text.
Consumes == rest' = IF rest = <<>> THEN rest ELSE Tail(rest)

LEMMA AheadIs ==
  ASSUME NEW x \in LexemeType, NEW s \in LexemeText, rest = <<x>> \o s
  PROVE  Ahead = x /\ (Consumes => rest' = s)
<1>1. <<x>> \o s # <<>> /\ Head(<<x>> \o s) = x /\ Tail(<<x>> \o s) = s
  BY HeadTailCons DEF LexemeText
<1> QED
  BY <1>1 DEF Ahead, Consumes

LEMMA CopiesScalar ==
  ASSUME LiveInv, NEW t, WellFormed(t), NEW idx, NEW u, Copies(t, idx, u),
         pc \in Values, ~IsContainer(t[Top]), Read(Ahead), Consumes
  PROVE  Copies(t, idx, u)'
<1> DEFINE x == ScalarLexeme(t[Top])
           r == u[Len(frames)]
<1>1. Top \in DOMAIN t /\ rest = FastValue(t)[Top] \o r
  BY DEF Copies, Left
<1>2. r \in LexemeText
  BY TopFacts DEF Copies
<1>4. /\ Sound(t[Top]) /\ t[Top].type \notin {"array", "object"}
      /\ WritesWhole(t[Top])
  BY <1>1 DEF WellFormed, IsContainer, Copies, Writable
<1>3. FastValue(t)[Top] = <<x>>
  BY <1>1, <1>4, FastValueIs, ScalarsReadBack DEF TextRule
<1>5. PICK type, num, str :
        Scalar(x) = Leaf(type, num, str) /\ Equals(type, num, str, t[Top])
  BY <1>4, ScalarsReadBack
<1>6. x \in LexemeType /\ x.type \in ScalarToken /\ ~BadScalar(x)
  BY <1>4, ScalarsReadBack
<1> HIDE DEF x, r
<1>7. Ahead = x /\ rest' = r
  BY <1>1, <1>2, <1>3, <1>6, AheadIs
<1>8. ReadScalar(x)
  <2>1. Read(x)
    BY <1>7
  <2> QED
    BY <1>6, <2>1 DEF Read, SkipSpaces, ReadComment, DecodeFails, SyntaxError, Begin,
       MemberName, Colon, Comma, EmptyArray, Separator, Recover, End, Values,
       ScalarToken
<1>9. /\ tree' = Assign(Commented, Top, Leaf(type, num, str))
      /\ Return(frames, TRUE) /\ before' = <<>>
  BY <1>5, <1>8 DEF ReadScalar, AtValue
<1>10. before = <<>> /\ DOMAIN tree \subseteq DOMAIN t
  BY DEF Copies
<1>11. /\ DOMAIN tree' \subseteq DOMAIN tree
       /\ ReadIn(tree', t, Top)
       /\ \A q : ReadIn(tree, t, q) /\ ~AtOrBelow(Top, q) => ReadIn(tree', t, q)
  BY <1>5, <1>9, <1>10, MadeHere
<1>12. ASSUME NEW q \in DOMAIN t
       PROVE  ReadIn(tree', t, q) \/ Later(t, nodes, Len(frames), idx, q)
  <2>1. CASE AtOrBelow(Top, q)
    <3>1. q = Top
      BY <1>1, <2>1, BelowChild DEF AtOrBelow
    <3> QED
      BY <1>11, <3>1
  <2>2. CASE ~AtOrBelow(Top, q)
    BY <1>11, <2>2 DEF Copies
  <2> QED
    BY <2>1, <2>2
<1>13. rest' = u[Len(frames)]
  BY <1>7 DEF r
<1> QED
  BY <1>9, <1>10, <1>11, <1>12, <1>13, CopiesReturn

LEMMA CopiesBegin ==
  ASSUME LiveInv, NEW t, WellFormed(t), NEW idx, NEW u, Copies(t, idx, u),
         pc \in Values, IsContainer(t[Top]), Read(Ahead), Consumes
  PROVE  \E idx2, u2 : Copies(t, idx2, u2)'
<1> DEFINE L == Len(frames)
           r == u[L]
           a == After(t, Top, 0) \o r
           type == t[Top].type
           x == Lexeme(IF type = "array" THEN "[" ELSE "{")
           f == [object |-> x.type = "{", name |-> <<>>, index |-> 0]
           i0 == [idx EXCEPT ![L + 1] = 0]
           u0 == [u EXCEPT ![L + 1] = a]
<1>1. Top \in DOMAIN t /\ rest = FastValue(t)[Top] \o r
  BY DEF Copies, Left
<1>2. /\ L \in Nat /\ Len(nodes) = L + 1 /\ nodes[L + 1] = Top
      /\ frames \in Seq(FrameType)
  BY TopFacts DEF LiveInv, Depth, Typed
<1>3. idx \in [Nat -> Nat] /\ u \in [Nat -> LexemeText] /\ u[0] = <<>>
  BY DEF Copies
<1>4. r \in LexemeText
  BY <1>2, <1>3
<1>5. a \in LexemeText /\ FastValue(t)[Top] \o r = Opening(t[Top]) \o a
  BY <1>1, <1>4, FirstText
<1>6. type \in {"array", "object"} /\ Opening(t[Top]) = <<x>>
  BY DEF IsContainer, Opening
<1>7. /\ x \in LexemeType
      /\ x.type = IF type = "object" THEN "{" ELSE "["
  BY <1>6, LexemeTypes DEF Kinds
<1>8. Ahead = x /\ rest' = a
  <2> HIDE DEF x, a, r
  <2> QED
    BY <1>1, <1>5, <1>6, <1>7, AheadIs
<1>9. Begin(x)
  <2>1. Read(x)
    BY <1>8
  <2> HIDE DEF x
  <2> QED
    BY <1>7, <2>1 DEF Read, SkipSpaces, ReadComment, ReadScalar, DecodeFails,
       SyntaxError, BadScalar, MemberName, Colon, Comma, EmptyArray, Separator, Recover,
       End, Values, ScalarToken
<1>10. /\ tree' = Assign(Commented, Top, Leaf(type, 0, <<>>))
       /\ frames' = Append(frames, f) /\ nodes' = nodes /\ before' = <<>>
       /\ pc' = IF type = "object" THEN "member" ELSE "first"
       /\ f.object = (type = "object") /\ f.index = 0 /\ f.name = <<>>
  BY <1>6, <1>7, <1>9 DEF Begin, AtValue, NewValue
<1>11. f \in FrameType
  BY DEF FrameType, Names
<1> HIDE DEF x, f
<1>12. /\ Len(frames') = L + 1 /\ frames'[L + 1] = f
       /\ \A d \in 1..L : frames'[d] = frames[d]
  BY <1>2, <1>10, <1>11, AppendProperties
<1>13. before = <<>> /\ DOMAIN tree \subseteq DOMAIN t
  BY DEF Copies
<1>14. Equals(type, 0, <<>>, t[Top])
  <2>1. Sound(t[Top])
    BY <1>1 DEF WellFormed
  <2> QED
    BY <1>6, <2>1 DEF Equals, SameValue, NumberTypes, Sound
<1>15. /\ DOMAIN tree' \subseteq DOMAIN tree
       /\ ReadIn(tree', t, Top)
       /\ \A q : ReadIn(tree, t, q) /\ ~AtOrBelow(Top, q) => ReadIn(tree', t, q)
  <2> HIDE DEF type
  <2> QED
    BY <1>10, <1>13, <1>14, MadeHere
<1> HIDE DEF L, a, r
<1> DEFINE Fits(i, v) ==
         /\ i \in [Nat -> Nat] /\ v \in [Nat -> LexemeText]
         /\ i[L + 1] = 0 /\ v[L + 1] = a /\ v[L] = r /\ v[0] = <<>>
         /\ \A d \in 1..L : i[d] = idx[d] /\ v[d] = u[d] /\ v[d - 1] = u[d - 1]
<1>0. PICK idx2, u2 : Fits(idx2, u2)
  <2>1. i0 \in [Nat -> Nat] /\ u0 \in [Nat -> LexemeText]
    BY <1>2, <1>3, <1>5
  <2>2. i0[L + 1] = 0 /\ u0[L + 1] = a
    BY <1>2, <1>3
  <2>3. \A d \in Nat : d # L + 1 => i0[d] = idx[d] /\ u0[d] = u[d]
    BY <1>3
  <2>4. u0[L] = u[L] /\ u0[0] = u[0]
    BY <1>2, <2>3
  <2>5. \A d \in 1..L : d \in Nat /\ d - 1 \in Nat /\ d # L + 1 /\ d - 1 # L + 1
    BY <1>2
  <2>6. u0[L] = r
    BY <2>4 DEF r, L
  <2> HIDE DEF i0, u0
  <2>7. \A d \in 1..L : i0[d] = idx[d] /\ u0[d] = u[d] /\ u0[d - 1] = u[d - 1]
    BY <2>3, <2>5
  <2>8. Fits(i0, u0)
    BY <1>3, <2>1, <2>2, <2>4, <2>6, <2>7
  <2> HIDE DEF Fits
  <2> QED
    BY <2>8
<1>16. /\ idx2 \in [Nat -> Nat] /\ u2 \in [Nat -> LexemeText]
       /\ idx2[L + 1] = 0 /\ u2[L + 1] = a /\ u2[L] = r /\ u2[0] = <<>>
       /\ \A d \in 1..L : idx2[d] = idx[d] /\ u2[d] = u[d] /\ u2[d - 1] = u[d - 1]
  BY <1>0
<1>17. Stack(t, idx2, u2)'
  <2> SUFFICES ASSUME NEW d \in 1..(L + 1)
               PROVE  /\ Level(t, nodes[d], frames'[d], idx2[d], u2[d], u2[d - 1])
                      /\ Inner(t, nodes, idx2, d)
    BY <1>10, <1>12 DEF Stack
  <2>1. CASE d \in 1..L
    <3>1. Level(t, nodes[d], frames[d], idx[d], u[d], u[d - 1])
      BY <2>1 DEF Copies, Stack, L
    <3>2. Inner(t, nodes, idx, d)
      BY <2>1 DEF Copies, Stack, L
    <3> QED
      BY <1>12, <1>16, <2>1, <3>1, <3>2 DEF Inner
  <2>2. CASE d = L + 1
    <3>1. 0 \in 0..Len(Children(t, Top))
      BY <1>1, ChildTexts
    <3>2. type = (IF f.object THEN "object" ELSE "array") /\ f.index = 0
      BY <1>6, <1>10
    <3>3. Level(t, Top, f, 0, a, r)
      BY <1>1, <3>1, <3>2 DEF Level, a
    <3>4. (L + 1) - 1 = L /\ ~(L + 1 < Len(nodes))
      BY <1>2
    <3> QED
      BY <1>2, <1>12, <1>16, <2>2, <3>3, <3>4 DEF Inner
  <2> QED
    BY <1>2, <2>1, <2>2
<1>18. Left(t, idx2[Len(frames)], u2[Len(frames)], u2[Len(frames) - 1])'
  <2>1. pc' \in {"member", "first"} /\ rest' = a
    BY <1>8, <1>10
  <2>2. Back(frames)'.name = <<>>
    BY <1>10, <1>12 DEF Back
  <2>3. idx2[Len(frames')] = 0 /\ u2[Len(frames')] = a
    BY <1>12, <1>16
  <2> QED
    BY <2>1, <2>2, <2>3 DEF Left, Values, Ends
<1>19. ASSUME NEW q \in DOMAIN t
       PROVE  ReadIn(tree', t, q) \/ Later(t, nodes, L + 1, idx2, q)
  <2>1. CASE q = Top
    BY <1>15, <2>1
  <2>2. CASE Below(Top, q)
    <3>1. PICK j \in 1..Len(Children(t, Top)) : AtOrBelow(Children(t, Top)[j], q)
      BY <1>1, <2>2, BelowChild
    <3>2. L + 1 \in 1..(L + 1) /\ j > 0
      BY <1>2
    <3> QED
      BY <1>2, <1>16, <3>1, <3>2 DEF Later
  <2>3. CASE Later(t, nodes, L, idx, q)
    <3>1. PICK d \in 1..L : \E j \in 1..Len(Children(t, nodes[d])) :
            j > idx[d] /\ AtOrBelow(Children(t, nodes[d])[j], q)
      BY <2>3 DEF Later
    <3>2. d \in 1..(L + 1) /\ idx2[d] = idx[d]
      BY <1>2, <1>16
    <3> QED
      BY <3>1, <3>2 DEF Later
  <2>4. CASE ReadIn(tree, t, q) /\ ~AtOrBelow(Top, q)
    BY <1>15, <2>4
  <2> QED
    BY <2>1, <2>2, <2>3, <2>4 DEF Copies, AtOrBelow, L
<1>20. Copies(t, idx2, u2)'
  BY <1>5, <1>8, <1>10, <1>12, <1>13, <1>15, <1>16, <1>17, <1>18, <1>19 DEF Copies
<1> QED
  BY <1>20

\* A child has been read, the last one, and the end of its container.
LEMMA CopiesFinish ==
  ASSUME LiveInv, NEW t, NEW idx, NEW u, Copies(t, idx, u), pc \in Inside, Finish,
         idx[Len(frames)] = Len(Children(t, Top)), rest' = u[Len(frames) - 1]
  PROVE  Copies(t, idx, u)'
<1> DEFINE L == Len(frames)
           fs == Pop(frames)
<1>1. L \in Nat /\ L >= 1 /\ Top = nodes[L]
  BY TopFacts DEF LiveInv, Depth
<1>2. Return(fs, TRUE) /\ tree' = tree /\ before' = before
  BY DEF Finish
<1>3. Len(fs) = L - 1
  <2>1. frames \in Seq(FrameType)
    BY DEF LiveInv, Typed
  <2> QED
    BY <1>1, <2>1, PopPath
<1>4. before' = <<>> /\ DOMAIN tree' \subseteq DOMAIN t
  BY <1>2 DEF Copies
<1> HIDE DEF fs
<1>5. ASSUME NEW q \in DOMAIN t
      PROVE  ReadIn(tree', t, q) \/ Later(t, nodes, Len(fs), idx, q)
  <2>1. CASE ReadIn(tree, t, q)
    BY <1>2, <2>1
  <2>2. CASE Later(t, nodes, L, idx, q)
    <3>1. PICK d \in 1..L : \E j \in 1..Len(Children(t, nodes[d])) :
            j > idx[d] /\ AtOrBelow(Children(t, nodes[d])[j], q)
      BY <2>2 DEF Later
    <3>2. d # L
      <4> SUFFICES ASSUME d = L PROVE FALSE
        OBVIOUS
      <4>1. \E j \in 1..Len(Children(t, Top)) : j > Len(Children(t, Top))
        BY <1>1, <3>1
      <4> QED
        BY <4>1
    <3>3. d \in 1..Len(fs)
      BY <1>1, <1>3, <3>2
    <3> QED
      BY <3>1, <3>3 DEF Later
  <2> QED
    BY <2>1, <2>2 DEF Copies, Values, Inside
<1> QED
  BY <1>2, <1>3, <1>4, <1>5, CopiesReturn DEF fs

\* The next child is looked up; its text is ahead.
LEMMA CopiesPush ==
  ASSUME LiveInv, LiveInv', NEW t, WellFormed(t),
         NEW idx, NEW u, Copies(t, idx, u),
         pc \in Inside, pc' \in Values,
         NEW i, i = idx[Len(frames)], i < Len(Children(t, Top)),
         NEW k, PushMember(k), Children(t, Top)[i + 1] = Append(Top, k),
         Len(frames') = Len(frames),
         \A d \in 1..Len(frames) : d # Len(frames) => frames'[d] = frames[d],
         frames'[Len(frames)].object = frames[Len(frames)].object,
         ~frames[Len(frames)].object => frames'[Len(frames)].index = i + 1,
         rest' = FastValue(t)[Append(Top, k)]
                   \o (After(t, Top, i + 1) \o u[Len(frames) - 1])
  PROVE  \E idx2, u2 : Copies(t, idx2, u2)'
<1> DEFINE L == Len(frames)
           c == Append(Top, k)
           b == u[L - 1]
           a == After(t, Top, i + 1) \o b
           kids == Children(t, Top)
<1>1. /\ L \in Nat /\ L >= 1 /\ Len(nodes) = L /\ Top = nodes[L]
      /\ nodes \in Seq(Path)
  BY TopFacts DEF LiveInv, Depth, Typed
<1>2. idx \in [Nat -> Nat] /\ u \in [Nat -> LexemeText] /\ u[0] = <<>> /\ i \in Nat
  BY <1>1 DEF Copies
<1>2a. i \in Nat
  BY <1>2
<1>2b. i + 1 \in Nat
  BY <1>2a
<1>3. /\ Level(t, Top, frames[L], i, u[L], b)
      /\ Top \in DOMAIN t /\ IsContainer(t[Top]) /\ i \in 0..Len(kids)
  <2>1. L \in 1..L
    BY <1>1
  <2>2. Level(t, nodes[L], frames[L], idx[L], u[L], u[L - 1])
    BY <2>1 DEF Copies, Stack
  <2> QED
    BY <1>1, <2>2 DEF Level, IsContainer
<1>4. b \in LexemeText
  BY <1>1, <1>2
<1>5. c \in DOMAIN t /\ a \in LexemeText /\ rest' \in LexemeText
  <2>1. c = kids[i + 1]
    OBVIOUS
  <2>2. rest' = FastValue(t)[c] \o a
    OBVIOUS
  <2> HIDE DEF c
  <2>3. c \in DOMAIN t /\ a \in LexemeText /\ FastValue(t)[c] \o a \in LexemeText
    <3> HIDE DEF b
    <3>1. GoesOn(t, Top, i, c, b)
      BY <1>2, <1>3, <1>4, <2>1, NextText
    <3> QED
      BY <3>1 DEF GoesOn
  <2> QED
    BY <2>2, <2>3
<1>6. /\ nodes' = Append(nodes, c)
      /\ DOMAIN tree' = DOMAIN tree \cup {c}
      /\ \A q \in DOMAIN tree : tree'[q] = tree[q]
      /\ before' = before
  <2>1. tree[Top].type # "null"
    BY <1>1 DEF LiveInv, Holds
  <2>2. tree' = Extended(tree, c)
    BY <2>1 DEF PushMember, Resolve, Extended
  <2> HIDE DEF c
  <2>3. nodes' = Append(nodes, c) /\ before' = before
    BY DEF PushMember, c
  <2> QED
    BY <2>2, <2>3 DEF Extended
<1> DEFINE i0 == [idx EXCEPT ![L] = i + 1]
           u0 == [u EXCEPT ![L] = a]
<1> DEFINE Fits(j, v) ==
         /\ j \in [Nat -> Nat] /\ v \in [Nat -> LexemeText]
         /\ j[L] = i + 1 /\ v[L] = a /\ v[L - 1] = b /\ v[0] = <<>>
         /\ \A d \in 1..L : d # L =>
              j[d] = idx[d] /\ v[d] = u[d] /\ v[d - 1] = u[d - 1]
<1>7. PICK idx2, u2 : Fits(idx2, u2)
  <2> HIDE DEF a, L
  <2>0. L \in Nat /\ i + 1 \in Nat /\ a \in LexemeText
    <3>1. L \in Nat
      BY <1>1
    <3>2. i + 1 \in Nat
      BY <1>2b
    <3>3. a \in LexemeText
      BY <1>5
    <3> QED
      BY <3>1, <3>2, <3>3
  <2>1. i0 \in [Nat -> Nat] /\ u0 \in [Nat -> LexemeText]
    BY <1>2, <2>0
  <2>2. i0[L] = i + 1 /\ u0[L] = a
    BY <1>1, <1>2
  <2>3. \A d \in Nat : d # L => i0[d] = idx[d] /\ u0[d] = u[d]
    BY <1>2
  <2>4. u0[L - 1] = b /\ u0[0] = <<>>
    <3>1. L - 1 \in Nat /\ L - 1 # L /\ 0 # L
      BY <1>1
    <3> HIDE DEF u0, i0
    <3> QED
      BY <1>2, <2>3, <3>1
  <2>5. \A d \in 1..L : d # L => d \in Nat /\ d - 1 \in Nat /\ d - 1 # L
    BY <1>1
  <2> HIDE DEF i0, u0
  <2>6. \A d \in 1..L : d # L =>
          i0[d] = idx[d] /\ u0[d] = u[d] /\ u0[d - 1] = u[d - 1]
    BY <2>3, <2>5
  <2>7. Fits(i0, u0)
    BY <2>1, <2>2, <2>4, <2>6
  <2> HIDE DEF Fits
  <2> QED
    BY <2>7
<1>8. /\ idx2 \in [Nat -> Nat] /\ u2 \in [Nat -> LexemeText]
      /\ idx2[L] = i + 1 /\ u2[L] = a /\ u2[L - 1] = b /\ u2[0] = <<>>
      /\ \A d \in 1..L : d # L =>
           idx2[d] = idx[d] /\ u2[d] = u[d] /\ u2[d - 1] = u[d - 1]
  BY <1>7
<1> HIDE DEF Fits, a, b, c
<1>9. /\ Len(nodes') = L + 1 /\ nodes'[L + 1] = c /\ Top' = c
      /\ \A d \in 1..L : nodes'[d] = nodes[d]
  <2>1. Len(nodes') = L + 1 /\ nodes'[L + 1] = c /\ \A d \in 1..L : nodes'[d] = nodes[d]
    BY <1>1, <1>6
  <2>2. Top' = nodes'[Len(nodes')]
    BY DEF Top, Back
  <2> QED
    BY <2>1, <2>2
<1>10. ASSUME NEW d \in 1..L
       PROVE  /\ Level(t, nodes'[d], frames'[d], idx2[d], u2[d], u2[d - 1])
              /\ Inner(t, nodes', idx2, d)
  <2>1. CASE d # L
    <3>1. Level(t, nodes[d], frames[d], idx[d], u[d], u[d - 1])
      BY DEF Copies, Stack
    <3>2. Inner(t, nodes, idx, d)
      BY DEF Copies, Stack
    <3>3. d < Len(nodes) /\ d + 1 \in 1..L
      BY <1>1, <2>1
    <3>4. idx[d] >= 1 /\ nodes[d + 1] = Children(t, nodes[d])[idx[d]]
      BY <3>2, <3>3 DEF Inner
    <3> QED
      BY <1>8, <1>9, <2>1, <3>1, <3>3, <3>4 DEF Inner
  <2>2. CASE d = L
    <3>1. i + 1 \in 0..Len(Children(t, Top)) /\ i + 1 >= 1
      <4>1. Len(Children(t, Top)) \in Nat
        BY <1>3, ChildTexts
      <4> DEFINE n == Len(Children(t, Top))
      <4>2. i \in Nat /\ n \in Nat /\ i < n
        BY <1>2, <4>1
      <4> HIDE DEF n
      <4>3. i + 1 \in 0..n /\ i + 1 >= 1
        BY <4>2
      <4> QED
        BY <4>3 DEF n
    <3>2. Level(t, Top, frames'[L], i + 1, a, b)
      BY <1>3, <3>1 DEF Level, a
    <3>3. nodes'[L + 1] = Children(t, Top)[i + 1]
      BY <1>9 DEF c
    <3> QED
      BY <1>1, <1>8, <1>9, <2>2, <3>1, <3>2, <3>3 DEF Inner
  <2> QED
    BY <2>1, <2>2
<1>11. Stack(t, idx2, u2)'
  BY <1>10 DEF Stack
<1>12. Left(t, idx2[Len(frames)], u2[Len(frames)], u2[Len(frames) - 1])'
  <2>1. rest' = FastValue(t)[Top'] \o a
    BY <1>9 DEF a, b, c
  <2>2. u2[Len(frames')] = a
    BY <1>8
  <2> QED
    BY <1>5, <1>9, <2>1, <2>2 DEF Left, Values, Ends
<1>13. ASSUME NEW q \in DOMAIN t
       PROVE  \/ ReadIn(tree', t, q)
              \/ Later(t, nodes', L, idx2, q)
              \/ AtOrBelow(Top', q)
  <2>1. CASE ReadIn(tree, t, q)
    BY <1>6, <2>1 DEF ReadIn
  <2>2. CASE Later(t, nodes, L, idx, q)
    <3>0. PICK d \in 1..L : \E j \in 1..Len(Children(t, nodes[d])) :
            j > idx[d] /\ AtOrBelow(Children(t, nodes[d])[j], q)
      BY <2>2 DEF Later
    <3>1. PICK j \in 1..Len(Children(t, nodes[d])) :
            j > idx[d] /\ AtOrBelow(Children(t, nodes[d])[j], q)
      BY <3>0
    <3>2. nodes'[d] = nodes[d]
      BY <1>9
    <3>3. CASE d # L
      <4>1. idx2[d] = idx[d]
        BY <1>8, <3>3
      <4> QED
        BY <3>1, <3>2, <4>1 DEF Later
    <3>4. CASE d = L /\ j = i + 1
      BY <1>1, <1>9, <3>1, <3>4 DEF c
    <3>5. CASE d = L /\ j # i + 1
      <4>1. j > i /\ j # i + 1 /\ idx2[d] = i + 1
        BY <1>8, <3>1, <3>5
      <4>2. j \in Nat
        OBVIOUS
      <4>3. j > i + 1
        BY <1>2a, <4>1, <4>2
      <4> QED
        BY <3>1, <3>2, <4>1, <4>3 DEF Later
    <3> QED
      BY <3>3, <3>4, <3>5
  <2> QED
    BY <2>1, <2>2 DEF Copies, Values, Inside
<1>14. /\ DOMAIN tree' \subseteq DOMAIN t
       /\ before' = <<>>
  BY <1>5, <1>6 DEF Copies
<1>15. Copies(t, idx2, u2)'
  BY <1>5, <1>8, <1>11, <1>12, <1>13, <1>14 DEF Copies
<1> QED
  BY <1>15

\* A step that reads no value.
LEMMA CopiesStays ==
  ASSUME NEW t, NEW idx, NEW u, Copies(t, idx, u), pc \notin Values, pc' \notin Values,
         DOMAIN tree' = DOMAIN tree,
         \A q \in DOMAIN t : ReadIn(tree, t, q) => ReadIn(tree', t, q),
         nodes' = nodes, before' = before,
         Len(frames') = Len(frames),
         \A d \in 1..Len(frames) : /\ frames'[d].object = frames[d].object
                                   /\ frames'[d].index = frames[d].index,
         rest' \in LexemeText,
         Left(t, idx[Len(frames)], u[Len(frames)], u[Len(frames) - 1])'
  PROVE  Copies(t, idx, u)'
<1>1. Stack(t, idx, u)'
  <2> SUFFICES ASSUME NEW d \in 1..Len(frames)
               PROVE  /\ Level(t, nodes[d], frames'[d], idx[d], u[d], u[d - 1])
                      /\ Inner(t, nodes, idx, d)
    BY DEF Stack
  <2>1. /\ Level(t, nodes[d], frames[d], idx[d], u[d], u[d - 1])
        /\ Inner(t, nodes, idx, d)
    BY DEF Copies, Stack
  <2> QED
    BY <2>1 DEF Level
<1>2. ASSUME NEW q \in DOMAIN t
      PROVE  ReadIn(tree', t, q) \/ Later(t, nodes, Len(frames), idx, q)
  BY DEF Copies
<1> QED
  BY <1>1, <1>2 DEF Copies

\* What ends the innermost container.
Close == Lexeme(IF Back(frames).object THEN "}" ELSE "]")

\* The text from the name of the child on.
MemberText(t, i, b) == FastLabel(Child(t, i)) \o ChildText(t, i, b)

\* The call that is open is about to read what comes after its i-th child.
Open(t, i, r, b) ==
  /\ i \in Nat /\ Len(Children(t, Top)) \in Nat
  /\ i = Len(Children(t, Top)) \/ i < Len(Children(t, Top))
  /\ b \in LexemeText /\ r \in LexemeText
  /\ Top \in DOMAIN t /\ IsContainer(t[Top])
  /\ t[Top].type = (IF Back(frames).object THEN "object" ELSE "array")
  /\ ~Back(frames).object => Back(frames).index = i
  /\ i = Len(Children(t, Top)) =>
       r = <<Close>> \o b
  /\ i < Len(Children(t, Top)) =>
       /\ Child(t, i) \in DOMAIN t
       /\ After(t, Top, i + 1) \o b \in LexemeText
       /\ ChildText(t, i, b) \in LexemeText
       /\ MemberText(t, i, b) \in LexemeText
       /\ r = FastComma(i + 1) \o MemberText(t, i, b)

LEMMA CallAhead ==
  ASSUME LiveInv, NEW t, WellFormed(t), NEW idx, NEW u, Copies(t, idx, u),
         pc \in Inside
  PROVE  Open(t, idx[Len(frames)], u[Len(frames)], u[Len(frames) - 1])
<1> DEFINE L == Len(frames)
           i == idx[L]
           r == u[L]
           b == u[L - 1]
<1>1. L \in Nat /\ L >= 1 /\ L \in 1..L /\ Top = nodes[L] /\ Back(frames) = frames[L]
  BY TopFacts DEF LiveInv, Depth, Back
<1>2. i \in Nat /\ b \in LexemeText /\ r \in LexemeText
  BY <1>1 DEF Copies
<1>3. Level(t, Top, Back(frames), i, r, b)
  BY <1>1 DEF Copies, Stack
<1> HIDE DEF i, r, b, L
<1>4. /\ Top \in DOMAIN t /\ IsContainer(t[Top]) /\ i \in 0..Len(Children(t, Top))
      /\ t[Top].type = (IF Back(frames).object THEN "object" ELSE "array")
      /\ ~Back(frames).object => Back(frames).index = i
      /\ r = After(t, Top, i) \o b
  BY <1>3 DEF Level, IsContainer
<1>5. Len(Children(t, Top)) \in Nat
  BY <1>4, ChildTexts
<1>6. i = Len(Children(t, Top)) \/ i < Len(Children(t, Top))
  BY <1>4, <1>5
<1>7. ASSUME i = Len(Children(t, Top))
      PROVE  r = <<Close>> \o b
  <2>1. After(t, Top, i) = Closing(t[Top])
    BY <1>4, <1>7, LastText
  <2>2. Closing(t[Top]) = <<Close>>
    BY <1>4 DEF Closing, Close
  <2> QED
    BY <1>4, <2>1, <2>2
<1>8. ASSUME i < Len(Children(t, Top))
      PROVE  /\ Child(t, i) \in DOMAIN t
             /\ After(t, Top, i + 1) \o b \in LexemeText
             /\ ChildText(t, i, b) \in LexemeText
             /\ MemberText(t, i, b) \in LexemeText
             /\ r = FastComma(i + 1) \o MemberText(t, i, b)
  <2>1. i \in Nat /\ b \in LexemeText
    BY <1>2
  <2>2. Top \in DOMAIN t /\ IsContainer(t[Top]) /\ r = After(t, Top, i) \o b
    BY <1>4
  <2>3. GoesOn(t, Top, i, Children(t, Top)[i + 1], b)
    BY <1>8, <2>1, <2>2, NextText
  <2>4. GoesOn(t, Top, i, Child(t, i), b)
    BY <2>3 DEF Child
  <2> QED
    BY <2>2, <2>4 DEF GoesOn, ChildText, MemberText
<1>9. Open(t, i, r, b)
  BY <1>2, <1>4, <1>5, <1>6, <1>7, <1>8 DEF Open
<1> QED
  BY <1>9 DEF i, r, b, L

\* Two texts that begin with a lexeme are the same text.
LEMMA SameHead ==
  ASSUME NEW x \in LexemeType, NEW s \in LexemeText,
         NEW y \in LexemeType, NEW r \in LexemeText, <<x>> \o s = <<y>> \o r
  PROVE  x = y /\ s = r
<1>1. Head(<<x>> \o s) = x /\ Tail(<<x>> \o s) = s
  BY HeadTailCons DEF LexemeText
<1>2. Head(<<y>> \o r) = y /\ Tail(<<y>> \o r) = r
  BY HeadTailCons DEF LexemeText
<1> QED
  BY <1>1, <1>2

LEMMA CommaText ==
  ASSUME NEW i \in Nat, NEW s \in LexemeText
  PROVE  /\ i = 0 => FastComma(i + 1) \o s = s
         /\ i >= 1 => FastComma(i + 1) \o s = <<Lexeme(",")>> \o s
<1>1. CASE i = 0
  <2>1. FastComma(i + 1) = <<>>
    BY <1>1 DEF FastComma
  <2> QED
    BY <1>1, <2>1, ConcatEmptySeq DEF LexemeText
<1>2. CASE i >= 1
  <2>1. FastComma(i + 1) = <<Lexeme(",")>>
    <3>1. i + 1 > 1
      BY <1>2
    <3> QED
      BY <3>1 DEF FastComma
  <2>2. ~(i = 0)
    BY <1>2
  <2> QED
    BY <2>1, <2>2
<1> QED
  BY <1>1, <1>2

LEMMA MarkTypes ==
  /\ \A type \in {",", ":", "}", "]", "eof"} :
       Lexeme(type) \in LexemeType /\ Lexeme(type).type = type
BY LexemeTypes DEF Kinds

\* The end of the innermost container is ahead, or its next child.
LEMMA EndOrNext ==
  ASSUME NEW t, NEW i, NEW r, NEW b, Open(t, i, r, b)
  PROVE  /\ i = Len(Children(t, Top)) \/ i < Len(Children(t, Top))
         /\ i = Len(Children(t, Top)) =>
              /\ rest = r => Ahead = Close /\ (Consumes => rest' = b)
              /\ rest \in LexemeText => r # <<Lexeme(",")>> \o rest
         /\ i < Len(Children(t, Top)) =>
              /\ MemberText(t, i, b) \in LexemeText
              /\ i = 0 => r = MemberText(t, i, b)
              /\ i >= 1 => r = <<Lexeme(",")>> \o MemberText(t, i, b)
<1> DEFINE n == Len(Children(t, Top))
<1>1. i \in Nat /\ n \in Nat /\ b \in LexemeText
  BY DEF Open
<1>2. i = n \/ i < n
  BY DEF Open
<1>3. Close \in LexemeType /\ Lexeme(",") \in LexemeType /\ Close # Lexeme(",")
  BY MarkTypes DEF Close
<1>4. ASSUME i = n
      PROVE  /\ rest = r => Ahead = Close /\ (Consumes => rest' = b)
             /\ rest \in LexemeText => r # <<Lexeme(",")>> \o rest
  <2>1. r = <<Close>> \o b
    BY <1>4 DEF Open
  <2> QED
    BY <1>1, <1>3, <2>1, AheadIs, SameHead
<1>5. ASSUME i < n
      PROVE  /\ MemberText(t, i, b) \in LexemeText
             /\ i = 0 => r = MemberText(t, i, b)
             /\ i >= 1 => r = <<Lexeme(",")>> \o MemberText(t, i, b)
  <2>1. MemberText(t, i, b) \in LexemeText /\ r = FastComma(i + 1) \o MemberText(t, i, b)
    BY <1>5 DEF Open
  <2> QED
    BY <1>1, <2>1, CommaText
<1> QED
  BY <1>2, <1>4, <1>5

LEMMA CopiesMember ==
  ASSUME LiveInv, CallKind, NEW t, WellFormed(t), NEW idx, NEW u, Copies(t, idx, u),
         pc = "member", Read(Ahead), Consumes
  PROVE  Copies(t, idx, u)'
<1> DEFINE L == Len(frames)
           i == idx[L]
           r == u[L]
           b == u[L - 1]
           n == Len(Children(t, Top))
           l == MemberText(t, i, b)
<1>1. pc \in Inside /\ pc \notin Values /\ Back(frames).object
  BY DEF Inside, Values, CallKind
<1>2. Open(t, i, r, b)
  BY <1>1, CallAhead
<1>3. /\ i = n \/ i < n
      /\ i = n => /\ rest = r => Ahead = Close /\ (Consumes => rest' = b)
                  /\ rest \in LexemeText => r # <<Lexeme(",")>> \o rest
      /\ i < n => /\ l \in LexemeText
                  /\ i = 0 => r = l
                  /\ i >= 1 => r = <<Lexeme(",")>> \o l
  <2> HIDE DEF i, r, b
  <2> QED
    BY <1>2, EndOrNext
<1>4. /\ \/ i = 0 /\ rest = r /\ Back(frames).name = <<>>
         \/ i >= 1 /\ r = <<Lexeme(",")>> \o rest
      /\ rest \in LexemeText
  BY DEF Copies, Left
<1>5. Lexeme(",") \in LexemeType /\ Lexeme("}").type = "}"
  BY MarkTypes
<1>6. CASE i = n
  <2>1. rest = r /\ Back(frames).name = <<>>
    BY <1>3, <1>4, <1>6
  <2>2. Ahead = Lexeme("}") /\ rest' = b
    BY <1>1, <1>3, <1>6, <2>1 DEF Close
  <2>3. Read(Lexeme("}"))
    BY <2>2
  <2>4. Finish
    BY <1>5, <2>1, <2>3 DEF Read, SkipSpaces, ReadComment, ReadScalar, DecodeFails,
       SyntaxError, Begin, AtValue, MemberName, Colon, Comma, EmptyArray, Separator,
       Recover, End
  <2> QED
    BY <1>1, <1>6, <2>2, <2>4, CopiesFinish
<1>7. CASE i < n
  <2>1. rest = l
    <3>1. CASE i = 0 /\ rest = r
      BY <1>3, <1>7, <3>1
    <3>2. CASE i >= 1 /\ r = <<Lexeme(",")>> \o rest
      <4>1. l \in LexemeText /\ <<Lexeme(",")>> \o rest = <<Lexeme(",")>> \o l
        BY <1>3, <1>7, <3>2
      <4> HIDE DEF l
      <4> QED
        BY <1>4, <1>5, <4>1, SameHead
    <3> QED
      BY <1>4, <3>1, <3>2
  <2>2. PICK s \in PlainName :
          /\ Child(t, i) = Append(Top, Name(s))
          /\ <<Lexeme(":")>> \o ChildText(t, i, b) \in LexemeText
          /\ l = <<StringLexeme(s)>> \o (<<Lexeme(":")>> \o ChildText(t, i, b))
    <3> DEFINE z == ChildText(t, i, b)
    <3>1. i \in Nat /\ i < n /\ z \in LexemeText
      BY <1>2, <1>7 DEF Open
    <3>2. Top \in DOMAIN t /\ IsContainer(t[Top]) /\ t[Top].type = "object"
      BY <1>1, <1>2 DEF Open
    <3> HIDE DEF i, z
    <3>3. Labelled(Top, Children(t, Top)[i + 1], z)
      BY <3>1, <3>2, ChildKey
    <3> QED
      BY <3>3 DEF Labelled, Child, z, MemberText
  <2> DEFINE x == StringLexeme(s)
             w == <<Lexeme(":")>> \o ChildText(t, i, b)
  <2>3. x \in LexemeType /\ x.type = "string" /\ x.str = s /\ ~BadScalar(x)
        /\ DecodeString(s) = s
    BY NameReads
  <2>4. w \in LexemeText /\ rest = <<x>> \o w
    BY <2>1, <2>2
  <2> HIDE DEF x, w
  <2>5. Ahead = x /\ rest' = w
    BY <2>3, <2>4, AheadIs
  <2>6. Read(x)
    BY <2>5
  <2>7. MemberName(x)
    BY <2>3, <2>6 DEF Read, SkipSpaces, ReadComment, ReadScalar, DecodeFails,
       SyntaxError, Begin, AtValue, Colon, Comma, EmptyArray, Separator,
       Recover, End
  <2>8. /\ frames' = [frames EXCEPT ![Len(frames)].name = s]
        /\ pc' = "colon" /\ tree' = tree /\ nodes' = nodes /\ before' = before
    BY <2>3, <2>7 DEF MemberName
  <2>9. /\ Len(frames') = Len(frames)
        /\ \A d \in 1..Len(frames) : d # Len(frames) => frames'[d] = frames[d]
        /\ Back(frames').object = Back(frames).object
        /\ Back(frames').index = Back(frames).index
        /\ Back(frames').name = s
    BY <1>1, <2>8, NameKeeps
  <2>10. \A d \in 1..Len(frames) : /\ frames'[d].object = frames[d].object
                                   /\ frames'[d].index = frames[d].index
    <3> TAKE d \in 1..Len(frames)
    <3>1. CASE d = Len(frames)
      BY <2>9, <3>1 DEF Back
    <3>2. CASE d # Len(frames)
      BY <2>9, <3>2
    <3> QED
      BY <3>1, <3>2
  <2>11. Top' = Top
    BY <2>8 DEF Top
  <2>12. Left(t, idx[Len(frames)], u[Len(frames)], u[Len(frames) - 1])'
    <3>1. /\ idx[Len(frames')] < Len(Children(t, Top'))
          /\ Child(t, idx[Len(frames)])' = Append(Top', Name(Back(frames').name))
      BY <1>7, <2>2, <2>9, <2>11 DEF Child
    <3>2. rest' = <<Lexeme(":")>>
                    \o ChildText(t, idx[Len(frames)], u[Len(frames) - 1])'
      BY <2>5, <2>9, <2>11 DEF w, ChildText, Child
    <3> QED
      BY <2>8, <3>1, <3>2 DEF Left, Values, Ends
  <2>13. rest' \in LexemeText
    BY <2>4, <2>5
  <2>14. /\ pc' \notin Values /\ DOMAIN tree' = DOMAIN tree
         /\ \A q \in DOMAIN t : ReadIn(tree, t, q) => ReadIn(tree', t, q)
    BY <2>8 DEF Values
  <2> QED
    BY <1>1, <2>8, <2>9, <2>10, <2>12, <2>13, <2>14, CopiesStays
<1> QED
  BY <1>3, <1>6, <1>7

LEMMA CopiesComma ==
  ASSUME LiveInv, CallKind, NEW t, WellFormed(t), NEW idx, NEW u, Copies(t, idx, u),
         pc = "comma", Read(Ahead), Consumes
  PROVE  Copies(t, idx, u)'
<1> DEFINE L == Len(frames)
           i == idx[L]
           r == u[L]
           b == u[L - 1]
           n == Len(Children(t, Top))
           l == MemberText(t, i, b)
<1>1. pc \in Inside /\ pc \notin Values /\ Back(frames).object
  BY DEF Inside, Values, CallKind
<1>2. Open(t, i, r, b)
  BY <1>1, CallAhead
<1>3. /\ i = n \/ i < n
      /\ i = n => /\ rest = r => Ahead = Close /\ (Consumes => rest' = b)
                  /\ rest \in LexemeText => r # <<Lexeme(",")>> \o rest
      /\ i < n => /\ l \in LexemeText
                  /\ i = 0 => r = l
                  /\ i >= 1 => r = <<Lexeme(",")>> \o l
  <2> HIDE DEF i, r, b
  <2> QED
    BY <1>2, EndOrNext
<1>4. i >= 1 /\ rest = r
  BY DEF Copies, Left
<1>5. /\ Lexeme(",") \in LexemeType
      /\ Lexeme("}").type = "}" /\ Lexeme(",").type = ","
  BY MarkTypes
<1>6. CASE i = n
  <2>1. Ahead = Lexeme("}") /\ rest' = b
    BY <1>1, <1>3, <1>4, <1>6 DEF Close
  <2>2. Read(Lexeme("}"))
    BY <2>1
  <2>3. Finish
    BY <1>5, <2>2 DEF Read, SkipSpaces, ReadComment, ReadScalar, DecodeFails,
       SyntaxError, Begin, AtValue, MemberName, Colon, Comma, EmptyArray, Separator,
       Recover, End
  <2> QED
    BY <1>1, <1>6, <2>1, <2>3, CopiesFinish
<1>7. CASE i < n
  <2>1. l \in LexemeText /\ rest = <<Lexeme(",")>> \o l
    BY <1>3, <1>4, <1>7
  <2>2. Ahead = Lexeme(",") /\ rest' = l
    <3> HIDE DEF l
    <3> QED
      BY <1>5, <2>1, AheadIs
  <2>3. Read(Lexeme(","))
    BY <2>2
  <2>4. Comma(Lexeme(","))
    BY <1>5, <2>3 DEF Read, SkipSpaces, ReadComment, ReadScalar, DecodeFails,
       SyntaxError, Begin, AtValue, MemberName, Colon, EmptyArray, Separator,
       Recover, End
  <2>5. /\ frames' = frames /\ pc' = "member" /\ tree' = tree /\ nodes' = nodes
        /\ before' = before
    BY <1>5, <2>4 DEF Comma
  <2>6. Left(t, idx[Len(frames)], u[Len(frames)], u[Len(frames) - 1])'
    BY <1>4, <2>1, <2>2, <2>5 DEF Left, Values, Ends
  <2>7. rest' \in LexemeText
    BY <2>1, <2>2
  <2>8. /\ pc' \notin Values /\ DOMAIN tree' = DOMAIN tree
        /\ \A q \in DOMAIN t : ReadIn(tree, t, q) => ReadIn(tree', t, q)
    BY <2>5 DEF Values
  <2> QED
    BY <1>1, <2>5, <2>6, <2>7, <2>8, CopiesStays
<1> QED
  BY <1>3, <1>6, <1>7

LEMMA CopiesColon ==
  ASSUME LiveInv, LiveInv', CallKind, NEW t, WellFormed(t),
         NEW idx, NEW u, Copies(t, idx, u), pc = "colon", Read(Ahead), Consumes
  PROVE  \E idx2, u2 : Copies(t, idx2, u2)'
<1> DEFINE L == Len(frames)
           i == idx[L]
           r == u[L]
           b == u[L - 1]
           n == Len(Children(t, Top))
           z == ChildText(t, i, b)
           k == Name(Back(frames).name)
<1>1. pc \in Inside /\ Back(frames).object
  BY DEF Inside, CallKind
<1>2. Open(t, i, r, b)
  BY <1>1, CallAhead
<1>3. i < n /\ Child(t, i) = Append(Top, k) /\ rest = <<Lexeme(":")>> \o z
  BY DEF Copies, Left
<1>4. z \in LexemeText
  BY <1>2, <1>3 DEF Open
<1>5. Lexeme(":") \in LexemeType /\ Lexeme(":").type = ":"
  BY MarkTypes
<1>6. Ahead = Lexeme(":") /\ rest' = z
  <2> HIDE DEF z
  <2> QED
    BY <1>3, <1>4, <1>5, AheadIs
<1>7. Read(Lexeme(":"))
  BY <1>6
<1>8. Colon(Lexeme(":"))
  BY <1>5, <1>7 DEF Read, SkipSpaces, ReadComment, ReadScalar, DecodeFails,
     SyntaxError, Begin, AtValue, MemberName, Comma, EmptyArray, Separator,
     Recover, End
<1>9. PushMember(k) /\ pc' = "value" /\ frames' = frames
  BY <1>5, <1>8 DEF Colon
<1>10. pc' \in Values /\ frames[Len(frames)].object
  BY <1>1, <1>9 DEF Values, Back
<1>11. /\ Children(t, Top)[i + 1] = Append(Top, k)
       /\ rest' = FastValue(t)[Append(Top, k)]
                    \o (After(t, Top, i + 1) \o u[Len(frames) - 1])
  BY <1>3, <1>6 DEF Child, ChildText
<1>12. i = idx[Len(frames)] /\ i < Len(Children(t, Top))
  BY <1>3
<1> HIDE DEF i, k
<1> QED
  BY <1>1, <1>9, <1>10, <1>11, <1>12, CopiesPush

LEMMA ArrayText ==
  ASSUME NEW t, WellFormed(t), NEW i, NEW r, NEW b, Open(t, i, r, b),
         ~Back(frames).object, i < Len(Children(t, Top))
  PROVE  /\ Child(t, i) = Append(Top, Index(Back(frames).index))
         /\ MemberText(t, i, b) = ChildText(t, i, b)
<1> DEFINE z == ChildText(t, i, b)
<1>1. i \in Nat /\ z \in LexemeText /\ Back(frames).index = i
  BY DEF Open
<1>2. Top \in DOMAIN t /\ IsContainer(t[Top]) /\ t[Top].type = "array"
  BY DEF Open
<1> HIDE DEF z
<1>3. /\ Children(t, Top)[i + 1] = Append(Top, Index(i))
      /\ FastLabel(Children(t, Top)[i + 1]) \o z = z
  BY <1>1, <1>2, ChildKey
<1> QED
  BY <1>1, <1>3 DEF Child, MemberText, z

\* What is left to read after a step.
LeftOver(z) == rest' = z

LEMMA CopiesElement ==
  ASSUME LiveInv, LiveInv', NEW t, WellFormed(t), NEW idx, NEW u, Copies(t, idx, u),
         pc \in Inside, ~Back(frames).object, NEW at \in Values, NextElement(at),
         idx[Len(frames)] < Len(Children(t, Top)),
         LeftOver(ChildText(t, idx[Len(frames)], u[Len(frames) - 1]))
  PROVE  \E idx2, u2 : Copies(t, idx2, u2)'
<1> DEFINE L == Len(frames)
           i == idx[L]
           b == u[L - 1]
           k == Index(Back(frames).index)
<1>1. Open(t, i, u[L], b)
  BY CallAhead
<1>2. Child(t, i) = Append(Top, k) /\ Back(frames).index = i
  <2>1. i < Len(Children(t, Top))
    OBVIOUS
  <2> HIDE DEF i, b
  <2> QED
    BY <1>1, <2>1, ArrayText DEF Open
<1>3. /\ PushMember(k) /\ pc' \in Values
      /\ frames' = [frames EXCEPT ![Len(frames)].index = @ + 1]
  BY DEF NextElement
<1>4. /\ Len(frames') = Len(frames)
      /\ \A d \in 1..Len(frames) : d # Len(frames) => frames'[d] = frames[d]
      /\ frames'[Len(frames)].object = frames[Len(frames)].object
      /\ frames'[Len(frames)].index = i + 1
  BY <1>2, <1>3, IndexKeeps DEF Back
<1>5. /\ Children(t, Top)[i + 1] = Append(Top, k)
      /\ rest' = FastValue(t)[Append(Top, k)]
                   \o (After(t, Top, i + 1) \o u[Len(frames) - 1])
  BY <1>2 DEF Child, ChildText, LeftOver
<1>6. i = idx[Len(frames)] /\ i < Len(Children(t, Top))
  OBVIOUS
<1>7. PushMember(k)
  BY <1>3
<1>8. pc' \in Values
  BY <1>3
<1>9. ~frames[Len(frames)].object => frames'[Len(frames)].index = i + 1
  BY <1>4
<1>10. \A d \in 1..Len(frames) : d # Len(frames) => frames'[d] = frames[d]
  BY <1>4
<1>11. /\ Len(frames') = Len(frames)
       /\ frames'[Len(frames)].object = frames[Len(frames)].object
  BY <1>4
<1>12. pc \in Inside
  OBVIOUS
<1> HIDE DEF i, k
<1> QED
  BY <1>5, <1>6, <1>7, <1>8, <1>9, <1>10, <1>11, <1>12, CopiesPush

LEMMA CopiesSeparator ==
  ASSUME LiveInv, LiveInv', CallKind, NEW t, WellFormed(t),
         NEW idx, NEW u, Copies(t, idx, u), pc = "separator", Read(Ahead), Consumes
  PROVE  \E idx2, u2 : Copies(t, idx2, u2)'
<1> DEFINE L == Len(frames)
           i == idx[L]
           r == u[L]
           b == u[L - 1]
           n == Len(Children(t, Top))
           l == MemberText(t, i, b)
<1>1. pc \in Inside /\ ~Back(frames).object
  BY DEF Inside, CallKind
<1>2. Open(t, i, r, b)
  BY <1>1, CallAhead
<1>3. /\ i = n \/ i < n
      /\ i = n => /\ rest = r => Ahead = Close /\ (Consumes => rest' = b)
                  /\ rest \in LexemeText => r # <<Lexeme(",")>> \o rest
      /\ i < n => /\ l \in LexemeText
                  /\ i = 0 => r = l
                  /\ i >= 1 => r = <<Lexeme(",")>> \o l
  <2> HIDE DEF i, r, b
  <2> QED
    BY <1>2, EndOrNext
<1>4. i >= 1 /\ rest = r
  BY DEF Copies, Left
<1>5. /\ Lexeme(",") \in LexemeType
      /\ Lexeme("]").type = "]" /\ Lexeme(",").type = ","
  BY MarkTypes
<1>6. CASE i = n
  <2>1. Ahead = Lexeme("]") /\ rest' = b
    BY <1>1, <1>3, <1>4, <1>6 DEF Close
  <2>2. Read(Lexeme("]"))
    BY <2>1
  <2>3. Finish
    BY <1>5, <2>2 DEF Read, SkipSpaces, ReadComment, ReadScalar, DecodeFails,
       SyntaxError, Begin, AtValue, MemberName, Colon, Comma, EmptyArray, Separator,
       Recover, End
  <2>4. Copies(t, idx, u)'
    BY <1>1, <1>6, <2>1, <2>3, CopiesFinish
  <2> QED
    BY <2>4
<1>7. CASE i < n
  <2>1. l \in LexemeText /\ rest = <<Lexeme(",")>> \o l
    BY <1>3, <1>4, <1>7
  <2>2. Ahead = Lexeme(",") /\ rest' = l
    <3> HIDE DEF l
    <3> QED
      BY <1>5, <2>1, AheadIs
  <2>3. Read(Lexeme(","))
    BY <2>2
  <2>4. Separator(Lexeme(","))
    BY <1>5, <2>3 DEF Read, SkipSpaces, ReadComment, ReadScalar, DecodeFails,
       SyntaxError, Begin, AtValue, MemberName, Colon, Comma, EmptyArray,
       Recover, End
  <2>5. NextElement("value")
    BY <1>5, <2>4 DEF Separator
  <2>6. rest' = ChildText(t, i, b)
    <3> HIDE DEF i, r, b
    <3> QED
      BY <1>1, <1>2, <1>7, <2>2, ArrayText
  <2>7. "value" \in Values
    BY DEF Values
  <2>8. LeftOver(ChildText(t, idx[Len(frames)], u[Len(frames) - 1]))
    BY <2>6 DEF LeftOver
  <2> QED
    BY <1>1, <1>7, <2>5, <2>7, <2>8, CopiesElement
<1> QED
  BY <1>3, <1>6, <1>7

\* A value is ahead, at its first lexeme.
LEMMA ValueAhead ==
  ASSUME NEW t, WellFormed(t), Writable(t), NEW p \in DOMAIN t,
         NEW s \in LexemeText, rest = FastValue(t)[p] \o s
  PROVE  Ahead.type \in ScalarToken \cup {"[", "{"}
<1>1. CASE IsContainer(t[p])
  <2> DEFINE a == After(t, p, 0) \o s
             x == Lexeme(IF t[p].type = "array" THEN "[" ELSE "{")
  <2>1. a \in LexemeText /\ rest = <<x>> \o a
    BY <1>1, FirstText DEF Opening
  <2>2. x \in LexemeType /\ x.type \in {"[", "{"}
    BY LexemeTypes DEF Kinds
  <2> HIDE DEF a, x
  <2> QED
    BY <2>1, <2>2, AheadIs
<1>2. CASE ~IsContainer(t[p])
  <2> DEFINE x == ScalarLexeme(t[p])
  <2>3. Sound(t[p]) /\ t[p].type \notin {"array", "object"} /\ WritesWhole(t[p])
    BY <1>2 DEF WellFormed, IsContainer, Writable
  <2>1. rest = <<x>> \o s
    BY <1>2, <2>3, FastValueIs, ScalarsReadBack DEF TextRule
  <2>2. x \in LexemeType /\ x.type \in ScalarToken
    BY <2>3, ScalarsReadBack
  <2> HIDE DEF x
  <2> QED
    BY <2>1, <2>2, AheadIs
<1> QED
  BY <1>1, <1>2

LEMMA CopiesFirst ==
  ASSUME LiveInv, LiveInv', CallKind, NEW t, WellFormed(t),
         NEW idx, NEW u, Copies(t, idx, u), pc = "first",
         \/ Ahead.type \notin {"]", "newline", "space"} /\ FirstElement
              /\ UNCHANGED rest
         \/ Read(Ahead) /\ Consumes
  PROVE  \E idx2, u2 : Copies(t, idx2, u2)'
<1> DEFINE L == Len(frames)
           i == idx[L]
           r == u[L]
           b == u[L - 1]
           n == Len(Children(t, Top))
           l == MemberText(t, i, b)
<1>1. pc \in Inside /\ ~Back(frames).object
  BY DEF Inside, CallKind
<1>2. Open(t, i, r, b)
  BY <1>1, CallAhead
<1>3. /\ i = n \/ i < n
      /\ i = n => /\ rest = r => Ahead = Close /\ (Consumes => rest' = b)
                  /\ rest \in LexemeText => r # <<Lexeme(",")>> \o rest
      /\ i < n => /\ l \in LexemeText
                  /\ i = 0 => r = l
                  /\ i >= 1 => r = <<Lexeme(",")>> \o l
  <2> HIDE DEF i, r, b
  <2> QED
    BY <1>2, EndOrNext
<1>4. i = 0 /\ rest = r
  BY DEF Copies, Left
<1>5. Lexeme("]").type = "]"
  BY MarkTypes
<1>6. CASE i = n
  <2>1. Ahead = Lexeme("]") /\ (Consumes => rest' = b)
    BY <1>1, <1>3, <1>4, <1>6 DEF Close
  <2>2. Read(Lexeme("]")) /\ rest' = b
    BY <1>5, <2>1
  <2>3. Finish
    BY <1>5, <2>2 DEF Read, SkipSpaces, ReadComment, ReadScalar, DecodeFails,
       SyntaxError, Begin, AtValue, MemberName, Colon, Comma, EmptyArray, Separator,
       Recover, End
  <2>4. Copies(t, idx, u)'
    BY <1>1, <1>6, <2>2, <2>3, CopiesFinish
  <2> QED
    BY <2>4
<1>7. CASE i < n
  <2>1. rest = ChildText(t, i, b)
    <3>1. rest = l
      BY <1>3, <1>4, <1>7
    <3> HIDE DEF i, r, b
    <3> QED
      BY <1>1, <1>2, <1>7, <3>1, ArrayText
  <2>2. Ahead.type \in ScalarToken \cup {"[", "{"}
    <3>1. Child(t, i) \in DOMAIN t /\ After(t, Top, i + 1) \o b \in LexemeText
      BY <1>2, <1>7 DEF Open
    <3> QED
      BY <2>1, <3>1, ValueAhead DEF ChildText, Copies
  <2>3. ~Read(Ahead)
    BY <2>2 DEF Read, SkipSpaces, ReadComment, ReadScalar, DecodeFails,
       SyntaxError, Begin, AtValue, MemberName, Colon, Comma, EmptyArray, Separator,
       Recover, End, ScalarToken
  <2>4. NextElement("firstValue") /\ rest' = rest
    BY <2>3 DEF FirstElement
  <2>5. "firstValue" \in Values /\ rest' = ChildText(t, i, b)
    BY <2>1, <2>4 DEF Values
  <2>6. LeftOver(ChildText(t, idx[Len(frames)], u[Len(frames) - 1]))
    BY <2>5 DEF LeftOver
  <2> QED
    BY <1>1, <1>7, <2>4, <2>5, <2>6, CopiesElement
<1> QED
  BY <1>3, <1>6, <1>7

LEMMA CopiesEnd ==
  ASSUME LiveInv, NEW t, NEW idx, NEW u, Copies(t, idx, u), pc \in Ends,
         Read(Ahead), Consumes
  PROVE  Copies(t, idx, u)'
<1>1. rest = <<>> /\ successful /\ rest \in LexemeText /\ before = <<>>
  BY DEF Copies, Left
<1>2. Ahead = Lexeme("eof") /\ rest' = <<>>
  BY <1>1 DEF Ahead, Consumes
<1>3. Ahead.type = "eof"
  BY <1>2, MarkTypes
<1>4. End(Ahead)
  BY <1>3 DEF Read, SkipSpaces, ReadComment, ReadScalar, DecodeFails, SyntaxError,
     Begin, AtValue, MemberName, Colon, Comma, EmptyArray, Separator, Recover, Ends
<1>5. /\ tree' = tree /\ nodes' = nodes /\ frames' = frames /\ before' = before
      /\ pc' = "done" /\ successful' = successful
  BY <1>1, <1>4 DEF End
<1>6. Left(t, idx[Len(frames)], u[Len(frames)], u[Len(frames) - 1])'
  BY <1>1, <1>2, <1>5 DEF Left, Values, Ends
<1>7. pc \notin Values /\ pc' \notin Values
  BY <1>5 DEF Values, Ends
<1>8. rest' \in LexemeText
  BY <1>1, <1>2
<1>9. \A q \in DOMAIN t : ReadIn(tree, t, q) => ReadIn(tree', t, q)
  BY <1>5
<1> QED
  BY <1>5, <1>6, <1>7, <1>8, <1>9, CopiesStays

\* Every step of the reader on the text keeps what has been read a copy.
LEMMA CopiesStep ==
  ASSUME LiveInv, LiveInv', CallKind, NEW t, WellFormed(t),
         NEW idx, NEW u, Copies(t, idx, u), ReadAgain
  PROVE  \E idx2, u2 : Copies(t, idx2, u2)'
<1>1. \/ Ahead.type \notin {"]", "newline", "space"} /\ FirstElement /\ UNCHANGED rest
      \/ Read(Ahead) /\ Consumes
  BY DEF ReadAgain, Consumes
<1>2. CASE pc = "first"
  BY <1>1, <1>2, CopiesFirst
<1>3. CASE pc # "first"
  <2>1. Read(Ahead) /\ Consumes
    BY <1>1, <1>3 DEF FirstElement
  <2>2. ASSUME Copies(t, idx, u)' PROVE \E idx2, u2 : Copies(t, idx2, u2)'
    BY <2>2
  <2>3. CASE pc \in Values /\ ~IsContainer(t[Top])
    BY <2>1, <2>2, <2>3, CopiesScalar
  <2>4. CASE pc \in Values /\ IsContainer(t[Top])
    BY <2>1, <2>4, CopiesBegin
  <2>5. CASE pc = "member"
    BY <2>1, <2>2, <2>5, CopiesMember
  <2>6. CASE pc = "colon"
    BY <2>1, <2>6, CopiesColon
  <2>7. CASE pc = "comma"
    BY <2>1, <2>2, <2>7, CopiesComma
  <2>8. CASE pc = "separator"
    BY <2>1, <2>8, CopiesSeparator
  <2>9. CASE pc \in Ends
    BY <2>1, <2>2, <2>9, CopiesEnd
  <2>10. pc \in Values \cup Inside \cup Ends /\ pc \notin {"recover", "dropped"}
    BY DEF LiveInv, Typed, Copies, Left
  <2> QED
    BY <1>3, <2>3, <2>4, <2>5, <2>6, <2>7, <2>8, <2>9, <2>10 DEF Inside
<1> QED
  BY <1>2, <1>3

\* The text goes to a new call of parse, which has read nothing of it.
FreshIndex == [n \in Nat |-> 0]
FreshText == [n \in Nat |-> <<>>]

LEMMA WrittenText ==
  ASSUME NEW t, WellFormed(t)
  PROVE  /\ Pop(FastText(t)) = FastValue(t)[<<>>]
         /\ FastValue(t)[<<>>] \in LexemeText
<1> DEFINE w == FastValue(t)[<<>>]
           e == Lexeme("newline")
<1>1. w \in LexemeText
  BY FastValueIs DEF WellFormed
<1>2. e \in LexemeType
  BY LexemeTypes DEF Kinds
<1>3. FastText(t) = w \o <<e>>
  BY DEF FastText, Newline
<1> HIDE DEF w, e
<1>4. FastText(t) = Append(w, e)
  BY <1>1, <1>2, <1>3, AppendIsConcat DEF LexemeText
<1>5. Pop(Append(w, e)) = w
  BY <1>1, <1>2, PopAppend DEF LexemeText
<1> QED
  BY <1>1, <1>4, <1>5 DEF w

LEMMA EmptyPath ==
  ASSUME NEW q \in PlainPath
  PROVE  AtOrBelow(<<>>, q)
<1>1. q \in Seq(PlainKey) /\ Len(q) \in Nat
  BY LenProperties DEF PlainPath
<1>2. CASE Len(q) = 0
  BY <1>1, <1>2, EmptySeq DEF AtOrBelow
<1>3. CASE Len(q) > 0
  <2>1. Len(<<>>) = 0 /\ SubSeq(q, 1, 0) = <<>>
    BY <1>1
  <2> QED
    BY <1>3, <2>1 DEF AtOrBelow, Below
<1> QED
  BY <1>1, <1>2, <1>3

LEMMA CopiesStart ==
  ASSUME NEW t, t = tree, WellFormed(t), Writable(t), WriteCopy(FastText(tree))
  PROVE  Copies(t, FreshIndex, FreshText)'
<1>1. /\ tree' = NewValue("null") /\ nodes' = <<<<>>>> /\ frames' = <<>>
      /\ pc' = "value" /\ before' = <<>>
  BY DEF WriteCopy, Parse
<1>2. rest' = FastValue(t)[<<>>] /\ rest' \in LexemeText
  BY WrittenText DEF WriteCopy
<1>3. Len(frames') = 0 /\ Top' = <<>>
  BY <1>1 DEF Top, Back
<1>4. /\ FreshIndex \in [Nat -> Nat] /\ FreshText \in [Nat -> LexemeText]
      /\ FreshText[0] = <<>>
  BY DEF FreshIndex, FreshText, LexemeText
<1>5. DOMAIN tree' = {<<>>} /\ <<>> \in DOMAIN t /\ DOMAIN t \subseteq PlainPath
  BY <1>1 DEF NewValue, Leaf, WellFormed
<1>6. Stack(t, FreshIndex, FreshText)'
  BY <1>3 DEF Stack
<1>7. rest' = FastValue(t)[<<>>] \o <<>>
  BY <1>2, ConcatEmptySeq DEF LexemeText
<1>8. Left(t, FreshIndex[0], FreshText[0], FreshText[0 - 1])'
  BY <1>1, <1>3, <1>4, <1>5, <1>7 DEF Left, Values, Ends
<1>9. \A q \in DOMAIN t : pc' \in Values /\ AtOrBelow(Top', q)
  BY <1>1, <1>3, <1>5, EmptyPath DEF Values
<1> HIDE DEF FreshIndex, FreshText
<1> QED
  BY <1>1, <1>2, <1>3, <1>4, <1>5, <1>6, <1>8, <1>9 DEF Copies

\* When parse returns, all of t has been read.
LEMMA CopiesEnds ==
  ASSUME LiveInv, NEW t, NEW idx, NEW u, Copies(t, idx, u), pc = "done"
  PROVE  /\ successful
         /\ DOMAIN tree = DOMAIN t
         /\ \A p \in DOMAIN tree : SameValue(tree[p], t[p])
<1>1. successful /\ DOMAIN tree \subseteq DOMAIN t
  BY DEF Copies, Left, Ends
<1>2. Len(frames) = 0
  BY DEF LiveInv, Depth, Ends
<1>3. ASSUME NEW q \in DOMAIN t PROVE ReadIn(tree, t, q)
  <2>1. ~Later(t, nodes, Len(frames), idx, q)
    BY <1>2 DEF Later
  <2>2. pc \notin Values
    BY DEF Values
  <2> QED
    BY <2>1, <2>2 DEF Copies
<1> QED
  BY <1>1, <1>3 DEF ReadIn

\* Of every text that is parsed, and of the text it is written as: nodes_ and the
\* calls fit the tree; until it is written the tree is one that a text can make;
\* then what is read is a copy of what was written, as far as it goes.
CopyInv ==
  /\ LiveInv
  /\ CallKind
  /\ original = {} => GoodNodes(tree) /\ Grown
  /\ rest \in LexemeText
  /\ \A t \in original :
       WellFormed(t) /\ (Writable(t) => \E idx, u : Copies(t, idx, u))

LEMMA FreshGrown ==
  ParseInit => CallKind /\ GoodNodes(tree) /\ Grown
<1> SUFFICES ASSUME ParseInit PROVE CallKind /\ GoodNodes(tree) /\ Grown
  OBVIOUS
<1>1. CallKind
  BY DEF ParseInit, CallKind
<1>2. GoodNodes(tree)
  BY GoodContainer DEF ParseInit, NewValue, Leaf, GoodNodes
<1>3. /\ DOMAIN tree = {<<>>}
      /\ \A p \in DOMAIN tree : /\ tree[p].type = "null" /\ tree[p].num = 0
                                /\ tree[p].str = <<>>
  BY DEF ParseInit, NewValue, Leaf, Node
<1>4. WellFormed(tree)
  <2>1. IsFiniteSet(DOMAIN tree)
    BY <1>3, FS_Singleton
  <2>2. <<>> \in PlainPath
    BY DEF PlainPath
  <2>3. \A p \in DOMAIN tree : Sound(tree[p])
    BY <1>3 DEF Sound, Types
  <2>4. \A p \in PlainPath, k \in PlainKey : Append(p, k) # <<>>
    BY AppendPath DEF PlainPath
  <2> QED
    BY <1>3, <2>1, <2>2, <2>3, <2>4 DEF WellFormed
<1>5. Len(frames) = 0
  BY DEF ParseInit
<1> QED
  BY <1>1, <1>2, <1>4, <1>5 DEF Grown

LEMMA ParseAgain == Parse => LiveInv' /\ CallKind'
<1>1. Parse => ParseInit'
  BY DEF Parse, ParseInit
<1>2. ParseInit => LiveInv /\ CallKind
  BY LiveInit, FreshGrown
<1>3. ParseInit' => LiveInv' /\ CallKind'
  BY <1>2, PTL
<1> QED
  BY <1>1, <1>3

LEMMA AheadType ==
  ASSUME rest \in LexemeText
  PROVE  Ahead \in LexemeType
<1>1. CASE rest = <<>>
  BY <1>1, MarkTypes DEF Ahead
<1>2. CASE rest # <<>>
  BY <1>2, HeadTailProperties DEF Ahead, LexemeText
<1> QED
  BY <1>1, <1>2

LEMMA CopyStep == CopyInv /\ [CopyNext]_copyVars => CopyInv'
<1> SUFFICES ASSUME CopyInv, [CopyNext]_copyVars PROVE CopyInv'
  OBVIOUS
<1>1. LiveInv /\ CallKind
  BY DEF CopyInv
<1>2. CASE original = {} /\ ReaderNext /\ UNCHANGED <<original, rest>>
  <2>1. GoodNodes(tree) /\ Grown
    BY <1>2 DEF CopyInv
  <2>2. [PlainNext]_readerVars /\ [AnyNext]_readerVars
    BY <1>2, PlainStep
  <2>3. LiveInv' /\ CallKind'
    BY <1>1, <2>2, LiveStep, KindStep
  <2>4. GoodNodes(tree')
    BY <1>1, <2>1, <2>2, GoodStep
  <2>5. Grown'
    BY <1>1, <2>1, <2>2, GrownStep
  <2>6. rest' \in LexemeText
    BY <1>2 DEF CopyInv
  <2> QED
    BY <1>2, <2>3, <2>4, <2>5, <2>6 DEF CopyInv, GoodNodes
<1>3. CASE WriteCopy(FastText(tree))
  <2>1. original' = {tree} /\ Parse /\ WellFormed(tree)
    BY <1>3 DEF WriteCopy, CopyInv, Grown
  <2>2. LiveInv' /\ CallKind'
    BY <2>1, ParseAgain
  <2>3. ASSUME NEW t \in original'
        PROVE  WellFormed(t) /\ (Writable(t) => \E idx, u : Copies(t, idx, u)')
    <3>1. t = tree /\ WellFormed(t)
      BY <2>1, <2>3
    <3>2. Writable(t) => Copies(t, FreshIndex, FreshText)'
      BY <1>3, <3>1, CopiesStart
    <3> QED
      BY <3>1, <3>2
  <2>4. rest' \in LexemeText
    BY <1>3, <2>1, WrittenText DEF WriteCopy
  <2> QED
    BY <2>1, <2>2, <2>3, <2>4 DEF CopyInv
<1>4. CASE ReadAgain
  <2>1. original # {} /\ original' = original
    BY <1>4 DEF ReadAgain
  <2>3. rest \in LexemeText
    BY DEF CopyInv
  <2>7. rest' \in LexemeText
    BY <1>4, <2>3, HeadTailProperties DEF ReadAgain, LexemeText
  <2>4. AnyNext
    BY <1>4, <2>3, AheadType DEF ReadAgain, AnyNext
  <2>5. LiveInv' /\ CallKind'
    BY <1>1, <2>4, LiveStep, KindStep
  <2>6. ASSUME NEW t \in original, Writable(t) PROVE \E idx, u : Copies(t, idx, u)'
    <3>1. WellFormed(t)
      BY DEF CopyInv
    <3>2. PICK idx, u : Copies(t, idx, u)
      BY <2>6 DEF CopyInv
    <3> QED
      BY <1>1, <1>4, <2>5, <3>1, <3>2, CopiesStep
  <2> QED
    BY <2>1, <2>5, <2>6, <2>7 DEF CopyInv
<1>5. CASE UNCHANGED copyVars
  <2>1. UNCHANGED <<readerVars, original, rest>>
    BY <1>5 DEF copyVars
  <2>2. [AnyNext]_readerVars /\ [PlainNext]_readerVars
    BY <2>1
  <2>3. LiveInv' /\ CallKind'
    BY <1>1, <2>2, LiveStep, KindStep
  <2>4. original = {} => GoodNodes(tree') /\ Grown'
    BY <1>1, <2>2, GoodStep, GrownStep DEF CopyInv
  <2>5. ASSUME NEW t \in original, Writable(t) PROVE \E idx, u : Copies(t, idx, u)'
    <3>2. PICK idx, u : Copies(t, idx, u)
      BY <2>5 DEF CopyInv
    <3>3. Copies(t, idx, u)'
      BY <2>1, <3>2 DEF readerVars, Copies, Stack, Left, Top, Child, ChildText
    <3> QED
      BY <3>3
  <2>6. rest' \in LexemeText
    BY <2>1 DEF CopyInv
  <2> QED
    BY <2>1, <2>3, <2>4, <2>5, <2>6 DEF CopyInv, GoodNodes
<1> QED
  BY <1>2, <1>3, <1>4, <1>5 DEF CopyNext

\* Of every text that can be parsed, what toString writes of the tree reads back
\* as the same tree, but for comments, the types of equal numbers and what ten
\* decimals round off: unless there is an infinite double in it, or one that is
\* too long for the buffer of valueToString.
THEOREM WrittenReadsBack == CopySpec => []RoundTrip
<1>1. CopyInit => CopyInv
  BY LiveInit, FreshGrown, EmptySeq DEF CopyInit, CopyInv, LexemeText
<1>2. CopyInv /\ [CopyNext]_copyVars => CopyInv'
  BY CopyStep
<1>3. CopyInv => RoundTrip
  <2> SUFFICES ASSUME CopyInv, NEW t \in original, pc = "done", Writable(t)
               PROVE  /\ successful
                      /\ DOMAIN tree = DOMAIN t
                      /\ \A p \in DOMAIN tree : SameValue(tree[p], t[p])
    BY DEF RoundTrip
  <2>1. PICK idx, u : Copies(t, idx, u)
    BY DEF CopyInv
  <2> QED
    BY <2>1, CopiesEnds DEF CopyInv
<1> QED
  BY <1>1, <1>2, <1>3, PTL DEF CopySpec

\* Of whatever is read, a text that is refused too, every element and member lies
\* in a container of its kind, elements are numbered from 0 on without a gap, and
\* no Value keeps what one of another type had, although a name may come twice and
\* its second value takes the place of all that the first one held.
THEOREM TreesWellFormed == ReaderSpec => []WellFormed(tree)
<1> DEFINE Inv == LiveInv /\ CallKind /\ GoodNodes(tree) /\ Grown
<1>1. ParseInit => Inv
  BY LiveInit, FreshGrown
<1>2. Inv /\ [ReaderNext]_readerVars => Inv'
  <2> SUFFICES ASSUME Inv, [ReaderNext]_readerVars PROVE Inv'
    OBVIOUS
  <2>1. [PlainNext]_readerVars /\ [AnyNext]_readerVars
    BY PlainStep
  <2>2. LiveInv' /\ CallKind' /\ GoodNodes(tree') /\ Grown'
    BY <2>1, LiveStep, KindStep, GoodStep, GrownStep
  <2> QED
    BY <2>2 DEF GoodNodes
<1>3. Inv => WellFormed(tree)
  BY DEF Grown
<1> HIDE DEF Inv
<1> QED
  BY <1>1, <1>2, <1>3, PTL DEF ReaderSpec
=============================================================================
