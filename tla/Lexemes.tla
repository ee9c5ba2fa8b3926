------------------------------- MODULE Lexemes -------------------------------
(***************************************************************************)
(* The text of a JSON document, as the sequence of its lexemes: the tokens *)
(* of Json::Reader, and the white space that the reader or a writer looks  *)
(* at.  Also the conversions between the text of a number or of a string   *)
(* and its value, in both directions.                                      *)
(*                                                                         *)
(* A number is written with a sign, digits and a tail: "none" if there is  *)
(* nothing but digits; then the fractions, each a number of quarters,      *)
(* which stand for 0 ("whole"), for one that ten decimals round away       *)
(* ("low"), for one that they write ("half"), and for one that they round  *)
(* up to the next whole number ("high"); "huge" for an exponent that no    *)
(* double has, and "bad" for text that sscanf cannot read.  Any other      *)
(* exponent moves the point, and no more.                                  *)
(*                                                                         *)
(* The text of a string is a sequence of characters; "n" stands for one    *)
(* that has to be escaped, "u" for a \uXXXX and "bad" for an escape that   *)
(* JSON does not have.                                                     *)
(***************************************************************************)
EXTENDS Value

CONSTANTS
  MaxExact,   \* up to here every number of quarters is a double (2^51 * 4)
  MaxDouble,  \* the largest double, in quarters; inf is MaxDouble + 1
  BufferSize  \* the size of buffer in valueToString, 32

ASSUME DoubleAssumption ==
  /\ MaxExact \in Nat /\ MaxExact % 8 = 0 /\ 4 * MaxUInt <= MaxExact
  /\ MaxDouble \in Nat /\ MaxDouble % 8 = 0 /\ MaxExact <= MaxDouble
  /\ BufferSize \in Nat

Numeral(minus, digits, tail) == [minus |-> minus, digits |-> digits, tail |-> tail]
Zero == Numeral(FALSE, <<0>>, "none")

\* A lexeme that is nothing but its kind.
Lexeme(type) == [type |-> type, str |-> <<>>, num |-> Zero]
StringLexeme(s) == [type |-> "string", str |-> s, num |-> Zero]
NumberLexeme(n) == [type |-> "number", str |-> <<>>, num |-> n]

\* A comment: "c" is a C comment on one line, "cn" one with a line break,
\* "cpp" a C++ comment together with the line break that ends it.
CommentLexeme(c) == [type |-> "comment", str |-> <<c>>, num |-> Zero]

Kinds == {"{", "}", "[", "]", ",", ":", "true", "false", "null", "string",
          "number", "comment", "newline", "space", "eof", "error"}

NumeralType == [minus : BOOLEAN, digits : Seq(0..9),
                tail : {"none", "whole", "low", "half", "high", "huge", "bad"}]

LexemeType == [type : Kinds, str : Seq(STRING), num : NumeralType]

ScalarToken == {"number", "string", "true", "false", "null"}

-----------------------------------------------------------------------------
TooBig == -1

Threshold(minus) == (IF minus THEN MaxInt + 1 ELSE MaxUInt) \div 10

\* One round of the loop of decodeNumber, in arithmetic modulo 2^32.
AddDigit(minus, value, digit) ==
  IF value = TooBig \/ value >= Threshold(minus) THEN TooBig
  ELSE (value * 10 + digit) % (MaxUInt + 1)

\* The value of the first n digits.
IntegerOf(minus, digits) ==
  LET value[n \in 0..Len(digits)] ==
        IF n = 0 THEN 0 ELSE AddDigit(minus, value[n - 1], digits[n])
  IN value[Len(digits)]

Fraction(tail) ==
  CASE tail = "low" -> 1 [] tail = "half" -> 2 [] tail = "high" -> 3 [] OTHER -> 0

\* The double that a number of this size becomes.  Beyond MaxExact only even
\* numbers are doubles: one step for the many in which doubles grow coarse.
Stored(size) ==
  LET near == IF size <= MaxExact THEN size ELSE 8 * ((size + 4) \div 8)
  IN IF near > MaxDouble THEN MaxDouble + 1 ELSE near

Infinite(q) == q \notin (-MaxDouble)..MaxDouble

\* What sscanf reads.
DoubleOf(n) ==
  LET value[i \in 0..Len(n.digits)] ==
        IF i = 0 THEN 0 ELSE value[i - 1] * 10 + n.digits[i]
      size == IF n.tail = "huge" THEN MaxDouble + 1
              ELSE Stored(4 * value[Len(n.digits)] + Fraction(n.tail))
  IN IF n.minus THEN -size ELSE size

\* decodeNumber leaves a text with one of . e E + or an inner - to
\* decodeDouble, and also one whose value may not fit.
IsDouble(n) == n.tail # "none" \/ IntegerOf(n.minus, n.digits) = TooBig

\* Mutant: the largest int is taken for an unsigned.
IntBelowMax(value) == value < MaxInt

FitsInt(value) == value <= MaxInt

DecodeNumber(n) ==
  LET value == IntegerOf(n.minus, n.digits)
  IN IF IsDouble(n)      THEN Leaf("real", DoubleOf(n), <<>>)
     ELSE IF n.minus     THEN Leaf("int", -value, <<>>)
     ELSE IF FitsInt(value) THEN Leaf("int", value, <<>>)
     ELSE Leaf("uint", value, <<>>)

\* decodeString: an escaped character is the character, \uXXXX is nothing.
DecodeString(s) ==
  LET decoded[i \in 0..Len(s)] ==
        IF i = 0 THEN <<>>
        ELSE IF s[i] = "u" THEN decoded[i - 1] ELSE Append(decoded[i - 1], s[i])
  IN decoded[Len(s)]

\* decodeDouble and decodeString fail.
BadScalar(x) ==
  \/ x.type = "number" /\ x.num.tail = "bad"
  \/ x.type = "string" /\ \E i \in DOMAIN x.str : x.str[i] = "bad"

\* The value of a scalar token, in readValue.
Scalar(x) ==
  CASE x.type = "number" -> DecodeNumber(x.num)
    [] x.type = "string" -> Leaf("string", 0, DecodeString(x.str))
    [] x.type = "true"   -> Leaf("bool", 1, <<>>)
    [] x.type = "false"  -> Leaf("bool", 0, <<>>)
    [] x.type = "null"   -> NewValue("null")

-----------------------------------------------------------------------------
\* uintToString.
Digits[n \in Nat] == IF n < 10 THEN <<n>> ELSE Append(Digits[n \div 10], n % 10)

\* valueToString of an Int or a UInt: of minInt too, whose negation wraps.
IntegerText(n) == Numeral(n < 0, Digits[IF n < 0 THEN -n ELSE n], "none")

\* What ten decimals leave of a double.
Rounded(q) == IF q % 2 = 0 THEN q ELSE 4 * ((q + 2) \div 4)

Abs(q) == IF q < 0 THEN -q ELSE q

\* valueToString of a finite double, which cuts a fraction of zeroes off.
DoubleText(q) ==
  LET size == Abs(Rounded(q))
  IN Numeral(q < 0, Digits[size \div 4], IF size % 4 = 2 THEN "half" ELSE "none")

\* "inf" and "-inf": no token begins with an i.
InfiniteText(q) ==
  (IF q < 0 THEN <<NumberLexeme(Numeral(TRUE, <<>>, "none"))>> ELSE <<>>)
    \o <<Lexeme("error")>>

\* sprintf writes past the end of buffer: besides sign and digits there are the
\* point, ten decimals and the end of the text.
Overruns(q) ==
  /\ ~Infinite(q)
  /\ Len(DoubleText(q).digits) + (IF q < 0 THEN 1 ELSE 0) + 12 > BufferSize

ScalarLexeme(n) ==
  CASE n.type = "null" -> Lexeme("null")
    [] n.type \in {"int", "uint"} -> NumberLexeme(IntegerText(n.num))
    [] n.type = "real" -> NumberLexeme(DoubleText(n.num))
    [] n.type = "string" -> StringLexeme(n.str)
    [] n.type = "bool" -> Lexeme(IF n.num = 1 THEN "true" ELSE "false")

\* What the writers write for a value without children.
ScalarText(n) ==
  IF n.type = "real" /\ Infinite(n.num) THEN InfiniteText(n.num)
  ELSE <<ScalarLexeme(n)>>

\* Every double of the tree is a number whose text fits into buffer.
WritesWhole(n) == n.type = "real" => ~Infinite(n.num) /\ ~Overruns(n.num)
Writable(t) == \A p \in DOMAIN t : WritesWhole(t[p])
=============================================================================
