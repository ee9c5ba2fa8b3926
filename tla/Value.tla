-------------------------------- MODULE Value --------------------------------
(***************************************************************************)
(* Json::Value of the vendored jsoncpp: the operations the server uses, as *)
(* operators on trees.                                                     *)
(*                                                                         *)
(* A tree stands for a Value with all the Values below it: a function from *)
(* paths to nodes.  A path is the sequence of map keys (CZString) on the   *)
(* way down from the root, whose path is <<>>.  The Values are nodes of    *)
(* std::maps, so none moves while it is in its map: a path stands for the  *)
(* address of a Value, and a path outside the tree for the address of one  *)
(* that is destroyed.  JSON_VALUE_USE_INTERNAL_MAP is not defined.         *)
(***************************************************************************)
EXTENDS Integers, Sequences, FiniteSets

CONSTANTS
  MaxInt,    \* Value::maxInt, 2^31 - 1
  Alphabet   \* the characters of strings, as a sequence in the order of strcmp

ASSUME ValueAssumption == MaxInt \in Nat \ {0} /\ Alphabet \in Seq(STRING)

MinInt == -(MaxInt + 1)
MaxUInt == 2 * MaxInt + 1

\* The key of an element and of a member.
Index(i) == [isName |-> FALSE, index |-> i, cstr |-> <<>>]
Name(s) == [isName |-> TRUE, index |-> 0, cstr |-> s]

Rank(c) == CHOOSE i \in DOMAIN Alphabet : Alphabet[i] = c

\* CZString::operator<, on two member names.
Precedes(a, b) ==
  \/ Len(a) < Len(b) /\ a = SubSeq(b, 1, Len(a))
  \/ \E i \in DOMAIN a \cap DOMAIN b :
        /\ \A j \in 1..(i - 1) : a[j] = b[j]
        /\ Rank(a[i]) < Rank(b[i])

Types == {"null", "int", "uint", "real", "string", "bool", "array", "object"}

\* comments_: the three placements, each with the texts of its comments.
NoComments == [before |-> <<>>, same |-> <<>>, after |-> <<>>]

\* num: the number; 0 or 1 of a bool; of a real, how many quarters it is.
Node(type, num, str) ==
  [type |-> type, num |-> num, str |-> str, com |-> NoComments]

NullNode == Node("null", 0, <<>>)

\* Value::Value of a number, a bool or a string.
Leaf(type, num, str) == [p \in {<<>>} |-> Node(type, num, str)]

\* Value::Value(ValueType).
NewValue(type) == Leaf(type, 0, <<>>)

\* q is below p.
Below(p, q) == Len(q) > Len(p) /\ SubSeq(q, 1, Len(p)) = p

Keys(t, p) == {k \in {q[Len(p) + 1] : q \in {r \in DOMAIN t : Below(p, r)}} :
                 Append(p, k) \in DOMAIN t}

\* operator=: a copy of v and the Value at p swap type and value.  What was
\* below p is destroyed; swap leaves the comments of p where they are.
Assign(t, p, v) ==
  LET kept == {q \in DOMAIN t : ~Below(p, q)}
      new == {p \o q : q \in DOMAIN v}
  IN [q \in kept \cup new |->
        IF q = p THEN [v[<<>>] EXCEPT !.com = t[p].com]
        ELSE IF q \in kept THEN t[q]
        ELSE v[SubSeq(q, Len(p) + 1, Len(q))]]

\* operator[] of a Value that is not const: a null Value becomes a container,
\* and a key that is not there is inserted, with null.
Resolve(t, p, k) ==
  LET s == IF t[p].type = "null"
           THEN Assign(t, p, NewValue(IF k.isName THEN "object" ELSE "array"))
           ELSE t
      c == Append(p, k)
  IN [q \in DOMAIN s \cup {c} |-> IF q \in DOMAIN s THEN s[q] ELSE NullNode]

\* operator[] of a const Value, the node only: Value::null for a missing key.
At(t, p, k) == IF Append(p, k) \in DOMAIN t THEN t[Append(p, k)] ELSE NullNode

\* get(key, default), the node only.
Get(t, p, k, default) ==
  IF Append(p, k) \in DOMAIN t THEN t[Append(p, k)] ELSE default

\* size(): the last index plus one, whatever is missing before it.
Size(t, p) ==
  CASE t[p].type = "array" ->
         IF Keys(t, p) = {} THEN 0
         ELSE 1 + (CHOOSE i \in {k.index : k \in Keys(t, p)} :
                     \A k \in Keys(t, p) : k.index <= i)
    [] t[p].type = "object" -> Cardinality(Keys(t, p))
    [] OTHER -> 0

IsNull(n) == n.type = "null"
IsArray(n) == n.type \in {"null", "array"}
IsObject(n) == n.type \in {"null", "object"}

\* What a conversion gives, or that it throws.
Converted(x) == [throws |-> FALSE, is |-> x]
Throws(x) == [throws |-> TRUE, is |-> x]

Truncated(quarters) ==
  IF quarters < 0 THEN -((-quarters) \div 4) ELSE quarters \div 4

AsInt(n) ==
  CASE n.type = "null" -> Converted(0)
    [] n.type \in {"int", "bool"} -> Converted(n.num)
    [] n.type = "uint" -> IF n.num < MaxInt THEN Converted(n.num) ELSE Throws(0)
    [] n.type = "real" -> IF n.num \in (4 * MinInt)..(4 * MaxInt)
                          THEN Converted(Truncated(n.num)) ELSE Throws(0)
    [] OTHER -> Throws(0)

AsString(n) ==
  CASE n.type = "null" -> Converted(<<>>)
    [] n.type = "string" -> Converted(n.str)
    [] n.type = "bool" -> Converted(IF n.num = 1 THEN <<"true">> ELSE <<"false">>)
    [] OTHER -> Throws(<<>>)

AsUInt(n) ==
  CASE n.type = "null" -> Converted(0)
    [] n.type = "int" -> IF n.num >= 0 THEN Converted(n.num) ELSE Throws(0)
    [] n.type \in {"uint", "bool"} -> Converted(n.num)
    [] n.type = "real" -> IF n.num \in 0..(4 * MaxUInt)
                          THEN Converted(Truncated(n.num)) ELSE Throws(0)
    [] OTHER -> Throws(0)

\* asDouble, in quarters.
AsDouble(n) ==
  CASE n.type = "real" -> Converted(n.num)
    [] n.type \in {"null", "int", "uint", "bool"} -> Converted(4 * n.num)
    [] OTHER -> Throws(0)

\* isConvertibleTo(other) of the Value at p; numbers and bools share their rules.
IsConvertibleTo(t, p, other) ==
  LET n == t[p]
      quarters == AsDouble(n).is
  IN CASE n.type = "null" -> TRUE
       [] n.type \in {"int", "uint", "real", "bool"} ->
            CASE other = "null" -> n.num = 0
              [] other = "int"  -> quarters \in (4 * MinInt)..(4 * MaxInt)
              [] other = "uint" -> quarters \in 0..(4 * MaxUInt)
              [] OTHER          -> other \in {"real", "string", "bool"}
       [] n.type = "string" -> other = "string" \/ (other = "null" /\ n.str = <<>>)
       [] OTHER -> other = n.type \/ (other = "null" /\ Keys(t, p) = {})

\* setComment on the Values of ps: a comment that is there is replaced.
SetComment(t, ps, placement, text) ==
  [q \in DOMAIN t |-> IF q \in ps THEN [t[q] EXCEPT !.com[placement] = text]
                      ELSE t[q]]

\* std::map keeps the members in the order of their names.
InOrder(names) ==
  CHOOSE s \in [1..Cardinality(names) -> names] :
    \A i, j \in DOMAIN s : i < j => Precedes(s[i], s[j])

GetMemberNames(t, p) == InOrder({k.cstr : k \in Keys(t, p)})
=============================================================================
