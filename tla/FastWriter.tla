------------------------------ MODULE FastWriter ------------------------------
(***************************************************************************)
(* Json::FastWriter, behind JsonValue::toString, on the tree of a Value.   *)
(* A text is a sequence of lexemes; white space is in it where the reader  *)
(* or a writer looks at it.                                                *)
(***************************************************************************)
EXTENDS Lexemes

Newline == <<Lexeme("newline")>>

\* The paths of the elements or members, in the order they are written in.
Children(t, p) ==
  IF t[p].type = "array"
  THEN [i \in 1..Size(t, p) |-> Append(p, Index(i - 1))]
  ELSE LET names == GetMemberNames(t, p)
       IN [i \in DOMAIN names |-> Append(p, Name(names[i]))]

IsContainer(n) == n.type \in {"array", "object"}

\* How a container begins and ends.
Opening(n) == <<Lexeme(IF n.type = "array" THEN "[" ELSE "{")>>
Closing(n) == <<Lexeme(IF n.type = "array" THEN "]" ELSE "}")>>

\* What is written before the colon of a member.
MemberLabel(c) == <<StringLexeme(c[Len(c)].cstr)>>

-----------------------------------------------------------------------------
\* Mutant: a comma before every child, the first one too.
FastCommas(i) == <<Lexeme(",")>>

FastComma(i) == IF i > 1 THEN <<Lexeme(",")>> ELSE <<>>

FastLabel(c) ==
  IF c[Len(c)].isName THEN MemberLabel(c) \o <<Lexeme(":")>> ELSE <<>>

\* The rest of the text of the container at p from the i-th child on, given the
\* texts of the children: the loops of writeValue.
FastRest(t, p, text) ==
  LET kids == Children(t, p)
      from[i \in 1..(Len(kids) + 1)] ==
        IF i > Len(kids) THEN Closing(t[p])
        ELSE FastComma(i) \o FastLabel(kids[i]) \o text[kids[i]] \o from[i + 1]
  IN from

\* FastWriter::writeValue: the text of each Value of the tree.
FastValue(t) ==
  LET text[p \in DOMAIN t] ==
        IF IsContainer(t[p]) THEN Opening(t[p]) \o FastRest(t, p, text)[1]
        ELSE ScalarText(t[p])
  IN text

\* FastWriter::write.
FastText(t) == FastValue(t)[<<>>] \o Newline
=============================================================================
