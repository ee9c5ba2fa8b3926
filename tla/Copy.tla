--------------------------------- MODULE Copy ---------------------------------
(***************************************************************************)
(* JsonValue::parse, JsonValue::toString and JsonValue::parse of the       *)
(* result: a Value is parsed, written, and read again by the same reader.  *)
(* Json, where other texts are written too, uses the steps of this module. *)
(***************************************************************************)
EXTENDS Reader, FastWriter

\* The characters of the text of a string: those of strings, a \uXXXX, and an
\* escape that JSON does not have.
Characters == {Alphabet[i] : i \in DOMAIN Alphabet} \cup {"u", "bad"}

ASSUME CopyAssumption ==
  \A x \in Texts : x.type = "string" => x.str \in Seq(Characters)

VARIABLES
  original,  \* the tree that was written, as a set; empty before
  rest       \* what is left to read of its text

copyVars == <<readerVars, original, rest>>

CopyInit == ParseInit /\ original = {} /\ rest = <<>>

\* A parsed Value is written, the last line break is erased, and the text goes
\* to a new call of parse.
WriteCopy(text) ==
  /\ original = {}
  /\ pc = "done"
  /\ successful
  /\ original' = {tree}
  /\ rest' = Pop(text)
  /\ Parse

\* The lexeme that the text goes on with.
Ahead == IF rest = <<>> THEN Lexeme("eof") ELSE Head(rest)

\* A step of the reader, on the written text.
ReadAgain ==
  /\ original # {}
  /\ \/ /\ Ahead.type \notin {"]", "newline", "space"}
        /\ FirstElement
        /\ UNCHANGED rest
     \/ /\ Read(Ahead)
        /\ rest' = IF rest = <<>> THEN rest ELSE Tail(rest)
  /\ UNCHANGED original

CopyNext ==
  \/ original = {} /\ ReaderNext /\ UNCHANGED <<original, rest>>
  \/ WriteCopy(FastText(tree))
  \/ ReadAgain

CopySpec == CopyInit /\ [][CopyNext]_copyVars

-----------------------------------------------------------------------------
NumberTypes == {"int", "uint", "real"}

\* m is what n is written as: the same value, but for comments, the types of
\* equal numbers, and what ten decimals round off.
SameValue(m, n) ==
  IF n.type \in NumberTypes
  THEN m.type \in NumberTypes /\ AsDouble(m).is = Rounded(AsDouble(n).is)
  ELSE m.type = n.type /\ m.num = n.num /\ m.str = n.str

\* What a writer writes, of any Value that can be parsed or that buildResponse
\* can build, reads back as the same value, to ten decimals: whatever comments
\* were collected, and wherever the styled writers put them and break lines.  It
\* says nothing of a Value with a double that is infinite, for which "inf" is
\* written, or that is too long for the buffer of valueToString.
RoundTrip ==
  \A t \in original :
    pc = "done" /\ Writable(t) =>
      /\ successful
      /\ DOMAIN tree = DOMAIN t
      /\ \A p \in DOMAIN tree : SameValue(tree[p], t[p])
=============================================================================
