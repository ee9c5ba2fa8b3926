-------------------------------- MODULE Reader --------------------------------
(***************************************************************************)
(* Json::Reader as JsonValue::parse uses it: a recursive-descent parser    *)
(* that collects comments.  Its calls of readObject and readArray are the  *)
(* frames; every step reads one lexeme.  nodes_ and lastValue_ are raw     *)
(* pointers into the tree that is being built, kept over many steps in     *)
(* which parts of the tree are destroyed; a path stands for a pointer.     *)
(*                                                                         *)
(* The text is any sequence of lexemes.  Left out: the positions and the   *)
(* texts of the errors, which are only counted.                            *)
(***************************************************************************)
EXTENDS Lexemes

CONSTANT Texts  \* the lexemes of documents

ASSUME ReaderAssumption == Texts \subseteq LexemeType

VARIABLES
  tree,       \* *root, with all that is below it
  nodes,      \* nodes_, a stack of paths
  frames,     \* the calls of readObject and readArray, with their locals
  pc,         \* what the innermost call reads next
  lastValue,  \* the path in lastValue_, as a set; empty for 0
  sameLine,   \* lastValueEnd_ is set and no line break was read since
  before,     \* commentsBefore_
  errors,     \* the length of errors_
  successful  \* what readValue returned to parse

readerVars == <<tree, nodes, frames, pc, lastValue, sameLine, before, errors,
                successful>>

Back(s) == s[Len(s)]
Pop(s) == SubSeq(s, 1, Len(s) - 1)

Top == Back(nodes)

\* parse(document, root), up to the call of readValue.
ParseInit ==
  /\ tree = NewValue("null")
  /\ nodes = <<<<>>>>
  /\ frames = <<>>
  /\ pc = "value"
  /\ lastValue = {}
  /\ sameLine = FALSE
  /\ before = <<>>
  /\ errors = 0
  /\ successful = FALSE

\* The same, of a fresh Value.
Parse ==
  /\ tree' = NewValue("null")
  /\ nodes' = <<<<>>>>
  /\ frames' = <<>>
  /\ pc' = "value"
  /\ lastValue' = {}
  /\ sameLine' = FALSE
  /\ before' = <<>>
  /\ errors' = 0
  /\ successful' = FALSE

-----------------------------------------------------------------------------
\* Mutant: a failed value is not reported, only skipped.
NoError(n) == n

\* addError.
AddError(n) == n + 1

\* Spaces are skipped before a token.
SkipSpaces(x) ==
  /\ x.type \in {"newline", "space"}
  /\ pc \notin {"firstValue", "done"}
  /\ sameLine' = (sameLine /\ x.type = "space")
  /\ UNCHANGED <<tree, nodes, frames, pc, lastValue, before, errors, successful>>

\* readComment and addComment.  A comment on the line of the last value is that
\* value's, and takes the place of one it has; others wait for the next value.
AddComment(x) ==
  LET same == sameLine /\ x.str # <<"cn">>
  IN /\ tree' = IF same THEN SetComment(tree, lastValue, "same", x.str) ELSE tree
     /\ before' = IF same THEN before ELSE before \o x.str
     /\ sameLine' = (sameLine /\ x.str = <<"c">>)

\* A comment is read wherever a token is.  Between members it stands for the
\* comma, and the next token that is no comment is dropped; after an element of
\* an array, and before a colon, it is an error.
ReadComment(x) ==
  /\ x.type = "comment"
  /\ pc \notin {"first", "done"}
  /\ AddComment(x)
  /\ CASE pc \in {"colon", "separator"} -> pc' = "recover" /\ errors' = AddError(errors)
       [] pc = "firstValue" -> pc' = "value" /\ UNCHANGED errors
       [] pc = "comma"      -> pc' = "dropped" /\ UNCHANGED errors
       [] OTHER             -> UNCHANGED <<pc, errors>>
  /\ UNCHANGED <<nodes, frames, lastValue, successful>>

\* The tree once readValue has given the value the comments that wait for it.
Commented ==
  IF before = <<>> THEN tree ELSE SetComment(tree, {Top}, "before", before)

\* readValue returns to the innermost of the calls fs, or to parse.
Resume(fs, ok) ==
  IF fs = <<>>
  THEN pc' = "end" /\ successful' = ok /\ UNCHANGED nodes
  ELSE /\ nodes' = Pop(nodes)
       /\ pc' = IF ~ok THEN "recover"
                ELSE IF Back(fs).object THEN "comma" ELSE "separator"
       /\ UNCHANGED successful

\* Mutant: after a container lastValue_ is still the last value inside it.
LastInside(fs) == IF fs = frames \/ lastValue = {} THEN {Top} ELSE lastValue

\* lastValue_ = &currentValue().
LastOf(fs) == {Top}

\* The end of readValue, reached with the value made or with a failed one.
Return(fs, ok) ==
  /\ lastValue' = LastOf(fs)
  /\ sameLine' = TRUE
  /\ frames' = fs
  /\ Resume(fs, ok)

\* addErrorAndRecover.
Fail ==
  /\ errors' = AddError(errors)
  /\ pc' = "recover"
  /\ UNCHANGED <<tree, nodes, frames, lastValue, sameLine, before, successful>>

-----------------------------------------------------------------------------
\* readValue: the first token that is no comment.
AtValue(x) ==
  /\ pc \in {"value", "firstValue"}
  /\ x.type \notin {"comment", "newline", "space"}
  /\ before' = <<>>

ReadScalar(x) ==
  /\ AtValue(x)
  /\ x.type \in ScalarToken
  /\ ~BadScalar(x)
  /\ tree' = Assign(Commented, Top, Scalar(x))
  /\ Return(frames, TRUE)
  /\ UNCHANGED errors

DecodeFails(x) ==
  /\ AtValue(x)
  /\ BadScalar(x)
  /\ tree' = Commented
  /\ errors' = AddError(errors)
  /\ Return(frames, FALSE)

\* Neither a value nor the start of one: readValue returns at once.
SyntaxError(x) ==
  /\ AtValue(x)
  /\ x.type \notin ScalarToken \cup {"{", "["}
  /\ pc = "firstValue" => x.type # "]"
  /\ tree' = Commented
  /\ errors' = AddError(errors)
  /\ Resume(frames, FALSE)
  /\ UNCHANGED <<frames, lastValue, sameLine>>

\* readObject and readArray are called; the container takes the place of what
\* the Value held.
Begin(x) ==
  /\ AtValue(x)
  /\ x.type \in {"{", "["}
  /\ tree' = Assign(Commented, Top,
                    NewValue(IF x.type = "{" THEN "object" ELSE "array"))
  /\ frames' = Append(frames, [object |-> x.type = "{", name |-> <<>>, index |-> 0])
  /\ pc' = IF x.type = "{" THEN "member" ELSE "first"
  /\ UNCHANGED <<nodes, lastValue, sameLine, errors, successful>>

\* readObject or readArray returns true, and so does readValue.
Finish ==
  /\ Return(Pop(frames), TRUE)
  /\ UNCHANGED <<tree, before, errors>>

\* currentValue()[key], whose address is pushed on nodes_.
PushMember(k) ==
  /\ tree' = Resolve(tree, Top, k)
  /\ nodes' = Append(nodes, Append(Top, k))
  /\ UNCHANGED <<lastValue, sameLine, before, errors, successful>>

-----------------------------------------------------------------------------
\* readObject: the name of a member, or the end of an empty object (or of one
\* whose last name was "", since name is all that tells them apart).
MemberName(x) ==
  /\ pc = "member"
  /\ x.type \notin {"comment", "newline", "space"}
  /\ IF x.type = "}" /\ Back(frames).name = <<>> THEN Finish
     ELSE IF x.type # "string" \/ BadScalar(x) THEN Fail
     ELSE /\ frames' = [frames EXCEPT ![Len(frames)].name = DecodeString(x.str)]
          /\ pc' = "colon"
          /\ UNCHANGED <<tree, nodes, lastValue, sameLine, before, errors, successful>>

Colon(x) ==
  /\ pc = "colon"
  /\ x.type \notin {"comment", "newline", "space"}
  /\ IF x.type # ":" THEN Fail
     ELSE /\ PushMember(Name(Back(frames).name))
          /\ pc' = "value"
          /\ UNCHANGED frames

\* readObject: after a member.
Comma(x) ==
  /\ pc \in {"comma", "dropped"}
  /\ x.type \notin {"comment", "newline", "space"}
  /\ IF x.type = "}" THEN Finish
     ELSE IF x.type # "," /\ pc = "comma" THEN Fail
     ELSE /\ pc' = "member"
          /\ UNCHANGED <<tree, nodes, frames, lastValue, sameLine, before, errors,
                         successful>>

\* readArray: *current_ is a bracket after the spaces.
EmptyArray(x) ==
  /\ pc = "first"
  /\ x.type = "]"
  /\ Finish

\* currentValue()[index ++]; the element is read next.
NextElement(at) ==
  /\ PushMember(Index(Back(frames).index))
  /\ frames' = [frames EXCEPT ![Len(frames)].index = @ + 1]
  /\ pc' = at

\* readArray: it is not, and nothing is read yet.
FirstElement == pc = "first" /\ NextElement("firstValue")

Separator(x) ==
  /\ pc = "separator"
  /\ x.type \notin {"comment", "newline", "space"}
  /\ CASE x.type = "," -> NextElement("value")
       [] x.type = "]" -> Finish
       [] OTHER        -> Fail

\* Mutant: skipping goes on at the end of the text.
StopsAtEnd(x) == FALSE

AtEnd(x) == x.type = "eof"

\* recoverFromError: skip up to the end of the container, or of the text; the
\* call fails, and so does readValue.
Recover(x) ==
  /\ pc = "recover"
  /\ x.type \notin {"comment", "newline", "space"}
  /\ IF x.type = (IF Back(frames).object THEN "}" ELSE "]") \/ AtEnd(x)
     THEN Return(Pop(frames), FALSE)
     ELSE UNCHANGED <<frames, nodes, pc, lastValue, sameLine, successful>>
  /\ UNCHANGED <<tree, before, errors>>

\* parse, after readValue: comments, then any one token.  What follows is not
\* looked at.
End(x) ==
  /\ pc = "end"
  /\ x.type \notin {"comment", "newline", "space"}
  /\ tree' = IF before = <<>> THEN tree
             ELSE SetComment(tree, {<<>>}, "after", before)
  /\ pc' = "done"
  /\ UNCHANGED <<nodes, frames, lastValue, sameLine, before, errors, successful>>

Read(x) ==
  \/ SkipSpaces(x) \/ ReadComment(x)
  \/ ReadScalar(x) \/ DecodeFails(x) \/ SyntaxError(x) \/ Begin(x)
  \/ MemberName(x) \/ Colon(x) \/ Comma(x)
  \/ EmptyArray(x) \/ Separator(x) \/ Recover(x) \/ End(x)

ReaderNext == FirstElement \/ \E x \in Texts : Read(x)

ReaderSpec == ParseInit /\ [][ReaderNext]_readerVars

-----------------------------------------------------------------------------
\* readValue and addComment write through lastValue_ and nodes_, which were set
\* many tokens ago; meanwhile operator= destroys all that is below a Value (when
\* a name comes twice, say).  No pointer in them is ever left dangling, nodes_ is
\* the chain of containers that are open, and a comment never finds lastValue_ 0.
NodesLive ==
  /\ lastValue \subseteq DOMAIN tree
  /\ sameLine => lastValue # {}
  /\ nodes[1] = <<>>
  /\ \A i \in DOMAIN nodes :
       /\ nodes[i] \in DOMAIN tree
       /\ i > 1 => Len(nodes[i]) > 0 /\ nodes[i - 1] = Pop(nodes[i])
  /\ Len(nodes) = Len(frames) + (IF pc \in {"value", "firstValue"} THEN 1 ELSE 0)
       \/ (frames = <<>> /\ Len(nodes) = 1)

\* Whatever is skipped to recover from an error, through however many open
\* containers, the text is refused exactly if an error was noted.
ErrorsTold == pc \in {"end", "done"} => (successful <=> errors = 0)

\* asInt, asUInt and asDouble throw for the Values that isConvertibleTo denies,
\* and for no others, whatever was parsed.  (asInt disagrees on an unsigned
\* maxInt, which decodeNumber never makes.)  Task's constructor calls asInt, and
\* nothing there or above it catches.
NumbersConvert ==
  \A p \in DOMAIN tree :
    /\ AsInt(tree[p]).throws <=> ~IsConvertibleTo(tree, p, "int")
    /\ AsUInt(tree[p]).throws <=> ~IsConvertibleTo(tree, p, "uint")
    /\ AsDouble(tree[p]).throws <=> ~IsConvertibleTo(tree, p, "real")
=============================================================================
