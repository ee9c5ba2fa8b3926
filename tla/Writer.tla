-------------------------------- MODULE Writer --------------------------------
(***************************************************************************)
(* The styled writers of jsoncpp, on the tree of a Value: StyledWriter     *)
(* (behind JsonValue::toFormatString) and StyledStreamWriter (operator<<,  *)
(* which writes the response).                                             *)
(*                                                                         *)
(* They differ in writeIndent only and are one operator of the kind of     *)
(* writer, "styled" or "stream".  An indentation is one space, however     *)
(* deep: only whether there is one matters.                                *)
(***************************************************************************)
EXTENDS FastWriter, SequencesExt

CONSTANT RightMargin  \* rightMargin_, 74

Space == <<Lexeme("space")>>

-----------------------------------------------------------------------------
\* The characters of a value on one line.
Width(x) ==
  CASE x.type = "string" -> 2 + Len(x.str)
    [] x.type = "number" -> Len(x.num.digits) + (IF x.num.minus THEN 1 ELSE 0)
                            + (IF x.num.tail = "half" THEN 2 ELSE 0)
    [] x.type = "false"  -> 5
    [] x.type = "error"  -> 3
    [] OTHER             -> 4

Sum(f) == FoldFunction(LAMBDA a, b : a + b, 0, f)

ValueWidth(t, p) ==
  LET text == ScalarText(t[p])
  IN IF IsContainer(t[p]) THEN 2 ELSE Sum([i \in DOMAIN text |-> Width(text[i])])

\* isMultineArray: an element has children, or the line is too long.  (Comments
\* should count too, but isMultiLine && hasCommentForValue can never be true.)
IsMultineArray(t, p) ==
  LET kids == Children(t, p)
      size == Len(kids)
      widths == Sum([i \in DOMAIN kids |-> ValueWidth(t, kids[i])])
  IN \/ size * 3 >= RightMargin
     \/ \E i \in DOMAIN kids : Size(t, kids[i]) > 0
     \/ 4 + (size - 1) * 2 + widths >= RightMargin

\* The document ends with a line break, of its own or of a C++ comment.
EndsLine(d) == Last(d).type = "newline" \/ Last(d).str = <<"cpp">>

\* StyledWriter::writeIndent; StyledStreamWriter::writeIndent.
StyledIndent(d, indent) ==
  IF d # <<>> /\ Last(d).type = "space" THEN d
  ELSE d \o (IF d = <<>> \/ EndsLine(d) THEN <<>> ELSE Newline) \o indent

StreamIndent(d, indent) == d \o Newline \o indent

WriteIndent(w, d, indent) ==
  IF w = "styled" THEN StyledIndent(d, indent) ELSE StreamIndent(d, indent)

\* Comments that were joined with line breaks.
CommentText(text) ==
  FlattenSeq([i \in DOMAIN text |->
                (IF i = 1 THEN <<>> ELSE Newline) \o <<CommentLexeme(text[i])>>])

\* writeCommentBeforeValue.
CommentBefore(n, d) ==
  IF n.com.before = <<>> THEN d ELSE d \o CommentText(n.com.before) \o Newline

\* writeCommentAfterValueOnSameLine.
CommentAfter(n, d) ==
  d \o (IF n.com.same = <<>> THEN <<>> ELSE Space \o CommentText(n.com.same))
    \o (IF n.com.after = <<>> THEN <<>>
        ELSE Newline \o CommentText(n.com.after) \o Newline)

RECURSIVE StyledValue(_, _, _, _, _), StyledChildren(_, _, _, _, _, _)

\* The children from the i-th on, one on a line: the loops of writeValue, for an
\* object, and of writeArrayValue.
StyledChildren(w, t, kids, i, d, indent) ==
  LET c == kids[i]
      label == IF ~c[Len(c)].isName THEN <<>>
               ELSE MemberLabel(c) \o Space \o <<Lexeme(":")>> \o Space
      value == StyledValue(w, t, c, WriteIndent(w, CommentBefore(t[c], d), indent)
                                      \o label, indent)
      comma == IF i < Len(kids) THEN <<Lexeme(",")>> ELSE <<>>
      next == CommentAfter(t[c], value \o comma)
  IN IF i = Len(kids) THEN next
     ELSE StyledChildren(w, t, kids, i + 1, next, indent)

\* writeValue, writeArrayValue and pushValue; on one line, an array is its
\* childValues_.
StyledValue(w, t, p, d, indent) ==
  LET kids == Children(t, p)
      one(c) == IF IsContainer(t[c]) THEN Opening(t[c]) \o Closing(t[c])
                ELSE ScalarText(t[c])
  IN IF ~IsContainer(t[p]) THEN d \o ScalarText(t[p])
     ELSE IF kids = <<>> THEN d \o Opening(t[p]) \o Closing(t[p])
     ELSE IF t[p].type = "array" /\ ~IsMultineArray(t, p)
     THEN d \o Opening(t[p]) \o Space
            \o FlattenSeq([i \in DOMAIN kids |->
                 (IF i = 1 THEN <<>> ELSE <<Lexeme(",")>> \o Space) \o one(kids[i])])
            \o Space \o Closing(t[p])
     ELSE WriteIndent(w, StyledChildren(w, t, kids, 1,
                           WriteIndent(w, d, indent) \o Opening(t[p]), Space),
                      indent)
          \o Closing(t[p])

\* StyledWriter::write and StyledStreamWriter::write.
StyledText(w, t) ==
  CommentAfter(t[<<>>],
               StyledValue(w, t, <<>>, CommentBefore(t[<<>>], <<>>), <<>>))
    \o Newline
=============================================================================
