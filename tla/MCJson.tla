-------------------------------- MODULE MCJson --------------------------------
(***************************************************************************)
(* Ints of eight bits, two names that the server looks up, and a budget on *)
(* the text of a request: what nests or makes a value costs, separators    *)
(* and closing brackets do not, and what is rare costs more.               *)
(***************************************************************************)
EXTENDS Json

MCAlphabet == <<"n", "a", "avgRtt", "errMsg", "false", "ip", "lossRate",
                "message", "results", "servers", "success", "timeout", "true">>

Num(minus, digits, tail) == NumberLexeme(Numeral(minus, digits, tail))

Free == {Lexeme(t) : t \in {"eof", "]", "}", ",", ":"}}

Cheap == {Lexeme("{"), Lexeme("["), Num(FALSE, <<1>>, "none"),
          StringLexeme(<<"servers">>)}

\* The limits of ints and unsigned ints; what decodeNumber makes doubles of: a
\* number between two doubles, one whose text is too long for the buffer, and
\* every fraction, one with a sign that goes and one with a carry that stays.
Numbers ==
  {Num(FALSE, <<1, 2, 7>>, "none"), Num(FALSE, <<1, 2, 8>>, "none"),
   Num(FALSE, <<2, 5, 0>>, "none"), Num(TRUE, <<1, 1, 9>>, "none"),
   Num(TRUE, <<>>, "none"), Num(FALSE, <<0>>, "whole"),
   Num(TRUE, <<0>>, "half"), Num(FALSE, <<1>>, "bad"),
   Num(TRUE, <<0>>, "low"), Num(FALSE, <<9>>, "high"),
   Num(FALSE, <<9, 9, 9>>, "none"), Num(FALSE, <<1, 2, 3, 4, 5>>, "none"),
   Num(FALSE, <<1>>, "huge"), Num(TRUE, <<1>>, "huge")}

Strings == {StringLexeme(s) : s \in {<<>>, <<"a", "n", "u">>, <<"bad">>}}

Rare == Numbers \cup Strings
          \cup {Lexeme(t) : t \in {"true", "false", "null", "error"}}

Layout == {Lexeme("newline")} \cup {CommentLexeme(c) : c \in {"c", "cn", "cpp"}}

MCTexts == Free \cup Cheap \cup {StringLexeme(<<"timeout">>)} \cup Rare \cup Layout

MCCost == [x \in MCTexts |-> CASE x \in Free -> 0
                               [] x \in Cheap -> 1
                               [] x \in Rare -> 4
                               [] OTHER -> 2]
=============================================================================
