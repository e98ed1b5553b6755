---------------------------- MODULE MCAnswerParser ----------------------------
(***************************************************************************)
(* Instances of AnswerParser for TLC.  ANSWERED is spelt "AD" and          *)
(* INSUFFICIENT_EVIDENCE "I"; a "D" alone is prose.                        *)
(***************************************************************************)
EXTENDS AnswerParser

TwoTokens == [answered |-> <<"A", "D">>, insufficient |-> <<"I">>]

\* Two decimal digits; and a superscript, which isdigit() takes for a digit.
Decimal     == [c \in {"0", "1"} |-> IF c = "1" THEN 1 ELSE 0]
Superscript == [c \in {"1", "2^"} |-> IF c = "1" THEN 1 ELSE NoValue]

OneChunk == [n \in {1} |-> <<"1">>]

\* A verdict line, a padded one, one with the body in the same slice, a partial
\* one, one that is too long, and one that is no token.
Headers == {<<"A", "D", "\n">>, <<" ", "I", " ", "\n">>, <<"I", "\n", "D">>, <<"A">>,
            <<"D", "[", "1", "]">>, <<"D", "\n">>}

ShortHeader == {<<"A", "D", "\n">>}

Letters == {<<"A">>, <<"D">>, <<"I">>, <<" ">>, <<"\n">>, <<"[">>, <<"]">>, <<"0">>, <<"1">>}

\* Characters one by one, a whole marker, a split one and a whole control line.
Mixed == Letters \cup {<<"[", "1">>, <<"1", "]", "D">>, <<"\n", "I", "\n">>}

Numbering == {<<"[">>, <<"]">>, <<"1">>, <<"2^">>}
=============================================================================
