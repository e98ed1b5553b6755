--------------------------- MODULE AnswerReference ---------------------------
(***************************************************************************)
(* What a raw completion means, read all at once.  The reference for       *)
(* AnswerParser, which has to find the same answer one character at a time *)
(* without knowing what comes next.                                        *)
(*                                                                         *)
(* A completion is a verdict line, then a body.  In the body a line that   *)
(* is a verdict token and nothing else is a control line, and "[n]" is a   *)
(* citation of the n-th chunk.  A text is a sequence of characters.        *)
(***************************************************************************)
EXTENDS Integers, Sequences, SequencesExt

CONSTANTS
    Tokens,          \* Tokens[v]: the letters that spell verdict v
    DigitValue,      \* DigitValue[c]: the value of a character isdigit() takes
                     \* for a digit, or NoValue when int() refuses it ("²")
    Numeral,         \* Numeral[n]: how a marker n is written in the answer
    Chunks,          \* how many chunks the prompt numbered
    MaxMarkerDigits, \* MAX_MARKER_DIGITS
    MaxVerdictLine,  \* MAX_VERDICT_LINE
    NoValue,
    Error            \* Verdict.ERROR

Verdicts == DOMAIN Tokens

Character == STRING
Text == Seq(Character)

\* Tokens are words, and what a marker or a line is made of is no digit.
ASSUME ParserAssumption ==
    /\ {"[", "]", "\n", " "} \subseteq Character
    /\ Verdicts # {} /\ Error \notin Verdicts
    /\ \A v \in Verdicts : /\ Tokens[v] \in Text \ {<<>>}
                           /\ \A i \in DOMAIN Tokens[v] : Tokens[v][i] \notin {" ", "\n", "["}
                           /\ \A w \in Verdicts : Tokens[v] = Tokens[w] => v = w
    /\ DOMAIN DigitValue \cap {"[", "]", "\n"} = {}
    /\ Chunks \in Nat
    /\ Numeral \in [1..Chunks -> Text]
    /\ MaxMarkerDigits \in Nat \ {0}
    /\ MaxVerdictLine \in Nat
    /\ NoValue \notin Text /\ NoValue \notin Verdicts

NotBlank(c) == c \notin {" ", "\n"}

\* Text without its leading blanks, and without those at either end.
WithoutIndent(s) ==
    LET first == SelectInSeq(s, NotBlank)
    IN  IF first = 0 THEN <<>> ELSE SubSeq(s, first, Len(s))

Stripped(s) == SubSeq(WithoutIndent(s), 1, SelectLastInSeq(WithoutIndent(s), NotBlank))

\* The verdict a text spells, or another value.
VerdictOf(s, otherwise) ==
    IF \E v \in Verdicts : Tokens[v] = s
    THEN CHOOSE v \in Verdicts : Tokens[v] = s
    ELSE otherwise

\* The number a row of digits writes.
ValueOf(digits) == FoldLeft(LAMBDA n, c : 10 * n + DigitValue[c], 0, digits)

Citable(digits) == ValueOf(digits) \in 1..Chunks

-----------------------------------------------------------------------------
\* The verdict line ends at the first newline; without one in a line of
\* plausible length there is no verdict line, and all of the text is body.
HeaderEnd(raw) == SelectInSeq(raw, LAMBDA c : c = "\n")

HasHeader(raw) == HeaderEnd(raw) \in 1..MaxVerdictLine + 1

Undecided(raw) == HeaderEnd(raw) = 0 /\ Len(raw) <= MaxVerdictLine

HeaderVerdict(raw) ==
    IF HasHeader(raw)
    THEN VerdictOf(Stripped(SubSeq(raw, 1, HeaderEnd(raw) - 1)), Error)
    ELSE Error

Body(raw) == IF HasHeader(raw) THEN SubSeq(raw, HeaderEnd(raw) + 1, Len(raw)) ELSE raw

\* Lines of a text, as the pairs of their first and last position; the newline
\* of a line is not part of it, and the last line may be empty.
Lines(s) ==
    {l \in (1..Len(s) + 1) \X (0..Len(s)) :
        /\ l[1] = 1 \/ s[l[1] - 1] = "\n"
        /\ l[2] = Len(s) \/ s[l[2] + 1] = "\n"
        /\ l[1] <= l[2] + 1
        /\ \A i \in l[1]..l[2] : s[i] # "\n"}

Line(s, l) == SubSeq(s, l[1], l[2])

\* A control line: a token behind nothing but indentation.
ControlLines(s) == {l \in Lines(s) : \E v \in Verdicts : Tokens[v] = WithoutIndent(Line(s, l))}

\* The control line that counts is the last one.
LastAmong(lines) == CHOOSE l \in lines : \A k \in lines : k[1] <= l[1]

TrailingVerdict(s) ==
    IF ControlLines(s) = {} THEN NoValue
    ELSE VerdictOf(WithoutIndent(Line(s, LastAmong(ControlLines(s)))), NoValue)

\* A text without its control lines and their newlines.
Prose(s) ==
    LET Dropped == UNION {l[1]..l[2] + 1 : l \in ControlLines(s)}
    IN  FlattenSeq([i \in 1..Len(s) |-> IF i \in Dropped THEN <<>> ELSE <<s[i]>>])

\* The markers of a prose text, as the pairs of their bracket positions.
Digits(s, m) == SubSeq(s, m[1] + 1, m[2] - 1)

Markers(s) ==
    {m \in (1..Len(s)) \X (1..Len(s)) :
        /\ s[m[1]] = "[" /\ s[m[2]] = "]"
        /\ m[2] - m[1] - 1 \in 1..MaxMarkerDigits
        /\ \A i \in m[1] + 1..m[2] - 1 : s[i] \in DOMAIN DigitValue}

\* Prose as the client sees it: a marker that cites a chunk in normal form,
\* one that cites none removed, everything else as it is.
Rendered(s) ==
    LET At(i) == {m \in Markers(s) : i \in m[1]..m[2]}
        Piece(i) ==
            IF At(i) = {} THEN <<s[i]>>
            ELSE LET m == CHOOSE m \in At(i) : TRUE
                 IN  IF i = m[1] /\ Citable(Digits(s, m))
                     THEN <<"[">> \o Numeral[ValueOf(Digits(s, m))] \o <<"]">>
                     ELSE <<>>
    IN  FlattenSeq([i \in 1..Len(s) |-> Piece(i)])

\* The numbers of the markers, in the order of the text.
MarkerValues(s) ==
    LET From(i) == {m \in Markers(s) : m[1] = i}
        Value(i) == IF From(i) = {} THEN <<>>
                    ELSE <<ValueOf(Digits(s, CHOOSE m \in From(i) : TRUE))>>
    IN  FlattenSeq([i \in 1..Len(s) |-> Value(i)])

\* The chunks cited, each at its first marker; and the values that are no chunk.
FirstUses(values) ==
    FlattenSeq([i \in DOMAIN values |->
        IF values[i] \in 1..Chunks /\ \A j \in 1..i - 1 : values[j] # values[i]
        THEN <<values[i]>> ELSE <<>>])

Unknown(values) ==
    FlattenSeq([i \in DOMAIN values |-> IF values[i] \in 1..Chunks THEN <<>> ELSE <<values[i]>>])

Citations(s) == FirstUses(MarkerValues(s))
DroppedMarkers(s) == Unknown(MarkerValues(s))

-----------------------------------------------------------------------------
\* The prose of an unfinished body whose reading more text cannot change: all but
\* a last line that may still become a control line, or an open marker.
LastLine(s) == CHOOSE l \in Lines(s) : l[2] = Len(s)

CouldBecomeControl(s) ==
    \E v \in Verdicts : IsPrefix(WithoutIndent(Line(s, LastLine(s))), Tokens[v])

OpenMarker(s) ==
    {i \in 1..Len(s) : /\ s[i] = "["
                       /\ Len(s) - i <= MaxMarkerDigits
                       /\ \A j \in i + 1..Len(s) : s[j] \in DOMAIN DigitValue}

WithoutOpenMarker(s) ==
    IF OpenMarker(s) = {} THEN s ELSE SubSeq(s, 1, (CHOOSE i \in OpenMarker(s) : TRUE) - 1)

SettledProse(s) ==
    IF CouldBecomeControl(s) THEN Prose(SubSeq(s, 1, LastLine(s)[1] - 1))
                             ELSE WithoutOpenMarker(Prose(s))
=============================================================================
