------------------------- MODULE AnswerParserProofs -------------------------
(***************************************************************************)
(* Theorems about AnswerParser: for completions of any length, cut into    *)
(* any slices, any alphabet, tokens and numbering, the parser that reads   *)
(* one character at a time sends what AnswerReference reads at once.       *)
(*                                                                         *)
(* The invariant relates the parser to the raw text (CharRead): until the  *)
(* verdict is decided it is a new parser holding the line; after that it   *)
(* has read the body (HasRead).  A held line is the last line of the body  *)
(* and may still become a control line, and the prose before it has been   *)
(* read; otherwise all of the prose has.  Having read a prose text means   *)
(* (Prosed) that what was written is its rendering up to the open marker,  *)
(* the digits since then are held, and the citations are its citations.    *)
(* Each of these survives one more character, so a slice (CharRuns), so a  *)
(* step.  The reference looks at the whole text, so for each of its parts  *)
(* a lemma says how one more character changes it (RenderedGrows,          *)
(* RenderedClose, MarkersGrow, ProseSplit, HeaderGrows and their like).    *)
(***************************************************************************)
EXTENDS AnswerParser, SequenceInduction

(***************************************************************************)
(* Lines, control lines and the prose they leave.                          *)
(***************************************************************************)

\* A line that is a verdict token behind its indentation.
Control(line) == \E v \in Verdicts : Tokens[v] = WithoutIndent(line)

IsLine(s, n, a, e) ==
    /\ a \in 1..n + 1 /\ e \in 0..n
    /\ a = 1 \/ s[a - 1] = "\n"
    /\ e = n \/ s[e + 1] = "\n"
    /\ a <= e + 1
    /\ \A i \in a..e : s[i] # "\n"

\* A line is where IsLine says, in terms that name no pair.
LEMMA LinesAre ==
    ASSUME NEW s, NEW n, n = Len(s)
    PROVE  /\ \A l \in Lines(s) : l = <<l[1], l[2]>>
           /\ \A a, e : <<a, e>> \in Lines(s) <=> IsLine(s, n, a, e)
BY DEF Lines, IsLine

LEMMA EmptyIsNoControl == ~Control(<<>>)
<1>1. WithoutIndent(<<>>) = <<>>
  BY DEF WithoutIndent, SelectInSeq
<1> QED
  BY <1>1, ParserAssumption DEF Control

LEMMA OneOf ==
    ASSUME NEW S, NEW c \in S
    PROVE  <<c>> \in Seq(S)
OBVIOUS

\* t is what comes before a line that starts behind position n.
Break(s, n) == n = 0 \/ s[n] = "\n"
UpTo(s, n, t) == s \in Text /\ n \in 0..Len(s) /\ Break(s, n) /\ t = SubSeq(s, 1, n)

\* The lines before a break are those of the text up to it.
LEMMA LinesBefore ==
    ASSUME NEW s, NEW n, NEW t, UpTo(s, n, t)
    PROVE  \A a, e : a \in Nat /\ a <= n =>
               /\ <<a, e>> \in Lines(s) <=> <<a, e>> \in Lines(t)
               /\ <<a, e>> \in Lines(s) => e < n /\ Line(s, <<a, e>>) = Line(t, <<a, e>>)
<1> SUFFICES ASSUME NEW a, NEW e, a \in Nat, a <= n
             PROVE  /\ <<a, e>> \in Lines(s) <=> <<a, e>> \in Lines(t)
                    /\ <<a, e>> \in Lines(s) => e < n /\ Line(s, <<a, e>>) = Line(t, <<a, e>>)
  OBVIOUS
<1> s \in Text /\ n \in 0..Len(s) /\ Break(s, n) /\ t = SubSeq(s, 1, n)
  BY DEF UpTo
<1>0. t \in Text /\ Len(t) = n /\ \A i \in 1..n : t[i] = s[i]
  BY SubSeqProperties DEF Text
<1>1. PICK m \in Nat : m = Len(s)
  BY DEF Text
<1>2. n <= m
  BY <1>1
<1>3. <<a, e>> \in Lines(s) <=> IsLine(s, m, a, e)
  BY <1>1, LinesAre
<1>4. <<a, e>> \in Lines(t) <=> IsLine(t, n, a, e)
  <2>1. n = Len(t)
    BY <1>0
  <2> QED
    BY <2>1, LinesAre
<1>5. ASSUME IsLine(s, m, a, e) PROVE IsLine(t, n, a, e) /\ e < n
  <2>1. n # 0 /\ s[n] = "\n"
    BY <1>5 DEF Break, IsLine
  <2>2. e < n
    <3> SUFFICES ASSUME e >= n PROVE FALSE
      BY <1>5 DEF IsLine
    <3>1. n \in a..e
      BY <1>5 DEF IsLine
    <3> QED
      BY <1>5, <2>1, <3>1 DEF IsLine
  <2> QED
    BY <1>0, <1>2, <1>5, <2>2 DEF IsLine
<1>6. ASSUME IsLine(t, n, a, e) PROVE IsLine(s, m, a, e)
  <2>1. n # 0 /\ s[n] = "\n" /\ t[n] = "\n"
    BY <1>0, <1>6 DEF Break, IsLine
  <2>2. e < n
    <3> SUFFICES ASSUME e = n PROVE FALSE
      BY <1>6 DEF IsLine
    <3>1. n \in a..e
      BY <1>6 DEF IsLine
    <3> QED
      BY <1>6, <2>1, <3>1 DEF IsLine
  <2> QED
    BY <1>0, <1>2, <1>6, <2>2 DEF IsLine
<1>7. ASSUME <<a, e>> \in Lines(s) PROVE Line(s, <<a, e>>) = Line(t, <<a, e>>)
  <2>1. a \in 1..n /\ e \in 0..n /\ a <= e + 1
    BY <1>3, <1>5, <1>7 DEF IsLine
  <2>2. SubSeq(s, a, e) = SubSeq(t, a, e)
    BY <1>0, <2>1 DEF Text
  <2> QED
    BY <2>2 DEF Line
<1> QED
  BY <1>3, <1>4, <1>5, <1>6, <1>7

\* From a break on: one line up to e, with at most its newline behind it.
Alone(s, n, e) ==
    /\ e \in n..Len(s)
    /\ \A i \in n + 1..e : s[i] # "\n"
    /\ e = Len(s) \/ (e + 1 = Len(s) /\ s[e + 1] = "\n")

LEMMA LinesAfter ==
    ASSUME NEW s \in Text, NEW n \in 0..Len(s), Break(s, n), NEW e, Alone(s, n, e)
    PROVE  /\ <<n + 1, e>> \in Lines(s)
           /\ \A a, f : <<a, f>> \in Lines(s) /\ a > n =>
                  \/ a = n + 1 /\ f = e
                  \/ a = Len(s) + 1 /\ f = Len(s)
<1> e \in n..Len(s)
  BY DEF Alone
<1>1. PICK m \in Nat : m = Len(s)
  BY DEF Text
<1>2. <<n + 1, e>> \in Lines(s)
  <2>1. /\ n + 1 \in 1..m + 1 /\ e \in 0..m
        /\ n + 1 = 1 \/ s[(n + 1) - 1] = "\n"
        /\ e = m \/ s[e + 1] = "\n"
        /\ n + 1 <= e + 1
        /\ \A i \in n + 1..e : s[i] # "\n"
    BY <1>1 DEF Break, Alone
  <2> QED
    BY <1>1, <2>1, LinesAre DEF IsLine
<1>3. ASSUME NEW a, NEW f, <<a, f>> \in Lines(s), a > n
      PROVE  (a = n + 1 /\ f = e) \/ (a = m + 1 /\ f = m)
  <2>1. /\ a \in 1..m + 1 /\ f \in 0..m
        /\ a = 1 \/ s[a - 1] = "\n"
        /\ f = m \/ s[f + 1] = "\n"
        /\ a <= f + 1
        /\ \A i \in a..f : s[i] # "\n"
    BY <1>1, <1>3, LinesAre DEF IsLine
  <2>2. /\ \A i \in n + 1..e : s[i] # "\n"
        /\ e = m \/ (e + 1 = m /\ s[e + 1] = "\n")
    BY <1>1 DEF Alone
  <2>3. CASE a = n + 1
    <3>1. ASSUME f < e PROVE FALSE
      <4>1. f + 1 \in n + 1..e /\ f # m
        BY <1>1, <2>1, <2>3, <3>1
      <4> QED
        BY <2>1, <2>2, <4>1
    <3>2. ASSUME f > e PROVE FALSE
      <4>1. e # m /\ e + 1 \in a..f
        BY <1>1, <2>1, <2>3, <3>2
      <4> QED
        BY <2>1, <2>2, <4>1
    <3> QED
      BY <1>1, <2>1, <2>3, <3>1, <3>2
  <2>4. CASE a # n + 1
    <3>1. a - 1 >= n + 1 /\ s[a - 1] = "\n"
      BY <1>3, <2>1, <2>4
    <3>2. ~(a - 1 \in n + 1..e)
      BY <2>2, <3>1
    <3> QED
      BY <1>1, <2>1, <2>2, <3>1, <3>2
  <2> QED
    BY <2>3, <2>4
<1> QED
  BY <1>1, <1>2, <1>3

DroppedAt(s) == UNION {l[1]..l[2] + 1 : l \in ControlLines(s)}

Kept(s) == [i \in 1..Len(s) |-> IF i \in DroppedAt(s) THEN <<>> ELSE <<s[i]>>]

LEMMA ControlLinesAre ==
    ASSUME NEW s
    PROVE  /\ \A l \in ControlLines(s) : l = <<l[1], l[2]>> /\ l \in Lines(s)
           /\ \A a, e : <<a, e>> \in ControlLines(s) <=>
                            <<a, e>> \in Lines(s) /\ Control(Line(s, <<a, e>>))
BY LinesAre DEF ControlLines, Control

LEMMA DroppedIs ==
    ASSUME NEW s, NEW i
    PROVE  i \in DroppedAt(s) <=> \E a, e : <<a, e>> \in ControlLines(s) /\ i \in a..e + 1
<1>1. ASSUME i \in DroppedAt(s) PROVE \E a, e : <<a, e>> \in ControlLines(s) /\ i \in a..e + 1
  <2>1. PICK l \in ControlLines(s) : i \in l[1]..l[2] + 1
    BY <1>1 DEF DroppedAt
  <2>2. <<l[1], l[2]>> \in ControlLines(s)
    BY ControlLinesAre
  <2> QED
    BY <2>1, <2>2
<1>2. ASSUME NEW a, NEW e, <<a, e>> \in ControlLines(s), i \in a..e + 1 PROVE i \in DroppedAt(s)
  BY <1>2 DEF DroppedAt
<1> QED
  BY <1>1, <1>2

\* The control lines of a text are those before a break and the one behind it.
LEMMA ControlSplit ==
    ASSUME NEW s, NEW n, NEW t, UpTo(s, n, t), NEW e, Alone(s, n, e)
    PROVE  \A a, f :
               /\ <<a, f>> \in ControlLines(s) <=>
                      \/ <<a, f>> \in ControlLines(t)
                      \/ a = n + 1 /\ f = e /\ Control(SubSeq(s, n + 1, e))
               /\ <<a, f>> \in ControlLines(t) =>
                      a \in 1..n /\ f \in 0..n - 1 /\ Line(s, <<a, f>>) = Line(t, <<a, f>>)
<1> s \in Text /\ n \in 0..Len(s) /\ Break(s, n) /\ t = SubSeq(s, 1, n) /\ e \in n..Len(s)
  BY DEF UpTo, Alone
<1>1. PICK m \in Nat : m = Len(s)
  BY DEF Text
<1>2. t \in Text /\ Len(t) = n
  BY SubSeqProperties DEF Text
<1>3. \A a, f : <<a, f>> \in Lines(s) <=> IsLine(s, m, a, f)
  BY <1>1, LinesAre
<1>4. \A a, f : <<a, f>> \in Lines(t) <=> IsLine(t, n, a, f)
  <2>1. n = Len(t)
    BY <1>2
  <2> QED
    BY <2>1, LinesAre
<1>5. \A a, f : a \in Nat /\ a <= n =>
           /\ <<a, f>> \in Lines(s) <=> <<a, f>> \in Lines(t)
           /\ <<a, f>> \in Lines(s) => f < n /\ Line(s, <<a, f>>) = Line(t, <<a, f>>)
  BY LinesBefore
<1>6. /\ <<n + 1, e>> \in Lines(s)
      /\ \A a, f : <<a, f>> \in Lines(s) /\ a > n => (a = n + 1 /\ f = e) \/ (a = m + 1 /\ f = m)
  BY <1>1, LinesAfter
<1>7. ~Control(Line(s, <<m + 1, m>>)) /\ ~Control(Line(t, <<n + 1, n>>))
  <2>1. SubSeq(s, m + 1, m) = <<>> /\ SubSeq(t, n + 1, n) = <<>>
    BY <1>2 DEF Text
  <2> QED
    BY <2>1, EmptyIsNoControl DEF Line
<1> SUFFICES ASSUME NEW a, NEW f
             PROVE  /\ <<a, f>> \in ControlLines(s) <=>
                           \/ <<a, f>> \in ControlLines(t)
                           \/ a = n + 1 /\ f = e /\ Control(SubSeq(s, n + 1, e))
                    /\ <<a, f>> \in ControlLines(t) =>
                           a \in 1..n /\ f \in 0..n - 1 /\ Line(s, <<a, f>>) = Line(t, <<a, f>>)
  OBVIOUS
<1>8. ASSUME <<a, f>> \in ControlLines(t)
      PROVE  /\ <<a, f>> \in ControlLines(s) /\ a \in 1..n /\ f \in 0..n - 1
             /\ Line(s, <<a, f>>) = Line(t, <<a, f>>)
  <2>1. <<a, f>> \in Lines(t) /\ Control(Line(t, <<a, f>>)) /\ IsLine(t, n, a, f)
    BY <1>4, <1>8, ControlLinesAre
  <2>2. ASSUME a = n + 1 PROVE FALSE
    <3>1. f = n
      BY <2>1, <2>2 DEF IsLine
    <3> QED
      BY <1>7, <2>1, <2>2, <3>1
  <2>3. a \in 1..n /\ f \in Nat
    BY <2>1, <2>2 DEF IsLine
  <2>4. <<a, f>> \in Lines(s) /\ f < n /\ Line(s, <<a, f>>) = Line(t, <<a, f>>)
    BY <1>5, <2>1, <2>3
  <2> QED
    BY <2>1, <2>3, <2>4, ControlLinesAre
<1>9. ASSUME <<a, f>> \in ControlLines(s)
      PROVE  <<a, f>> \in ControlLines(t) \/ (a = n + 1 /\ f = e /\ Control(SubSeq(s, n + 1, e)))
  <2>1. <<a, f>> \in Lines(s) /\ Control(Line(s, <<a, f>>)) /\ IsLine(s, m, a, f)
    BY <1>3, <1>9, ControlLinesAre
  <2>2. a \in Nat
    BY <2>1 DEF IsLine
  <2>3. CASE a <= n
    <3>1. <<a, f>> \in Lines(t) /\ Line(s, <<a, f>>) = Line(t, <<a, f>>)
      BY <1>5, <2>1, <2>2, <2>3
    <3> QED
      BY <2>1, <3>1, ControlLinesAre
  <2>4. CASE a > n
    <3>1. (a = n + 1 /\ f = e) \/ (a = m + 1 /\ f = m)
      BY <1>6, <2>1, <2>4
    <3>2. ~(a = m + 1 /\ f = m)
      BY <1>7, <2>1
    <3>3. Line(s, <<n + 1, e>>) = SubSeq(s, n + 1, e)
      BY DEF Line
    <3> QED
      BY <2>1, <3>1, <3>2, <3>3
  <2> QED
    BY <2>2, <2>3, <2>4
<1>10. ASSUME Control(SubSeq(s, n + 1, e)) PROVE <<n + 1, e>> \in ControlLines(s)
  <2>1. Line(s, <<n + 1, e>>) = SubSeq(s, n + 1, e)
    BY DEF Line
  <2> QED
    BY <1>6, <1>10, <2>1, ControlLinesAre
<1> QED
  BY <1>8, <1>9, <1>10

\* The prose of a text goes on behind a break as its next line does.
LEMMA ProseSplit ==
    ASSUME NEW s, NEW n, NEW t, UpTo(s, n, t), NEW e, Alone(s, n, e)
    PROVE  /\ Prose(t) \in Text
           /\ Prose(s) = IF Control(SubSeq(s, n + 1, e)) THEN Prose(t)
                         ELSE Prose(t) \o SubSeq(s, n + 1, Len(s))
<1> DEFINE C == Control(SubSeq(s, n + 1, e))
<1>3. \A a, f : /\ <<a, f>> \in ControlLines(s) <=> <<a, f>> \in ControlLines(t) \/ (a = n + 1 /\ f = e /\ C)
                /\ <<a, f>> \in ControlLines(t) => a \in 1..n /\ f \in 0..n - 1
  <2> SUFFICES ASSUME NEW a, NEW f
               PROVE  /\ <<a, f>> \in ControlLines(s) <=> <<a, f>> \in ControlLines(t) \/ (a = n + 1 /\ f = e /\ C)
                      /\ <<a, f>> \in ControlLines(t) => a \in 1..n /\ f \in 0..n - 1
    OBVIOUS
  <2> QED
    BY ControlSplit
<1> HIDE DEF C
<1> s \in Text /\ n \in 0..Len(s) /\ Break(s, n) /\ t = SubSeq(s, 1, n) /\ e \in n..Len(s)
  BY DEF UpTo, Alone
<1>1. PICK m \in Nat : m = Len(s)
  BY DEF Text
<1>2. t \in Text /\ Len(t) = n /\ \A i \in 1..n : t[i] = s[i]
  BY SubSeqProperties DEF Text
<1>4. ASSUME NEW i \in 1..n PROVE i \in DroppedAt(s) <=> i \in DroppedAt(t)
  <2>1. ASSUME NEW a, NEW f, <<a, f>> \in ControlLines(s), i \in a..f + 1 PROVE i \in DroppedAt(t)
    <3>1. <<a, f>> \in ControlLines(t) \/ (a = n + 1 /\ f = e)
      BY <1>3, <2>1
    <3>2. ~(a = n + 1 /\ f = e)
      BY <2>1
    <3> QED
      BY <2>1, <3>1, <3>2, DroppedIs
  <2>2. ASSUME NEW a, NEW f, <<a, f>> \in ControlLines(t), i \in a..f + 1 PROVE i \in DroppedAt(s)
    <3>1. <<a, f>> \in ControlLines(s)
      BY <1>3, <2>2
    <3> QED
      BY <2>2, <3>1, DroppedIs
  <2> QED
    BY <2>1, <2>2, DroppedIs
<1>5. ASSUME NEW i \in n + 1..m PROVE i \in DroppedAt(s) <=> C
  <2>1. ASSUME NEW a, NEW f, <<a, f>> \in ControlLines(s), i \in a..f + 1 PROVE C
    <3>1. \/ <<a, f>> \in ControlLines(t) /\ a \in 1..n /\ f \in 0..n - 1
          \/ C
      BY <1>3, <2>1
    <3>2. ~(a \in 1..n /\ f \in 0..n - 1)
      BY <2>1
    <3> QED
      BY <3>1, <3>2
  <2>2. ASSUME C PROVE i \in DroppedAt(s)
    <3>1. <<n + 1, e>> \in ControlLines(s)
      BY <1>3, <2>2
    <3>2. i \in n + 1..e + 1
      BY <1>1 DEF Alone
    <3> QED
      BY <3>1, <3>2, DroppedIs
  <2> QED
    BY <2>1, <2>2, DroppedIs
<1>6. Kept(s) \in [1..m -> Text] /\ Kept(t) \in [1..n -> Text]
  <2>1. \A i \in 1..m : s[i] \in Character
    BY <1>1 DEF Text
  <2>2. \A i \in 1..n : t[i] \in Character
    BY <1>2 DEF Text
  <2>3. <<>> \in Text
    BY EmptySeq DEF Text
  <2>4. ASSUME NEW c \in Character PROVE <<c>> \in Text
    BY OneOf DEF Text
  <2> QED
    BY <1>1, <1>2, <2>1, <2>2, <2>3, <2>4 DEF Kept
<1>7. FlatTo(Kept(s), n) = FlatTo(Kept(t), n)
  <2>1. \A i \in 1..n : Kept(s)[i] = Kept(t)[i]
    BY <1>1, <1>2, <1>4 DEF Kept
  <2>2. [i \in 1..n |-> Kept(s)[i]] = [i \in 1..n |-> Kept(t)[i]]
    BY <2>1
  <2> QED
    BY <2>2 DEF FlatTo
<1>8. /\ Prose(s) = FlatTo(Kept(s), m)
      /\ Prose(t) = FlatTo(Kept(t), n) /\ Prose(t) \in Text
  <2>1. Prose(s) = FlattenSeq(Kept(s)) /\ Prose(t) = FlattenSeq(Kept(t))
    BY DEF Prose, Kept, DroppedAt
  <2>2. ASSUME NEW k \in Nat, NEW f \in [1..k -> Text]
        PROVE  FlatTo(f, k) = FlattenSeq(f) /\ FlatTo(f, k) \in Text
    <3>1. k \in 0..k /\ f \in [1..k -> Seq(Character)]
      BY DEF Text
    <3> QED
      BY <3>1, FlatStep DEF Text
  <2> QED
    BY <1>1, <1>2, <1>6, <2>1, <2>2
<1>9. CASE C
  <2>1. \A i \in n + 1..m : Kept(s)[i] = <<>>
    BY <1>1, <1>5, <1>9 DEF Kept
  <2>2. FlatTo(Kept(s), m) = FlatTo(Kept(s), n)
    BY <1>1, <1>6, <2>1, FlatBlank DEF Text
  <2> QED
    BY <1>7, <1>8, <1>9, <2>2 DEF C
<1>10. CASE ~C
  <2>1. \A i \in n + 1..m : Kept(s)[i] = <<s[i]>>
    BY <1>1, <1>5, <1>10 DEF Kept
  <2>2. FlatTo(Kept(s), m) = FlatTo(Kept(s), n) \o SubSeq(s, n + 1, m)
    BY <1>1, <1>6, <2>1, FlatSingles DEF Text
  <2> QED
    BY <1>1, <1>7, <1>8, <1>10, <2>2 DEF C
<1> QED
  BY <1>9, <1>10

(***************************************************************************)
(* The verdict of the last control line; indentation.                      *)
(***************************************************************************)

\* The control line that counts is the last line, or was the last one before it.
LEMMA TrailingSplit ==
    ASSUME NEW s, NEW n, NEW t, UpTo(s, n, t), NEW e, Alone(s, n, e)
    PROVE  TrailingVerdict(s) =
               IF Control(SubSeq(s, n + 1, e)) THEN VerdictOf(WithoutIndent(SubSeq(s, n + 1, e)), NoValue)
               ELSE TrailingVerdict(t)
<1> DEFINE C == Control(SubSeq(s, n + 1, e))
           S == ControlLines(s)
           T == ControlLines(t)
<1>1. ASSUME NEW a, NEW f
      PROVE  /\ <<a, f>> \in S <=> <<a, f>> \in T \/ (a = n + 1 /\ f = e /\ C)
             /\ <<a, f>> \in T => a \in 1..n /\ f \in 0..n - 1 /\ Line(s, <<a, f>>) = Line(t, <<a, f>>)
  BY ControlSplit
<1>2. \A l \in S \cup T : l = <<l[1], l[2]>>
  BY ControlLinesAre
<1>3. n \in Nat
  BY DEF UpTo, Text
<1>4. /\ TrailingVerdict(s) = IF S = {} THEN NoValue
                              ELSE VerdictOf(WithoutIndent(Line(s, LastAmong(S))), NoValue)
      /\ TrailingVerdict(t) = IF T = {} THEN NoValue
                              ELSE VerdictOf(WithoutIndent(Line(t, LastAmong(T))), NoValue)
  BY DEF TrailingVerdict
<1>5. Line(s, <<n + 1, e>>) = SubSeq(s, n + 1, e)
  BY DEF Line
<1> HIDE DEF C, S, T
<1>6. CASE C
  <2>1. <<n + 1, e>> \in S
    BY <1>1, <1>6
  <2>2. ASSUME NEW l \in S PROVE l[1] \in Nat /\ l[1] <= n + 1 /\ (l[1] = n + 1 => l = <<n + 1, e>>)
    <3>1. l = <<l[1], l[2]>>
      BY <1>2
    <3>2. <<l[1], l[2]>> \in T \/ (l[1] = n + 1 /\ l[2] = e)
      BY <1>1, <3>1
    <3>3. CASE l[1] = n + 1 /\ l[2] = e
      BY <1>3, <3>1, <3>3
    <3>4. CASE <<l[1], l[2]>> \in T
      <4>1. l[1] \in 1..n
        BY <1>1, <3>4
      <4> QED
        BY <1>3, <4>1
    <3> QED
      BY <3>2, <3>3, <3>4
  <2>3. <<n + 1, e>>[1] = n + 1
    OBVIOUS
  <2>4. PICK l : l = LastAmong(S)
    OBVIOUS
  <2>5. l \in S /\ \A k \in S : k[1] <= l[1]
    <3>1. \E x \in S : \A k \in S : k[1] <= x[1]
      BY <2>1, <2>2, <2>3
    <3> QED
      BY <2>4, <3>1 DEF LastAmong
  <2>6. n + 1 <= l[1]
    BY <2>1, <2>3, <2>5
  <2>7. l = <<n + 1, e>>
    BY <1>3, <2>2, <2>5, <2>6
  <2> QED
    BY <1>4, <1>5, <1>6, <2>1, <2>4, <2>7 DEF C
<1>7. CASE ~C
  <2>1. S = T
    <3>1. ASSUME NEW l \in S PROVE l \in T
      BY <1>1, <1>2, <1>7
    <3>2. ASSUME NEW l \in T PROVE l \in S
      BY <1>1, <1>2
    <3> QED
      BY <3>1, <3>2
  <2>2. CASE T = {}
    BY <1>4, <1>7, <2>1, <2>2 DEF C
  <2>3. CASE T # {}
    <3> DEFINE N == {l[1] : l \in T}
    <3>1. N \subseteq 0..n
      <4> SUFFICES ASSUME NEW l \in T PROVE l[1] \in 0..n
        OBVIOUS
      <4>1. <<l[1], l[2]>> \in T
        BY <1>2
      <4> QED
        BY <1>1, <1>3, <4>1
    <3>2. N # {}
      BY <2>3
    <3>3. PICK x \in N : \A y \in N : y <= x
      BY <1>3, <3>1, <3>2, NatMaximum
    <3>4. \E l \in T : \A k \in T : k[1] <= l[1]
      BY <3>3
    <3>5. PICK l : l = LastAmong(T)
      OBVIOUS
    <3>6. l \in T
      BY <3>4, <3>5 DEF LastAmong
    <3>7. Line(s, l) = Line(t, l)
      <4>1. l = <<l[1], l[2]>>
        BY <1>2, <3>6
      <4>2. <<l[1], l[2]>> \in T
        BY <3>6, <4>1
      <4>3. Line(s, <<l[1], l[2]>>) = Line(t, <<l[1], l[2]>>)
        BY <1>1, <4>2
      <4> QED
        BY <4>1, <4>3
    <3>8. TrailingVerdict(s) = TrailingVerdict(t)
      BY <1>4, <2>1, <2>3, <3>5, <3>7
    <3> QED
      BY <1>7, <3>8 DEF C
  <2> QED
    BY <2>2, <2>3
<1> QED
  BY <1>6, <1>7

\* first is where a line begins behind its indentation.
First(s, k) ==
    /\ k \in 1..Len(s) /\ NotBlank(s[k])
    /\ \A i \in 1..k - 1 : ~NotBlank(s[i])

\* WithoutIndent starts at the first character that is not blank, if any.
LEMMA IndentIs ==
    ASSUME NEW s \in Text
    PROVE  \/ (\A i \in 1..Len(s) : ~NotBlank(s[i])) /\ WithoutIndent(s) = <<>>
           \/ \E k : First(s, k) /\ WithoutIndent(s) = SubSeq(s, k, Len(s))
<1> DEFINE I == {i \in 1..Len(s) : NotBlank(s[i])}
<1>1. PICK m \in Nat : m = Len(s)
  BY DEF Text
<1>2. CASE I = {}
  <2>1. WithoutIndent(s) = <<>>
    BY <1>2 DEF WithoutIndent, SelectInSeq
  <2> QED
    BY <1>2, <2>1
<1>3. CASE I # {}
  <2>1. I \subseteq Nat
    BY <1>1
  <2>2. Min(I) \in I /\ \A y \in I : Min(I) <= y
    BY <1>3, <2>1, MinOf
  <2>3. PICK k : k = Min(I)
    OBVIOUS
  <2>4. First(s, k)
    <3>1. k \in 1..Len(s) /\ NotBlank(s[k])
      BY <2>2, <2>3
    <3>2. ASSUME NEW i \in 1..k - 1 PROVE ~NotBlank(s[i])
      <4>1. i \in 1..Len(s) /\ ~(k <= i)
        BY <1>1, <3>1
      <4> QED
        BY <2>2, <2>3, <4>1
    <3> QED
      BY <3>1, <3>2 DEF First
  <2>5. k # 0
    BY <1>1, <2>2, <2>3
  <2>6. WithoutIndent(s) = SubSeq(s, k, Len(s))
    BY <1>3, <2>3, <2>5 DEF WithoutIndent, SelectInSeq
  <2> QED
    BY <2>4, <2>6
<1> QED
  BY <1>2, <1>3

LEMMA FirstOnly ==
    ASSUME NEW s \in Text, NEW k, First(s, k)
    PROVE  WithoutIndent(s) = SubSeq(s, k, Len(s))
<1>1. PICK m \in Nat : m = Len(s)
  BY DEF Text
<1>2. ~(\A i \in 1..Len(s) : ~NotBlank(s[i]))
  BY DEF First
<1>3. PICK j : First(s, j) /\ WithoutIndent(s) = SubSeq(s, j, Len(s))
  BY <1>2, IndentIs
<1>4. j = k
  BY <1>1, <1>3 DEF First
<1> QED
  BY <1>3, <1>4

\* Another character on a line.
LEMMA IndentGrows ==
    ASSUME NEW s \in Text, NEW c \in Character
    PROVE  WithoutIndent(s \o <<c>>) = IF WithoutIndent(s) # <<>> \/ NotBlank(c)
                                       THEN WithoutIndent(s) \o <<c>> ELSE <<>>
<1> DEFINE sc == s \o <<c>>
<1>1. PICK m \in Nat : m = Len(s)
  BY DEF Text
<1>2. sc \in Text /\ Len(sc) = m + 1 /\ sc[m + 1] = c /\ \A i \in 1..m : sc[i] = s[i]
  BY <1>1 DEF Text
<1> HIDE DEF sc
<1>3. CASE \E k : First(s, k)
  <2>1. PICK k : First(s, k)
    BY <1>3
  <2>2. First(sc, k)
    BY <1>1, <1>2, <2>1 DEF First
  <2>3. WithoutIndent(s) = SubSeq(s, k, m) /\ WithoutIndent(sc) = SubSeq(sc, k, m + 1) /\ k \in 1..m
    BY <1>1, <1>2, <2>1, <2>2, FirstOnly DEF First
  <2>4. SubSeq(sc, k, m + 1) = SubSeq(sc, k, m) \o <<c>>
    <3>1. k \in 1..Len(sc) /\ m + 1 \in k..Len(sc) /\ (m + 1) - 1 = m
      BY <1>1, <1>2, <2>3
    <3>2. SubSeq(sc, k, m + 1) = SubSeq(sc, k, (m + 1) - 1) \o <<sc[m + 1]>>
      BY <1>2, <3>1, SubSeqRecursiveSecond DEF Text
    <3> QED
      BY <1>2, <3>1, <3>2
  <2>5. SubSeq(sc, k, m) = SubSeq(s, k, m)
    BY <1>1, <1>2, <2>3 DEF Text
  <2>6. SubSeq(s, k, m) # <<>>
    <3>1. Len(SubSeq(s, k, m)) = m - k + 1
      BY <1>1, <2>3, SubSeqProperties DEF Text
    <3>2. Len(SubSeq(s, k, m)) # 0
      BY <1>1, <2>3, <3>1
    <3>3. Len(<<>>) = 0
      OBVIOUS
    <3> QED
      BY <3>2, <3>3
  <2> QED
    BY <2>3, <2>4, <2>5, <2>6 DEF sc
<1>4. CASE ~\E k : First(s, k)
  <2>1. (\A i \in 1..m : ~NotBlank(s[i])) /\ WithoutIndent(s) = <<>>
    BY <1>1, <1>4, IndentIs
  <2>2. CASE NotBlank(c)
    <3>1. First(sc, m + 1)
      BY <1>2, <2>1, <2>2 DEF First
    <3>2. WithoutIndent(sc) = SubSeq(sc, m + 1, m + 1)
      BY <1>2, <3>1, FirstOnly
    <3>3. SubSeq(sc, m + 1, m + 1) = <<c>>
      <4>1. m + 1 \in 1..Len(sc) /\ m + 1 \in m + 1..Len(sc) /\ (m + 1) - 1 = m
        BY <1>2
      <4>2. SubSeq(sc, m + 1, m + 1) = SubSeq(sc, m + 1, (m + 1) - 1) \o <<sc[m + 1]>>
        BY <1>2, <4>1, SubSeqRecursiveSecond DEF Text
      <4>3. SubSeq(sc, m + 1, m) = <<>>
        BY SubSeqEmpty
      <4>4. <<>> \o <<c>> = <<c>>
        OBVIOUS
      <4> QED
        BY <1>2, <4>1, <4>2, <4>3, <4>4
    <3>4. <<>> \o <<c>> = <<c>>
      OBVIOUS
    <3> QED
      BY <2>1, <2>2, <3>2, <3>3, <3>4 DEF sc
  <2>3. CASE ~NotBlank(c)
    <3>1. \A i \in 1..m + 1 : ~NotBlank(sc[i])
      BY <1>1, <1>2, <2>1, <2>3
    <3>2. ~\E k : First(sc, k)
      BY <1>2, <3>1 DEF First
    <3>3. WithoutIndent(sc) = <<>>
      BY <1>2, <3>2, IndentIs
    <3> QED
      BY <2>1, <2>3, <3>3 DEF sc
  <2> QED
    BY <2>2, <2>3
<1> QED
  BY <1>3, <1>4

(***************************************************************************)
(* Beginnings of a verdict line.                                           *)
(***************************************************************************)

LEMMA IndentType ==
    ASSUME NEW s \in Text
    PROVE  WithoutIndent(s) \in Text
<1>1. <<>> \in Text
  BY EmptySeq DEF Text
<1>2. ASSUME NEW k, First(s, k) PROVE SubSeq(s, k, Len(s)) \in Text
  <2>1. k \in 1..Len(s) /\ Len(s) \in Nat
    BY <1>2 DEF First, Text
  <2> QED
    BY <2>1, SubSeqProperties DEF Text
<1> QED
  BY <1>1, <1>2, IndentIs

\* What a token begins with is made of its letters.
LEMMA PrefixLetters ==
    ASSUME NEW v \in Verdicts, NEW p \in Text, IsPrefix(p, Tokens[v]), NEW i \in 1..Len(p)
    PROVE  p[i] \notin {" ", "\n", "["}
<1>1. PICK t : t = Tokens[v]
  OBVIOUS
<1>2. t \in Text /\ \A j \in DOMAIN t : t[j] \notin {" ", "\n", "["}
  BY <1>1, ParserAssumption
<1>3. Len(p) <= Len(t) /\ SubSeq(p, 1, Len(p)) = SubSeq(t, 1, Len(p))
  BY <1>1 DEF IsPrefix
<1>4. p[i] = t[i] /\ i \in DOMAIN t
  <2>0. t \in Text
    BY <1>2
  <2>1. PICK m \in Nat, n \in Nat : m = Len(p) /\ n = Len(t)
    BY <2>0 DEF Text
  <2>2. i \in 1..m /\ m <= n
    BY <1>3, <2>1
  <2>3. SubSeq(p, 1, m)[i] = p[i] /\ SubSeq(t, 1, m)[i] = t[i]
    BY <2>0, <2>1, <2>2 DEF Text
  <2>4. i \in DOMAIN t
    BY <2>0, <2>1, <2>2 DEF Text
  <2> QED
    BY <1>3, <2>1, <2>3, <2>4
<1> QED
  BY <1>2, <1>4

LEMMA StrippedIs ==
    ASSUME NEW s \in Text, \A i \in 1..Len(WithoutIndent(s)) : NotBlank(WithoutIndent(s)[i])
    PROVE  Stripped(s) = WithoutIndent(s)
<1>1. PICK w : w = WithoutIndent(s)
  OBVIOUS
<1>2. w \in Text
  BY <1>1, IndentType
<1>3. PICK n \in Nat : n = Len(w)
  BY <1>2 DEF Text
<1> DEFINE I == {i \in 1..Len(w) : NotBlank(w[i])}
<1>4. I = 1..n
  BY <1>1, <1>3
<1>5. SelectLastInSeq(w, NotBlank) = n
  <2>1. SelectLastInSeq(w, NotBlank) = IF I # {} THEN Max(I) ELSE 0
    BY DEF SelectLastInSeq
  <2>2. CASE n = 0
    BY <1>4, <2>1, <2>2
  <2>3. CASE n # 0
    <3>1. I \subseteq 0..n /\ I # {} /\ n \in I
      BY <1>4, <2>3
    <3>2. Max(I) \in I /\ \A y \in I : y <= Max(I)
      BY <3>1, MaxOf
    <3>3. Max(I) = n
      BY <1>4, <3>1, <3>2
    <3> QED
      BY <2>1, <3>1, <3>3
  <2> QED
    BY <2>2, <2>3
<1>6. Stripped(s) = SubSeq(w, 1, n)
  BY <1>1, <1>5 DEF Stripped
<1> QED
  BY <1>1, <1>2, <1>3, <1>6, SubSeqFull DEF Text

\* A line that may become a control line is blanks and letters of a token.
LEMMA HopefulLine ==
    ASSUME NEW s \in Text, CouldBeginAVerdict(s)
    PROVE  /\ \A i \in 1..Len(s) : s[i] # "["
           /\ Stripped(s) = WithoutIndent(s)
<1>1. PICK v \in Verdicts : IsPrefix(WithoutIndent(s), Tokens[v])
  BY DEF CouldBeginAVerdict
<1>2. \A i \in 1..Len(WithoutIndent(s)) : WithoutIndent(s)[i] \notin {" ", "\n", "["}
  BY <1>1, IndentType, PrefixLetters
<1>3. Stripped(s) = WithoutIndent(s)
  BY <1>2, StrippedIs DEF NotBlank
<1>4. ASSUME NEW i \in 1..Len(s), s[i] = "[" PROVE FALSE
  <2>1. NotBlank(s[i])
    BY <1>4 DEF NotBlank
  <2>2. PICK k : First(s, k) /\ WithoutIndent(s) = SubSeq(s, k, Len(s))
    BY <2>1, IndentIs
  <2>3. PICK m \in Nat : m = Len(s)
    BY DEF Text
  <2>4. k \in 1..m /\ k <= i
    BY <2>1, <2>2, <2>3 DEF First
  <2>5. i - k + 1 \in 1..Len(SubSeq(s, k, m)) /\ SubSeq(s, k, m)[i - k + 1] = s[i]
    BY <2>3, <2>4 DEF Text
  <2> QED
    BY <1>2, <1>4, <2>2, <2>3, <2>5
<1> QED
  BY <1>3, <1>4

LEMMA PrefixOfNone == ASSUME NEW v \in Verdicts PROVE IsPrefix(<<>>, Tokens[v])
<1>1. Tokens[v] \in Text
  BY ParserAssumption
<1>2. SubSeq(Tokens[v], 1, 0) = <<>> /\ SubSeq(<<>>, 1, 0) = <<>> /\ Len(<<>>) = 0
  BY SubSeqEmpty
<1>3. Len(Tokens[v]) \in Nat
  BY <1>1 DEF Text
<1> QED
  BY <1>2, <1>3 DEF IsPrefix

LEMMA EmptyHopes == CouldBeginAVerdict(<<>>) /\ WithoutIndent(<<>>) = <<>>
<1>1. PICK v : v \in Verdicts
  BY ParserAssumption
<1>2. WithoutIndent(<<>>) = <<>>
  BY DEF WithoutIndent, SelectInSeq
<1> QED
  BY <1>1, <1>2, PrefixOfNone DEF CouldBeginAVerdict

\* Hope once lost is lost.
LEMMA HopeEnds ==
    ASSUME NEW s \in Text, NEW c \in Character, CouldBeginAVerdict(s \o <<c>>)
    PROVE  CouldBeginAVerdict(s)
<1>1. PICK v \in Verdicts : IsPrefix(WithoutIndent(s \o <<c>>), Tokens[v])
  BY DEF CouldBeginAVerdict
<1>2. CASE WithoutIndent(s) = <<>>
  BY <1>2, PrefixOfNone DEF CouldBeginAVerdict
<1>3. CASE WithoutIndent(s) # <<>>
  <2>1. PICK w \in Text : w = WithoutIndent(s)
    BY IndentType
  <2>2. WithoutIndent(s \o <<c>>) = w \o <<c>>
    BY <1>3, <2>1, IndentGrows
  <2>3. PICK t \in Text : t = Tokens[v]
    BY ParserAssumption
  <2>4. PICK n \in Nat, m \in Nat : n = Len(w) /\ m = Len(t)
    BY DEF Text
  <2> DEFINE wc == w \o <<c>>
  <2>5. wc \in Text /\ Len(wc) = n + 1 /\ \A i \in 1..n : wc[i] = w[i]
    BY <2>4 DEF Text
  <2>6. Len(wc) <= Len(t) /\ SubSeq(wc, 1, Len(wc)) = SubSeq(t, 1, Len(wc))
    BY <1>1, <2>2, <2>3 DEF IsPrefix
  <2> HIDE DEF wc
  <2>7. n + 1 <= m /\ SubSeq(wc, 1, n + 1) = SubSeq(t, 1, n + 1)
    BY <2>4, <2>5, <2>6
  <2>8. ASSUME NEW i \in 1..n PROVE w[i] = t[i]
    <3>1. SubSeq(wc, 1, n + 1)[i] = wc[i] /\ SubSeq(t, 1, n + 1)[i] = t[i]
      BY <2>4, <2>5, <2>7 DEF Text
    <3> QED
      BY <2>5, <2>7, <3>1
  <2>9. SubSeq(w, 1, n) = SubSeq(t, 1, n)
    <3>1. SubSeq(w, 1, n) \in Text /\ SubSeq(t, 1, n) \in Text
          /\ Len(SubSeq(w, 1, n)) = n /\ Len(SubSeq(t, 1, n)) = n
      BY <2>4, <2>7 DEF Text
    <3>2. \A i \in 1..n : SubSeq(w, 1, n)[i] = w[i] /\ SubSeq(t, 1, n)[i] = t[i]
      BY <2>4, <2>7 DEF Text
    <3> QED
      BY <2>8, <3>1, <3>2, SeqEqual DEF Text
  <2>10. IsPrefix(w, t)
    BY <2>4, <2>7, <2>9 DEF IsPrefix
  <2> QED
    BY <2>1, <2>3, <2>10 DEF CouldBeginAVerdict
<1> QED
  BY <1>2, <1>3

\* A control line could have begun a verdict all along.
LEMMA ControlHopes ==
    ASSUME NEW s \in Text, Control(s)
    PROVE  CouldBeginAVerdict(s)
<1>1. PICK v \in Verdicts : Tokens[v] = WithoutIndent(s)
  BY DEF Control
<1>2. Len(Tokens[v]) <= Len(Tokens[v])
  <2>1. Tokens[v] \in Text
    BY ParserAssumption
  <2>2. Len(Tokens[v]) \in Nat
    BY <2>1 DEF Text
  <2> QED
    BY <2>2
<1> QED
  BY <1>1, <1>2 DEF CouldBeginAVerdict, IsPrefix

LEMMA VerdictIs ==
    ASSUME NEW s
    PROVE  /\ Control(s) <=> VerdictOf(WithoutIndent(s), NoValue) # NoValue
           /\ VerdictOf(WithoutIndent(s), NoValue) \in Verdicts \cup {NoValue}
BY ParserAssumption DEF Control, VerdictOf

(***************************************************************************)
(* Markers and the open marker.                                            *)
(***************************************************************************)

IsMarker(s, n, a, b) ==
    /\ a \in 1..n /\ b \in 1..n
    /\ s[a] = "[" /\ s[b] = "]"
    /\ b - a - 1 \in 1..MaxMarkerDigits
    /\ \A i \in a + 1..b - 1 : s[i] \in DOMAIN DigitValue

LEMMA MarkersAre ==
    ASSUME NEW s, NEW n, n = Len(s)
    PROVE  /\ \A m \in Markers(s) : m = <<m[1], m[2]>>
           /\ \A a, b : <<a, b>> \in Markers(s) <=> IsMarker(s, n, a, b)
BY DEF Markers, IsMarker

\* The bracket at o is open in s.
IsOpen(s, n, o) ==
    /\ o \in 1..n
    /\ s[o] = "[" /\ n - o <= MaxMarkerDigits
    /\ \A j \in o + 1..n : s[j] \in DOMAIN DigitValue

LEMMA OpenIs ==
    ASSUME NEW s, NEW n, n = Len(s)
    PROVE  \A o : o \in OpenMarker(s) <=> IsOpen(s, n, o)
BY DEF OpenMarker, IsOpen

LEMMA NoDigits == "[" \notin DOMAIN DigitValue /\ "]" \notin DOMAIN DigitValue /\ "\n" \notin DOMAIN DigitValue
BY ParserAssumption

LEMMA Bounds ==
    /\ MaxMarkerDigits \in Nat /\ MaxMarkerDigits # 0 /\ MaxVerdictLine \in Nat /\ Chunks \in Nat
    /\ Numeral \in [1..Chunks -> Text]
BY Zenon, ParserAssumption

LEMMA OneMore ==
    ASSUME NEW s \in Text, NEW c \in Character
    PROVE  /\ s \o <<c>> \in Text /\ Len(s) \in Nat /\ Len(s \o <<c>>) = Len(s) + 1
           /\ (s \o <<c>>)[Len(s) + 1] = c
           /\ \A i \in 1..Len(s) : (s \o <<c>>)[i] = s[i]
BY DEF Text

\* At most one marker is open.
LEMMA OneOpen ==
    ASSUME NEW s \in Text, NEW o \in OpenMarker(s)
    PROVE  OpenMarker(s) = {o}
<1>1. PICK n \in Nat : n = Len(s)
  BY DEF Text
<1>2. ASSUME NEW p \in OpenMarker(s) PROVE p = o
  <2>1. IsOpen(s, n, o) /\ IsOpen(s, n, p)
    BY <1>1, OpenIs
  <2> QED
    BY <1>1, <2>1, NoDigits DEF IsOpen
<1> QED
  BY <1>2

\* What is open after one more character.
LEMMA OpenGrows ==
    ASSUME NEW s \in Text, NEW c \in Character
    PROVE  /\ c = "[" => OpenMarker(s \o <<c>>) = {Len(s) + 1}
           /\ c \in DOMAIN DigitValue =>
                  OpenMarker(s \o <<c>>) = {o \in OpenMarker(s) : Len(s) - o < MaxMarkerDigits}
           /\ c # "[" /\ c \notin DOMAIN DigitValue => OpenMarker(s \o <<c>>) = {}
<1> DEFINE sc == s \o <<c>>
<1>1. PICK n \in Nat : n = Len(s)
  BY DEF Text
<1>2. n + 1 = Len(sc) /\ sc[n + 1] = c /\ (\A i \in 1..n : sc[i] = s[i]) /\ sc \in Text
  BY <1>1, OneMore
<1> HIDE DEF sc
<1>3. \A o : o \in OpenMarker(sc) <=> IsOpen(sc, n + 1, o)
  BY <1>2, OpenIs
<1>4. \A o : o \in OpenMarker(s) <=> IsOpen(s, n, o)
  BY <1>1, OpenIs
<1>5. MaxMarkerDigits \in Nat /\ MaxMarkerDigits >= 1
  BY Bounds
<1>6. ASSUME c = "[" PROVE OpenMarker(sc) = {n + 1}
  <2>1. IsOpen(sc, n + 1, n + 1)
    BY <1>2, <1>5, <1>6 DEF IsOpen
  <2>2. n + 1 \in OpenMarker(sc) /\ sc \in Text
    BY <1>2, <1>3, <2>1
  <2> QED
    BY <2>2, OneOpen
<1>7. ASSUME c \notin DOMAIN DigitValue, c # "[", NEW o \in OpenMarker(sc) PROVE FALSE
  <2>1. IsOpen(sc, n + 1, o)
    BY <1>3
  <2>2. CASE o = n + 1
    BY <1>2, <1>7, <2>1, <2>2 DEF IsOpen
  <2>3. CASE o # n + 1
    <3>1. n + 1 \in o + 1..n + 1
      BY <2>1, <2>3 DEF IsOpen
    <3> QED
      BY <1>2, <1>7, <2>1, <3>1 DEF IsOpen
  <2> QED
    BY <2>2, <2>3
<1>8. ASSUME c \in DOMAIN DigitValue
      PROVE  OpenMarker(sc) = {o \in OpenMarker(s) : n - o < MaxMarkerDigits}
  <2>1. ASSUME NEW o, IsOpen(sc, n + 1, o) PROVE IsOpen(s, n, o) /\ n - o < MaxMarkerDigits
    <3>1. o # n + 1
      BY <1>2, <1>8, <2>1, NoDigits DEF IsOpen
    <3>2. o \in 1..n
      BY <2>1, <3>1 DEF IsOpen
    <3> QED
      BY <1>2, <1>5, <2>1, <3>2 DEF IsOpen
  <2>2. ASSUME NEW o, IsOpen(s, n, o), n - o < MaxMarkerDigits PROVE IsOpen(sc, n + 1, o)
    <3>1. o \in 1..n /\ o \in 1..n + 1
      BY <2>2 DEF IsOpen
    <3>2. sc[o] = "[" /\ (n + 1) - o <= MaxMarkerDigits
      BY <1>2, <1>5, <2>2, <3>1 DEF IsOpen
    <3>3. \A j \in o + 1..n + 1 : sc[j] \in DOMAIN DigitValue
      <4> SUFFICES ASSUME NEW j \in o + 1..n + 1 PROVE sc[j] \in DOMAIN DigitValue
        OBVIOUS
      <4>1. j = n + 1 \/ (j \in 1..n /\ j \in o + 1..n)
        BY <3>1
      <4> QED
        BY <1>2, <1>8, <2>2, <4>1 DEF IsOpen
    <3> QED
      BY <3>1, <3>2, <3>3 DEF IsOpen
  <2> QED
    BY <1>3, <1>4, <2>1, <2>2
<1> QED
  BY <1>1, <1>6, <1>7, <1>8 DEF sc

\* A closing bracket behind an open one with a digit makes a marker.
LEMMA MarkersGrow ==
    ASSUME NEW s \in Text, NEW c \in Character
    PROVE  Markers(s \o <<c>>) =
               Markers(s) \cup {<<o, Len(s) + 1>> : o \in {o \in OpenMarker(s) : c = "]" /\ o < Len(s)}}
<1> DEFINE sc == s \o <<c>>
<1>1. PICK n \in Nat : n = Len(s)
  BY DEF Text
<1>2. n + 1 = Len(sc) /\ sc[n + 1] = c /\ (\A i \in 1..n : sc[i] = s[i]) /\ sc \in Text
  BY <1>1, OneMore
<1> HIDE DEF sc
<1>3. /\ \A m \in Markers(sc) : m = <<m[1], m[2]>>
      /\ \A a, b : <<a, b>> \in Markers(sc) <=> IsMarker(sc, n + 1, a, b)
  BY <1>2, MarkersAre
<1>4. /\ \A m \in Markers(s) : m = <<m[1], m[2]>>
      /\ \A a, b : <<a, b>> \in Markers(s) <=> IsMarker(s, n, a, b)
  BY <1>1, MarkersAre
<1>5. \A o : o \in OpenMarker(s) <=> IsOpen(s, n, o)
  BY <1>1, OpenIs
<1>6. MaxMarkerDigits \in Nat
  BY Bounds
<1>7. ASSUME NEW a, NEW b, IsMarker(sc, n + 1, a, b)
      PROVE  IsMarker(s, n, a, b) \/ (b = n + 1 /\ c = "]" /\ IsOpen(s, n, a) /\ a < n)
  <2>1. a \in 1..n /\ b \in 1..n + 1 /\ a < b
    BY <1>6, <1>7 DEF IsMarker
  <2>2. CASE b = n + 1
    <3>1. c = "]" /\ s[a] = "[" /\ n - a \in 1..MaxMarkerDigits
      BY <1>2, <1>7, <2>1, <2>2 DEF IsMarker
    <3>2. ASSUME NEW j \in a + 1..n PROVE s[j] \in DOMAIN DigitValue
      <4>1. j \in a + 1..b - 1 /\ j \in 1..n
        BY <2>1, <2>2
      <4> QED
        BY <1>2, <1>7, <4>1 DEF IsMarker
    <3> QED
      BY <1>6, <2>1, <2>2, <3>1, <3>2 DEF IsOpen
  <2>3. CASE b # n + 1
    <3>1. b \in 1..n
      BY <2>1, <2>3
    <3> QED
      BY <1>2, <1>7, <2>1, <3>1 DEF IsMarker
  <2> QED
    BY <2>2, <2>3
<1>8. ASSUME NEW a, NEW b, IsMarker(s, n, a, b) PROVE IsMarker(sc, n + 1, a, b)
  BY <1>2, <1>6, <1>8 DEF IsMarker
<1>9. ASSUME NEW a, c = "]", IsOpen(s, n, a), a < n PROVE IsMarker(sc, n + 1, a, n + 1)
  <2>1. a \in 1..n /\ (n + 1) - a - 1 \in 1..MaxMarkerDigits
    BY <1>6, <1>9 DEF IsOpen
  <2>2. ASSUME NEW j \in a + 1..(n + 1) - 1 PROVE sc[j] \in DOMAIN DigitValue
    BY <1>2, <1>9, <2>1 DEF IsOpen
  <2> QED
    BY <1>2, <1>9, <2>1, <2>2 DEF IsMarker, IsOpen
<1> DEFINE New == {<<o, n + 1>> : o \in {o \in OpenMarker(s) : c = "]" /\ o < n}}
<1>10. ASSUME NEW m \in Markers(sc) PROVE m \in Markers(s) \cup New
  <2>1. m = <<m[1], m[2]>> /\ IsMarker(sc, n + 1, m[1], m[2])
    BY <1>3
  <2>2. IsMarker(s, n, m[1], m[2]) \/ (m[2] = n + 1 /\ c = "]" /\ IsOpen(s, n, m[1]) /\ m[1] < n)
    BY <1>7, <2>1
  <2>3. CASE IsMarker(s, n, m[1], m[2])
    BY <1>4, <2>1, <2>3
  <2>4. CASE m[2] = n + 1 /\ c = "]" /\ IsOpen(s, n, m[1]) /\ m[1] < n
    <3>1. <<m[1], n + 1>> \in New
      BY <1>5, <2>4
    <3> QED
      BY <2>1, <2>4, <3>1
  <2> QED
    BY <2>2, <2>3, <2>4
<1>11. ASSUME NEW m \in Markers(s) PROVE m \in Markers(sc)
  BY <1>3, <1>4, <1>8
<1>12. ASSUME NEW m \in New PROVE m \in Markers(sc)
  <2>1. PICK o \in OpenMarker(s) : c = "]" /\ o < n /\ m = <<o, n + 1>>
    OBVIOUS
  <2> QED
    BY <1>3, <1>5, <1>9, <2>1
<1>13. Markers(sc) = Markers(s) \cup New
  <2> HIDE DEF New
  <2> QED
    BY <1>10, <1>11, <1>12
<1> QED
  BY <1>1, <1>13 DEF sc

\* No marker reaches behind an open bracket.
LEMMA MarkersBeforeOpen ==
    ASSUME NEW s \in Text, NEW o \in OpenMarker(s)
    PROVE  /\ Markers(s) = Markers(SubSeq(s, 1, o - 1))
           /\ \A m \in Markers(s) : m[1] \in 1..o - 1 /\ m[2] \in 1..o - 1
<1>1. PICK n \in Nat : n = Len(s)
  BY DEF Text
<1>2. IsOpen(s, n, o) /\ o \in 1..n
  BY <1>1, OpenIs DEF IsOpen
<1>3. PICK w : w = SubSeq(s, 1, o - 1)
  OBVIOUS
<1>4. w \in Text /\ Len(w) = o - 1 /\ \A i \in 1..o - 1 : w[i] = s[i]
  BY <1>1, <1>2, <1>3 DEF Text
<1>5. /\ \A m \in Markers(s) : m = <<m[1], m[2]>>
      /\ \A a, b : <<a, b>> \in Markers(s) <=> IsMarker(s, n, a, b)
  BY <1>1, MarkersAre
<1>6. /\ \A m \in Markers(w) : m = <<m[1], m[2]>>
      /\ \A a, b : <<a, b>> \in Markers(w) <=> IsMarker(w, o - 1, a, b)
  <2>1. o - 1 = Len(w)
    BY <1>4
  <2> QED
    BY <2>1, MarkersAre
<1>7. ASSUME NEW a, NEW b, IsMarker(s, n, a, b)
      PROVE  IsMarker(w, o - 1, a, b) /\ a \in 1..o - 1 /\ b \in 1..o - 1
  <2>1. a \in 1..n /\ b \in 1..n /\ a < b /\ s[b] = "]"
    BY <1>7, Bounds DEF IsMarker
  <2>2. b # o /\ ~(b \in o + 1..n)
    <3>1. s[o] = "[" /\ (\A j \in o + 1..n : s[j] \in DOMAIN DigitValue) /\ s[b] \notin DOMAIN DigitValue
      BY <1>2, <2>1, NoDigits DEF IsOpen
    <3> QED
      BY <2>1, <3>1
  <2>3. b \in 1..o - 1 /\ a \in 1..o - 1
    BY <1>2, <2>1, <2>2
  <2> QED
    BY <1>4, <1>7, <2>3 DEF IsMarker
<1>8. ASSUME NEW a, NEW b, IsMarker(w, o - 1, a, b) PROVE IsMarker(s, n, a, b)
  <2>1. a \in 1..o - 1 /\ b \in 1..o - 1
    BY <1>8 DEF IsMarker
  <2> QED
    BY <1>2, <1>4, <1>8, <2>1 DEF IsMarker
<1>9. Markers(s) = Markers(w)
  <2>1. ASSUME NEW m \in Markers(s) PROVE m \in Markers(w)
    BY <1>5, <1>6, <1>7
  <2>2. ASSUME NEW m \in Markers(w) PROVE m \in Markers(s)
    BY <1>5, <1>6, <1>8
  <2> QED
    BY <2>1, <2>2
<1>10. ASSUME NEW m \in Markers(s) PROVE m[1] \in 1..o - 1 /\ m[2] \in 1..o - 1
  BY <1>5, <1>7
<1> QED
  BY <1>3, <1>9, <1>10

(***************************************************************************)
(* The rendering, piece by piece.                                          *)
(***************************************************************************)

\* Rendered and MarkerValues, place by place.
At(s, i) == {m \in Markers(s) : i \in m[1]..m[2]}
Citing(digits) == <<"[">> \o Numeral[ValueOf(digits)] \o <<"]">>
Shown(digits) == IF Citable(digits) THEN Citing(digits) ELSE <<>>

PieceAt(s, i) ==
    IF At(s, i) = {} THEN <<s[i]>>
    ELSE LET m == CHOOSE m \in At(s, i) : TRUE
         IN  IF i = m[1] /\ Citable(Digits(s, m)) THEN Citing(Digits(s, m)) ELSE <<>>

Pieces(s, n) == [i \in 1..n |-> PieceAt(s, i)]

LEMMA Brackets == "[" \in Character /\ "]" \in Character /\ "\n" \in Character
BY ParserAssumption

LEMMA JoinType ==
    ASSUME NEW s \in Text, NEW t \in Text
    PROVE  s \o t \in Text
BY DEF Text

LEMMA OneText == ASSUME NEW c \in Character PROVE <<c>> \in Text
BY OneOf DEF Text

LEMMA NoText == <<>> \in Text
BY EmptySeq DEF Text

LEMMA ShownType == ASSUME NEW d PROVE Shown(d) \in Text /\ (Citable(d) => Citing(d) \in Text)
<1>1. CASE Citable(d)
  <2>1. Numeral[ValueOf(d)] \in Text
    BY <1>1, Bounds DEF Citable
  <2>2. <<"[">> \in Text /\ <<"]">> \in Text
    BY Brackets, OneText
  <2>3. <<"[">> \o Numeral[ValueOf(d)] \o <<"]">> \in Text
    BY <2>1, <2>2, JoinType
  <2> QED
    BY <1>1, <2>3, Zenon DEF Shown, Citing
<1>2. CASE ~Citable(d)
  BY <1>2, NoText DEF Shown
<1> QED
  BY <1>1, <1>2

LEMMA PiecesType ==
    ASSUME NEW s \in Text, NEW n \in Nat, n = Len(s)
    PROVE  Pieces(s, n) \in [1..n -> Text]
<1>1. ASSUME NEW i \in 1..n PROVE PieceAt(s, i) \in Text
  <2>1. s[i] \in Character
    BY DEF Text
  <2>2. <<s[i]>> \in Text
    BY <2>1, OneText
  <2> QED
    BY <2>2, ShownType, NoText DEF PieceAt
<1> QED
  BY <1>1 DEF Pieces

LEMMA RenderedIs ==
    ASSUME NEW s \in Text, NEW n \in Nat, n = Len(s)
    PROVE  /\ Rendered(s) = FlatTo(Pieces(s, n), n)
           /\ Rendered(s) \in Text
           /\ \A k \in 0..n : FlatTo(Pieces(s, n), k) \in Text
           /\ \A k \in 1..n : FlatTo(Pieces(s, n), k) = FlatTo(Pieces(s, n), k - 1) \o PieceAt(s, k)
<1>1. Rendered(s) = FlattenSeq(Pieces(s, n))
  BY Zenon DEF Rendered, Pieces, PieceAt, At, Citing
<1>2. Pieces(s, n) \in [1..n -> Seq(Character)]
  BY PiecesType DEF Text
<1>3. \A k \in 1..n : Pieces(s, n)[k] = PieceAt(s, k)
  BY DEF Pieces
<1>5. PICK f : f = Pieces(s, n)
  OBVIOUS
<1>4. /\ \A k \in 0..n : FlatTo(Pieces(s, n), k) \in Seq(Character)
      /\ \A k \in 1..n : FlatTo(Pieces(s, n), k) = FlatTo(Pieces(s, n), k - 1) \o Pieces(s, n)[k]
      /\ FlatTo(Pieces(s, n), n) = FlattenSeq(Pieces(s, n))
  <2>1. f \in [1..n -> Seq(Character)]
    BY <1>2, <1>5
  <2>2. /\ \A k \in 0..n : FlatTo(f, k) \in Seq(Character)
        /\ \A k \in 1..n : FlatTo(f, k) = FlatTo(f, k - 1) \o f[k]
        /\ FlatTo(f, n) = FlattenSeq(f)
    BY <2>1, FlatStep
  <2> QED
    BY <1>5, <2>2
<1>6. \A k \in 0..n : FlatTo(Pieces(s, n), k) \in Text
  BY <1>4 DEF Text
<1>7. \A k \in 1..n : FlatTo(Pieces(s, n), k) = FlatTo(Pieces(s, n), k - 1) \o PieceAt(s, k)
  BY <1>3, <1>4
<1>8. n \in 0..n /\ Rendered(s) = FlatTo(Pieces(s, n), n)
  BY <1>1, <1>4
<1>9. Rendered(s) \in Text
  BY <1>6, <1>8
<1> QED
  BY <1>6, <1>7, <1>8, <1>9

\* Two texts with the same beginning and the same markers in it.
Agree(s, w, k) ==
    /\ s \in Text /\ w \in Text /\ k \in 0..Len(s) /\ k \in 0..Len(w)
    /\ \A i \in 1..k : s[i] = w[i] /\ At(s, i) = At(w, i)
    /\ \A i \in 1..k : \A m \in At(s, i) : Digits(s, m) = Digits(w, m)

\* Texts that agree on a prefix and its markers render it alike.
LEMMA AgreeRendered ==
    ASSUME NEW s, NEW w, NEW k, Agree(s, w, k)
    PROVE  FlatTo(Pieces(s, Len(s)), k) = FlatTo(Pieces(w, Len(w)), k)
<1>1. PICK n \in Nat : n = Len(s)
  BY DEF Agree, Text
<1>2. PICK l \in Nat : l = Len(w)
  BY DEF Agree, Text
<1>3. k \in 0..n /\ k \in 0..l
  BY <1>1, <1>2 DEF Agree
<1>4. ASSUME NEW i \in 1..k PROVE PieceAt(s, i) = PieceAt(w, i)
  <2>1. s[i] = w[i] /\ At(s, i) = At(w, i)
    BY DEF Agree
  <2>2. At(s, i) # {} => Digits(s, CHOOSE m \in At(s, i) : TRUE) = Digits(w, CHOOSE m \in At(s, i) : TRUE)
    BY DEF Agree
  <2> QED
    BY <2>1, <2>2 DEF PieceAt
<1>5. \A i \in 1..k : Pieces(s, n)[i] = Pieces(w, l)[i]
  BY <1>3, <1>4 DEF Pieces
<1>6. [i \in 1..k |-> Pieces(s, n)[i]] = [i \in 1..k |-> Pieces(w, l)[i]]
  BY <1>5
<1> QED
  BY <1>1, <1>2, <1>6 DEF FlatTo

LEMMA MarkersInside ==
    ASSUME NEW s \in Text, NEW n, n = Len(s), NEW m \in Markers(s)
    PROVE  m = <<m[1], m[2]>> /\ m[1] \in 1..n /\ m[2] \in 1..n /\ m[1] < m[2]
<1>1. n \in Nat /\ IsMarker(s, n, m[1], m[2]) /\ m = <<m[1], m[2]>>
  BY MarkersAre DEF Text
<1> QED
  BY <1>1, Bounds DEF IsMarker

LEMMA SameDigits ==
    ASSUME NEW s \in Text, NEW w \in Text, NEW k \in Nat, k <= Len(s), k <= Len(w),
           \A i \in 1..k : s[i] = w[i],
           NEW a \in 1..k, NEW b \in 1..k
    PROVE  Digits(s, <<a, b>>) = Digits(w, <<a, b>>)
<1>1. PICK n \in Nat : n = Len(s)
  BY DEF Text
<1>2. PICK l \in Nat : l = Len(w)
  BY DEF Text
<1>3. SubSeq(s, a + 1, b - 1) = SubSeq(w, a + 1, b - 1)
  BY <1>1, <1>2 DEF Text
<1> QED
  BY <1>3 DEF Digits

\* A character that completes no marker is shown as it is.
LEMMA RenderedGrows ==
    ASSUME NEW s \in Text, NEW c \in Character, Markers(s \o <<c>>) = Markers(s)
    PROVE  Rendered(s \o <<c>>) = Rendered(s) \o <<c>>
<1>1. PICK n \in Nat : n = Len(s)
  BY DEF Text
<1>2. PICK sc : sc = s \o <<c>>
  OBVIOUS
<1>3. sc \in Text /\ n + 1 = Len(sc) /\ sc[n + 1] = c /\ (\A i \in 1..n : sc[i] = s[i])
  BY <1>1, <1>2, OneMore
<1>4. Markers(sc) = Markers(s)
  BY <1>2
<1>5. \A m \in Markers(s) : m = <<m[1], m[2]>> /\ m[1] \in 1..n /\ m[2] \in 1..n
  BY <1>1, MarkersInside
<1>6. \A i : At(sc, i) = At(s, i)
  BY <1>4 DEF At
<1>7. Agree(sc, s, n)
  <2>1. ASSUME NEW m \in Markers(s) PROVE Digits(sc, m) = Digits(s, m)
    <3>1. m[1] \in 1..n /\ m[2] \in 1..n /\ m = <<m[1], m[2]>> /\ n <= Len(sc) /\ n <= Len(s)
      BY <1>1, <1>3, <1>5
    <3>2. Digits(sc, <<m[1], m[2]>>) = Digits(s, <<m[1], m[2]>>)
      BY <1>3, <3>1, SameDigits
    <3> QED
      BY <3>1, <3>2
  <2>2. \A i : \A m \in At(sc, i) : m \in Markers(s)
    BY <1>4 DEF At
  <2>3. n \in 0..Len(sc) /\ n \in 0..Len(s)
    BY <1>1, <1>3
  <2> QED
    BY <1>3, <1>6, <2>1, <2>2, <2>3 DEF Agree
<1>8. FlatTo(Pieces(sc, n + 1), n) = FlatTo(Pieces(s, n), n)
  BY <1>1, <1>3, <1>7, AgreeRendered
<1>9. PieceAt(sc, n + 1) = <<c>>
  <2>1. At(sc, n + 1) = {}
    BY <1>4, <1>5 DEF At
  <2> QED
    BY <1>3, <2>1 DEF PieceAt
<1>10. /\ Rendered(sc) = FlatTo(Pieces(sc, n + 1), n + 1)
       /\ \A k \in 1..n + 1 : FlatTo(Pieces(sc, n + 1), k) = FlatTo(Pieces(sc, n + 1), k - 1) \o PieceAt(sc, k)
  <2>1. n + 1 \in Nat
    OBVIOUS
  <2> QED
    BY <1>3, <2>1, RenderedIs
<1>11. Rendered(s) = FlatTo(Pieces(s, n), n)
  BY <1>1, RenderedIs
<1>12. FlatTo(Pieces(sc, n + 1), n + 1) = FlatTo(Pieces(sc, n + 1), n) \o <<c>>
  <2>1. n + 1 \in 1..n + 1 /\ (n + 1) - 1 = n
    OBVIOUS
  <2> QED
    BY <1>9, <1>10, <2>1
<1> QED
  BY <1>2, <1>8, <1>10, <1>11, <1>12

(***************************************************************************)
(* The rendering before an open marker, and when it closes.                *)
(***************************************************************************)

\* w is what comes before the open marker of s at o.
Ahead(s, o, w) == s \in Text /\ o \in OpenMarker(s) /\ w = SubSeq(s, 1, o - 1)

LEMMA BeforeOpen ==
    ASSUME NEW s, NEW o, NEW w, Ahead(s, o, w)
    PROVE  /\ w \in Text /\ Len(w) = o - 1 /\ (\A i \in 1..o - 1 : w[i] = s[i])
           /\ Len(s) \in Nat /\ o \in 1..Len(s) /\ s[o] = "["
           /\ Markers(s) = Markers(w)
           /\ \A m \in Markers(s) : m = <<m[1], m[2]>> /\ m[1] \in 1..o - 1 /\ m[2] \in 1..o - 1
<1> s \in Text /\ o \in OpenMarker(s) /\ w = SubSeq(s, 1, o - 1)
  BY DEF Ahead
<1>1. PICK n \in Nat : n = Len(s)
  BY DEF Text
<1>2. IsOpen(s, n, o) /\ o \in 1..n /\ s[o] = "["
  BY <1>1, OpenIs DEF IsOpen
<1>3. w \in Text /\ Len(w) = o - 1 /\ \A i \in 1..o - 1 : w[i] = s[i]
  BY <1>1, <1>2 DEF Text
<1>4. Markers(s) = Markers(w) /\ \A m \in Markers(s) : m[1] \in 1..o - 1 /\ m[2] \in 1..o - 1
  BY MarkersBeforeOpen
<1>5. \A m \in Markers(s) : m = <<m[1], m[2]>>
  BY <1>1, MarkersAre
<1> QED
  BY <1>1, <1>2, <1>3, <1>4, <1>5

LEMMA OpenAgrees ==
    ASSUME NEW s, NEW o, NEW w, Ahead(s, o, w),
           NEW u \in Text, o - 1 <= Len(u), \A i \in 1..o - 1 : u[i] = s[i],
           \A i \in 1..o - 1 : At(u, i) = At(s, i)
    PROVE  Agree(u, w, o - 1)
<1> s \in Text /\ o \in OpenMarker(s) /\ w = SubSeq(s, 1, o - 1)
  BY DEF Ahead
<1>1. /\ w \in Text /\ Len(w) = o - 1 /\ (\A i \in 1..o - 1 : w[i] = s[i])
      /\ Len(s) \in Nat /\ o \in 1..Len(s)
      /\ Markers(s) = Markers(w)
      /\ \A m \in Markers(s) : m = <<m[1], m[2]>> /\ m[1] \in 1..o - 1 /\ m[2] \in 1..o - 1
  BY BeforeOpen
<1>2. PICK k \in Nat : k = o - 1
  BY <1>1
<1>3. PICK l \in Nat : l = Len(u)
  BY DEF Text
<1>4. \A i \in 1..k : u[i] = w[i] /\ At(u, i) = At(w, i)
  BY <1>1, <1>2 DEF At
<1>5. ASSUME NEW m \in Markers(s) PROVE Digits(u, m) = Digits(w, m)
  <2>1. m = <<m[1], m[2]>> /\ m[1] \in 1..k /\ m[2] \in 1..k /\ k <= Len(u) /\ k <= Len(w)
    BY <1>1, <1>2
  <2>2. Digits(u, <<m[1], m[2]>>) = Digits(w, <<m[1], m[2]>>)
    BY <1>1, <1>4, <2>1, SameDigits, ZenonT(60)
  <2> QED
    BY <2>1, <2>2
<1>6. \A i \in 1..k : \A m \in At(u, i) : Digits(u, m) = Digits(w, m)
  <2>1. \A i \in 1..k : \A m \in At(u, i) : m \in Markers(s)
    BY <1>2 DEF At
  <2> QED
    BY <1>5, <2>1
<1>7. k \in 0..Len(u) /\ k \in 0..Len(w)
  BY <1>1, <1>2, <1>3
<1>8. Agree(u, w, k)
  BY <1>1, <1>4, <1>6, <1>7 DEF Agree
<1> QED
  BY <1>2, <1>8

\* What an open marker holds would be rendered as it is.
LEMMA RenderedOpen ==
    ASSUME NEW s, NEW o, NEW w, Ahead(s, o, w)
    PROVE  Rendered(s) = Rendered(w) \o SubSeq(s, o, Len(s))
<1> s \in Text /\ o \in OpenMarker(s) /\ w = SubSeq(s, 1, o - 1)
  BY DEF Ahead
<1>1. /\ w \in Text /\ Len(w) = o - 1
      /\ Len(s) \in Nat /\ o \in 1..Len(s)
      /\ \A m \in Markers(s) : m = <<m[1], m[2]>> /\ m[1] \in 1..o - 1 /\ m[2] \in 1..o - 1
  BY BeforeOpen
<1>2. PICK n \in Nat : n = Len(s)
  BY <1>1
<1>3. PICK k \in Nat : k = o - 1 /\ o = k + 1 /\ k \in 0..n /\ k = Len(w)
  BY <1>1, <1>2
<1>4. FlatTo(Pieces(s, n), k) = FlatTo(Pieces(w, k), k)
  <2>1. Agree(s, w, o - 1)
    <3>1. o - 1 <= Len(s)
      BY <1>1
    <3> QED
      BY <3>1, OpenAgrees
  <2>2. Agree(s, w, k)
    BY <1>3, <2>1
  <2>3. FlatTo(Pieces(s, Len(s)), k) = FlatTo(Pieces(w, Len(w)), k)
    BY <2>2, AgreeRendered
  <2> QED
    BY <1>2, <1>3, <2>3
<1>5. Rendered(s) = FlatTo(Pieces(s, n), n)
  BY <1>2, RenderedIs
<1>6. Rendered(w) = FlatTo(Pieces(w, k), k)
  BY <1>1, <1>3, RenderedIs
<1>7. FlatTo(Pieces(s, n), n) = FlatTo(Pieces(s, n), k) \o SubSeq(s, k + 1, n)
  <2>1. \A i \in k + 1..n : Pieces(s, n)[i] = <<s[i]>>
    <3> SUFFICES ASSUME NEW i \in k + 1..n PROVE Pieces(s, n)[i] = <<s[i]>>
      OBVIOUS
    <3>1. At(s, i) = {}
      BY <1>1, <1>3 DEF At
    <3> QED
      BY <1>3, <3>1 DEF Pieces, PieceAt
  <2>2. Pieces(s, n) \in [1..n -> Seq(Character)] /\ s \in Seq(Character)
    BY <1>2, PiecesType DEF Text
  <2>3. PICK f : f = Pieces(s, n)
    OBVIOUS
  <2>4. f \in [1..n -> Seq(Character)] /\ (\A i \in k + 1..n : f[i] = <<s[i]>>) /\ Len(s) = n
    BY <1>2, <2>1, <2>2, <2>3
  <2>5. FlatTo(f, n) = FlatTo(f, k) \o SubSeq(s, k + 1, n)
    BY <1>3, <2>2, <2>4, FlatSingles
  <2> QED
    BY <2>3, <2>5
<1>8. SubSeq(s, k + 1, n) = SubSeq(s, o, Len(s))
  BY <1>2, <1>3
<1> QED
  BY <1>4, <1>5, <1>6, <1>7, <1>8

\* The closing bracket turns the open marker into the citation it is, or into nothing.
LEMMA RenderedClose ==
    ASSUME NEW s, NEW o, NEW w, Ahead(s, o, w), o < Len(s)
    PROVE  Rendered(s \o <<"]">>) = Rendered(w) \o Shown(SubSeq(s, o + 1, Len(s)))
<1> s \in Text /\ o \in OpenMarker(s) /\ w = SubSeq(s, 1, o - 1)
  BY DEF Ahead
<1>1. /\ w \in Text /\ Len(w) = o - 1 /\ (\A i \in 1..o - 1 : w[i] = s[i])
      /\ Len(s) \in Nat /\ o \in 1..Len(s)
      /\ \A m \in Markers(s) : m = <<m[1], m[2]>> /\ m[1] \in 1..o - 1 /\ m[2] \in 1..o - 1
  BY BeforeOpen
<1>2. PICK n \in Nat : n = Len(s)
  BY <1>1
<1>3. PICK k \in Nat : k = o - 1 /\ o = k + 1 /\ k \in 0..n /\ k = Len(w)
  BY <1>1, <1>2
<1>4. PICK sc : sc = s \o <<"]">>
  OBVIOUS
<1>5. sc \in Text /\ n + 1 = Len(sc) /\ sc[n + 1] = "]" /\ (\A i \in 1..n : sc[i] = s[i])
  BY <1>2, <1>4, Brackets, OneMore
<1>6. Markers(sc) = Markers(s) \cup {<<o, n + 1>>}
  <2>1. Markers(sc) = Markers(s) \cup {<<p, n + 1>> : p \in {p \in OpenMarker(s) : p < n}}
    BY <1>2, <1>4, Brackets, MarkersGrow
  <2>2. OpenMarker(s) = {o}
    BY OneOpen
  <2>3. {p \in OpenMarker(s) : p < n} = {o}
    BY <1>2, <2>2
  <2>4. {<<p, n + 1>> : p \in {p \in OpenMarker(s) : p < n}} = {<<o, n + 1>>}
    BY <2>3
  <2> QED
    BY <2>1, <2>4
<1>7. FlatTo(Pieces(sc, n + 1), k) = FlatTo(Pieces(w, k), k)
  <2>1. ASSUME NEW i \in 1..o - 1 PROVE At(sc, i) = At(s, i) /\ sc[i] = s[i]
    BY <1>1, <1>2, <1>5, <1>6 DEF At
  <2>2. Agree(sc, w, o - 1)
    <3>1. o - 1 <= Len(sc)
      BY <1>1, <1>2, <1>5
    <3> QED
      BY <1>5, <2>1, <3>1, OpenAgrees
  <2>3. Agree(sc, w, k)
    BY <1>3, <2>2
  <2>4. FlatTo(Pieces(sc, Len(sc)), k) = FlatTo(Pieces(w, Len(w)), k)
    BY <2>3, AgreeRendered
  <2> QED
    BY <1>3, <1>5, <2>4
<1>8. ASSUME NEW i \in o..n + 1 PROVE At(sc, i) = {<<o, n + 1>>}
  <2>1. ~(\E m \in Markers(s) : i \in m[1]..m[2])
    BY <1>1, <1>2
  <2> QED
    BY <1>6, <2>1 DEF At
<1>9. PieceAt(sc, o) = Shown(SubSeq(s, o + 1, n))
  <2>1. At(sc, o) = {<<o, n + 1>>}
    BY <1>1, <1>2, <1>8
  <2>2. (CHOOSE m \in At(sc, o) : TRUE) = <<o, n + 1>>
    BY <2>1
  <2>3. PieceAt(sc, o) = Shown(Digits(sc, <<o, n + 1>>))
    BY <2>1, <2>2 DEF PieceAt, Shown
  <2>4. Digits(sc, <<o, n + 1>>) = SubSeq(s, o + 1, n)
    <3>1. SubSeq(sc, o + 1, n) = SubSeq(s, o + 1, n)
      BY <1>1, <1>2, <1>5, SMTT(30) DEF Text
    <3>2. (n + 1) - 1 = n
      OBVIOUS
    <3> QED
      BY <3>1, <3>2 DEF Digits
  <2> QED
    BY <2>3, <2>4
<1>10. \A i \in o + 1..n + 1 : Pieces(sc, n + 1)[i] = <<>>
  <2> SUFFICES ASSUME NEW i \in o + 1..n + 1 PROVE Pieces(sc, n + 1)[i] = <<>>
    OBVIOUS
  <2>1. i \in o..n + 1 /\ i \in 1..n + 1 /\ i # o
    BY <1>1, <1>2
  <2>2. At(sc, i) = {<<o, n + 1>>}
    BY <1>8, <2>1
  <2>3. (CHOOSE m \in At(sc, i) : TRUE) = <<o, n + 1>>
    BY <2>2
  <2>4. PieceAt(sc, i) = <<>>
    BY <2>1, <2>2, <2>3 DEF PieceAt
  <2> QED
    BY <2>1, <2>4 DEF Pieces
<1>11. /\ Rendered(sc) = FlatTo(Pieces(sc, n + 1), n + 1)
       /\ \A j \in 1..n + 1 : FlatTo(Pieces(sc, n + 1), j) = FlatTo(Pieces(sc, n + 1), j - 1) \o PieceAt(sc, j)
  <2>1. n + 1 \in Nat
    OBVIOUS
  <2> QED
    BY <1>5, <2>1, RenderedIs
<1>12. FlatTo(Pieces(sc, n + 1), n + 1) = FlatTo(Pieces(sc, n + 1), o)
  <2>1. PICK f : f = Pieces(sc, n + 1)
    OBVIOUS
  <2>2. PICK l \in Nat : l = n + 1
    OBVIOUS
  <2>3. f \in [1..l -> Seq(Character)] /\ o \in 0..l /\ \A i \in o + 1..l : f[i] = <<>>
    BY <1>1, <1>2, <1>5, <1>10, <2>1, <2>2, PiecesType DEF Text
  <2>4. FlatTo(f, l) = FlatTo(f, o)
    BY <2>3, FlatBlank
  <2> QED
    BY <2>1, <2>2, <2>4
<1>13. Rendered(w) = FlatTo(Pieces(w, k), k)
  BY <1>1, <1>3, RenderedIs
<1>14. o \in 1..n + 1 /\ o - 1 = k
  BY <1>1, <1>2, <1>3
<1>15. FlatTo(Pieces(sc, n + 1), o) = FlatTo(Pieces(sc, n + 1), k) \o PieceAt(sc, o)
  BY <1>11, <1>14
<1> QED
  BY <1>2, <1>4, <1>7, <1>9, <1>11, <1>12, <1>13, <1>15

(***************************************************************************)
(* The values of the markers.                                              *)
(***************************************************************************)

From(s, i) == {m \in Markers(s) : m[1] = i}
ValueAt(s, i) == IF From(s, i) = {} THEN <<>>
                 ELSE <<ValueOf(Digits(s, CHOOSE m \in From(s, i) : TRUE))>>
ValuesAt(s, n) == [i \in 1..n |-> ValueAt(s, i)]

\* The numbers a text can write.
AnyValue == {ValueOf(d) : d \in Text}

LEMMA DigitsType ==
    ASSUME NEW s \in Text, NEW m \in Markers(s)
    PROVE  Digits(s, m) \in Text
<1>1. PICK n \in Nat : n = Len(s)
  BY DEF Text
<1>2. m[1] \in 1..n /\ m[2] \in 1..n
  BY <1>1, MarkersInside
<1>3. SubSeq(s, m[1] + 1, m[2] - 1) \in Text
  <2>1. m[1] + 1 \in 1..n + 1 /\ m[2] - 1 \in 0..n
    BY <1>2
  <2> QED
    BY <1>1, <2>1, SubSeqProperties DEF Text
<1> QED
  BY <1>3 DEF Digits

LEMMA ValuesAre ==
    ASSUME NEW s \in Text, NEW n \in Nat, n = Len(s)
    PROVE  /\ ValuesAt(s, n) \in [1..n -> Seq(AnyValue)]
           /\ MarkerValues(s) = FlatTo(ValuesAt(s, n), n)
           /\ MarkerValues(s) \in Seq(AnyValue)
           /\ \A k \in 1..n : FlatTo(ValuesAt(s, n), k) = FlatTo(ValuesAt(s, n), k - 1) \o ValueAt(s, k)
<1>1. ValuesAt(s, n) \in [1..n -> Seq(AnyValue)]
  <2>1. ASSUME NEW i \in 1..n PROVE ValueAt(s, i) \in Seq(AnyValue)
    <3>1. CASE From(s, i) = {}
      BY <3>1, EmptySeq DEF ValueAt
    <3>2. CASE From(s, i) # {}
      <4>1. PICK m \in Markers(s) : m = CHOOSE e \in From(s, i) : TRUE
        BY <3>2 DEF From
      <4>2. ValueOf(Digits(s, m)) \in AnyValue
        BY DigitsType DEF AnyValue
      <4> QED
        BY <3>2, <4>1, <4>2, OneOf DEF ValueAt
    <3> QED
      BY <3>1, <3>2
  <2> QED
    BY <2>1 DEF ValuesAt
<1>2. MarkerValues(s) = FlattenSeq(ValuesAt(s, n))
  BY Zenon DEF MarkerValues, ValuesAt, ValueAt, From
<1>3. \A k \in 1..n : ValuesAt(s, n)[k] = ValueAt(s, k)
  BY DEF ValuesAt
<1>4. PICK f : f = ValuesAt(s, n)
  OBVIOUS
<1>5. f \in [1..n -> Seq(AnyValue)]
  BY <1>1, <1>4
<1>6. /\ \A k \in 0..n : FlatTo(f, k) \in Seq(AnyValue)
      /\ \A k \in 1..n : FlatTo(f, k) = FlatTo(f, k - 1) \o f[k]
      /\ FlatTo(f, n) = FlattenSeq(f)
  BY <1>5, FlatStep
<1>7. n \in 0..n
  OBVIOUS
<1> QED
  BY <1>1, <1>2, <1>3, <1>4, <1>6, <1>7

\* Without a new marker there is no new value.
LEMMA ValuesStay ==
    ASSUME NEW s \in Text, NEW c \in Character, Markers(s \o <<c>>) = Markers(s)
    PROVE  MarkerValues(s \o <<c>>) = MarkerValues(s)
<1>1. PICK n \in Nat : n = Len(s)
  BY DEF Text
<1>2. PICK sc : sc = s \o <<c>>
  OBVIOUS
<1>3. sc \in Text /\ n + 1 = Len(sc) /\ (\A i \in 1..n : sc[i] = s[i])
  BY <1>1, <1>2, OneMore
<1>4. Markers(sc) = Markers(s)
  BY <1>2
<1>5. \A m \in Markers(s) : m = <<m[1], m[2]>> /\ m[1] \in 1..n /\ m[2] \in 1..n
  BY <1>1, MarkersInside
<1>6. ASSUME NEW m \in Markers(s) PROVE Digits(sc, m) = Digits(s, m)
  <2>1. m[1] \in 1..n /\ m[2] \in 1..n /\ m = <<m[1], m[2]>> /\ n <= Len(sc) /\ n <= Len(s)
    BY <1>1, <1>3, <1>5
  <2>2. Digits(sc, <<m[1], m[2]>>) = Digits(s, <<m[1], m[2]>>)
    BY <1>3, <2>1, SameDigits
  <2> QED
    BY <2>1, <2>2
<1>7. \A i : From(sc, i) = From(s, i) /\ From(s, i) \subseteq Markers(s)
  BY <1>4 DEF From
<1>8. \A i : ValueAt(sc, i) = ValueAt(s, i)
  <2> SUFFICES ASSUME NEW i PROVE ValueAt(sc, i) = ValueAt(s, i)
    OBVIOUS
  <2>1. CASE From(s, i) = {}
    BY <1>7, <2>1 DEF ValueAt
  <2>2. CASE From(s, i) # {}
    <3>1. PICK m \in Markers(s) : m = CHOOSE e \in From(s, i) : TRUE
      BY <1>7, <2>2
    <3>2. From(sc, i) = From(s, i)
      BY <1>7
    <3>3. ValueAt(s, i) = <<ValueOf(Digits(s, m))>>
      BY <2>2, <3>1 DEF ValueAt
    <3>4. ValueAt(sc, i) = <<ValueOf(Digits(sc, m))>>
      BY <2>2, <3>1, <3>2 DEF ValueAt
    <3> QED
      BY <1>6, <3>3, <3>4
  <2> QED
    BY <2>1, <2>2
<1>9. ValueAt(sc, n + 1) = <<>>
  BY <1>4, <1>5 DEF ValueAt, From
<1>10. /\ MarkerValues(sc) = FlatTo(ValuesAt(sc, n + 1), n + 1)
       /\ ValuesAt(sc, n + 1) \in [1..n + 1 -> Seq(AnyValue)]
  <2>1. n + 1 \in Nat
    OBVIOUS
  <2> QED
    BY <1>3, <2>1, ValuesAre
<1>11. MarkerValues(s) = FlatTo(ValuesAt(s, n), n)
  BY <1>1, ValuesAre
<1>12. FlatTo(ValuesAt(sc, n + 1), n + 1) = FlatTo(ValuesAt(sc, n + 1), n)
  <2>1. PICK f : f = ValuesAt(sc, n + 1)
    OBVIOUS
  <2>2. PICK l \in Nat : l = n + 1
    OBVIOUS
  <2>3. f \in [1..l -> Seq(AnyValue)] /\ n \in 0..l /\ \A i \in n + 1..l : f[i] = <<>>
    BY <1>9, <1>10, <2>1, <2>2 DEF ValuesAt
  <2>4. FlatTo(f, l) = FlatTo(f, n)
    BY <2>3, FlatBlank
  <2> QED
    BY <2>1, <2>2, <2>4
<1>13. [i \in 1..n |-> ValuesAt(sc, n + 1)[i]] = [i \in 1..n |-> ValuesAt(s, n)[i]]
  <2>1. \A i \in 1..n : ValuesAt(sc, n + 1)[i] = ValuesAt(s, n)[i]
    BY <1>8 DEF ValuesAt
  <2> QED
    BY <2>1
<1> QED
  BY <1>2, <1>10, <1>11, <1>12, <1>13 DEF FlatTo

\* A closed marker adds its value at the end.
LEMMA ValuesGrow ==
    ASSUME NEW s, NEW o, NEW w, Ahead(s, o, w), o < Len(s)
    PROVE  MarkerValues(s \o <<"]">>) = MarkerValues(s) \o <<ValueOf(SubSeq(s, o + 1, Len(s)))>>
<1> s \in Text /\ o \in OpenMarker(s) /\ w = SubSeq(s, 1, o - 1)
  BY DEF Ahead
<1>1. /\ Len(s) \in Nat /\ o \in 1..Len(s)
      /\ \A m \in Markers(s) : m = <<m[1], m[2]>> /\ m[1] \in 1..o - 1 /\ m[2] \in 1..o - 1
  BY BeforeOpen
<1>2. PICK n \in Nat : n = Len(s)
  BY <1>1
<1>3. PICK k \in Nat : k = o - 1 /\ o = k + 1 /\ k \in 0..n
  BY <1>1, <1>2
<1>4. PICK sc : sc = s \o <<"]">>
  OBVIOUS
<1>5. sc \in Text /\ n + 1 = Len(sc) /\ sc[n + 1] = "]" /\ (\A i \in 1..n : sc[i] = s[i])
  BY <1>2, <1>4, Brackets, OneMore
<1>6. Markers(sc) = Markers(s) \cup {<<o, n + 1>>}
  <2>1. Markers(sc) = Markers(s) \cup {<<p, n + 1>> : p \in {p \in OpenMarker(s) : p < n}}
    BY <1>2, <1>4, Brackets, MarkersGrow
  <2>2. OpenMarker(s) = {o}
    BY OneOpen
  <2>3. {p \in OpenMarker(s) : p < n} = {o}
    BY <1>2, <2>2
  <2>4. {<<p, n + 1>> : p \in {p \in OpenMarker(s) : p < n}} = {<<o, n + 1>>}
    BY <2>3
  <2> QED
    BY <2>1, <2>4
<1>7. ASSUME NEW i \in 1..k PROVE ValueAt(sc, i) = ValueAt(s, i)
  <2>1. From(sc, i) = From(s, i) /\ From(s, i) \subseteq Markers(s)
    BY <1>1, <1>3, <1>6 DEF From
  <2>2. CASE From(s, i) = {}
    BY <2>1, <2>2 DEF ValueAt
  <2>3. CASE From(s, i) # {}
    <3>1. PICK m \in Markers(s) : m = CHOOSE e \in From(s, i) : TRUE
      BY <2>1, <2>3
    <3>2. m = <<m[1], m[2]>> /\ m[1] \in 1..n /\ m[2] \in 1..n /\ n <= Len(sc) /\ n <= Len(s)
      BY <1>1, <1>2, <1>5
    <3>3. Digits(sc, <<m[1], m[2]>>) = Digits(s, <<m[1], m[2]>>)
      BY <1>5, <3>2, SameDigits
    <3>4. Digits(sc, m) = Digits(s, m)
      BY <3>2, <3>3
    <3>5. ValueAt(s, i) = <<ValueOf(Digits(s, m))>>
      BY <2>3, <3>1 DEF ValueAt
    <3>6. ValueAt(sc, i) = <<ValueOf(Digits(sc, m))>>
      BY <2>1, <2>3, <3>1 DEF ValueAt
    <3> QED
      BY <3>4, <3>5, <3>6
  <2> QED
    BY <2>2, <2>3
<1>8. /\ ValueAt(sc, o) = <<ValueOf(SubSeq(s, o + 1, n))>>
      /\ \A i \in o + 1..n + 1 : ValueAt(sc, i) = <<>>
      /\ \A i \in k + 1..n : ValueAt(s, i) = <<>>
  <2>1. From(sc, o) = {<<o, n + 1>>}
    BY <1>1, <1>6 DEF From
  <2>2. (CHOOSE m \in From(sc, o) : TRUE) = <<o, n + 1>>
    BY <2>1
  <2>3. Digits(sc, <<o, n + 1>>) = SubSeq(s, o + 1, n)
    <3>1. SubSeq(sc, o + 1, n) = SubSeq(s, o + 1, n)
      BY <1>1, <1>2, <1>5 DEF Text
    <3>2. (n + 1) - 1 = n
      OBVIOUS
    <3> QED
      BY <3>1, <3>2 DEF Digits
  <2>4. \A i \in o + 1..n + 1 : From(sc, i) = {}
    BY <1>1, <1>6 DEF From
  <2>5. \A i \in k + 1..n : From(s, i) = {}
    BY <1>1, <1>3 DEF From
  <2> QED
    BY <2>1, <2>2, <2>3, <2>4, <2>5 DEF ValueAt
<1>9. /\ MarkerValues(sc) = FlatTo(ValuesAt(sc, n + 1), n + 1)
      /\ ValuesAt(sc, n + 1) \in [1..n + 1 -> Seq(AnyValue)]
      /\ \A j \in 1..n + 1 : FlatTo(ValuesAt(sc, n + 1), j) = FlatTo(ValuesAt(sc, n + 1), j - 1) \o ValueAt(sc, j)
  <2>1. n + 1 \in Nat
    OBVIOUS
  <2> QED
    BY <1>5, <2>1, ValuesAre
<1>10. MarkerValues(s) = FlatTo(ValuesAt(s, n), n) /\ ValuesAt(s, n) \in [1..n -> Seq(AnyValue)]
  BY <1>2, ValuesAre
<1>11. FlatTo(ValuesAt(sc, n + 1), n + 1) = FlatTo(ValuesAt(sc, n + 1), o)
  <2>1. PICK f : f = ValuesAt(sc, n + 1)
    OBVIOUS
  <2>2. PICK l \in Nat : l = n + 1
    OBVIOUS
  <2>3. f \in [1..l -> Seq(AnyValue)] /\ o \in 0..l
    BY <1>1, <1>2, <1>9, <2>1, <2>2
  <2>4. \A i \in o + 1..l : f[i] = <<>>
    BY <1>1, <1>8, <2>1, <2>2 DEF ValuesAt
  <2>5. FlatTo(f, l) = FlatTo(f, o)
    BY <2>3, <2>4, FlatBlank
  <2> QED
    BY <2>1, <2>2, <2>5
<1>12. FlatTo(ValuesAt(s, n), n) = FlatTo(ValuesAt(s, n), k)
  <2>1. PICK f : f = ValuesAt(s, n)
    OBVIOUS
  <2>2. f \in [1..n -> Seq(AnyValue)] /\ k \in 0..n
    BY <1>3, <1>10, <2>1
  <2>3. \A i \in k + 1..n : f[i] = <<>>
    BY <1>3, <1>8, <2>1 DEF ValuesAt
  <2>4. FlatTo(f, n) = FlatTo(f, k)
    BY <2>2, <2>3, FlatBlank
  <2> QED
    BY <2>1, <2>4
<1>13. [i \in 1..k |-> ValuesAt(sc, n + 1)[i]] = [i \in 1..k |-> ValuesAt(s, n)[i]]
  <2>1. \A i \in 1..k : ValuesAt(sc, n + 1)[i] = ValuesAt(s, n)[i]
    BY <1>3, <1>7 DEF ValuesAt
  <2> QED
    BY <2>1
<1>14. FlatTo(ValuesAt(sc, n + 1), o) = FlatTo(ValuesAt(sc, n + 1), k) \o ValueAt(sc, o)
  <2>1. o \in 1..n + 1 /\ o - 1 = k
    BY <1>1, <1>2, <1>3
  <2> QED
    BY <1>9, <2>1
<1> QED
  BY <1>2, <1>4, <1>8, <1>9, <1>10, <1>11, <1>12, <1>13, <1>14 DEF FlatTo

(***************************************************************************)
(* The chunks cited and the values dropped.                                *)
(***************************************************************************)

FirstAt(vs, i) ==
    IF vs[i] \in 1..Chunks /\ \A j \in 1..i - 1 : vs[j] # vs[i] THEN <<vs[i]>> ELSE <<>>
UnknownAt(vs, i) == IF vs[i] \in 1..Chunks THEN <<>> ELSE <<vs[i]>>
Firsts(vs) == [i \in DOMAIN vs |-> FirstAt(vs, i)]
Unknowns(vs) == [i \in DOMAIN vs |-> UnknownAt(vs, i)]

LEMMA FirstsAre ==
    ASSUME NEW S, NEW vs \in Seq(S)
    PROVE  /\ FirstUses(vs) = FlattenSeq(Firsts(vs)) /\ Unknown(vs) = FlattenSeq(Unknowns(vs))
           /\ Firsts(vs) \in Seq(Seq(S)) /\ Unknowns(vs) \in Seq(Seq(S))
           /\ FirstUses(vs) \in Seq(S) /\ Unknown(vs) \in Seq(S)
<1>1. FirstUses(vs) = FlattenSeq(Firsts(vs)) /\ Unknown(vs) = FlattenSeq(Unknowns(vs))
  BY Zenon DEF FirstUses, Unknown, Firsts, Unknowns, FirstAt, UnknownAt
<1>2. PICK n \in Nat : n = Len(vs) /\ DOMAIN vs = 1..n
  OBVIOUS
<1>3. ASSUME NEW i \in 1..n PROVE FirstAt(vs, i) \in Seq(S) /\ UnknownAt(vs, i) \in Seq(S)
  <2>1. vs[i] \in S
    BY <1>2
  <2>2. <<vs[i]>> \in Seq(S) /\ <<>> \in Seq(S)
    BY <2>1, OneOf, EmptySeq
  <2> QED
    BY <2>2 DEF FirstAt, UnknownAt
<1>4. Firsts(vs) \in Seq(Seq(S))
  BY <1>2, <1>3 DEF Firsts
<1>5. Unknowns(vs) \in Seq(Seq(S))
  BY <1>2, <1>3 DEF Unknowns
<1> QED
  BY <1>1, <1>4, <1>5, FlattenType

LEMMA PiecesAppend ==
    ASSUME NEW S, NEW vs \in Seq(S), NEW v \in S
    PROVE  /\ Firsts(vs \o <<v>>) = Append(Firsts(vs), FirstAt(vs \o <<v>>, Len(vs) + 1))
           /\ Unknowns(vs \o <<v>>) = Append(Unknowns(vs), UnknownAt(vs \o <<v>>, Len(vs) + 1))
<1>1. PICK n \in Nat : n = Len(vs) /\ DOMAIN vs = 1..n
  OBVIOUS
<1>2. PICK ws : ws = vs \o <<v>>
  OBVIOUS
<1>3. ws \in Seq(S) /\ Len(ws) = n + 1 /\ DOMAIN ws = 1..n + 1 /\ ws[n + 1] = v /\ \A i \in 1..n : ws[i] = vs[i]
  BY <1>1, <1>2
<1>4. /\ Firsts(vs) \in Seq(Seq(S)) /\ Unknowns(vs) \in Seq(Seq(S))
      /\ Firsts(ws) \in Seq(Seq(S)) /\ Unknowns(ws) \in Seq(Seq(S))
  BY <1>3, FirstsAre
<1>5. /\ Len(Firsts(vs)) = n /\ Len(Unknowns(vs)) = n
      /\ Len(Firsts(ws)) = n + 1 /\ Len(Unknowns(ws)) = n + 1
  BY <1>1, <1>3, <1>4 DEF Firsts, Unknowns
<1>6. \A i \in 1..n : FirstAt(ws, i) = FirstAt(vs, i) /\ UnknownAt(ws, i) = UnknownAt(vs, i)
  BY <1>1, <1>3 DEF FirstAt, UnknownAt
<1>7. /\ \A i \in 1..n : Firsts(vs)[i] = FirstAt(vs, i) /\ Unknowns(vs)[i] = UnknownAt(vs, i)
      /\ \A i \in 1..n + 1 : Firsts(ws)[i] = FirstAt(ws, i) /\ Unknowns(ws)[i] = UnknownAt(ws, i)
  BY <1>1, <1>3 DEF Firsts, Unknowns
<1>8. ASSUME NEW T, NEW f \in Seq(T), NEW g \in Seq(T), NEW x, Len(f) = n, Len(g) = n + 1,
             \A i \in 1..n : g[i] = f[i], g[n + 1] = x
      PROVE  g = Append(f, x)
  BY <1>8
<1>9. Firsts(ws) = Append(Firsts(vs), FirstAt(ws, n + 1))
  <2>1. \A i \in 1..n : Firsts(ws)[i] = Firsts(vs)[i]
    BY <1>6, <1>7
  <2>2. Firsts(ws)[n + 1] = FirstAt(ws, n + 1)
    BY <1>7
  <2> QED
    BY <1>4, <1>5, <1>8, <2>1, <2>2
<1>10. Unknowns(ws) = Append(Unknowns(vs), UnknownAt(ws, n + 1))
  <2>1. \A i \in 1..n : Unknowns(ws)[i] = Unknowns(vs)[i]
    BY <1>6, <1>7
  <2>2. Unknowns(ws)[n + 1] = UnknownAt(ws, n + 1)
    BY <1>7
  <2> QED
    BY <1>4, <1>5, <1>8, <2>1, <2>2
<1> QED
  BY <1>1, <1>2, <1>9, <1>10

\* A chunk is among the first uses when it is among the values.
LEMMA UsedAre ==
    ASSUME NEW S, NEW vs \in Seq(S), NEW v, v \in 1..Chunks
    PROVE  Contains(FirstUses(vs), v) <=> \E j \in 1..Len(vs) : vs[j] = v
<1>1. PICK n \in Nat : n = Len(vs) /\ DOMAIN vs = 1..n
  OBVIOUS
<1>2. /\ FirstUses(vs) = FlattenSeq(Firsts(vs)) /\ FirstUses(vs) \in Seq(S)
      /\ Firsts(vs) \in Seq(Seq(S))
  BY FirstsAre
<1>3. Contains(FirstUses(vs), v) <=> v \in Range(FirstUses(vs))
  <2>1. PICK f : f = FirstUses(vs)
    OBVIOUS
  <2>2. f \in Seq(S) /\ DOMAIN f = 1..Len(f)
    BY <1>2, <2>1
  <2>3. Contains(f, v) <=> \E i \in DOMAIN f : f[i] = v
    BY <2>2 DEF Contains
  <2>4. v \in Range(f) <=> \E i \in DOMAIN f : f[i] = v
    BY Zenon DEF Range
  <2> QED
    BY <2>1, <2>3, <2>4
<1>4. Range(FirstUses(vs)) = UNION {Range(Firsts(vs)[i]) : i \in DOMAIN Firsts(vs)}
  BY <1>2, FlattenRange
<1>5. DOMAIN Firsts(vs) = 1..n /\ \A i \in 1..n : Firsts(vs)[i] = FirstAt(vs, i)
  BY <1>1 DEF Firsts
<1>6. v \in Range(FirstUses(vs)) <=> \E i \in 1..n : v \in Range(FirstAt(vs, i))
  BY <1>4, <1>5
<1>7. ASSUME NEW i \in 1..n, v \in Range(FirstAt(vs, i)) PROVE vs[i] = v
  BY <1>7 DEF Range, FirstAt
<1>8. ASSUME NEW j \in 1..n, vs[j] = v PROVE \E i \in 1..n : v \in Range(FirstAt(vs, i))
  <2> DEFINE T == {i \in 1..n : vs[i] = v}
  <2>1. T \subseteq Nat /\ T # {}
    BY <1>8
  <2>2. PICK i \in T : \A k \in T : i <= k
    <3> HIDE DEF T
    <3> QED
      BY <2>1, NatMinimum
  <2>3. i \in 1..n /\ vs[i] = v /\ \A k \in 1..i - 1 : vs[k] # v
    BY <2>2
  <2>4. FirstAt(vs, i) = <<v>>
    BY <2>3 DEF FirstAt
  <2>5. v \in Range(FirstAt(vs, i))
    BY <2>4, RangeOne
  <2> QED
    BY <2>3, <2>5
<1> QED
  BY <1>1, <1>3, <1>6, <1>7, <1>8

\* One more value is a new citation, an old one, or is dropped.
LEMMA UsesGrow ==
    ASSUME NEW S, NEW vs \in Seq(S), NEW v \in S
    PROVE  /\ FirstUses(vs \o <<v>>) = IF v \in 1..Chunks /\ ~Contains(FirstUses(vs), v)
                                       THEN FirstUses(vs) \o <<v>> ELSE FirstUses(vs)
           /\ Unknown(vs \o <<v>>) = IF v \in 1..Chunks THEN Unknown(vs) ELSE Unknown(vs) \o <<v>>
<1>1. PICK n \in Nat : n = Len(vs)
  OBVIOUS
<1>2. PICK ws : ws = vs \o <<v>>
  OBVIOUS
<1>3. ws \in Seq(S) /\ ws[n + 1] = v /\ \A i \in 1..n : ws[i] = vs[i]
  BY <1>1, <1>2
<1>4. /\ FirstUses(vs) = FlattenSeq(Firsts(vs)) /\ Unknown(vs) = FlattenSeq(Unknowns(vs))
      /\ Firsts(vs) \in Seq(Seq(S)) /\ Unknowns(vs) \in Seq(Seq(S))
      /\ FirstUses(vs) \in Seq(S) /\ Unknown(vs) \in Seq(S)
      /\ FirstUses(ws) = FlattenSeq(Firsts(ws)) /\ Unknown(ws) = FlattenSeq(Unknowns(ws))
  BY <1>3, FirstsAre
<1>5. /\ Firsts(ws) = Append(Firsts(vs), FirstAt(ws, n + 1))
      /\ Unknowns(ws) = Append(Unknowns(vs), UnknownAt(ws, n + 1))
  BY <1>1, <1>2, PiecesAppend
<1>6. <<v>> \in Seq(S) /\ <<>> \in Seq(S)
  BY OneOf, EmptySeq
<1>7. /\ FirstAt(ws, n + 1) = IF v \in 1..Chunks /\ \A j \in 1..n : vs[j] # v THEN <<v>> ELSE <<>>
      /\ UnknownAt(ws, n + 1) = IF v \in 1..Chunks THEN <<>> ELSE <<v>>
  BY <1>3 DEF FirstAt, UnknownAt
<1>8. /\ FirstUses(ws) = FirstUses(vs) \o FirstAt(ws, n + 1)
      /\ Unknown(ws) = Unknown(vs) \o UnknownAt(ws, n + 1)
  <2>1. FirstAt(ws, n + 1) \in Seq(S) /\ UnknownAt(ws, n + 1) \in Seq(S)
    BY <1>6, <1>7
  <2>2. FlattenSeq(Append(Firsts(vs), FirstAt(ws, n + 1))) = FlattenSeq(Firsts(vs)) \o FirstAt(ws, n + 1)
    BY <1>4, <2>1, FlattenAppend
  <2>3. FlattenSeq(Append(Unknowns(vs), UnknownAt(ws, n + 1))) = FlattenSeq(Unknowns(vs)) \o UnknownAt(ws, n + 1)
    BY <1>4, <2>1, FlattenAppend
  <2> QED
    BY <1>4, <1>5, <2>2, <2>3
<1>9. FirstUses(vs) \o <<>> = FirstUses(vs) /\ Unknown(vs) \o <<>> = Unknown(vs)
  BY <1>4
<1>10. v \in 1..Chunks => (Contains(FirstUses(vs), v) <=> \E j \in 1..n : vs[j] = v)
  BY <1>1, UsedAre
<1> QED
  BY <1>2, <1>7, <1>8, <1>9, <1>10

(***************************************************************************)
(* The state of the parser.                                                *)
(***************************************************************************)

Event == [kind : {"verdict", "citation"}, what : Verdicts \cup {Error} \cup AnyValue, at : Nat]

ParserState ==
    [state : {"verdict", "body", "done", "raised"}, verdict : Verdicts \cup {None, Error},
     buffer : Text, marker : Text \cup {None}, pending : Text, line : Text \cup {None},
     final : Verdicts \cup {None}, text : Text, cited : Seq(AnyValue),
     dropped : Seq(AnyValue), events : Seq(Event)]

\* What reading prose leaves alone, and what it writes.
SameLine(q, p) ==
    /\ q.state = p.state /\ q.verdict = p.verdict /\ q.buffer = p.buffer
    /\ q.line = p.line /\ q.final = p.final
SameCitations(q, p) == q.cited = p.cited /\ q.dropped = p.dropped /\ q.events = p.events
SameProse(q, p) ==
    q.marker = p.marker /\ q.pending = p.pending /\ q.text = p.text /\ SameCitations(q, p)

LEMMA Fields ==
    ASSUME NEW p \in ParserState
    PROVE  /\ p.buffer \in Text /\ p.pending \in Text /\ p.text \in Text
           /\ p.marker # None => p.marker \in Text
           /\ p.line # None => p.line \in Text
           /\ p.cited \in Seq(AnyValue) /\ p.dropped \in Seq(AnyValue) /\ p.events \in Seq(Event)
           /\ p.final \in Verdicts \cup {None}
BY DEF ParserState

LEMMA NoneIsNoText == None \notin Text /\ None # <<>>
BY ParserAssumption, NoText DEF None

LEMMA SetMarker ==
    ASSUME NEW p \in ParserState, NEW x \in Text \cup {None}, NEW q, q = [p EXCEPT !.marker = x]
    PROVE  /\ q \in ParserState /\ q.marker = x /\ q.pending = p.pending /\ q.text = p.text
           /\ SameLine(q, p) /\ SameCitations(q, p)
BY DEF ParserState, SameLine, SameCitations

LEMMA SetPending ==
    ASSUME NEW p \in ParserState, NEW x \in Text, NEW q, q = [p EXCEPT !.pending = x]
    PROVE  /\ q \in ParserState /\ q.marker = p.marker /\ q.pending = x /\ q.text = p.text
           /\ SameLine(q, p) /\ SameCitations(q, p)
BY DEF ParserState, SameLine, SameCitations

LEMMA SetLine ==
    ASSUME NEW p \in ParserState, NEW x \in Text \cup {None}, NEW q, q = [p EXCEPT !.line = x]
    PROVE  /\ q \in ParserState /\ q.line = x /\ SameProse(q, p)
           /\ q.state = p.state /\ q.verdict = p.verdict /\ q.buffer = p.buffer /\ q.final = p.final
BY DEF ParserState, SameProse, SameCitations

\* _flush_pending moves what is pending into the text.
LEMMA FlushIs ==
    ASSUME NEW p \in ParserState, NEW q, q = Flush(p)
    PROVE  /\ q \in ParserState /\ q.marker = p.marker /\ q.pending = <<>>
           /\ q.text = p.text \o p.pending /\ SameLine(q, p) /\ SameCitations(q, p)
<1>1. p.text \o p.pending \in Text /\ <<>> \in Text
  BY Fields, JoinType, NoText
<1> QED
  BY <1>1 DEF Flush, ParserState, SameLine, SameCitations

(***************************************************************************)
(* Its small steps.                                                        *)
(***************************************************************************)

\* All that p has to show, sent or not.
Out(p) == p.text \o p.pending

Grows(q, p) == \E x \in Text : q.text = p.text \o x

LEMMA JoinAssoc ==
    ASSUME NEW r \in Text, NEW s \in Text, NEW t \in Text
    PROVE  (r \o s) \o t = r \o (s \o t)
BY DEF Text

LEMMA JoinNone == ASSUME NEW r \in Text PROVE r \o <<>> = r
BY DEF Text

LEMMA OutType == ASSUME NEW p \in ParserState PROVE Out(p) \in Text
BY Fields, JoinType DEF Out

LEMMA OutAfterFlush ==
    ASSUME NEW p \in ParserState
    PROVE  Out(Flush(p)) = Out(p)
<1>1. PICK q : q = Flush(p)
  OBVIOUS
<1>2. q.text = Out(p) /\ q.pending = <<>>
  BY <1>1, FlushIs DEF Out
<1>3. Out(p) \o <<>> = Out(p)
  BY OutType, JoinNone
<1> QED
  BY <1>1, <1>2, <1>3 DEF Out

LEMMA OutAfterPending ==
    ASSUME NEW p \in ParserState, NEW q, NEW x \in Text, q.text = p.text, q.pending = p.pending \o x
    PROVE  Out(q) = Out(p) \o x
<1>1. (p.text \o p.pending) \o x = p.text \o (p.pending \o x)
  <2>1. p.text \in Text /\ p.pending \in Text
    BY Fields
  <2> QED
    BY <2>1, JoinAssoc
<1> QED
  BY <1>1 DEF Out

LEMMA GrowsByNothing ==
    ASSUME NEW p \in ParserState, NEW q, q.text = p.text
    PROVE  Grows(q, p)
<1>1. p.text \o <<>> = p.text
  BY Fields, JoinNone
<1> QED
  BY <1>1, NoText DEF Grows

LEMMA GrowsTwice ==
    ASSUME NEW p \in ParserState, NEW q, NEW r, Grows(q, p), Grows(r, q)
    PROVE  Grows(r, p)
<1>1. PICK x \in Text : q.text = p.text \o x
  BY DEF Grows
<1>2. PICK y \in Text : r.text = q.text \o y
  BY DEF Grows
<1>3. r.text = p.text \o (x \o y) /\ x \o y \in Text
  <2>1. p.text \in Text
    BY Fields
  <2>2. (p.text \o x) \o y = p.text \o (x \o y)
    BY <2>1, JoinAssoc
  <2> QED
    BY <1>1, <1>2, <2>2, JoinType
<1> QED
  BY <1>3 DEF Grows

LEMMA AppendIs ==
    ASSUME NEW S, NEW s \in Seq(S), NEW x \in S
    PROVE  Append(s, x) = s \o <<x>> /\ Append(s, x) \in Seq(S)
OBVIOUS

LEMMA OutsideIs ==
    ASSUME NEW p \in ParserState, p.marker = None, NEW c \in Character, NEW q, q = OutsideMarker(p, c)
    PROVE  /\ q \in ParserState /\ SameLine(q, p) /\ SameCitations(q, p) /\ Grows(q, p)
           /\ q.marker = IF c = "[" THEN <<>> ELSE None
           /\ Out(q) = IF c = "[" THEN Out(p) ELSE Out(p) \o <<c>>
<1>1. CASE c = "["
  <2>1. PICK m : m = [p EXCEPT !.marker = <<>>]
    OBVIOUS
  <2>2. /\ m \in ParserState /\ m.marker = <<>> /\ m.pending = p.pending /\ m.text = p.text
        /\ SameLine(m, p) /\ SameCitations(m, p)
    BY <2>1, NoText, SetMarker
  <2>3. q = Flush(m)
    BY <1>1, <2>1 DEF OutsideMarker
  <2>4. /\ q \in ParserState /\ q.marker = m.marker /\ q.pending = <<>>
        /\ q.text = m.text \o m.pending /\ SameLine(q, m) /\ SameCitations(q, m)
    BY <2>2, <2>3, FlushIs
  <2>5. Out(q) = Out(m) /\ Out(m) = Out(p)
    BY <2>2, <2>3, OutAfterFlush DEF Out
  <2>6. Grows(q, p)
    BY <2>2, <2>4, Fields DEF Grows
  <2> QED
    BY <1>1, <2>2, <2>4, <2>5, <2>6 DEF SameLine, SameCitations
<1>2. CASE c # "["
  <2>1. Append(p.pending, c) = p.pending \o <<c>> /\ p.pending \o <<c>> \in Text
    BY Fields, AppendIs DEF Text
  <2>2. q = [p EXCEPT !.pending = p.pending \o <<c>>]
    BY <1>2, <2>1 DEF OutsideMarker
  <2>3. /\ q \in ParserState /\ q.marker = p.marker /\ q.pending = p.pending \o <<c>> /\ q.text = p.text
        /\ SameLine(q, p) /\ SameCitations(q, p)
    BY <2>1, <2>2, SetPending
  <2>4. Out(q) = Out(p) \o <<c>>
    BY <2>3, OneText, OutAfterPending
  <2> QED
    BY <1>2, <2>3, <2>4, GrowsByNothing
<1> QED
  BY <1>1, <1>2

LEMMA LiteralIs ==
    ASSUME NEW p \in ParserState, p.marker # None, NEW q, q = Literal(p)
    PROVE  /\ q \in ParserState /\ SameLine(q, p) /\ SameCitations(q, p) /\ Grows(q, p)
           /\ q.marker = None
           /\ Out(q) = Out(p) \o (<<"[">> \o p.marker)
<1>1. p.marker \in Text /\ <<"[">> \in Text
  BY Fields, Brackets, OneText
<1>2. <<"[">> \o p.marker \in Text /\ (p.pending \o <<"[">>) \o p.marker = p.pending \o (<<"[">> \o p.marker)
  <2>1. p.pending \in Text
    BY Fields
  <2> QED
    BY <1>1, <2>1, JoinType, JoinAssoc
<1>3. p.pending \o (<<"[">> \o p.marker) \in Text
  BY <1>2, Fields, JoinType
<1>10. PICK y \in Text : y = p.pending \o (<<"[">> \o p.marker)
  BY <1>3
<1>4. PICK m : m = [p EXCEPT !.pending = y]
  OBVIOUS
<1>5. /\ m \in ParserState /\ m.pending = p.pending \o (<<"[">> \o p.marker) /\ m.text = p.text
      /\ SameLine(m, p) /\ SameCitations(m, p)
  <2>1. /\ m \in ParserState /\ m.pending = y /\ m.text = p.text
        /\ SameLine(m, p) /\ SameCitations(m, p)
    BY <1>4, SetPending
  <2> QED
    BY <1>10, <2>1
<1>6. q = [m EXCEPT !.marker = None]
  <2>1. q = [p EXCEPT !.pending = y, !.marker = None]
    BY <1>2, <1>10 DEF Literal
  <2> QED
    BY <1>4, <2>1 DEF ParserState
<1>7. /\ q \in ParserState /\ q.marker = None /\ q.pending = m.pending /\ q.text = m.text
      /\ SameLine(q, m) /\ SameCitations(q, m)
  BY <1>5, <1>6, SetMarker
<1>8. Out(q) = Out(p) \o (<<"[">> \o p.marker)
  BY <1>2, <1>5, <1>7, OutAfterPending
<1>9. Grows(q, p)
  BY <1>5, <1>7, GrowsByNothing
<1> QED
  BY <1>5, <1>7, <1>8, <1>9 DEF SameLine, SameCitations

LEMMA EmitIs ==
    ASSUME NEW p \in ParserState, NEW kind \in {"verdict", "citation"},
           NEW what \in Verdicts \cup {Error} \cup AnyValue, NEW q, q = Emit(p, kind, what)
    PROVE  /\ q \in ParserState /\ SameLine(q, p)
           /\ q.marker = p.marker /\ q.pending = p.pending /\ q.text = p.text
           /\ q.cited = p.cited /\ q.dropped = p.dropped
           /\ q.events = Append(p.events, [kind |-> kind, what |-> what, at |-> Len(p.text)])
<1>1. Len(p.text) \in Nat
  BY Fields DEF Text
<1>2. [kind |-> kind, what |-> what, at |-> Len(p.text)] \in Event
  BY <1>1 DEF Event
<1>3. Append(p.events, [kind |-> kind, what |-> what, at |-> Len(p.text)]) \in Seq(Event)
  BY <1>2, Fields, AppendIs
<1>4. PICK es \in Seq(Event) : es = Append(p.events, [kind |-> kind, what |-> what, at |-> Len(p.text)])
  BY <1>3
<1>5. q = [p EXCEPT !.events = es]
  BY <1>4 DEF Emit
<1> QED
  BY <1>4, <1>5 DEF ParserState, SameLine

\* A citation is shown, and counts the first time.
LEMMA CiteIs ==
    ASSUME NEW p \in ParserState, NEW n \in 1..Chunks, n \in AnyValue, NEW q, q = Cite(p, n)
    PROVE  /\ q \in ParserState /\ SameLine(q, p) /\ Grows(q, p)
           /\ q.marker = None /\ q.dropped = p.dropped
           /\ Out(q) = Out(p) \o (<<"[">> \o Numeral[n] \o <<"]">>)
           /\ q.pending = <<>> /\ q.text = Out(p) \o (<<"[">> \o Numeral[n] \o <<"]">>)
           /\ q.cited = IF Contains(p.cited, n) THEN p.cited ELSE p.cited \o <<n>>
           /\ q.events = IF Contains(p.cited, n) THEN p.events
                         ELSE Append(p.events, [kind |-> "citation", what |-> n, at |-> Len(q.text)])
<1>1. PICK x \in Text : x = <<"[">> \o Numeral[n] \o <<"]">>
  <2>1. Numeral[n] \in Text /\ <<"[">> \in Text /\ <<"]">> \in Text
    BY Bounds, Brackets, OneText
  <2>2. <<"[">> \o Numeral[n] \o <<"]">> \in Text
    BY <2>1, JoinType
  <2> QED
    BY <2>2
<1>2. p.pending \in Text /\ <<"[">> \in Text /\ Numeral[n] \in Text /\ <<"]">> \in Text
  BY Bounds, Brackets, OneText, Fields
<1>3. PICK y \in Text : y = p.pending \o x
  BY <1>1, <1>2, JoinType
<1>4. p.pending \o <<"[">> \o Numeral[n] \o <<"]">> = y
  <2>1. PICK a \in Text : a = p.pending
    BY <1>2
  <2>2. PICK b \in Text : b = <<"[">>
    BY <1>2
  <2>3. PICK c \in Text : c = Numeral[n]
    BY <1>2
  <2>4. PICK d \in Text : d = <<"]">>
    BY <1>2
  <2>5. PICK e \in Text : e = b \o c
    BY JoinType
  <2>6. \A v, w \in Text : (a \o v) \o w = a \o (v \o w)
    BY JoinAssoc, Zenon
  <2>7. (a \o b) \o c = a \o (b \o c)
    BY <2>6, Zenon
  <2>8. (a \o e) \o d = a \o (e \o d)
    BY <2>6, Zenon
  <2>9. ((a \o b) \o c) \o d = a \o ((b \o c) \o d)
    BY <2>5, <2>7, <2>8
  <2> QED
    BY <1>1, <1>3, <2>1, <2>2, <2>3, <2>4, <2>9
<1>5. PICK m : m = [p EXCEPT !.marker = None]
  OBVIOUS
<1>6. /\ m \in ParserState /\ m.marker = None /\ m.pending = p.pending /\ m.text = p.text
      /\ SameLine(m, p) /\ SameCitations(m, p)
  BY <1>5, SetMarker
<1>7. PICK r : r = [m EXCEPT !.pending = y]
  OBVIOUS
<1>8. /\ r \in ParserState /\ r.marker = m.marker /\ r.pending = y /\ r.text = m.text
      /\ SameLine(r, m) /\ SameCitations(r, m)
  BY <1>6, <1>7, SetPending
<1>9. PICK u : u = Flush(r)
  OBVIOUS
<1>10. /\ u \in ParserState /\ u.marker = r.marker /\ u.pending = <<>>
       /\ u.text = r.text \o r.pending /\ SameLine(u, r) /\ SameCitations(u, r)
  BY <1>8, <1>9, FlushIs
<1>11. u.text = Out(p) \o x
  <2>1. (p.text \o p.pending) \o x = p.text \o (p.pending \o x)
    <3>1. PICK a \in Text : a = p.text
      BY Fields
    <3>2. PICK b \in Text : b = p.pending
      BY <1>2
    <3>3. (a \o b) \o x = a \o (b \o x)
      BY JoinAssoc
    <3> QED
      BY <3>1, <3>2, <3>3
  <2> QED
    BY <1>3, <1>6, <1>8, <1>10, <2>1 DEF Out
<1>12. Grows(u, p) /\ SameLine(u, p) /\ SameCitations(u, p) /\ u.marker = None
  BY <1>6, <1>8, <1>10 DEF Grows, SameLine, SameCitations
<1>13. u = Flush([p EXCEPT !.marker = None, !.pending = @ \o <<"[">> \o Numeral[n] \o <<"]">>])
  <2>1. r = [p EXCEPT !.marker = None, !.pending = y]
    BY <1>5, <1>7 DEF ParserState
  <2> QED
    BY <1>4, <1>9, <2>1
<1>14. Out(u) = u.text
  <2>1. u.text \o <<>> = u.text
    BY <1>10, Fields, JoinNone
  <2> QED
    BY <1>10, <2>1 DEF Out
<1>15. u.cited = p.cited /\ u.dropped = p.dropped /\ u.events = p.events
  BY <1>12 DEF SameCitations
<1>16. CASE Contains(p.cited, n)
  <2>1. q = u
    BY <1>13, <1>16 DEF Cite
  <2> QED
    BY <1>1, <1>10, <1>11, <1>12, <1>14, <1>15, <1>16, <2>1
<1>17. CASE ~Contains(p.cited, n)
  <2>1. PICK w : w = [u EXCEPT !.cited = Append(@, n)]
    OBVIOUS
  <2>2. Append(u.cited, n) = p.cited \o <<n>> /\ Append(u.cited, n) \in Seq(AnyValue)
    BY <1>15, Fields, AppendIs
  <2>3. /\ w \in ParserState /\ SameLine(w, u) /\ w.cited = p.cited \o <<n>>
        /\ w.marker = u.marker /\ w.pending = u.pending /\ w.text = u.text
        /\ w.dropped = u.dropped /\ w.events = u.events
    BY <1>10, <2>1, <2>2 DEF ParserState, SameLine
  <2>4. q = Emit(w, "citation", n)
    <3>1. q = IF Contains(p.cited, n) THEN u ELSE Emit([u EXCEPT !.cited = Append(@, n)], "citation", n)
      BY <1>13, Zenon DEF Cite
    <3> QED
      BY <1>17, <2>1, <3>1, Zenon
  <2>5. /\ q \in ParserState /\ SameLine(q, w)
        /\ q.marker = w.marker /\ q.pending = w.pending /\ q.text = w.text
        /\ q.cited = w.cited /\ q.dropped = w.dropped
        /\ q.events = Append(w.events, [kind |-> "citation", what |-> n, at |-> Len(w.text)])
    <3>1. n \in Verdicts \cup {Error} \cup AnyValue /\ "citation" \in {"verdict", "citation"}
      OBVIOUS
    <3>2. w \in ParserState
      BY <2>3
    <3> QED
      BY <2>4, <3>1, <3>2, EmitIs, Zenon
  <2>6. SameLine(q, p) /\ Grows(q, p) /\ Out(q) = Out(u)
    BY <1>12, <2>3, <2>5 DEF SameLine, Grows, Out
  <2> QED
    BY <1>1, <1>10, <1>11, <1>12, <1>14, <1>15, <1>17, <2>3, <2>5, <2>6
<1> QED
  BY <1>16, <1>17

(***************************************************************************)
(* One character of prose: what it writes and which event it sends.        *)
(***************************************************************************)

\* The events of one step: none, or a citation behind its marker.
Cited(q, p, n) ==
    /\ q.events = Append(p.events, [kind |-> "citation", what |-> n, at |-> Len(q.text)])
    /\ q.cited = p.cited \o <<n>> /\ ~Contains(p.cited, n)
    /\ \E x \in Text : q.text = x \o (<<"[">> \o Numeral[n] \o <<"]">>)

Told(q, p) ==
    \/ q.events = p.events /\ q.cited = p.cited
    \/ \E n \in AnyValue : n \in 1..Chunks /\ Cited(q, p, n)

\* _resolve_marker raises, or writes what the reference shows of the marker.
LEMMA ResolveIs ==
    ASSUME NEW p \in ParserState, p.marker \notin {None, <<>>}, NEW q, q = ResolveMarker(p),
           NEW v, v = ValueOf(p.marker)
    PROVE  /\ q \in ParserState /\ Grows(q, p) /\ Told(q, p)
           /\ \/ /\ q.state = "raised" /\ q.verdict = p.verdict /\ q.buffer = p.buffer
                 /\ q.line = p.line /\ q.final = p.final
              \/ /\ SameLine(q, p) /\ q.marker = None
                 /\ Out(q) = Out(p) \o Shown(p.marker)
                 /\ q.cited = IF v \in 1..Chunks /\ ~Contains(p.cited, v) THEN p.cited \o <<v>> ELSE p.cited
                 /\ q.dropped = IF v \in 1..Chunks THEN p.dropped ELSE p.dropped \o <<v>>
<1>1. p.marker \in Text /\ v \in AnyValue
  BY Fields DEF AnyValue
<1> DEFINE Undecodable == \E i \in DOMAIN p.marker : DigitValue[p.marker[i]] = NoValue
<1>2. CASE Undecodable
  <2>1. q = [p EXCEPT !.state = "raised"]
    BY <1>2, Zenon DEF ResolveMarker
  <2>2. /\ q \in ParserState /\ q.state = "raised" /\ q.verdict = p.verdict /\ q.buffer = p.buffer
        /\ q.line = p.line /\ q.final = p.final
        /\ q.text = p.text /\ q.events = p.events /\ q.cited = p.cited
    BY <2>1 DEF ParserState
  <2> QED
    BY <2>2, GrowsByNothing DEF Told
<1>3. CASE ~Undecodable
  <2>1. q = IF Citable(p.marker) THEN Cite(p, ValueOf(p.marker))
            ELSE [p EXCEPT !.marker = None, !.dropped = Append(@, ValueOf(p.marker))]
    BY <1>3, Zenon DEF ResolveMarker
  <2>2. CASE Citable(p.marker)
    <3>1. v \in 1..Chunks /\ q = Cite(p, v)
      <4>1. v \in 1..Chunks
        BY <2>2 DEF Citable
      <4>2. q = Cite(p, ValueOf(p.marker))
        BY <2>1, <2>2, Zenon
      <4> QED
        BY <4>1, <4>2
    <3>2. /\ q \in ParserState /\ SameLine(q, p) /\ Grows(q, p)
          /\ q.marker = None /\ q.dropped = p.dropped
          /\ Out(q) = Out(p) \o (<<"[">> \o Numeral[v] \o <<"]">>)
          /\ q.text = Out(p) \o (<<"[">> \o Numeral[v] \o <<"]">>)
          /\ q.cited = IF Contains(p.cited, v) THEN p.cited ELSE p.cited \o <<v>>
          /\ q.events = IF Contains(p.cited, v) THEN p.events
                        ELSE Append(p.events, [kind |-> "citation", what |-> v, at |-> Len(q.text)])
      <4>1. v \in AnyValue /\ v \in 1..Chunks /\ q = Cite(p, v)
        BY <1>1, <3>1
      <4> QED
        BY <4>1, CiteIs, ZenonT(60)
    <3>3. Shown(p.marker) = <<"[">> \o Numeral[v] \o <<"]">>
      BY <2>2 DEF Shown, Citing
    <3>4. Told(q, p)
      <4>1. CASE Contains(p.cited, v)
        BY <3>2, <4>1 DEF Told
      <4>2. CASE ~Contains(p.cited, v)
        <5>1. Cited(q, p, v)
          BY <3>2, <4>2, OutType DEF Cited
        <5> QED
          BY <1>1, <3>1, <5>1 DEF Told
      <4> QED
        BY <4>1, <4>2
    <3> QED
      BY <3>1, <3>2, <3>3, <3>4
  <2>3. CASE ~Citable(p.marker)
    <3>1. v \notin 1..Chunks /\ q = [p EXCEPT !.marker = None, !.dropped = Append(@, v)]
      BY <2>1, <2>3 DEF Citable
    <3>2. Append(p.dropped, v) = p.dropped \o <<v>> /\ Append(p.dropped, v) \in Seq(AnyValue)
      BY <1>1, Fields, AppendIs
    <3>3. /\ q \in ParserState /\ SameLine(q, p) /\ q.marker = None /\ q.dropped = p.dropped \o <<v>>
          /\ q.pending = p.pending /\ q.text = p.text /\ q.events = p.events /\ q.cited = p.cited
      BY <3>1, <3>2 DEF ParserState, SameLine
    <3>4. Shown(p.marker) = <<>>
      BY <2>3 DEF Shown
    <3>5. Out(q) = Out(p) \o <<>>
      <4>1. Out(p) \o <<>> = Out(p)
        BY OutType, JoinNone
      <4> QED
        BY <3>3, <4>1 DEF Out
    <3>6. Grows(q, p) /\ Told(q, p)
      BY <3>3, GrowsByNothing DEF Told
    <3> QED
      BY <3>1, <3>3, <3>4, <3>5, <3>6
  <2> QED
    BY <2>2, <2>3
<1> QED
  BY <1>2, <1>3

LEMMA WatchNextIs ==
    ASSUME NEW p \in ParserState, NEW c, NEW q, q = WatchNext(p, c)
    PROVE  /\ q \in ParserState /\ SameProse(q, p)
           /\ q.state = p.state /\ q.verdict = p.verdict /\ q.buffer = p.buffer /\ q.final = p.final
           /\ q.line = IF c = "\n" THEN <<>> ELSE p.line
<1>1. CASE c = "\n"
  <2>1. q = [p EXCEPT !.line = <<>>]
    BY <1>1 DEF WatchNext
  <2> QED
    BY <1>1, <2>1, NoText, SetLine
<1>2. CASE c # "\n"
  BY <1>2 DEF WatchNext, SameProse, SameCitations
<1> QED
  BY <1>1, <1>2

\* How one character of prose is read: as text, a digit, the end of a marker, or
\* what breaks one.
ReadText(q, p, c) ==
    /\ q.marker = IF c = "[" THEN <<>> ELSE None
    /\ Out(q) = IF c = "[" THEN Out(p) ELSE Out(p) \o <<c>>
    /\ SameCitations(q, p)

ReadDigit(q, p, c) == q.marker = p.marker \o <<c>> /\ Out(q) = Out(p) /\ SameCitations(q, p)

ReadClose(q, p, v) ==
    /\ q.marker = None
    /\ Out(q) = Out(p) \o Shown(p.marker)
    /\ q.cited = IF v \in 1..Chunks /\ ~Contains(p.cited, v) THEN p.cited \o <<v>> ELSE p.cited
    /\ q.dropped = IF v \in 1..Chunks THEN p.dropped ELSE p.dropped \o <<v>>

ReadBreak(q, p, c) ==
    /\ q.marker = IF c = "[" THEN <<>> ELSE None
    /\ Out(q) = IF c = "[" THEN Out(p) \o (<<"[">> \o p.marker)
                ELSE (Out(p) \o (<<"[">> \o p.marker)) \o <<c>>
    /\ SameCitations(q, p)

IsText(p, c) == p.marker = None
IsDigit(p, c) == p.marker # None /\ c \in DOMAIN DigitValue /\ Len(p.marker) < MaxMarkerDigits
IsClose(p, c) == p.marker \notin {None, <<>>} /\ c = "]"
IsBreak(p, c) == ~IsText(p, c) /\ ~IsDigit(p, c) /\ ~IsClose(p, c)

Read(q, p, c) ==
    /\ IsText(p, c) => ReadText(q, p, c)
    /\ IsDigit(p, c) => ReadDigit(q, p, c)
    /\ IsClose(p, c) => ReadClose(q, p, ValueOf(p.marker))
    /\ IsBreak(p, c) => ReadBreak(q, p, c)

Frame(q, p, c) ==
    /\ q.verdict = p.verdict /\ q.buffer = p.buffer /\ q.final = p.final
    /\ q.state \in {p.state, "raised"}
    /\ q.line = p.line \/ (c = "\n" /\ q.line = <<>>)
    /\ Grows(q, p) /\ Told(q, p)

\* _feed_body_char raises or reads the character as prose.
LEMMA FeedBodyCharIs ==
    ASSUME NEW p \in ParserState, NEW c \in Character, NEW q, q = FeedBodyChar(p, c)
    PROVE  /\ q \in ParserState /\ Frame(q, p, c)
           /\ q.state = "raised" \/ Read(q, p, c)
<1> DEFINE A == IsText(p, c)
           B == IsDigit(p, c)
           C == IsClose(p, c)
<1>1. ~(A /\ B) /\ ~(A /\ C) /\ ~(B /\ C)
  BY NoDigits DEF IsText, IsDigit, IsClose
<1>6. /\ A <=> p.marker = None
      /\ B <=> p.marker # None /\ c \in DOMAIN DigitValue /\ Len(p.marker) < MaxMarkerDigits
      /\ C <=> p.marker \notin {None, <<>>} /\ c = "]"
  BY DEF IsText, IsDigit, IsClose
<1>2. CASE A
  <2>1. q = OutsideMarker(p, c)
    BY <1>1, <1>2, <1>6, Zenon DEF FeedBodyChar
  <2>2. /\ q \in ParserState /\ SameLine(q, p) /\ SameCitations(q, p) /\ Grows(q, p)
        /\ q.marker = IF c = "[" THEN <<>> ELSE None
        /\ Out(q) = IF c = "[" THEN Out(p) ELSE Out(p) \o <<c>>
    BY <1>2, <1>6, <2>1, OutsideIs
  <2>3. Frame(q, p, c)
    BY <2>2 DEF Frame, Told, SameLine, SameCitations
  <2>5. ReadText(q, p, c)
    BY <2>2 DEF ReadText
  <2>4. Read(q, p, c)
    BY <1>1, <1>2, <2>5, Zenon DEF Read, IsBreak
  <2> QED
    BY <2>2, <2>3, <2>4
<1>3. CASE B
  <2>1. q = [p EXCEPT !.marker = Append(@, c)]
    BY <1>1, <1>3, <1>6, Zenon DEF FeedBodyChar
  <2>2. Append(p.marker, c) = p.marker \o <<c>> /\ Append(p.marker, c) \in Text
    BY <1>3, <1>6, Fields, AppendIs DEF Text
  <2>3. /\ q \in ParserState /\ q.marker = p.marker \o <<c>> /\ q.pending = p.pending /\ q.text = p.text
        /\ SameLine(q, p) /\ SameCitations(q, p)
    <3>1. PICK x \in Text : x = Append(p.marker, c)
      BY <2>2
    <3>2. q = [p EXCEPT !.marker = x]
      BY <2>1, <3>1
    <3>3. /\ q \in ParserState /\ q.marker = x /\ q.pending = p.pending /\ q.text = p.text
          /\ SameLine(q, p) /\ SameCitations(q, p)
      BY <3>2, SetMarker
    <3> QED
      BY <2>2, <3>1, <3>3
  <2>4. Frame(q, p, c) /\ Out(q) = Out(p)
    BY <2>3, GrowsByNothing DEF Frame, Told, SameLine, SameCitations, Out
  <2>6. ReadDigit(q, p, c)
    BY <2>3, <2>4 DEF ReadDigit
  <2>5. Read(q, p, c)
    BY <1>1, <1>3, <2>6, Zenon DEF Read, IsBreak
  <2> QED
    BY <2>3, <2>4, <2>5
<1>4. CASE C
  <2>1. q = ResolveMarker(p)
    BY <1>1, <1>4, <1>6, Zenon DEF FeedBodyChar
  <2>2. PICK v : v = ValueOf(p.marker)
    OBVIOUS
  <2>3. /\ q \in ParserState /\ Grows(q, p) /\ Told(q, p)
        /\ \/ /\ q.state = "raised" /\ q.verdict = p.verdict /\ q.buffer = p.buffer
              /\ q.line = p.line /\ q.final = p.final
           \/ /\ SameLine(q, p) /\ q.marker = None
              /\ Out(q) = Out(p) \o Shown(p.marker)
              /\ q.cited = IF v \in 1..Chunks /\ ~Contains(p.cited, v) THEN p.cited \o <<v>> ELSE p.cited
              /\ q.dropped = IF v \in 1..Chunks THEN p.dropped ELSE p.dropped \o <<v>>
    BY <1>4, <1>6, <2>1, <2>2, ResolveIs
  <2>4. Frame(q, p, c)
    BY <2>3 DEF Frame, SameLine
  <2>5. q.state = "raised" \/ ReadClose(q, p, v)
    BY <2>3 DEF ReadClose
  <2>6. ReadClose(q, p, v) => Read(q, p, c)
    BY <1>1, <1>4, <2>2, Zenon DEF Read, IsBreak
  <2> QED
    BY <2>3, <2>4, <2>5, <2>6
<1>5. CASE ~A /\ ~B /\ ~C
  <2>1. q = WatchNext(OutsideMarker(Literal(p), c), c)
    BY <1>5, <1>6, Zenon DEF FeedBodyChar
  <2>2. PICK l : l = Literal(p)
    OBVIOUS
  <2>3. /\ l \in ParserState /\ SameLine(l, p) /\ SameCitations(l, p) /\ Grows(l, p)
        /\ l.marker = None
        /\ Out(l) = Out(p) \o (<<"[">> \o p.marker)
    BY <1>5, <1>6, <2>2, LiteralIs
  <2>4. PICK m : m = OutsideMarker(l, c)
    OBVIOUS
  <2>5. /\ m \in ParserState /\ SameLine(m, l) /\ SameCitations(m, l) /\ Grows(m, l)
        /\ m.marker = IF c = "[" THEN <<>> ELSE None
        /\ Out(m) = IF c = "[" THEN Out(l) ELSE Out(l) \o <<c>>
    BY <2>3, <2>4, OutsideIs
  <2>6. q = WatchNext(m, c)
    BY <2>1, <2>2, <2>4
  <2>7. /\ q \in ParserState /\ SameProse(q, m)
        /\ q.state = m.state /\ q.verdict = m.verdict /\ q.buffer = m.buffer /\ q.final = m.final
        /\ q.line = IF c = "\n" THEN <<>> ELSE m.line
    BY <2>5, <2>6, WatchNextIs
  <2>8. SameCitations(q, p) /\ Out(q) = Out(m) /\ q.marker = m.marker
    BY <2>3, <2>5, <2>7 DEF SameProse, SameCitations, Out
  <2>9. Grows(q, p)
    <3>1. Grows(m, p)
      BY <2>3, <2>5, GrowsTwice
    <3> QED
      BY <2>7, <3>1 DEF Grows, SameProse
  <2>10. Frame(q, p, c)
    BY <2>3, <2>5, <2>7, <2>8, <2>9 DEF Frame, Told, SameLine, SameCitations
  <2>11. ReadBreak(q, p, c)
    BY <2>3, <2>5, <2>8 DEF ReadBreak
  <2>12. Read(q, p, c)
    BY <1>5, <2>11, Zenon DEF Read
  <2> QED
    BY <2>7, <2>10, <2>12
<1> QED
  BY <1>2, <1>3, <1>4, <1>5

(***************************************************************************)
(* Prose read so far.                                                      *)
(***************************************************************************)

\* p has read the prose s.
Prosed(p, s) ==
    /\ s \in Text
    /\ p.marker = None => OpenMarker(s) = {} /\ Out(p) = Rendered(s)
    /\ p.marker # None =>
          \E o, w : Ahead(s, o, w) /\ p.marker = SubSeq(s, o + 1, Len(s)) /\ Out(p) = Rendered(w)
    /\ p.cited = Citations(s) /\ p.dropped = DroppedMarkers(s)

LEMMA ProseStays ==
    ASSUME NEW s \in Text, NEW c \in Character, NEW sc, sc = s \o <<c>>, Markers(sc) = Markers(s)
    PROVE  /\ Citations(sc) = Citations(s) /\ DroppedMarkers(sc) = DroppedMarkers(s)
           /\ Rendered(sc) = Rendered(s) \o <<c>>
<1>1. MarkerValues(sc) = MarkerValues(s)
  BY ValuesStay
<1>2. Rendered(sc) = Rendered(s) \o <<c>>
  BY RenderedGrows
<1> QED
  BY <1>1, <1>2 DEF Citations, DroppedMarkers

\* The rest of a text grows with it.
LEMMA RestGrows ==
    ASSUME NEW s \in Text, NEW c \in Character, NEW k \in 0..Len(s)
    PROVE  /\ SubSeq(s \o <<c>>, k + 1, Len(s) + 1) = SubSeq(s, k + 1, Len(s)) \o <<c>>
           /\ SubSeq(s \o <<c>>, 1, k) = SubSeq(s, 1, k)
           /\ SubSeq(s, k + 1, Len(s)) \in Text
<1>1. PICK n \in Nat : n = Len(s)
  BY DEF Text
<1>2. PICK sc : sc = s \o <<c>>
  OBVIOUS
<1>3. sc \in Text /\ n + 1 = Len(sc) /\ (\A i \in 1..n : sc[i] = s[i]) /\ sc[n + 1] = c
  BY <1>1, <1>2, OneMore
<1>4. PICK a : a = SubSeq(sc, k + 1, n + 1)
  OBVIOUS
<1>5. PICK b : b = SubSeq(s, k + 1, n)
  OBVIOUS
<1>6. a \in Text /\ Len(a) = n - k + 1 /\ \A i \in 1..n - k + 1 : a[i] = sc[k + i]
  BY <1>1, <1>3, <1>4, SubSeqProperties DEF Text
<1>7. b \in Text /\ Len(b) = n - k /\ \A i \in 1..n - k : b[i] = s[k + i]
  BY <1>1, <1>5, SubSeqProperties DEF Text
<1>8. PICK d : d = b \o <<c>>
  OBVIOUS
<1>9. d \in Text /\ Len(d) = n - k + 1 /\ (\A i \in 1..n - k : d[i] = b[i]) /\ d[n - k + 1] = c
  <2>1. PICK j \in Nat : j = n - k /\ j = Len(b)
    BY <1>1, <1>7
  <2>2. d \in Text /\ Len(d) = j + 1 /\ (\A i \in 1..j : d[i] = b[i]) /\ d[j + 1] = c
    <3>1. b \in Text
      BY <1>7
    <3>2. /\ b \o <<c>> \in Text /\ Len(b \o <<c>>) = Len(b) + 1
          /\ (b \o <<c>>)[Len(b) + 1] = c /\ \A i \in 1..Len(b) : (b \o <<c>>)[i] = b[i]
      BY <3>1, OneMore
    <3> QED
      BY <1>8, <2>1, <3>2
  <2> QED
    BY <2>1, <2>2
<1>10. ASSUME NEW i \in 1..n - k + 1 PROVE a[i] = d[i]
  <2>1. CASE i \in 1..n - k
    <3>1. k + i \in 1..n
      BY <1>1, <2>1
    <3> QED
      BY <1>3, <1>6, <1>7, <1>9, <2>1, <3>1
  <2>2. CASE i = n - k + 1
    <3>1. k + i = n + 1
      BY <1>1, <2>2
    <3> QED
      BY <1>3, <1>6, <1>9, <2>2, <3>1
  <2> QED
    BY <1>1, <2>1, <2>2
<1>11. a = d
  BY <1>6, <1>9, <1>10 DEF Text
<1>12. SubSeq(sc, 1, k) = SubSeq(s, 1, k)
  BY <1>1, <1>3 DEF Text
<1> QED
  BY <1>1, <1>2, <1>4, <1>5, <1>7, <1>8, <1>11, <1>12

LEMMA NewOpen ==
    ASSUME NEW s \in Text, NEW sc, sc = s \o <<"[">>
    PROVE  Ahead(sc, Len(s) + 1, s) /\ SubSeq(sc, (Len(s) + 1) + 1, Len(sc)) = <<>>
<1>1. PICK n \in Nat : n = Len(s)
  BY DEF Text
<1>2. sc \in Text /\ n + 1 = Len(sc) /\ \A i \in 1..n : sc[i] = s[i]
  BY <1>1, Brackets, OneMore
<1>3. OpenMarker(sc) = {n + 1}
  BY <1>1, Brackets, OpenGrows
<1>4. SubSeq(sc, 1, (n + 1) - 1) = s
  <2>1. SubSeq(sc, 1, n) = s
    BY <1>1, <1>2 DEF Text
  <2>2. (n + 1) - 1 = n
    OBVIOUS
  <2> QED
    BY <2>1, <2>2
<1>5. SubSeq(sc, (n + 1) + 1, n + 1) = <<>>
  BY <1>2 DEF Text
<1> QED
  BY <1>1, <1>2, <1>3, <1>4, <1>5 DEF Ahead

DigitFollows(s, o, w, c, sc) ==
    /\ Ahead(s, o, w) /\ sc = s \o <<c>>
    /\ c \in DOMAIN DigitValue /\ c \in Character /\ Len(s) - o < MaxMarkerDigits
DigitHeld(s, o, w, c, sc) ==
    Ahead(sc, o, w) /\ SubSeq(sc, o + 1, Len(sc)) = SubSeq(s, o + 1, Len(s)) \o <<c>>

LEMMA StillOpen ==
    ASSUME NEW s, NEW o, NEW w, NEW c, NEW sc, DigitFollows(s, o, w, c, sc)
    PROVE  DigitHeld(s, o, w, c, sc)
<1> /\ s \in Text /\ o \in OpenMarker(s) /\ w = SubSeq(s, 1, o - 1) /\ sc = s \o <<c>>
    /\ c \in DOMAIN DigitValue /\ c \in Character /\ Len(s) - o < MaxMarkerDigits
  BY DEF Ahead, DigitFollows
<1>1. PICK n \in Nat : n = Len(s)
  BY DEF Text
<1>2. sc \in Text /\ n + 1 = Len(sc) /\ (\A i \in 1..n : sc[i] = s[i]) /\ sc[n + 1] = c
  BY <1>1, OneMore
<1>3. o \in OpenMarker(sc)
  BY OpenGrows
<1>4. o \in 1..n
  BY <1>1, OpenIs DEF IsOpen
<1>5. SubSeq(sc, 1, o - 1) = SubSeq(s, 1, o - 1)
  BY <1>1, <1>2, <1>4 DEF Text
<1>6. SubSeq(sc, o + 1, n + 1) = SubSeq(s, o + 1, n) \o <<c>>
  <2>1. o \in 0..Len(s)
    BY <1>1, <1>4
  <2> QED
    BY <1>1, <2>1, RestGrows
<1> QED
  BY <1>1, <1>2, <1>3, <1>5, <1>6 DEF Ahead, DigitHeld

LEMMA OpenText ==
    ASSUME NEW s, NEW o, NEW w, Ahead(s, o, w)
    PROVE  /\ Len(SubSeq(s, o + 1, Len(s))) = Len(s) - o
           /\ Len(s) \in Nat /\ o \in 1..Len(s)
           /\ Rendered(w) \o (<<"[">> \o SubSeq(s, o + 1, Len(s))) = Rendered(s)
<1> s \in Text /\ o \in OpenMarker(s) /\ w = SubSeq(s, 1, o - 1)
  BY DEF Ahead
<1>1. PICK n \in Nat : n = Len(s)
  BY DEF Text
<1>2. o \in 1..n /\ s[o] = "["
  BY <1>1, OpenIs DEF IsOpen
<1>3. Len(SubSeq(s, o + 1, n)) = n - o
  BY <1>1, <1>2 DEF Text
<1>4. <<"[">> \o SubSeq(s, o + 1, n) = SubSeq(s, o, n)
  BY <1>1, <1>2 DEF Text
<1>5. Rendered(s) = Rendered(w) \o SubSeq(s, o, n)
  BY <1>1, RenderedOpen
<1> QED
  BY <1>1, <1>2, <1>3, <1>4, <1>5

LEMMA MarkersStay ==
    ASSUME NEW s \in Text, NEW c \in Character, \A o \in OpenMarker(s) : ~(c = "]" /\ o < Len(s))
    PROVE  Markers(s \o <<c>>) = Markers(s)
<1>1. {<<o, Len(s) + 1>> : o \in {o \in OpenMarker(s) : c = "]" /\ o < Len(s)}} = {}
  OBVIOUS
<1> QED
  BY <1>1, MarkersGrow

\* Prose read so far stays so with one more character.
LEMMA ProseStep ==
    ASSUME NEW p \in ParserState, NEW s, Prosed(p, s), NEW c \in Character, NEW q, Read(q, p, c)
    PROVE  Prosed(q, s \o <<c>>)
<1> s \in Text
  BY DEF Prosed
<1>1. PICK n \in Nat : n = Len(s)
  BY DEF Text
<1>2. PICK sc : sc = s \o <<c>>
  OBVIOUS
<1>3. sc \in Text /\ Len(sc) = n + 1
  BY <1>1, <1>2, OneMore
<1>4. p.cited = Citations(s) /\ p.dropped = DroppedMarkers(s)
  BY DEF Prosed
<1>5. None # <<>>
  BY NoneIsNoText
<1>6. ASSUME Out(p) = Rendered(s), c = "[", q.marker = <<>>, Out(q) = Out(p), SameCitations(q, p),
             Markers(sc) = Markers(s)
      PROVE  Prosed(q, sc)
  <2>1. Ahead(sc, n + 1, s) /\ SubSeq(sc, (n + 1) + 1, Len(sc)) = <<>>
    BY <1>1, <1>2, <1>6, NewOpen
  <2>2. Citations(sc) = Citations(s) /\ DroppedMarkers(sc) = DroppedMarkers(s)
    BY <1>2, <1>6, ProseStays
  <2>3. q.cited = Citations(sc) /\ q.dropped = DroppedMarkers(sc)
    BY <1>4, <1>6, <2>2 DEF SameCitations
  <2>4. \E o, w : Ahead(sc, o, w) /\ q.marker = SubSeq(sc, o + 1, Len(sc)) /\ Out(q) = Rendered(w)
    BY <1>6, <2>1
  <2> QED
    BY <1>3, <1>5, <1>6, <2>3, <2>4 DEF Prosed
<1>7. ASSUME Out(q) = Rendered(s) \o <<c>>, q.marker = None, SameCitations(q, p), Markers(sc) = Markers(s),
             OpenMarker(sc) = {}
      PROVE  Prosed(q, sc)
  <2>1. /\ Citations(sc) = Citations(s) /\ DroppedMarkers(sc) = DroppedMarkers(s)
        /\ Rendered(sc) = Rendered(s) \o <<c>>
    BY <1>2, <1>7, ProseStays
  <2>2. q.cited = Citations(sc) /\ q.dropped = DroppedMarkers(sc)
    BY <1>4, <1>7, <2>1 DEF SameCitations
  <2> QED
    BY <1>3, <1>7, <2>1, <2>2 DEF Prosed
<1>8. CASE IsText(p, c)
  <2>1. OpenMarker(s) = {} /\ Out(p) = Rendered(s) /\ ReadText(q, p, c)
    BY <1>8 DEF Prosed, Read, IsText
  <2>2. Markers(sc) = Markers(s)
    BY <1>2, <2>1, MarkersStay
  <2>3. CASE c = "["
    <3>1. Prosed(q, sc)
      BY <1>6, <2>1, <2>2, <2>3 DEF ReadText
    <3> QED
      BY <1>2, <3>1
  <2>4. CASE c # "["
    <3>1. OpenMarker(sc) = {}
      BY <1>2, <2>1, <2>4, OpenGrows
    <3>2. Prosed(q, sc)
      BY <1>7, <2>1, <2>2, <2>4, <3>1 DEF ReadText
    <3> QED
      BY <1>2, <3>2
  <2> QED
    BY <2>3, <2>4
<1>9. ASSUME ~IsText(p, c)
      PROVE  \E o, w : Ahead(s, o, w) /\ p.marker = SubSeq(s, o + 1, Len(s)) /\ Out(p) = Rendered(w)
  BY <1>9 DEF Prosed, IsText
<1>10. CASE IsDigit(p, c)
  <2>1. ~IsText(p, c) /\ ReadDigit(q, p, c)
    BY <1>10 DEF Read, IsDigit, IsText
  <2>2. PICK o, w : Ahead(s, o, w) /\ p.marker = SubSeq(s, o + 1, Len(s)) /\ Out(p) = Rendered(w)
    BY <1>9, <2>1
  <2>3. c \in DOMAIN DigitValue /\ Len(s) - o < MaxMarkerDigits
    BY <1>10, <2>2, OpenText DEF IsDigit
  <2>4. Ahead(sc, o, w) /\ SubSeq(sc, o + 1, Len(sc)) = p.marker \o <<c>>
    <3>1. Ahead(s, o, w)
      BY <2>2
    <3>2. Ahead(sc, o, w) /\ SubSeq(sc, o + 1, Len(sc)) = SubSeq(s, o + 1, Len(s)) \o <<c>>
      <4>1. DigitFollows(s, o, w, c, sc)
        <5>1. c \in DOMAIN DigitValue /\ c \in Character
          BY <2>3
        <5>2. Len(s) - o < MaxMarkerDigits
          BY <2>3
        <5>3. sc = s \o <<c>>
          BY <1>2
        <5> QED
          BY <3>1, <5>1, <5>2, <5>3, Zenon DEF DigitFollows
      <4>2. DigitHeld(s, o, w, c, sc)
        BY <4>1, StillOpen
      <4> QED
        BY <4>2, Zenon DEF DigitHeld
    <3> QED
      BY <2>2, <3>2
  <2>5. Markers(sc) = Markers(s)
    BY <1>2, <2>3, NoDigits, MarkersStay
  <2>6. Citations(sc) = Citations(s) /\ DroppedMarkers(sc) = DroppedMarkers(s)
    BY <1>2, <2>5, ProseStays
  <2>7. q.marker = p.marker \o <<c>> /\ Out(q) = Out(p) /\ q.cited = p.cited /\ q.dropped = p.dropped
    BY <2>1 DEF ReadDigit, SameCitations
  <2>8. q.marker # None
    <3>1. p.marker \in Text
      BY <1>10, Fields DEF IsDigit
    <3>2. p.marker \o <<c>> \in Text
      BY <3>1, OneMore
    <3> QED
      BY <2>7, <3>2, NoneIsNoText
  <2>9. \E o2, w2 : Ahead(sc, o2, w2) /\ q.marker = SubSeq(sc, o2 + 1, Len(sc)) /\ Out(q) = Rendered(w2)
    BY <2>2, <2>4, <2>7
  <2>10. q.cited = Citations(sc) /\ q.dropped = DroppedMarkers(sc)
    BY <1>4, <2>6, <2>7
  <2>11. Prosed(q, sc)
    BY <1>3, <2>8, <2>9, <2>10 DEF Prosed
  <2> QED
    BY <1>2, <2>11
<1>11. CASE IsClose(p, c)
  <2>1. ~IsText(p, c) /\ ReadClose(q, p, ValueOf(p.marker)) /\ c = "]" /\ p.marker # <<>>
    BY <1>11 DEF Read, IsClose, IsText
  <2>2. PICK o, w : Ahead(s, o, w) /\ p.marker = SubSeq(s, o + 1, Len(s)) /\ Out(p) = Rendered(w)
    BY <1>9, <2>1
  <2>3. o < Len(s)
    <3>1. Len(p.marker) = n - o /\ o \in 1..n
      BY <1>1, <2>2, OpenText
    <3>2. p.marker \in Text
      BY <1>11, Fields DEF IsClose
    <3>3. Len(p.marker) # 0
      BY <2>1, <3>2 DEF Text
    <3> QED
      BY <1>1, <3>1, <3>3
  <2>4. OpenMarker(sc) = {}
    BY <1>2, <2>1, NoDigits, OpenGrows
  <2>5. Rendered(sc) = Rendered(w) \o Shown(p.marker)
    BY <1>2, <2>1, <2>2, <2>3, RenderedClose
  <2>6. PICK v : v = ValueOf(p.marker)
    OBVIOUS
  <2>7. MarkerValues(sc) = MarkerValues(s) \o <<v>>
    BY <1>2, <2>1, <2>2, <2>3, <2>6, ValuesGrow
  <2>8. MarkerValues(s) \in Seq(AnyValue) /\ v \in AnyValue
    <3>1. p.marker \in Text
      BY <1>11, Fields DEF IsClose
    <3>2. v \in AnyValue
      BY <2>6, <3>1 DEF AnyValue
    <3> QED
      BY <1>1, <3>2, ValuesAre
  <2>9. /\ FirstUses(MarkerValues(sc)) = IF v \in 1..Chunks /\ ~Contains(FirstUses(MarkerValues(s)), v)
                                         THEN FirstUses(MarkerValues(s)) \o <<v>> ELSE FirstUses(MarkerValues(s))
        /\ Unknown(MarkerValues(sc)) = IF v \in 1..Chunks THEN Unknown(MarkerValues(s))
                                       ELSE Unknown(MarkerValues(s)) \o <<v>>
    BY <2>7, <2>8, UsesGrow
  <2>10. ReadClose(q, p, v)
    BY <2>1, <2>6
  <2>11. q.cited = Citations(sc) /\ q.dropped = DroppedMarkers(sc)
    BY <1>4, <2>9, <2>10 DEF ReadClose, Citations, DroppedMarkers
  <2>12. q.marker = None /\ Out(q) = Rendered(sc)
    BY <2>2, <2>5, <2>10 DEF ReadClose
  <2>13. Prosed(q, sc)
    BY <1>3, <2>4, <2>11, <2>12 DEF Prosed
  <2> QED
    BY <1>2, <2>13
<1>12. CASE IsBreak(p, c)
  <2>1. ~IsText(p, c) /\ ReadBreak(q, p, c)
    BY <1>12 DEF Read, IsBreak
  <2>2. PICK o, w : Ahead(s, o, w) /\ p.marker = SubSeq(s, o + 1, Len(s)) /\ Out(p) = Rendered(w)
    BY <1>9, <2>1
  <2>3. Len(p.marker) = n - o /\ o \in 1..n /\ Out(p) \o (<<"[">> \o p.marker) = Rendered(s)
    BY <1>1, <2>2, OpenText
  <2>4. OpenMarker(s) = {o}
    <3>1. o \in OpenMarker(s)
      BY <2>2 DEF Ahead
    <3> QED
      BY <3>1, OneOpen
  <2>5. c = "]" => o = n
    <3>1. c = "]" => p.marker = <<>>
      BY <1>12 DEF IsBreak, IsClose, IsText
    <3>2. p.marker = <<>> => Len(p.marker) = 0
      OBVIOUS
    <3> QED
      BY <2>3, <3>1, <3>2
  <2>6. Markers(sc) = Markers(s)
    BY <1>1, <1>2, <2>4, <2>5, MarkersStay
  <2>7. CASE c = "["
    <3>1. q.marker = <<>> /\ Out(q) = Rendered(s) /\ q.cited = p.cited /\ q.dropped = p.dropped
      BY <2>1, <2>3, <2>7 DEF ReadBreak, SameCitations
    <3>2. Ahead(sc, n + 1, s) /\ SubSeq(sc, (n + 1) + 1, Len(sc)) = <<>>
      BY <1>1, <1>2, <2>7, NewOpen
    <3>3. Citations(sc) = Citations(s) /\ DroppedMarkers(sc) = DroppedMarkers(s)
      BY <1>2, <2>6, ProseStays
    <3>4. \E o2, w2 : Ahead(sc, o2, w2) /\ q.marker = SubSeq(sc, o2 + 1, Len(sc)) /\ Out(q) = Rendered(w2)
      BY <3>1, <3>2
    <3>5. Prosed(q, sc)
      BY <1>3, <1>4, <1>5, <3>1, <3>3, <3>4 DEF Prosed
    <3> QED
      BY <1>2, <3>5
  <2>8. CASE c # "["
    <3>1. OpenMarker(sc) = {}
      <4>1. CASE c \in DOMAIN DigitValue
        <5>1. ~(n - o < MaxMarkerDigits)
          BY <1>12, <2>3, <4>1 DEF IsBreak, IsDigit, IsText
        <5>2. OpenMarker(sc) = {x \in OpenMarker(s) : n - x < MaxMarkerDigits}
          BY <1>1, <1>2, <4>1, OpenGrows
        <5> QED
          BY <2>4, <5>1, <5>2
      <4>2. CASE c \notin DOMAIN DigitValue
        BY <1>2, <2>8, <4>2, OpenGrows
      <4> QED
        BY <4>1, <4>2
    <3>2. q.marker = None /\ Out(q) = Rendered(s) \o <<c>> /\ SameCitations(q, p)
      BY <2>1, <2>3, <2>8 DEF ReadBreak
    <3>3. Prosed(q, sc)
      BY <1>7, <2>6, <3>1, <3>2
    <3> QED
      BY <1>2, <3>3
  <2> QED
    BY <2>7, <2>8
<1> QED
  BY <1>2, <1>8, <1>10, <1>11, <1>12 DEF IsBreak

(***************************************************************************)
(* A held line, and a body that grows by a character.                      *)
(***************************************************************************)

\* Text without a bracket goes on behind prose with no open marker as it is.
LEMMA PlainText ==
    ASSUME NEW s \in Text, OpenMarker(s) = {}, NEW l \in Text, \A i \in 1..Len(l) : l[i] # "["
    PROVE  /\ OpenMarker(s \o l) = {} /\ Rendered(s \o l) = Rendered(s) \o l
           /\ MarkerValues(s \o l) = MarkerValues(s) /\ s \o l \in Text
<1>1. PICK n \in Nat : n = Len(l)
  BY DEF Text
<1> DEFINE Fine(x) == /\ s \o x \in Text /\ OpenMarker(s \o x) = {} /\ Rendered(s \o x) = Rendered(s) \o x
                      /\ MarkerValues(s \o x) = MarkerValues(s)
           G == {k \in 0..n : Fine(SubSeq(l, 1, k))}
<1>2. Rendered(s) \in Text
  <2>1. PICK k \in Nat : k = Len(s)
    BY DEF Text
  <2> QED
    BY <2>1, RenderedIs
<1>3. 0 \in G
  <2>1. SubSeq(l, 1, 0) = <<>>
    BY SubSeqEmpty
  <2>2. s \o <<>> = s /\ Rendered(s) \o <<>> = Rendered(s)
    BY <1>2, JoinNone
  <2>3. Fine(<<>>)
    BY <2>2
  <2>4. 0 \in 0..n
    OBVIOUS
  <2> HIDE DEF Fine
  <2> QED
    BY <2>1, <2>3, <2>4
<1>4. ASSUME NEW i \in 1..n, i - 1 \in G PROVE i \in G
  <2>1. PICK x : x = SubSeq(l, 1, i - 1)
    OBVIOUS
  <2>2. PICK c \in Character : c = l[i] /\ c # "["
    BY <1>1 DEF Text
  <2>3. SubSeq(l, 1, i) = x \o <<c>>
    <3>1. 1 \in 1..Len(l) /\ i \in 1..Len(l)
      BY <1>1
    <3>2. l \in Seq(Character)
      BY DEF Text
    <3>3. SubSeq(l, 1, i) = SubSeq(l, 1, i - 1) \o <<l[i]>>
      BY <3>1, <3>2, SubSeqRecursiveSecond
    <3> QED
      BY <2>1, <2>2, <3>3
  <2>4. Fine(x)
    BY <1>4, <2>1
  <2>5. x \in Text
    <3>1. i - 1 \in 0..Len(l)
      BY <1>1
    <3> QED
      BY <2>1, <3>1 DEF Text
  <2>6. PICK u \in Text : u = s \o x
    BY <2>4
  <2>7. s \o (x \o <<c>>) = u \o <<c>> /\ Rendered(s) \o (x \o <<c>>) = (Rendered(s) \o x) \o <<c>>
    <3>1. PICK d \in Text : d = <<c>>
      BY OneText
    <3>2. PICK r \in Text : r = Rendered(s)
      BY <1>2
    <3>3. PICK z \in Text : z = x
      BY <2>5
    <3>4. \A v, w \in Text : (s \o v) \o w = s \o (v \o w)
      BY JoinAssoc, Zenon
    <3>5. \A v, w \in Text : (r \o v) \o w = r \o (v \o w)
      BY JoinAssoc, Zenon
    <3>6. (s \o z) \o d = s \o (z \o d)
      BY <3>4, Zenon
    <3>7. (r \o z) \o d = r \o (z \o d)
      BY <3>5, Zenon
    <3> QED
      BY <2>6, <3>1, <3>2, <3>3, <3>6, <3>7
  <2>8. OpenMarker(u) = {} /\ Rendered(u) = Rendered(s) \o x /\ MarkerValues(u) = MarkerValues(s)
    BY <2>4, <2>6
  <2>9. Markers(u \o <<c>>) = Markers(u)
    BY <2>8, MarkersStay
  <2>10. OpenMarker(u \o <<c>>) = {}
    BY <2>2, <2>8, OpenGrows
  <2>11. Rendered(u \o <<c>>) = Rendered(u) \o <<c>> /\ MarkerValues(u \o <<c>>) = MarkerValues(u)
    BY <2>9, RenderedGrows, ValuesStay
  <2>12. u \o <<c>> \in Text
    BY OneMore
  <2>13. Fine(x \o <<c>>)
    BY <2>7, <2>8, <2>10, <2>11, <2>12
  <2>14. i \in 0..n
    OBVIOUS
  <2> HIDE DEF Fine
  <2> QED
    BY <2>3, <2>13, <2>14
<1>5. n \in G
  <2> HIDE DEF G
  <2>1. \A i \in 1..n : i - 1 \in G => i \in G
    BY <1>4
  <2>2. \A i \in 0..n : i \in G
    BY <1>3, <2>1, UptoInduction
  <2> QED
    BY <2>2
<1>6. SubSeq(l, 1, n) = l
  BY <1>1, SubSeqFull DEF Text
<1> QED
  BY <1>5, <1>6

LEMMA ReleaseIs ==
    ASSUME NEW p \in ParserState, p.line # None, NEW q, q = Release(p)
    PROVE  /\ q \in ParserState /\ q.line = None /\ q.marker = p.marker
           /\ q.state = p.state /\ q.verdict = p.verdict /\ q.buffer = p.buffer /\ q.final = p.final
           /\ q.text = p.text /\ SameCitations(q, p)
           /\ Out(q) = Out(p) \o p.line
<1>1. p.line \in Text /\ p.pending \in Text
  BY Fields
<1>2. PICK y \in Text : y = p.pending \o p.line
  BY <1>1, JoinType
<1>3. PICK m : m = [p EXCEPT !.pending = y]
  OBVIOUS
<1>4. /\ m \in ParserState /\ m.marker = p.marker /\ m.pending = y /\ m.text = p.text
      /\ SameLine(m, p) /\ SameCitations(m, p)
  BY <1>3, SetPending
<1>5. q = [m EXCEPT !.line = None]
  <2>1. q = [p EXCEPT !.pending = y, !.line = None]
    BY <1>2 DEF Release
  <2> QED
    BY <1>3, <2>1 DEF ParserState
<1>6. /\ q \in ParserState /\ q.line = None /\ SameProse(q, m)
      /\ q.state = m.state /\ q.verdict = m.verdict /\ q.buffer = m.buffer /\ q.final = m.final
  BY <1>4, <1>5, SetLine
<1>7. q.text = p.text /\ q.pending = p.pending \o p.line /\ SameCitations(q, p) /\ q.marker = p.marker
  BY <1>2, <1>4, <1>6 DEF SameProse, SameCitations
<1>8. Out(q) = Out(p) \o p.line
  BY <1>1, <1>7, OutAfterPending
<1> QED
  BY <1>4, <1>6, <1>7, <1>8 DEF SameLine

LEMMA ReleaseReads ==
    ASSUME NEW p \in ParserState, p.line # None, p.marker = None, NEW q, q = Release(p),
           NEW s, Prosed(p, s), \A i \in 1..Len(p.line) : p.line[i] # "["
    PROVE  Prosed(q, s \o p.line) /\ OpenMarker(s \o p.line) = {}
<1>1. q.marker = None /\ SameCitations(q, p) /\ Out(q) = Out(p) \o p.line
  BY ReleaseIs
<1>2. s \in Text /\ OpenMarker(s) = {} /\ Out(p) = Rendered(s)
      /\ p.cited = Citations(s) /\ p.dropped = DroppedMarkers(s)
  BY DEF Prosed
<1>3. PICK l \in Text : l = p.line
  BY Fields
<1>4. /\ OpenMarker(s \o l) = {} /\ Rendered(s \o l) = Rendered(s) \o l
      /\ MarkerValues(s \o l) = MarkerValues(s) /\ s \o l \in Text
  BY <1>2, <1>3, PlainText
<1>5. Citations(s \o l) = Citations(s) /\ DroppedMarkers(s \o l) = DroppedMarkers(s)
  BY <1>4 DEF Citations, DroppedMarkers
<1> QED
  BY <1>1, <1>2, <1>3, <1>4, <1>5 DEF Prosed, SameCitations

\* What one more character does to the lines of a body.
NoBreak(b, n) == \A i \in n + 1..Len(b) : b[i] # "\n"
Rest(b, n) == SubSeq(b, n + 1, Len(b))

LEMMA BodyNow ==
    ASSUME NEW b, NEW n, NEW t, UpTo(b, n, t), NoBreak(b, n)
    PROVE  /\ Rest(b, n) \in Text /\ Prose(t) \in Text
           /\ Prose(b) = IF Control(Rest(b, n)) THEN Prose(t) ELSE Prose(t) \o Rest(b, n)
           /\ TrailingVerdict(b) = IF Control(Rest(b, n)) THEN VerdictOf(WithoutIndent(Rest(b, n)), NoValue)
                                   ELSE TrailingVerdict(t)
<1>1. b \in Text /\ n \in 0..Len(b)
  BY DEF UpTo
<1>2. Alone(b, n, Len(b))
  BY <1>1 DEF Alone, NoBreak, Text
<1>3. Prose(t) \in Text /\ Prose(b) = IF Control(Rest(b, n)) THEN Prose(t) ELSE Prose(t) \o Rest(b, n)
  BY <1>2, ProseSplit DEF Rest
<1>4. TrailingVerdict(b) = IF Control(Rest(b, n)) THEN VerdictOf(WithoutIndent(Rest(b, n)), NoValue)
                           ELSE TrailingVerdict(t)
  BY <1>2, TrailingSplit DEF Rest
<1>5. Rest(b, n) \in Text
  BY <1>1 DEF Rest, Text
<1> QED
  BY <1>3, <1>4, <1>5

Longer(bc, b, c) == c \in Character /\ bc = b \o <<c>>

\* The last line goes on, or it ends.
GoesOn(bc, b, n, t, c) ==
    /\ UpTo(bc, n, t) /\ NoBreak(bc, n)
    /\ Rest(bc, n) = Rest(b, n) \o <<c>> /\ Rest(b, n) \o <<c>> \in Text

LineEnds(bc, b, n, t, c) ==
    /\ UpTo(bc, Len(bc), bc) /\ NoBreak(bc, Len(bc)) /\ Rest(bc, Len(bc)) = <<>>
    /\ Prose(bc) = IF Control(Rest(b, n)) THEN Prose(t) ELSE Prose(t) \o (Rest(b, n) \o <<c>>)
    /\ TrailingVerdict(bc) = IF Control(Rest(b, n)) THEN VerdictOf(WithoutIndent(Rest(b, n)), NoValue)
                             ELSE TrailingVerdict(t)

\* One more character goes on with the last line of a body or ends it.
LEMMA BodyGrows ==
    ASSUME NEW b, NEW n, NEW t, UpTo(b, n, t), NoBreak(b, n), NEW c, NEW bc, Longer(bc, b, c)
    PROVE  /\ c # "\n" => GoesOn(bc, b, n, t, c)
           /\ c = "\n" => LineEnds(bc, b, n, t, c)
<1> c \in Character /\ bc = b \o <<c>>
  BY DEF Longer
<1>1. b \in Text /\ n \in 0..Len(b) /\ Break(b, n) /\ t = SubSeq(b, 1, n)
  BY DEF UpTo
<1>2. PICK m \in Nat : m = Len(b)
  BY <1>1 DEF Text
<1>3. bc \in Text /\ m + 1 = Len(bc) /\ (\A i \in 1..m : bc[i] = b[i]) /\ bc[m + 1] = c
  BY <1>1, <1>2, OneMore
<1>4. /\ SubSeq(bc, n + 1, m + 1) = SubSeq(b, n + 1, m) \o <<c>>
      /\ SubSeq(bc, 1, n) = SubSeq(b, 1, n)
  BY <1>1, <1>2, RestGrows
<1>5. Rest(bc, n) = Rest(b, n) \o <<c>>
  BY <1>2, <1>3, <1>4 DEF Rest
<1>6. UpTo(bc, n, t)
  <2>1. n \in 0..m
    BY <1>1, <1>2
  <2>2. Break(bc, n)
    BY <1>1, <1>3, <2>1 DEF Break
  <2> QED
    BY <1>1, <1>3, <1>4, <2>1, <2>2 DEF UpTo
<1>7. ASSUME c # "\n" PROVE NoBreak(bc, n)
  BY <1>1, <1>2, <1>3, <1>7 DEF NoBreak
<1>8. ASSUME c = "\n"
      PROVE  /\ UpTo(bc, m + 1, bc) /\ NoBreak(bc, m + 1) /\ Rest(bc, m + 1) = <<>>
             /\ Alone(bc, n, m) /\ SubSeq(bc, n + 1, m) = Rest(b, n)
  <2>1. UpTo(bc, m + 1, bc)
    <3>1. SubSeq(bc, 1, m + 1) = bc
      BY <1>3, SubSeqFull DEF Text
    <3> QED
      BY <1>3, <1>8, <3>1 DEF UpTo, Break
  <2>2. NoBreak(bc, m + 1)
    BY <1>3 DEF NoBreak
  <2>3. Rest(bc, m + 1) = <<>>
    BY <1>3, SubSeqEmpty DEF Rest
  <2>4. Alone(bc, n, m)
    <3>1. m \in n..m + 1
      BY <1>1, <1>2
    <3>2. \A i \in n + 1..m : bc[i] # "\n"
      BY <1>1, <1>2, <1>3 DEF NoBreak
    <3> QED
      BY <1>3, <1>8, <3>1, <3>2 DEF Alone
  <2>5. SubSeq(bc, n + 1, m) = SubSeq(b, n + 1, m)
    BY <1>1, <1>2, <1>3 DEF Text
  <2> QED
    BY <1>2, <2>1, <2>2, <2>3, <2>4, <2>5 DEF Rest
<1>9. ASSUME c = "\n"
      PROVE  /\ Prose(bc) = IF Control(Rest(b, n)) THEN Prose(t) ELSE Prose(t) \o (Rest(b, n) \o <<c>>)
             /\ TrailingVerdict(bc) = IF Control(Rest(b, n)) THEN VerdictOf(WithoutIndent(Rest(b, n)), NoValue)
                                      ELSE TrailingVerdict(t)
  <2>1. Alone(bc, n, m) /\ SubSeq(bc, n + 1, m) = Rest(b, n)
    BY <1>8, <1>9
  <2>2. /\ Prose(bc) = IF Control(SubSeq(bc, n + 1, m)) THEN Prose(t) ELSE Prose(t) \o SubSeq(bc, n + 1, Len(bc))
        /\ TrailingVerdict(bc) = IF Control(SubSeq(bc, n + 1, m)) THEN VerdictOf(WithoutIndent(SubSeq(bc, n + 1, m)), NoValue)
                                 ELSE TrailingVerdict(t)
    BY <1>6, <2>1, ProseSplit, TrailingSplit
  <2>3. SubSeq(bc, n + 1, Len(bc)) = Rest(b, n) \o <<c>>
    BY <1>5 DEF Rest
  <2> QED
    BY <2>1, <2>2, <2>3
<1>10. Rest(b, n) \o <<c>> \in Text
  BY BodyNow, OneMore
<1> QED
  BY <1>3, <1>5, <1>6, <1>7, <1>8, <1>9, <1>10 DEF GoesOn, LineEnds

(***************************************************************************)
(* One character of the body.                                              *)
(***************************************************************************)

\* p has read the body b, whose last line starts behind n.
ReadUpTo(p, b, n, t) ==
    /\ UpTo(b, n, t) /\ NoBreak(b, n)
    /\ p.final = TrailingVerdict(t)
    /\ p.line # None => /\ p.line = Rest(b, n) /\ CouldBeginAVerdict(p.line)
                        /\ p.marker = None /\ Prosed(p, Prose(t))
    /\ p.line = None => ~CouldBeginAVerdict(Rest(b, n)) /\ Prosed(p, Prose(b))

HasRead(p, b) == \E n, t : ReadUpTo(p, b, n, t)

LEMMA LineVerdictIs ==
    ASSUME NEW p \in ParserState, p.line # None, CouldBeginAVerdict(p.line)
    PROVE  /\ LineVerdict(p) = VerdictOf(WithoutIndent(p.line), NoValue)
           /\ Control(p.line) <=> LineVerdict(p) # None
           /\ LineVerdict(p) \in Verdicts \cup {None}
<1>1. PICK l \in Text : l = p.line
  BY Fields
<1>2. Stripped(l) = WithoutIndent(l)
  BY <1>1, HopefulLine
<1>3. LineVerdict(p) = VerdictOf(WithoutIndent(l), NoValue)
  BY <1>1, <1>2 DEF LineVerdict, None
<1> QED
  BY <1>1, <1>3, VerdictIs DEF None

LEMMA ProsedOther ==
    ASSUME NEW p, NEW q, SameProse(q, p), NEW s, Prosed(p, s)
    PROVE  Prosed(q, s)
BY DEF Prosed, SameProse, SameCitations, Out

\* A newline closes the line it ends: nothing is open, and the next line is watched.
LEMMA NextLine ==
    ASSUME NEW p \in ParserState, NEW bc, UpTo(bc, Len(bc), bc), NoBreak(bc, Len(bc)),
           Rest(bc, Len(bc)) = <<>>, p.final = TrailingVerdict(bc), p.line = <<>>,
           p.marker = None, Prosed(p, Prose(bc))
    PROVE  HasRead(p, bc)
<1>1. CouldBeginAVerdict(p.line) /\ p.line # None
  BY EmptyHopes, NoneIsNoText
<1>2. ReadUpTo(p, bc, Len(bc), bc)
  BY <1>1 DEF ReadUpTo
<1> QED
  BY <1>2 DEF HasRead

LEMMA ClosedByNewline ==
    ASSUME NEW p, NEW s \in Text, Prosed(p, s \o <<"\n">>)
    PROVE  p.marker = None
<1>1. OpenMarker(s \o <<"\n">>) = {}
  <2>1. "\n" # "[" /\ "\n" \notin DOMAIN DigitValue /\ "\n" \in Character
    BY NoDigits, Brackets
  <2> QED
    BY <2>1, OpenGrows
<1> QED
  BY <1>1 DEF Prosed, Ahead

\* _feed_body raises or reads one more character of the body.
LEMMA FeedBodyIs ==
    ASSUME NEW p \in ParserState, NEW c \in Character, NEW q, q = FeedBody(p, c)
    PROVE  /\ q \in ParserState
           /\ q.verdict = p.verdict /\ q.buffer = p.buffer /\ q.state \in {p.state, "raised"}
           /\ Grows(q, p) /\ Told(q, p)
           /\ q.state # "raised" => \A b : HasRead(p, b) => HasRead(q, b \o <<c>>)
<1> DEFINE Stays(r) == /\ r \in ParserState
                       /\ r.verdict = p.verdict /\ r.buffer = p.buffer /\ r.state \in {p.state, "raised"}
                       /\ Grows(r, p) /\ Told(r, p)
<1>1. CASE p.line = None
  <2>1. PICK m : m = FeedBodyChar(p, c)
    OBVIOUS
  <2>2. /\ m \in ParserState /\ Frame(m, p, c)
        /\ m.state = "raised" \/ Read(m, p, c)
    BY <2>1, FeedBodyCharIs
  <2>3. q = WatchNext(m, c)
    BY <1>1, <2>1, Zenon DEF FeedBody
  <2>4. /\ q \in ParserState /\ SameProse(q, m)
        /\ q.state = m.state /\ q.verdict = m.verdict /\ q.buffer = m.buffer /\ q.final = m.final
        /\ q.line = IF c = "\n" THEN <<>> ELSE m.line
    BY <2>2, <2>3, WatchNextIs
  <2>5. Stays(q)
    BY <2>2, <2>4 DEF Frame, SameProse, SameCitations, Grows, Told, Cited
  <2>6. ASSUME NEW b, HasRead(p, b), q.state # "raised" PROVE HasRead(q, b \o <<c>>)
    <3>1. PICK n, t : ReadUpTo(p, b, n, t)
      BY <2>6 DEF HasRead
    <3>2. /\ UpTo(b, n, t) /\ NoBreak(b, n) /\ p.final = TrailingVerdict(t)
          /\ ~CouldBeginAVerdict(Rest(b, n)) /\ Prosed(p, Prose(b))
      BY <1>1, <3>1 DEF ReadUpTo
    <3>3. PICK bc : bc = b \o <<c>>
      OBVIOUS
    <3> Longer(bc, b, c)
      BY <3>3 DEF Longer
    <3>4. PICK l : l = Rest(b, n)
      OBVIOUS
    <3>5. l \in Text /\ Prose(t) \in Text /\ ~Control(l) /\ Prose(b) = Prose(t) \o l
      <4>1. /\ l \in Text /\ Prose(t) \in Text
            /\ Prose(b) = IF Control(l) THEN Prose(t) ELSE Prose(t) \o l
        BY <3>2, <3>4, BodyNow
      <4>2. ~Control(l)
        BY <3>2, <3>4, <4>1, ControlHopes
      <4> QED
        BY <4>1, <4>2
    <3>6. Prosed(m, Prose(b) \o <<c>>) /\ Prosed(q, Prose(b) \o <<c>>)
      <4>1. Read(m, p, c)
        BY <2>2, <2>4, <2>6
      <4>2. Prosed(m, Prose(b) \o <<c>>)
        BY <3>2, <4>1, ProseStep
      <4> QED
        BY <2>4, <4>2, ProsedOther
    <3>7. Prose(b) \o <<c>> = Prose(t) \o (l \o <<c>>)
      <4>1. PICK d \in Text : d = <<c>>
        BY OneText
      <4>2. (Prose(t) \o l) \o d = Prose(t) \o (l \o d)
        BY <3>5, JoinAssoc
      <4> QED
        BY <3>5, <4>1, <4>2
    <3>8. (q.final = TrailingVerdict(t) /\ m.line = None) \/ c = "\n"
      BY <1>1, <2>2, <2>4, <3>2 DEF Frame
    <3>9. CASE c = "\n"
      <4>1. /\ UpTo(bc, Len(bc), bc) /\ NoBreak(bc, Len(bc)) /\ Rest(bc, Len(bc)) = <<>>
            /\ Prose(bc) = IF Control(l) THEN Prose(t) ELSE Prose(t) \o (l \o <<c>>)
            /\ TrailingVerdict(bc) = IF Control(l) THEN VerdictOf(WithoutIndent(l), NoValue) ELSE TrailingVerdict(t)
        <5>1. LineEnds(bc, b, n, t, c)
          BY <3>2, <3>3, <3>4, <3>9, BodyGrows
        <5> QED
          BY <3>4, <5>1, Zenon DEF LineEnds
      <4>2. Prosed(q, Prose(bc)) /\ TrailingVerdict(bc) = TrailingVerdict(t)
        BY <3>5, <3>6, <3>7, <4>1
      <4>3. q.final = TrailingVerdict(bc) /\ q.line = <<>>
        BY <2>2, <2>4, <3>2, <3>9, <4>2 DEF Frame
      <4>4. q.marker = None
        <5>1. Prose(b) \in Text
          BY <3>5, JoinType
        <5> QED
          BY <3>6, <3>9, <5>1, ClosedByNewline
      <4>5. HasRead(q, bc)
        BY <2>4, <4>1, <4>2, <4>3, <4>4, NextLine
      <4> QED
        BY <3>3, <4>5
    <3>10. CASE c # "\n"
      <4>1. UpTo(bc, n, t) /\ NoBreak(bc, n) /\ Rest(bc, n) = l \o <<c>> /\ l \o <<c>> \in Text
        BY <3>2, <3>3, <3>4, <3>10, BodyGrows DEF GoesOn
      <4>2. ~CouldBeginAVerdict(l \o <<c>>)
        BY <3>2, <3>4, <3>5, HopeEnds
      <4>3. Prose(bc) = Prose(t) \o (l \o <<c>>)
        <5>1. ~Control(l \o <<c>>)
          BY <4>1, <4>2, ControlHopes
        <5>2. Prose(bc) = IF Control(Rest(bc, n)) THEN Prose(t) ELSE Prose(t) \o Rest(bc, n)
          BY <4>1, BodyNow
        <5> QED
          BY <4>1, <5>1, <5>2
      <4>4. q.line = None /\ q.final = TrailingVerdict(t)
        BY <1>1, <2>2, <2>4, <3>2, <3>10 DEF Frame
      <4>5. Prosed(q, Prose(bc))
        BY <3>6, <3>7, <4>3
      <4>6. ReadUpTo(q, bc, n, t)
        BY <4>1, <4>2, <4>4, <4>5 DEF ReadUpTo
      <4> QED
        BY <3>3, <4>6 DEF HasRead
    <3> QED
      BY <3>9, <3>10
  <2> QED
    BY <2>5, <2>6
<1>2. CASE p.line # None /\ c = "\n" /\ LineVerdict(p) # None
  <2>1. q = [p EXCEPT !.final = LineVerdict(p), !.line = <<>>]
    BY <1>2, Zenon DEF FeedBody, Swallow
  <2>2. q.text = p.text /\ q.marker = p.marker /\ q.pending = p.pending /\ SameCitations(q, p)
        /\ q.line = <<>> /\ q.final = LineVerdict(p)
        /\ q.verdict = p.verdict /\ q.buffer = p.buffer /\ q.state = p.state
    BY <2>1 DEF ParserState, SameCitations
  <2>3. q \in ParserState
    <3>1. LineVerdict(p) \in Verdicts \cup {None}
      BY VerdictIs DEF LineVerdict, None, VerdictOf
    <3> QED
      BY <2>1, <3>1, NoText DEF ParserState
  <2>4. Stays(q)
    BY <2>2, <2>3, GrowsByNothing DEF Told, SameCitations
  <2>5. ASSUME NEW b, HasRead(p, b) PROVE HasRead(q, b \o <<c>>)
    <3>1. PICK n, t : ReadUpTo(p, b, n, t)
      BY <2>5 DEF HasRead
    <3>2. /\ UpTo(b, n, t) /\ NoBreak(b, n)
          /\ p.line = Rest(b, n) /\ CouldBeginAVerdict(p.line)
          /\ p.marker = None /\ Prosed(p, Prose(t))
      BY <1>2, <3>1 DEF ReadUpTo
    <3>3. PICK bc : bc = b \o <<c>>
      OBVIOUS
    <3> Longer(bc, b, c)
      BY <3>3 DEF Longer
    <3>4. PICK l : l = Rest(b, n)
      OBVIOUS
    <3>5. LineVerdict(p) = VerdictOf(WithoutIndent(l), NoValue) /\ Control(l)
      BY <1>2, <3>2, <3>4, LineVerdictIs
    <3>6. /\ UpTo(bc, Len(bc), bc) /\ NoBreak(bc, Len(bc)) /\ Rest(bc, Len(bc)) = <<>>
          /\ Prose(bc) = IF Control(l) THEN Prose(t) ELSE Prose(t) \o (l \o <<c>>)
          /\ TrailingVerdict(bc) = IF Control(l) THEN VerdictOf(WithoutIndent(l), NoValue) ELSE TrailingVerdict(t)
      <4>1. LineEnds(bc, b, n, t, c)
        BY <1>2, <3>2, <3>3, <3>4, BodyGrows
      <4> QED
        BY <3>4, <4>1, Zenon DEF LineEnds
    <3>7. Prosed(q, Prose(bc))
      BY <2>2, <3>2, <3>5, <3>6, ProsedOther DEF SameProse
    <3>8. q.final = TrailingVerdict(bc) /\ q.marker = None
      BY <2>2, <3>2, <3>5, <3>6
    <3>9. HasRead(q, bc)
      BY <2>2, <2>3, <3>6, <3>7, <3>8, NextLine
    <3> QED
      BY <3>3, <3>9
  <2> QED
    BY <2>4, <2>5
<1>3. CASE p.line # None /\ c # "\n" /\ CouldBeginAVerdict(Append(p.line, c))
  <2>1. q = [p EXCEPT !.line = Append(@, c)]
    BY <1>3, Zenon DEF FeedBody
  <2>2. PICK x \in Text : x = Append(p.line, c) /\ x = p.line \o <<c>>
    BY <1>3, Fields, AppendIs DEF Text
  <2>3. q = [p EXCEPT !.line = x]
    BY <2>1, <2>2
  <2>4. /\ q \in ParserState /\ q.line = x /\ SameProse(q, p)
        /\ q.state = p.state /\ q.verdict = p.verdict /\ q.buffer = p.buffer /\ q.final = p.final
    BY <2>3, SetLine
  <2>5. Stays(q)
    BY <2>4, GrowsByNothing DEF Told, SameProse, SameCitations
  <2>6. ASSUME NEW b, HasRead(p, b) PROVE HasRead(q, b \o <<c>>)
    <3>1. PICK n, t : ReadUpTo(p, b, n, t)
      BY <2>6 DEF HasRead
    <3>2. /\ UpTo(b, n, t) /\ NoBreak(b, n) /\ p.final = TrailingVerdict(t)
          /\ p.line = Rest(b, n) /\ p.marker = None /\ Prosed(p, Prose(t))
      BY <1>3, <3>1 DEF ReadUpTo
    <3>3. PICK bc : bc = b \o <<c>>
      OBVIOUS
    <3> Longer(bc, b, c)
      BY <3>3 DEF Longer
    <3>4. UpTo(bc, n, t) /\ NoBreak(bc, n) /\ Rest(bc, n) = x
      BY <1>3, <2>2, <3>2, <3>3, BodyGrows DEF GoesOn
    <3>5. Prosed(q, Prose(t)) /\ q.marker = None
      BY <2>4, <3>2, ProsedOther DEF SameProse
    <3>6. q.line # None /\ CouldBeginAVerdict(q.line)
      BY <1>3, <2>2, <2>4, NoneIsNoText
    <3>7. ReadUpTo(q, bc, n, t)
      BY <2>4, <3>2, <3>4, <3>5, <3>6 DEF ReadUpTo
    <3> QED
      BY <3>3, <3>7 DEF HasRead
  <2> QED
    BY <2>5, <2>6
<1>4. CASE /\ p.line # None
           /\ \/ c = "\n" /\ LineVerdict(p) = None
              \/ c # "\n" /\ ~CouldBeginAVerdict(Append(p.line, c))
  <2>1. PICK r : r = Release(p)
    OBVIOUS
  <2>2. PICK m : m = FeedBodyChar(r, c)
    OBVIOUS
  <2>3. q = WatchNext(m, c)
    <3>1. CASE c = "\n"
      BY <1>4, <2>1, <2>2, <3>1, Zenon DEF FeedBody
    <3>2. CASE c # "\n"
      <4>1. q = m
        BY <1>4, <2>1, <2>2, <3>2, Zenon DEF FeedBody
      <4> QED
        BY <3>2, <4>1 DEF WatchNext
    <3> QED
      BY <3>1, <3>2
  <2>4. /\ r \in ParserState /\ r.line = None /\ r.marker = p.marker
        /\ r.state = p.state /\ r.verdict = p.verdict /\ r.buffer = p.buffer /\ r.final = p.final
        /\ r.text = p.text /\ SameCitations(r, p)
    BY <1>4, <2>1, ReleaseIs
  <2>5. /\ m \in ParserState /\ Frame(m, r, c)
        /\ m.state = "raised" \/ Read(m, r, c)
    BY <2>2, <2>4, FeedBodyCharIs
  <2>6. /\ q \in ParserState /\ SameProse(q, m)
        /\ q.state = m.state /\ q.verdict = m.verdict /\ q.buffer = m.buffer /\ q.final = m.final
        /\ q.line = IF c = "\n" THEN <<>> ELSE m.line
    BY <2>3, <2>5, WatchNextIs
  <2>7. Stays(q)
    <3>1. Grows(q, p)
      BY <2>4, <2>5, <2>6 DEF Frame, SameProse, Grows
    <3>2. Told(m, r)
      BY <2>5 DEF Frame
    <3>3. Told(q, p)
      BY <2>4, <2>6, <3>2 DEF SameProse, SameCitations, Told, Cited
    <3> QED
      BY <2>4, <2>5, <2>6, <3>1, <3>3 DEF Frame
  <2>8. ASSUME NEW b, HasRead(p, b), q.state # "raised" PROVE HasRead(q, b \o <<c>>)
    <3>1. PICK n, t : ReadUpTo(p, b, n, t)
      BY <2>8 DEF HasRead
    <3>2. /\ UpTo(b, n, t) /\ NoBreak(b, n) /\ p.final = TrailingVerdict(t)
          /\ p.line = Rest(b, n) /\ CouldBeginAVerdict(p.line)
          /\ p.marker = None /\ Prosed(p, Prose(t))
      BY <1>4, <3>1 DEF ReadUpTo
    <3>3. PICK bc : bc = b \o <<c>>
      OBVIOUS
    <3> Longer(bc, b, c)
      BY <3>3 DEF Longer
    <3>4. PICK l \in Text : l = Rest(b, n) /\ l = p.line
      BY <1>4, <3>2, Fields
    <3>5. Prose(t) \in Text
      BY <3>2, BodyNow
    <3>6. Prosed(r, Prose(t) \o l)
      <4>1. \A i \in 1..Len(l) : l[i] # "["
        BY <3>2, <3>4, HopefulLine
      <4> QED
        BY <1>4, <2>1, <3>2, <3>4, <4>1, ReleaseReads
    <3>7. Prosed(m, (Prose(t) \o l) \o <<c>>) /\ Prosed(q, (Prose(t) \o l) \o <<c>>)
      <4>1. Read(m, r, c)
        BY <2>5, <2>6, <2>8
      <4>2. Prosed(m, (Prose(t) \o l) \o <<c>>)
        BY <2>4, <3>6, <4>1, ProseStep
      <4> QED
        BY <2>6, <4>2, ProsedOther
    <3>8. (Prose(t) \o l) \o <<c>> = Prose(t) \o (l \o <<c>>)
      <4>1. PICK d \in Text : d = <<c>>
        BY OneText
      <4>2. (Prose(t) \o l) \o d = Prose(t) \o (l \o d)
        BY <3>5, JoinAssoc
      <4> QED
        BY <4>1, <4>2
    <3>9. CASE c = "\n"
      <4>1. ~Control(l)
        BY <1>4, <3>2, <3>4, <3>9, LineVerdictIs
      <4>2. /\ UpTo(bc, Len(bc), bc) /\ NoBreak(bc, Len(bc)) /\ Rest(bc, Len(bc)) = <<>>
            /\ Prose(bc) = IF Control(l) THEN Prose(t) ELSE Prose(t) \o (l \o <<c>>)
            /\ TrailingVerdict(bc) = IF Control(l) THEN VerdictOf(WithoutIndent(l), NoValue) ELSE TrailingVerdict(t)
        <5>1. LineEnds(bc, b, n, t, c)
          BY <3>2, <3>3, <3>4, <3>9, BodyGrows
        <5> QED
          BY <3>4, <5>1, Zenon DEF LineEnds
      <4>3. Prosed(q, Prose(bc)) /\ TrailingVerdict(bc) = TrailingVerdict(t)
        BY <3>7, <3>8, <4>1, <4>2
      <4>4. q.final = TrailingVerdict(bc) /\ q.line = <<>>
        BY <2>4, <2>5, <2>6, <3>2, <3>9, <4>3 DEF Frame
      <4>5. q.marker = None
        <5>1. Prose(t) \o l \in Text
          BY <3>5, JoinType
        <5> QED
          BY <3>7, <3>9, <5>1, ClosedByNewline
      <4>6. HasRead(q, bc)
        BY <2>6, <4>2, <4>3, <4>4, <4>5, NextLine
      <4> QED
        BY <3>3, <4>6
    <3>10. CASE c # "\n"
      <4>1. UpTo(bc, n, t) /\ NoBreak(bc, n) /\ Rest(bc, n) = l \o <<c>> /\ l \o <<c>> \in Text
        BY <3>2, <3>3, <3>4, <3>10, BodyGrows DEF GoesOn
      <4>2. ~CouldBeginAVerdict(l \o <<c>>)
        <5>1. Append(l, c) = l \o <<c>>
          BY AppendIs DEF Text
        <5> QED
          BY <1>4, <3>4, <3>10, <5>1
      <4>3. Prose(bc) = Prose(t) \o (l \o <<c>>)
        <5>1. ~Control(l \o <<c>>)
          BY <4>1, <4>2, ControlHopes
        <5>2. Prose(bc) = IF Control(Rest(bc, n)) THEN Prose(t) ELSE Prose(t) \o Rest(bc, n)
          BY <4>1, BodyNow
        <5> QED
          BY <4>1, <5>1, <5>2
      <4>4. q.line = None /\ q.final = TrailingVerdict(t)
        BY <2>4, <2>5, <2>6, <3>2, <3>10 DEF Frame
      <4>5. Prosed(q, Prose(bc))
        BY <3>7, <3>8, <4>3
      <4>6. ReadUpTo(q, bc, n, t)
        BY <4>1, <4>2, <4>4, <4>5 DEF ReadUpTo
      <4> QED
        BY <3>3, <4>6 DEF HasRead
    <3> QED
      BY <3>9, <3>10
  <2> QED
    BY <2>7, <2>8
<1> QED
  BY <1>1, <1>2, <1>3, <1>4

(***************************************************************************)
(* The events.                                                             *)
(***************************************************************************)

LEMMA SuffixOf ==
    ASSUME NEW a \in Text, NEW b \in Text
    PROVE  IsSuffix(b, a \o b)
<1>1. PICK k \in Nat : k = Len(a)
  BY DEF Text
<1>2. PICK m \in Nat : m = Len(b)
  BY DEF Text
<1>3. PICK d : d = a \o b
  OBVIOUS
<1>4. d \in Text /\ Len(d) = k + m /\ \A i \in 1..m : d[k + i] = b[i]
  BY <1>1, <1>2, <1>3 DEF Text
<1>5. PICK rb : rb = Reverse(b)
  OBVIOUS
<1>6. PICK rd : rd = Reverse(d)
  OBVIOUS
<1>7. rb \in Text /\ Len(rb) = m /\ \A i \in 1..m : rb[i] = b[(m - i) + 1]
  <2>1. \A i \in 1..m : b[(m - i) + 1] \in Character
    BY <1>2 DEF Text
  <2>2. rb = [i \in 1..m |-> b[(m - i) + 1]]
    BY <1>2, <1>5 DEF Reverse
  <2> QED
    BY <2>1, <2>2 DEF Text
<1>8. rd \in Text /\ Len(rd) = k + m /\ \A i \in 1..k + m : rd[i] = d[((k + m) - i) + 1]
  <2>1. \A i \in 1..k + m : d[((k + m) - i) + 1] \in Character
    BY <1>4 DEF Text
  <2>2. rd = [i \in 1..k + m |-> d[((k + m) - i) + 1]]
    BY <1>4, <1>6 DEF Reverse
  <2> QED
    BY <2>1, <2>2 DEF Text
<1>9. \A i \in 1..m : rb[i] = rd[i]
  <2> SUFFICES ASSUME NEW i \in 1..m PROVE rb[i] = rd[i]
    OBVIOUS
  <2>1. (m - i) + 1 \in 1..m /\ ((k + m) - i) + 1 = k + ((m - i) + 1) /\ i \in 1..k + m
    OBVIOUS
  <2> QED
    BY <1>4, <1>7, <1>8, <2>1
<1>10. SubSeq(rb, 1, m) = SubSeq(rd, 1, m)
  BY <1>7, <1>8, <1>9 DEF Text
<1>11. IsPrefix(rb, rd)
  BY <1>7, <1>8, <1>10 DEF IsPrefix
<1> QED
  BY <1>3, <1>5, <1>6, <1>11 DEF IsSuffix

\* The events of p are a verdict before any text, and citations right behind what
\* they explain.
OrderedAt(p, i) ==
    /\ p.events[i].kind = "verdict" <=> i = 1
    /\ i > 1 => /\ IsSuffix(<<"[">> \o Numeral[p.events[i].what] \o <<"]">>, SubSeq(p.text, 1, p.events[i].at))
                /\ p.events[i].at <= Len(p.text)

Orderly(p) ==
    /\ p.events # <<>>
    /\ \A i \in DOMAIN p.events : OrderedAt(p, i)
    /\ p.events[1].at = 0
    /\ [i \in 1..Len(p.events) - 1 |-> p.events[i + 1].what] = p.cited
    /\ IsInjective(p.cited)

\* Events in order stay so when the text only grows and a citation follows its marker.
LEMMA OrderlyStep ==
    ASSUME NEW p \in ParserState, Orderly(p), NEW q \in ParserState, Grows(q, p), Told(q, p)
    PROVE  Orderly(q)
<1>1. PICK x \in Text : q.text = p.text \o x
  BY DEF Grows
<1>2. PICK tp \in Text : tp = p.text
  BY Fields
<1>3. PICK k \in Nat : k = Len(tp)
  BY DEF Text
<1>4. PICK tq \in Text : tq = q.text
  BY Fields
<1>5. /\ tq = tp \o x /\ Len(tq) \in Nat /\ Len(tq) >= k
      /\ \A a \in Nat : a <= k => SubSeq(tq, 1, a) = SubSeq(tp, 1, a)
  <2>1. tq = tp \o x
    BY <1>1, <1>2, <1>4
  <2>2. Len(tq) \in Nat /\ Len(tq) >= k /\ \A i \in 1..k : tq[i] = tp[i]
    BY <1>3, <2>1 DEF Text
  <2>3. ASSUME NEW a \in Nat, a <= k PROVE SubSeq(tq, 1, a) = SubSeq(tp, 1, a)
    BY <1>3, <2>2, <2>3 DEF Text
  <2> QED
    BY <2>1, <2>2, <2>3
<1>6. PICK es \in Seq(Event) : es = p.events
  BY Fields
<1>7. PICK n \in Nat : n = Len(es) /\ DOMAIN es = 1..n /\ n >= 1
  BY <1>6 DEF Orderly
<1>8. \A i \in 1..n : es[i] \in Event /\ es[i].at \in Nat
  <2>1. \A i \in 1..n : es[i] \in Event
    BY <1>7
  <2>2. \A e \in Event : e.at \in Nat
    BY DEF Event
  <2> QED
    BY <2>1, <2>2
<1>9. ASSUME NEW i \in 1..n PROVE OrderedAt(p, i)
  BY <1>6, <1>7 DEF Orderly
<1>10. ASSUME NEW i \in 1..n, q.events[i] = es[i] PROVE OrderedAt(q, i)
  <2>1. OrderedAt(p, i) /\ es[i].at \in Nat
    BY <1>8, <1>9
  <2>2. es[i].kind = "verdict" <=> i = 1
    BY <1>6, <2>1 DEF OrderedAt
  <2>3. i > 1 => /\ IsSuffix(<<"[">> \o Numeral[es[i].what] \o <<"]">>, SubSeq(tp, 1, es[i].at))
                 /\ es[i].at <= k
    BY <1>2, <1>3, <1>6, <2>1 DEF OrderedAt
  <2>4. es[i].at <= k => SubSeq(tq, 1, es[i].at) = SubSeq(tp, 1, es[i].at) /\ es[i].at <= Len(tq)
    <3>1. PICK a \in Nat : a = es[i].at
      BY <2>1
    <3>2. a <= k => SubSeq(tq, 1, a) = SubSeq(tp, 1, a)
      BY <1>5
    <3>3. PICK j \in Nat : j = Len(tq) /\ j >= k
      BY <1>5
    <3>4. a <= k => a <= j
      BY <3>3
    <3> QED
      BY <3>1, <3>2, <3>3, <3>4
  <2> QED
    BY <1>4, <1>10, <2>2, <2>3, <2>4 DEF OrderedAt
<1>11. es[1].at = 0 /\ [i \in 1..n - 1 |-> es[i + 1].what] = p.cited /\ IsInjective(p.cited)
  BY <1>6, <1>7 DEF Orderly
<1>12. CASE q.events = p.events /\ q.cited = p.cited
  BY <1>6, <1>7, <1>10, <1>11, <1>12 DEF Orderly
<1>13. ASSUME NEW m \in AnyValue, m \in 1..Chunks, Cited(q, p, m) PROVE Orderly(q)
  <2>1. PICK e : e = [kind |-> "citation", what |-> m, at |-> Len(tq)]
    OBVIOUS
  <2>2. e \in Event /\ e.kind = "citation" /\ e.what = m /\ e.at = Len(tq)
    BY <1>5, <2>1 DEF Event
  <2>3. PICK fs : fs = q.events
    OBVIOUS
  <2>4. fs = Append(es, e)
    BY <1>4, <1>6, <1>13, <2>1, <2>3 DEF Cited
  <2>5. fs \in Seq(Event) /\ Len(fs) = n + 1 /\ DOMAIN fs = 1..n + 1 /\ fs[n + 1] = e /\ \A i \in 1..n : fs[i] = es[i]
    BY <1>7, <2>2, <2>4
  <2>6. OrderedAt(q, n + 1)
    <3>1. PICK y \in Text : tq = y \o (<<"[">> \o Numeral[m] \o <<"]">>)
      BY <1>4, <1>13 DEF Cited
    <3>2. <<"[">> \o Numeral[m] \o <<"]">> \in Text
      <4>1. Numeral[m] \in Text /\ <<"[">> \in Text /\ <<"]">> \in Text
        BY <1>13, Bounds, Brackets, OneText
      <4> QED
        BY <4>1, JoinType
    <3>3. IsSuffix(<<"[">> \o Numeral[m] \o <<"]">>, tq)
      BY <3>1, <3>2, SuffixOf
    <3>4. SubSeq(tq, 1, Len(tq)) = tq
      BY SubSeqFull DEF Text
    <3>5. n + 1 # 1 /\ fs[n + 1].kind # "verdict" /\ fs[n + 1].what = m /\ fs[n + 1].at = Len(tq)
      BY <1>7, <2>2, <2>5
    <3>6. Len(tq) <= Len(tq)
      BY <1>5
    <3> QED
      BY <1>4, <2>3, <3>3, <3>4, <3>5, <3>6 DEF OrderedAt
  <2>7. \A i \in DOMAIN fs : OrderedAt(q, i)
    <3> SUFFICES ASSUME NEW i \in 1..n + 1 PROVE OrderedAt(q, i)
      BY <2>5
    <3>1. CASE i = n + 1
      BY <2>6, <3>1
    <3>2. CASE i # n + 1
      <4>1. i \in 1..n
        BY <3>2
      <4> QED
        BY <1>10, <2>3, <2>5, <4>1
    <3> QED
      BY <3>1, <3>2
  <2>8. [i \in 1..Len(fs) - 1 |-> fs[i + 1].what] = p.cited \o <<m>>
    <3>1. PICK cs \in Seq(AnyValue) : cs = p.cited
      BY Fields
    <3>2. Len(cs) = n - 1 /\ \A i \in 1..n - 1 : cs[i] = es[i + 1].what
      BY <1>7, <1>11, <3>1
    <3>3. PICK ds : ds = cs \o <<m>>
      OBVIOUS
    <3>4. ds \in Seq(AnyValue) /\ Len(ds) = n /\ ds[n] = m /\ \A i \in 1..n - 1 : ds[i] = cs[i]
      BY <1>7, <1>13, <3>2, <3>3
    <3>5. \A i \in 1..n : fs[i + 1].what = ds[i]
      <4> SUFFICES ASSUME NEW i \in 1..n PROVE fs[i + 1].what = ds[i]
        OBVIOUS
      <4>1. CASE i = n
        BY <2>2, <2>5, <3>4, <4>1
      <4>2. CASE i # n
        <5>1. i \in 1..n - 1 /\ i + 1 \in 1..n
          BY <4>2
        <5> QED
          BY <2>5, <3>2, <3>4, <5>1
      <4> QED
        BY <4>1, <4>2
    <3>6. ds = [i \in 1..n |-> ds[i]]
      BY <3>4
    <3>7. [i \in 1..Len(fs) - 1 |-> fs[i + 1].what] = [i \in 1..n |-> ds[i]]
      <4>1. Len(fs) - 1 = n
        BY <2>5
      <4> QED
        BY <3>5, <4>1
    <3> QED
      BY <3>1, <3>3, <3>6, <3>7
  <2>9. fs # <<>> /\ fs[1].at = 0
    BY <1>7, <1>11, <2>5
  <2>10. q.cited = p.cited \o <<m>>
    BY <1>13 DEF Cited
  <2>11. IsInjective(q.cited)
    <3>1. PICK cs \in Seq(AnyValue) : cs = p.cited
      BY Fields
    <3>2. PICK h \in Nat : h = Len(cs)
      OBVIOUS
    <3>3. PICK ds : ds = cs \o <<m>>
      OBVIOUS
    <3>4. DOMAIN ds = 1..h + 1 /\ ds[h + 1] = m /\ \A i \in 1..h : ds[i] = cs[i]
      BY <1>13, <3>2, <3>3
    <3>5. \A i \in 1..h : cs[i] # m
      BY <1>13, <3>1, <3>2 DEF Cited, Contains
    <3>6. \A i, j \in 1..h : cs[i] = cs[j] => i = j
      BY <1>11, <3>1, <3>2 DEF IsInjective
    <3>7. ASSUME NEW i \in 1..h + 1, NEW j \in 1..h + 1, ds[i] = ds[j] PROVE i = j
      <4>1. (i \in 1..h \/ i = h + 1) /\ (j \in 1..h \/ j = h + 1)
        OBVIOUS
      <4> QED
        BY <3>4, <3>5, <3>6, <3>7, <4>1
    <3>8. IsInjective(ds)
      BY <3>4, <3>7 DEF IsInjective
    <3> QED
      BY <2>10, <3>1, <3>3, <3>8
  <2> QED
    BY <2>3, <2>7, <2>8, <2>9, <2>10, <2>11 DEF Orderly
<1> QED
  BY <1>12, <1>13 DEF Told

(***************************************************************************)
(* A run over a text.                                                      *)
(***************************************************************************)

\* FedBody and Fed are the values a run over the text ends with.
BodyRun(f, p, text, n) ==
    f = [i \in 0..n |-> IF i = 0 THEN p ELSE FeedBody(f[i - 1], text[i])]
CharRun(f, p, text, n) ==
    f = [i \in 0..n |-> IF i = 0 THEN p ELSE FeedChar(f[i - 1], text[i])]

\* FedBody is the end of a run over the text.
LEMMA BodyRuns ==
    ASSUME NEW p, NEW text, NEW n \in Nat, n = Len(text)
    PROVE  \E f : BodyRun(f, p, text, n) /\ FedBody(p, text) = f[n]
<1> DEFINE G == {k \in Nat : \E f : BodyRun(f, p, text, k)}
<1>1. 0 \in G
  <2>1. PICK f : f = [i \in 0..0 |-> p]
    OBVIOUS
  <2>2. BodyRun(f, p, text, 0)
    BY <2>1 DEF BodyRun
  <2> QED
    BY <2>2
<1>2. ASSUME NEW k \in Nat, k \in G PROVE k + 1 \in G
  <2>1. PICK f : BodyRun(f, p, text, k)
    BY <1>2
  <2>2. PICK g : g = [i \in 0..k + 1 |-> IF i = k + 1 THEN FeedBody(f[k], text[k + 1]) ELSE f[i]]
    OBVIOUS
  <2>3. \A i \in 0..k + 1 : g[i] = IF i = 0 THEN p ELSE FeedBody(g[i - 1], text[i])
    <3> SUFFICES ASSUME NEW i \in 0..k + 1
                 PROVE  g[i] = IF i = 0 THEN p ELSE FeedBody(g[i - 1], text[i])
      OBVIOUS
    <3>1. CASE i = 0
      BY <2>1, <2>2, <3>1 DEF BodyRun
    <3>2. CASE i = k + 1
      <4>1. g[i - 1] = f[k]
        BY <2>2, <3>2
      <4> QED
        BY <2>2, <3>2, <4>1
    <3>3. CASE i # 0 /\ i # k + 1
      <4>1. i \in 0..k /\ i - 1 \in 0..k /\ i - 1 # k + 1
        BY <3>3
      <4>2. f[i] = FeedBody(f[i - 1], text[i])
        BY <2>1, <3>3, <4>1 DEF BodyRun
      <4> QED
        BY <2>2, <3>3, <4>1, <4>2
    <3> QED
      BY <3>1, <3>2, <3>3
  <2>4. BodyRun(g, p, text, k + 1)
    BY <2>2, <2>3 DEF BodyRun
  <2> QED
    BY <2>4
<1>3. n \in G
  <2> HIDE DEF G
  <2>1. \A k \in Nat : k \in G => k + 1 \in G
    BY <1>2
  <2> QED
    BY <1>1, <2>1, NatSetInduction
<1>4. PICK f : f = CHOOSE g : BodyRun(g, p, text, n)
  OBVIOUS
<1>5. BodyRun(f, p, text, n)
  BY <1>3, <1>4
<1>6. FedBody(p, text) = f[n]
  BY <1>4, Zenon DEF FedBody, BodyRun
<1> QED
  BY <1>5, <1>6

\* Fed is the end of a run over the text.
LEMMA CharRuns ==
    ASSUME NEW p, NEW text, NEW n \in Nat, n = Len(text)
    PROVE  \E f : CharRun(f, p, text, n) /\ Fed(p, text) = f[n]
<1> DEFINE G == {k \in Nat : \E f : CharRun(f, p, text, k)}
<1>1. 0 \in G
  <2>1. PICK f : f = [i \in 0..0 |-> p]
    OBVIOUS
  <2>2. CharRun(f, p, text, 0)
    BY <2>1 DEF CharRun
  <2> QED
    BY <2>2
<1>2. ASSUME NEW k \in Nat, k \in G PROVE k + 1 \in G
  <2>1. PICK f : CharRun(f, p, text, k)
    BY <1>2
  <2>2. PICK g : g = [i \in 0..k + 1 |-> IF i = k + 1 THEN FeedChar(f[k], text[k + 1]) ELSE f[i]]
    OBVIOUS
  <2>3. \A i \in 0..k + 1 : g[i] = IF i = 0 THEN p ELSE FeedChar(g[i - 1], text[i])
    <3> SUFFICES ASSUME NEW i \in 0..k + 1
                 PROVE  g[i] = IF i = 0 THEN p ELSE FeedChar(g[i - 1], text[i])
      OBVIOUS
    <3>1. CASE i = 0
      BY <2>1, <2>2, <3>1 DEF CharRun
    <3>2. CASE i = k + 1
      <4>1. g[i - 1] = f[k]
        BY <2>2, <3>2
      <4> QED
        BY <2>2, <3>2, <4>1
    <3>3. CASE i # 0 /\ i # k + 1
      <4>1. i \in 0..k /\ i - 1 \in 0..k /\ i - 1 # k + 1
        BY <3>3
      <4>2. f[i] = FeedChar(f[i - 1], text[i])
        BY <2>1, <3>3, <4>1 DEF CharRun
      <4> QED
        BY <2>2, <3>3, <4>1, <4>2
    <3> QED
      BY <3>1, <3>2, <3>3
  <2>4. CharRun(g, p, text, k + 1)
    BY <2>2, <2>3 DEF CharRun
  <2> QED
    BY <2>4
<1>3. n \in G
  <2> HIDE DEF G
  <2>1. \A k \in Nat : k \in G => k + 1 \in G
    BY <1>2
  <2> QED
    BY <1>1, <2>1, NatSetInduction
<1>4. PICK f : f = CHOOSE g : CharRun(g, p, text, n)
  OBVIOUS
<1>5. CharRun(f, p, text, n)
  BY <1>3, <1>4
<1>6. Fed(p, text) = f[n]
  BY <1>4, Zenon DEF Fed, CharRun
<1> QED
  BY <1>5, <1>6

\* The text fed so far.
LEMMA FedMore ==
    ASSUME NEW b \in Text, NEW text \in Text, NEW i \in 1..Len(text)
    PROVE  /\ b \o SubSeq(text, 1, i) = (b \o SubSeq(text, 1, i - 1)) \o <<text[i]>>
           /\ text[i] \in Character /\ b \o SubSeq(text, 1, i - 1) \in Text
<1>1. PICK n \in Nat : n = Len(text)
  BY DEF Text
<1>2. text[i] \in Character
  BY DEF Text
<1>3. PICK x \in Text : x = SubSeq(text, 1, i - 1)
  <2>1. i - 1 \in 0..n /\ i - 1 <= n
    BY <1>1
  <2>2. \A k \in 1..i - 1 : k \in 1..Len(text)
    BY <1>1, <2>1
  <2>3. \A k \in 1..i - 1 : text[k] \in Character
    BY <2>2 DEF Text
  <2>4. SubSeq(text, 1, i - 1) \in Seq(Character)
    BY <1>1, <2>1, <2>3 DEF Text
  <2> QED
    BY <2>4 DEF Text
<1>4. SubSeq(text, 1, i) = x \o <<text[i]>>
  <2>1. 1 \in 1..Len(text) /\ i \in 1..Len(text) /\ text \in Seq(Character)
    BY <1>1 DEF Text
  <2>2. SubSeq(text, 1, i) = SubSeq(text, 1, i - 1) \o <<text[i]>>
    BY <2>1, SubSeqRecursiveSecond
  <2> QED
    BY <1>3, <2>2
<1>5. PICK d \in Text : d = <<text[i]>>
  BY <1>2, OneText
<1>6. (b \o x) \o d = b \o (x \o d)
  BY JoinAssoc
<1> QED
  BY <1>2, <1>3, <1>4, <1>5, <1>6, JoinType

\* What a step keeps that does not depend on the body.
BodyState(q, p) ==
    /\ q \in ParserState
    /\ q.verdict = p.verdict /\ q.buffer = p.buffer /\ q.state \in {p.state, "raised"}
    /\ Orderly(q)

\* The kept verdict line, fed as body, is read as body.
LEMMA FedBodyIs ==
    ASSUME NEW p \in ParserState, Orderly(p), NEW text \in Text, NEW b \in Text, HasRead(p, b),
           NEW q, q = FedBody(p, text)
    PROVE  /\ BodyState(q, p)
           /\ q.state # "raised" => HasRead(q, b \o text)
<1>1. PICK n \in Nat : n = Len(text)
  BY DEF Text
<1>2. PICK f : BodyRun(f, p, text, n) /\ q = f[n]
  BY <1>1, BodyRuns
<1>3. f[0] = p /\ \A i \in 1..n : f[i] = FeedBody(f[i - 1], text[i])
  BY <1>2 DEF BodyRun
<1> DEFINE Good(i) == BodyState(f[i], p) /\ (f[i].state # "raised" => HasRead(f[i], b \o SubSeq(text, 1, i)))
           G == {i \in 0..n : Good(i)}
<1>4. 0 \in G
  <2>1. b \o SubSeq(text, 1, 0) = b
    <3>1. SubSeq(text, 1, 0) = <<>>
      BY SubSeqEmpty DEF Text
    <3> QED
      BY <3>1, JoinNone
  <2>2. BodyState(f[0], p)
    BY <1>3 DEF BodyState
  <2>3. Good(0)
    BY <1>3, <2>1, <2>2
  <2>4. 0 \in 0..n
    BY <1>1
  <2> HIDE DEF Good
  <2> QED
    BY <2>3, <2>4
<1>5. ASSUME NEW i \in 1..n, i - 1 \in G PROVE i \in G
  <2>1. PICK u : u = f[i - 1]
    OBVIOUS
  <2>2. PICK v : v = f[i]
    OBVIOUS
  <2>3. PICK c : c = text[i]
    OBVIOUS
  <2>4. PICK x : x = b \o SubSeq(text, 1, i - 1)
    OBVIOUS
  <2>5. v = FeedBody(u, c)
    BY <1>3, <2>1, <2>2, <2>3
  <2>6. b \o SubSeq(text, 1, i) = x \o <<c>> /\ c \in Character /\ x \in Text
    BY <1>1, <2>3, <2>4, FedMore
  <2>7. BodyState(u, p) /\ (u.state # "raised" => HasRead(u, x))
    BY <1>5, <2>1, <2>4
  <2>8. /\ v \in ParserState
        /\ v.verdict = u.verdict /\ v.buffer = u.buffer /\ v.state \in {u.state, "raised"}
        /\ Grows(v, u) /\ Told(v, u)
        /\ v.state # "raised" => \A y : HasRead(u, y) => HasRead(v, y \o <<c>>)
    BY <2>5, <2>6, <2>7, FeedBodyIs DEF BodyState
  <2>9. Orderly(v)
    BY <2>7, <2>8, OrderlyStep DEF BodyState
  <2>10. BodyState(v, p)
    BY <2>7, <2>8, <2>9 DEF BodyState
  <2>11. v.state # "raised" => HasRead(v, x \o <<c>>)
    BY <2>7, <2>8
  <2>12. i \in 0..n
    OBVIOUS
  <2> QED
    BY <2>2, <2>6, <2>10, <2>11, <2>12
<1>6. n \in G
  <2> HIDE DEF G
  <2>1. \A i \in 1..n : i - 1 \in G => i \in G
    BY <1>5
  <2>2. \A i \in 0..n : i \in G
    BY <1>4, <2>1, UptoInduction
  <2> QED
    BY <2>2
<1>7. SubSeq(text, 1, n) = text
  BY <1>1, SubSeqFull DEF Text
<1> QED
  BY <1>2, <1>6, <1>7

(***************************************************************************)
(* The verdict line.                                                       *)
(***************************************************************************)

\* The first newline of a text, and where it is after one more character.
FirstBreak(r, k) ==
    /\ k \in 1..Len(r) /\ r[k] = "\n"
    /\ \A i \in 1..k - 1 : r[i] # "\n"

\* HeaderEnd is the first newline, or 0.
LEMMA HeaderEndIs ==
    ASSUME NEW r \in Text
    PROVE  \/ (\A i \in 1..Len(r) : r[i] # "\n") /\ HeaderEnd(r) = 0
           \/ FirstBreak(r, HeaderEnd(r))
<1> DEFINE I == {i \in 1..Len(r) : r[i] = "\n"}
<1>1. PICK n \in Nat : n = Len(r)
  BY DEF Text
<1>2. HeaderEnd(r) = IF I = {} THEN 0 ELSE Min(I)
  BY DEF HeaderEnd, SelectInSeq
<1>3. CASE I = {}
  BY <1>2, <1>3
<1>4. CASE I # {}
  <2>1. I \subseteq Nat
    BY <1>1
  <2>2. Min(I) \in I /\ \A y \in I : Min(I) <= y
    <3> HIDE DEF I
    <3> QED
      BY <1>4, <2>1, MinOf
  <2>3. PICK k \in I : k = Min(I)
    BY <2>2
  <2>4. \A i \in 1..k - 1 : r[i] # "\n"
    <3> SUFFICES ASSUME NEW i \in 1..k - 1, r[i] = "\n" PROVE FALSE
      OBVIOUS
    <3>1. i \in I /\ i < k
      BY <1>1
    <3>2. k <= i
      BY <2>2, <2>3, <3>1
    <3> QED
      BY <1>1, <3>1, <3>2
  <2> QED
    BY <1>2, <1>4, <2>3, <2>4 DEF FirstBreak
<1> QED
  BY <1>3, <1>4

LEMMA OneFirstBreak ==
    ASSUME NEW r \in Text, NEW k, FirstBreak(r, k)
    PROVE  HeaderEnd(r) = k
<1>1. PICK n \in Nat : n = Len(r)
  BY DEF Text
<1>2. PICK h : h = HeaderEnd(r)
  OBVIOUS
<1>3. k \in 1..n /\ r[k] = "\n" /\ \A i \in 1..k - 1 : r[i] # "\n"
  BY <1>1 DEF FirstBreak
<1>4. h \in 1..n /\ r[h] = "\n" /\ \A i \in 1..h - 1 : r[i] # "\n"
  BY <1>1, <1>2, <1>3, HeaderEndIs DEF FirstBreak
<1>5. ~(h < k) /\ ~(k < h)
  BY <1>3, <1>4
<1> QED
  BY <1>2, <1>3, <1>4, <1>5

\* One more character leaves the first newline where it is, or is it.
LEMMA HeaderGrows ==
    ASSUME NEW r \in Text, NEW c \in Character, NEW rc, rc = r \o <<c>>
    PROVE  /\ HeaderEnd(r) \in 0..Len(r) /\ rc \in Text /\ Len(rc) = Len(r) + 1 /\ Len(r) \in Nat
           /\ HeaderEnd(rc) = IF HeaderEnd(r) # 0 THEN HeaderEnd(r)
                              ELSE IF c = "\n" THEN Len(r) + 1 ELSE 0
<1>1. PICK n \in Nat : n = Len(r)
  BY DEF Text
<1>2. rc \in Text /\ Len(rc) = n + 1 /\ rc[n + 1] = c /\ \A i \in 1..n : rc[i] = r[i]
  BY <1>1, OneMore
<1>3. PICK h : h = HeaderEnd(r)
  OBVIOUS
<1>4. h \in 0..n
  BY <1>1, <1>3, HeaderEndIs DEF FirstBreak
<1>5. HeaderEnd(rc) = IF h # 0 THEN h ELSE IF c = "\n" THEN n + 1 ELSE 0
  <2>1. CASE h # 0
    <3>1. h \in 1..n /\ r[h] = "\n" /\ \A i \in 1..h - 1 : r[i] # "\n"
      BY <1>1, <1>3, <2>1, HeaderEndIs DEF FirstBreak
    <3>2. FirstBreak(rc, h)
      BY <1>2, <3>1 DEF FirstBreak
    <3> QED
      BY <1>2, <2>1, <3>2, OneFirstBreak
  <2>2. CASE h = 0
    <3>1. \A i \in 1..n : r[i] # "\n"
      <4>1. ~FirstBreak(r, HeaderEnd(r))
        <5>1. 0 \notin 1..Len(r)
          BY <1>1
        <5> QED
          BY <1>3, <2>2, <5>1, Zenon DEF FirstBreak
      <4> QED
        BY <1>1, <4>1, HeaderEndIs
    <3>2. CASE c = "\n"
      <4>1. FirstBreak(rc, n + 1)
        BY <1>2, <3>1, <3>2 DEF FirstBreak
      <4> QED
        BY <1>2, <2>2, <3>2, <4>1, OneFirstBreak
    <3>3. CASE c # "\n"
      <4>1. \A i \in 1..n + 1 : rc[i] # "\n"
        <5>1. \A i \in 1..n + 1 : i \in 1..n \/ i = n + 1
          OBVIOUS
        <5> QED
          BY <1>2, <3>1, <3>3, <5>1
      <4>2. ~FirstBreak(rc, HeaderEnd(rc))
        BY <1>2, <4>1 DEF FirstBreak
      <4>3. HeaderEnd(rc) = 0
        BY <1>2, <4>2, HeaderEndIs
      <4> QED
        BY <2>2, <3>3, <4>3
    <3> QED
      BY <3>2, <3>3
  <2> QED
    BY <2>1, <2>2
<1> QED
  BY <1>1, <1>2, <1>3, <1>4, <1>5

\* Once it is decided how a completion begins, more text only adds to its body.
LEMMA DecidedGrows ==
    ASSUME NEW r \in Text, ~Undecided(r), NEW c \in Character, NEW rc, rc = r \o <<c>>
    PROVE  /\ ~Undecided(rc) /\ HeaderVerdict(rc) = HeaderVerdict(r)
           /\ Body(rc) = Body(r) \o <<c>> /\ Body(r) \in Text
<1>1. PICK n \in Nat : n = Len(r)
  BY DEF Text
<1>2. PICK h : h = HeaderEnd(r)
  OBVIOUS
<1>3. PICK M \in Nat : M = MaxVerdictLine
  BY Bounds
<1>4. h \in 0..n /\ rc \in Text /\ Len(rc) = n + 1
      /\ HeaderEnd(rc) = IF h # 0 THEN h ELSE IF c = "\n" THEN n + 1 ELSE 0
  BY <1>1, <1>2, HeaderGrows
<1>5. HasHeader(r) <=> h \in 1..M + 1
  BY <1>2, <1>3 DEF HasHeader
<1>6. ~(h = 0 /\ n <= M)
  BY <1>1, <1>2, <1>3 DEF Undecided
<1>7. ~Undecided(rc)
  BY <1>1, <1>3, <1>4, <1>6 DEF Undecided
<1>8. CASE HasHeader(r)
  <2>1. h \in 1..n /\ h \in 1..M + 1
    BY <1>4, <1>5, <1>8
  <2>2. HeaderEnd(rc) = h
    BY <1>4, <2>1
  <2>3. HasHeader(rc)
    BY <1>3, <2>1, <2>2 DEF HasHeader
  <2>4. /\ SubSeq(rc, h + 1, n + 1) = SubSeq(r, h + 1, n) \o <<c>>
        /\ SubSeq(r, h + 1, n) \in Text
    BY <1>1, <1>4, RestGrows
  <2>5. SubSeq(rc, 1, h - 1) = SubSeq(r, 1, h - 1)
    <3>1. h - 1 \in 0..n
      BY <2>1
    <3> QED
      BY <1>1, <3>1, RestGrows
  <2>6. HeaderVerdict(rc) = HeaderVerdict(r)
    BY <1>2, <1>8, <2>2, <2>3, <2>5 DEF HeaderVerdict
  <2>7. Body(rc) = SubSeq(rc, h + 1, n + 1) /\ Body(r) = SubSeq(r, h + 1, n)
    BY <1>1, <1>2, <1>4, <1>8, <2>2, <2>3 DEF Body
  <2> QED
    BY <1>7, <2>4, <2>6, <2>7
<1>9. CASE ~HasHeader(r)
  <2>1. ~HasHeader(rc)
    BY <1>1, <1>3, <1>4, <1>5, <1>6, <1>9 DEF HasHeader
  <2>2. HeaderVerdict(rc) = HeaderVerdict(r)
    BY <1>9, <2>1 DEF HeaderVerdict
  <2>3. Body(rc) = rc /\ Body(r) = r
    BY <1>9, <2>1 DEF Body
  <2> QED
    BY <1>7, <2>2, <2>3
<1> QED
  BY <1>8, <1>9

\* The character that decides it: a newline in time, or one too many.
LEMMA Decides ==
    ASSUME NEW r \in Text, Undecided(r), NEW c \in Character, NEW rc, rc = r \o <<c>>
    PROVE  /\ c # "\n" /\ Len(r) < MaxVerdictLine => Undecided(rc)
           /\ c = "\n" => /\ ~Undecided(rc) /\ Body(rc) = <<>>
                          /\ HeaderVerdict(rc) = VerdictOf(Stripped(r), Error)
           /\ c # "\n" /\ ~(Len(r) < MaxVerdictLine) =>
                 ~Undecided(rc) /\ Body(rc) = rc /\ HeaderVerdict(rc) = Error
<1>1. PICK n \in Nat : n = Len(r)
  BY DEF Text
<1>2. PICK M \in Nat : M = MaxVerdictLine
  BY Bounds
<1>3. HeaderEnd(r) = 0 /\ n <= M
  BY <1>1, <1>2 DEF Undecided
<1>4. PICK h : h = HeaderEnd(rc)
  OBVIOUS
<1>5. rc \in Text /\ Len(rc) = n + 1 /\ h = IF c = "\n" THEN n + 1 ELSE 0
  BY <1>1, <1>3, <1>4, HeaderGrows
<1>6. CASE c = "\n"
  <2>1. h = n + 1
    BY <1>5, <1>6
  <2>2. HasHeader(rc) /\ ~Undecided(rc)
    BY <1>2, <1>3, <1>4, <2>1 DEF HasHeader, Undecided
  <2>3. SubSeq(rc, 1, h - 1) = r
    <3>1. SubSeq(rc, 1, n) = SubSeq(r, 1, n)
      BY <1>1, RestGrows
    <3>2. SubSeq(r, 1, n) = r
      BY <1>1, SubSeqFull DEF Text
    <3>3. h - 1 = n
      BY <2>1
    <3> QED
      BY <3>1, <3>2, <3>3
  <2>4. SubSeq(rc, h + 1, Len(rc)) = <<>>
    <3>1. h + 1 \in Int /\ Len(rc) \in Int /\ Len(rc) < h + 1
      BY <1>5, <2>1
    <3> QED
      BY <3>1, SubSeqEmpty
  <2>5. Body(rc) = <<>>
    BY <1>4, <2>2, <2>4 DEF Body
  <2>6. HeaderVerdict(rc) = VerdictOf(Stripped(r), Error)
    BY <1>4, <2>2, <2>3 DEF HeaderVerdict
  <2> QED
    BY <1>6, <2>2, <2>5, <2>6
<1>7. CASE c # "\n"
  <2>1. h = 0
    BY <1>5, <1>7
  <2>2. ~HasHeader(rc)
    BY <1>2, <1>4, <2>1 DEF HasHeader
  <2>3. Undecided(rc) <=> n < M
    BY <1>2, <1>4, <1>1, <1>5, <2>1 DEF Undecided
  <2>4. Body(rc) = rc /\ HeaderVerdict(rc) = Error
    BY <2>2 DEF Body, HeaderVerdict
  <2> QED
    BY <1>1, <1>2, <1>7, <2>3, <2>4
<1> QED
  BY <1>6, <1>7

\* What the reference says of no text.
LEMMA EmptyFacts ==
    /\ Prose(<<>>) = <<>> /\ Rendered(<<>>) = <<>> /\ OpenMarker(<<>>) = {}
    /\ Citations(<<>>) = <<>> /\ DroppedMarkers(<<>>) = <<>>
    /\ TrailingVerdict(<<>>) = NoValue
    /\ Undecided(<<>>)
<1>1. <<>> \in Text /\ Len(<<>>) = 0
  BY NoText
<1>2. OpenMarker(<<>>) = {}
  BY DEF OpenMarker
<1>3. ControlLines(<<>>) = {}
  <2>1. ASSUME NEW l \in ControlLines(<<>>) PROVE FALSE
    <3>1. l \in Lines(<<>>) /\ \E v \in Verdicts : Tokens[v] = WithoutIndent(Line(<<>>, l))
      BY <2>1 DEF ControlLines
    <3>2. l[1] = 1 /\ l[2] = 0
      BY <3>1 DEF Lines
    <3>3. Line(<<>>, l) = <<>>
      BY <3>2, SubSeqEmpty DEF Line
    <3> QED
      BY <3>1, <3>3, EmptyIsNoControl DEF Control
  <2> QED
    BY <2>1
<1>4. TrailingVerdict(<<>>) = NoValue
  BY <1>3 DEF TrailingVerdict
<1>5. Prose(<<>>) = <<>>
  <2>1. Prose(<<>>) = FlattenSeq(Kept(<<>>))
    BY DEF Prose, Kept, DroppedAt
  <2>2. Kept(<<>>) = <<>>
    BY DEF Kept
  <2> QED
    BY <2>1, <2>2, FlattenNone
<1>6. Rendered(<<>>) = <<>>
  <2>1. Rendered(<<>>) = FlatTo(Pieces(<<>>, 0), 0)
    BY <1>1, RenderedIs
  <2>2. Pieces(<<>>, 0) \in [1..0 -> Text]
    BY <1>1, PiecesType
  <2> QED
    BY <2>1, <2>2, FlatStep DEF Text
<1>7. MarkerValues(<<>>) = <<>>
  <2>1. ValuesAt(<<>>, 0) \in [1..0 -> Seq(AnyValue)] /\ MarkerValues(<<>>) = FlatTo(ValuesAt(<<>>, 0), 0)
    BY <1>1, ValuesAre
  <2> QED
    BY <2>1, FlatStep
<1>8. Citations(<<>>) = <<>> /\ DroppedMarkers(<<>>) = <<>>
  <2>1. <<>> \in Seq(AnyValue)
    BY <1>1, <1>7, ValuesAre
  <2>2. Firsts(<<>>) = <<>> /\ Unknowns(<<>>) = <<>>
    BY DEF Firsts, Unknowns
  <2>3. FirstUses(<<>>) = <<>> /\ Unknown(<<>>) = <<>>
    <3>1. FirstUses(<<>>) = FlattenSeq(<<>>) /\ Unknown(<<>>) = FlattenSeq(<<>>)
      BY <2>1, <2>2, FirstsAre
    <3> QED
      BY <3>1, FlattenNone
  <2> QED
    BY <1>7, <2>3 DEF Citations, DroppedMarkers
<1>9. Undecided(<<>>)
  <2>1. HeaderEnd(<<>>) = 0
    BY <1>1, HeaderEndIs DEF FirstBreak
  <2> QED
    BY <1>1, <2>1, Bounds DEF Undecided
<1> QED
  BY <1>2, <1>4, <1>5, <1>6, <1>8, <1>9

(***************************************************************************)
(* A completion read so far.                                               *)
(***************************************************************************)

\* A parser that has only kept a first line.
Fresh(r) == [NewParser EXCEPT !.buffer = r]

LEMMA FreshIs ==
    ASSUME NEW r \in Text
    PROVE  /\ Fresh(r) \in ParserState
           /\ Fresh(r).state = "verdict" /\ Fresh(r).buffer = r /\ Fresh(r).text = <<>>
           /\ Fresh(r).pending = <<>> /\ Fresh(r).events = <<>> /\ Fresh(r).cited = <<>>
           /\ Fresh(r).dropped = <<>> /\ Fresh(r).marker = None /\ Fresh(r).line = <<>>
           /\ Fresh(r).final = None /\ Fresh(r).verdict = None
<1>1. <<>> \in Text /\ <<>> \in Seq(AnyValue) /\ <<>> \in Seq(Event)
  BY NoText
<1>2. Fresh(r) = [state |-> "verdict", verdict |-> None, buffer |-> r, marker |-> None,
                  pending |-> <<>>, line |-> <<>>, final |-> None, text |-> <<>>,
                  cited |-> <<>>, dropped |-> <<>>, events |-> <<>>]
  BY DEF Fresh, NewParser
<1>3. Fresh(r) \in ParserState
  BY <1>1, <1>2 DEF ParserState
<1> QED
  BY <1>2, <1>3

LEMMA VerdictOfType ==
    ASSUME NEW s
    PROVE  VerdictOf(s, Error) \in Verdicts \cup {Error}
BY DEF VerdictOf

\* A parser that has sent its verdict and seen nothing of the body.
LEMMA AnnounceIs ==
    ASSUME NEW r \in Text, NEW v \in Verdicts \cup {Error}, NEW q, q = Announce(Fresh(r), v)
    PROVE  /\ q \in ParserState /\ q.state = "body" /\ q.verdict = v /\ q.text = <<>> /\ q.pending = <<>>
           /\ q.cited = <<>> /\ q.dropped = <<>> /\ q.final = None /\ q.marker = None /\ q.line = <<>>
           /\ q.events = <<[kind |-> "verdict", what |-> v, at |-> 0]>>
<1> DEFINE a == [Fresh(r) EXCEPT !.state = "body", !.verdict = v, !.buffer = <<>>]
<1>1. <<>> \in Text /\ <<>> \in Seq(AnyValue) /\ <<>> \in Seq(Event)
  BY NoText
<1>2. a = [state |-> "body", verdict |-> v, buffer |-> <<>>, marker |-> None,
           pending |-> <<>>, line |-> <<>>, final |-> None, text |-> <<>>,
           cited |-> <<>>, dropped |-> <<>>, events |-> <<>>]
  <2>1. PICK f : f = Fresh(r)
    OBVIOUS
  <2>2. f = [state |-> "verdict", verdict |-> None, buffer |-> r, marker |-> None,
             pending |-> <<>>, line |-> <<>>, final |-> None, text |-> <<>>,
             cited |-> <<>>, dropped |-> <<>>, events |-> <<>>]
    BY <2>1 DEF Fresh, NewParser
  <2>3. a = [f EXCEPT !.state = "body", !.verdict = v, !.buffer = <<>>]
    BY <2>1
  <2> HIDE DEF a
  <2> QED
    BY <2>2, <2>3
<1>3. a \in ParserState
  BY <1>1, <1>2 DEF ParserState
<1>4. /\ a.state = "body" /\ a.verdict = v /\ a.text = <<>> /\ a.pending = <<>>
      /\ a.cited = <<>> /\ a.dropped = <<>> /\ a.final = None /\ a.marker = None /\ a.line = <<>>
      /\ a.events = <<>>
  <2> HIDE DEF a
  <2> QED
    BY <1>2
<1>5. q = Emit(a, "verdict", v)
  BY DEF Announce
<1> HIDE DEF a
<1>6. /\ q \in ParserState /\ SameLine(q, a)
      /\ q.marker = a.marker /\ q.pending = a.pending /\ q.text = a.text
      /\ q.cited = a.cited /\ q.dropped = a.dropped
      /\ q.events = Append(a.events, [kind |-> "verdict", what |-> v, at |-> Len(a.text)])
  BY <1>3, <1>5, EmitIs
<1>7. q.events = <<[kind |-> "verdict", what |-> v, at |-> 0]>>
  BY <1>4, <1>6
<1> QED
  BY <1>4, <1>6, <1>7 DEF SameLine

LEMMA AnnouncedIsOrderly ==
    ASSUME NEW q \in ParserState, NEW v, q.events = <<[kind |-> "verdict", what |-> v, at |-> 0]>>,
           q.cited = <<>>
    PROVE  Orderly(q)
<1>1. Len(q.events) = 1 /\ DOMAIN q.events = 1..1 /\ q.events[1].kind = "verdict" /\ q.events[1].at = 0
      /\ q.events # <<>>
  OBVIOUS
<1>2. \A i \in DOMAIN q.events : OrderedAt(q, i)
  BY <1>1 DEF OrderedAt
<1>3. [i \in 1..Len(q.events) - 1 |-> q.events[i + 1].what] = q.cited /\ IsInjective(q.cited)
  BY <1>1 DEF IsInjective
<1> QED
  BY <1>1, <1>2, <1>3 DEF Orderly

LEMMA AnnouncedHasRead ==
    ASSUME NEW q \in ParserState, q.text = <<>>, q.pending = <<>>, q.cited = <<>>, q.dropped = <<>>,
           q.final = None, q.marker = None, q.line = <<>>
    PROVE  HasRead(q, <<>>)
<1>1. UpTo(<<>>, 0, <<>>) /\ NoBreak(<<>>, 0) /\ Rest(<<>>, 0) = <<>>
  BY NoText DEF UpTo, NoBreak, Rest, Break
<1>2. Out(q) = <<>>
  BY DEF Out
<1>3. Prosed(q, <<>>)
  BY <1>2, NoText, EmptyFacts DEF Prosed
<1>4. q.final = TrailingVerdict(<<>>)
  BY EmptyFacts DEF None
<1>5. q.line # None
  BY NoneIsNoText
<1>6. ReadUpTo(q, <<>>, 0, <<>>)
  BY <1>1, <1>3, <1>4, <1>5, EmptyHopes, EmptyFacts DEF ReadUpTo
<1> QED
  BY <1>6 DEF HasRead

\* p has read the completion r.
InBody(p, r) == ~Undecided(r) /\ p.verdict = HeaderVerdict(r) /\ HasRead(p, Body(r)) /\ Body(r) \in Text
CharRead(p, r) ==
    /\ p \in ParserState /\ r \in Text /\ p.state \in {"verdict", "body", "raised"}
    /\ p.state = "verdict" => p = Fresh(r) /\ Undecided(r)
    /\ p.state = "body" => InBody(p, r)
    /\ p.state # "verdict" => Orderly(p)

\* _feed_verdict keeps the character, or decides the verdict and reads on.
LEMMA ReadsVerdict ==
    ASSUME NEW r \in Text, Undecided(r), NEW c \in Character, NEW rc, rc = r \o <<c>>,
           NEW q, q = FeedVerdict(Fresh(r), c)
    PROVE  CharRead(q, rc)
<1>1. rc \in Text /\ Fresh(r).buffer = r
  BY OneMore, FreshIs
<1>2. CASE c = "\n"
  <2>1. PICK v \in Verdicts \cup {Error} : v = VerdictOf(Stripped(r), Error)
    BY VerdictOfType
  <2>2. q = Announce(Fresh(r), v)
    BY <1>1, <1>2, <2>1 DEF FeedVerdict
  <2>3. /\ q \in ParserState /\ q.state = "body" /\ q.verdict = v /\ q.text = <<>> /\ q.pending = <<>>
        /\ q.cited = <<>> /\ q.dropped = <<>> /\ q.final = None /\ q.marker = None /\ q.line = <<>>
        /\ q.events = <<[kind |-> "verdict", what |-> v, at |-> 0]>>
    BY <2>2, AnnounceIs
  <2>4. Orderly(q) /\ HasRead(q, <<>>)
    BY <2>3, AnnouncedIsOrderly, AnnouncedHasRead
  <2>5. ~Undecided(rc) /\ Body(rc) = <<>> /\ HeaderVerdict(rc) = v
    BY <1>2, <2>1, Decides
  <2>6. InBody(q, rc)
    BY <2>3, <2>4, <2>5, NoText DEF InBody
  <2> QED
    BY <1>1, <2>3, <2>4, <2>6 DEF CharRead
<1>3. CASE c # "\n" /\ Len(r) < MaxVerdictLine
  <2>1. q = [Fresh(r) EXCEPT !.buffer = Append(@, c)]
    BY <1>1, <1>3 DEF FeedVerdict
  <2>2. Append(r, c) = rc
    BY AppendIs DEF Text
  <2>3. q = Fresh(rc)
    BY <1>1, <2>1, <2>2 DEF Fresh, NewParser
  <2>4. Undecided(rc)
    BY <1>3, Decides
  <2>5. q \in ParserState /\ q.state = "verdict"
    BY <1>1, <2>3, FreshIs
  <2> QED
    BY <1>1, <2>3, <2>4, <2>5 DEF CharRead
<1>4. CASE c # "\n" /\ ~(Len(r) < MaxVerdictLine)
  <2>1. PICK a : a = Announce(Fresh(r), Error)
    OBVIOUS
  <2>2. q = FedBody(a, Append(r, c))
    BY <1>1, <1>4, <2>1 DEF FeedVerdict
  <2>3. Append(r, c) = rc
    BY AppendIs DEF Text
  <2>4. /\ a \in ParserState /\ a.state = "body" /\ a.verdict = Error /\ a.text = <<>> /\ a.pending = <<>>
        /\ a.cited = <<>> /\ a.dropped = <<>> /\ a.final = None /\ a.marker = None /\ a.line = <<>>
        /\ a.events = <<[kind |-> "verdict", what |-> Error, at |-> 0]>>
    BY <2>1, AnnounceIs
  <2>5. Orderly(a) /\ HasRead(a, <<>>)
    BY <2>4, AnnouncedIsOrderly, AnnouncedHasRead
  <2>6. BodyState(q, a) /\ (q.state # "raised" => HasRead(q, <<>> \o rc))
    BY <1>1, <2>2, <2>3, <2>4, <2>5, NoText, FedBodyIs
  <2>7. <<>> \o rc = rc
    BY <1>1 DEF Text
  <2>8. ~Undecided(rc) /\ Body(rc) = rc /\ HeaderVerdict(rc) = Error
    BY <1>4, Decides
  <2>9. q \in ParserState /\ q.state \in {"body", "raised"} /\ q.verdict = Error /\ Orderly(q)
    BY <2>4, <2>6 DEF BodyState
  <2>10. q.state = "body" => InBody(q, rc)
    BY <1>1, <2>6, <2>7, <2>8, <2>9 DEF InBody
  <2> QED
    BY <1>1, <2>9, <2>10 DEF CharRead
<1> QED
  BY <1>2, <1>3, <1>4

\* feed() of one character has read one more character.
LEMMA ReadsChar ==
    ASSUME NEW p, NEW r, CharRead(p, r), NEW c \in Character, NEW q, q = FeedChar(p, c)
    PROVE  CharRead(q, r \o <<c>>)
<1>1. PICK rc : rc = r \o <<c>>
  OBVIOUS
<1>2. r \in Text /\ rc \in Text /\ p \in ParserState /\ p.state \in {"verdict", "body", "raised"}
  BY <1>1, OneMore DEF CharRead
<1>3. CASE p.state = "verdict"
  <2>1. p = Fresh(r) /\ Undecided(r)
    BY <1>3 DEF CharRead
  <2>2. q = FeedVerdict(Fresh(r), c)
    BY <1>3, <2>1 DEF FeedChar
  <2> QED
    BY <1>1, <1>2, <2>1, <2>2, ReadsVerdict
<1>4. CASE p.state = "body"
  <2>1. InBody(p, r) /\ Orderly(p)
    BY <1>4 DEF CharRead
  <2>2. q = FeedBody(p, c)
    BY <1>4 DEF FeedChar
  <2>3. /\ q \in ParserState
        /\ q.verdict = p.verdict /\ q.state \in {"body", "raised"}
        /\ Grows(q, p) /\ Told(q, p)
        /\ q.state # "raised" => \A b : HasRead(p, b) => HasRead(q, b \o <<c>>)
    BY <1>2, <1>4, <2>2, FeedBodyIs
  <2>4. Orderly(q)
    BY <1>2, <2>1, <2>3, OrderlyStep
  <2>5. ~Undecided(rc) /\ HeaderVerdict(rc) = HeaderVerdict(r) /\ Body(rc) = Body(r) \o <<c>>
    BY <1>1, <1>2, <2>1, DecidedGrows DEF InBody
  <2>6. Body(rc) \in Text
    BY <2>1, <2>5, OneMore DEF InBody
  <2>7. q.state = "body" => HasRead(q, Body(rc))
    BY <2>1, <2>3, <2>5 DEF InBody
  <2>8. q.state = "body" => InBody(q, rc)
    BY <2>1, <2>3, <2>5, <2>6, <2>7 DEF InBody
  <2> QED
    BY <1>1, <1>2, <2>3, <2>4, <2>8 DEF CharRead
<1>5. CASE p.state = "raised"
  <2>1. q = p
    BY <1>5 DEF FeedChar
  <2> QED
    BY <1>1, <1>2, <1>5, <2>1 DEF CharRead
<1> QED
  BY <1>2, <1>3, <1>4, <1>5

\* feed() of a slice has read the slice.
LEMMA ReadsSlice ==
    ASSUME NEW p, NEW r, CharRead(p, r), NEW text \in Text, NEW q, q = Fed(p, text)
    PROVE  CharRead(q, r \o text)
<1>1. PICK n \in Nat : n = Len(text)
  BY DEF Text
<1>2. PICK f : CharRun(f, p, text, n) /\ q = f[n]
  BY <1>1, CharRuns
<1>3. f[0] = p /\ \A i \in 1..n : f[i] = FeedChar(f[i - 1], text[i])
  BY <1>2 DEF CharRun
<1>r. r \in Text
  BY DEF CharRead
<1> DEFINE Good(i) == CharRead(f[i], r \o SubSeq(text, 1, i))
           G == {i \in 0..n : Good(i)}
<1>4. 0 \in G
  <2>1. r \o SubSeq(text, 1, 0) = r
    <3>1. SubSeq(text, 1, 0) = <<>>
      BY SubSeqEmpty DEF Text
    <3> QED
      BY <1>r, <3>1, JoinNone
  <2>2. Good(0)
    BY <1>3, <2>1
  <2>3. 0 \in 0..n
    BY <1>1
  <2> HIDE DEF Good
  <2> QED
    BY <2>2, <2>3
<1>5. ASSUME NEW i \in 1..n, i - 1 \in G PROVE i \in G
  <2>1. PICK u : u = f[i - 1]
    OBVIOUS
  <2>2. PICK v : v = f[i]
    OBVIOUS
  <2>3. PICK c : c = text[i]
    OBVIOUS
  <2>4. PICK x : x = r \o SubSeq(text, 1, i - 1)
    OBVIOUS
  <2>5. v = FeedChar(u, c)
    BY <1>3, <2>1, <2>2, <2>3
  <2>6. r \o SubSeq(text, 1, i) = x \o <<c>> /\ c \in Character
    BY <1>1, <1>r, <2>3, <2>4, FedMore
  <2>7. CharRead(u, x)
    BY <1>5, <2>1, <2>4
  <2>8. CharRead(v, x \o <<c>>)
    BY <2>5, <2>6, <2>7, ReadsChar
  <2>9. i \in 0..n
    OBVIOUS
  <2> QED
    BY <2>2, <2>6, <2>8, <2>9
<1>6. n \in G
  <2> HIDE DEF G
  <2>1. \A i \in 1..n : i - 1 \in G => i \in G
    BY <1>5
  <2>2. \A i \in 0..n : i \in G
    BY <1>4, <2>1, UptoInduction
  <2> QED
    BY <2>2
<1>7. SubSeq(text, 1, n) = text
  BY <1>1, SubSeqFull DEF Text
<1> QED
  BY <1>2, <1>6, <1>7

(***************************************************************************)
(* What is settled, the end, and the theorems.                             *)
(***************************************************************************)

\* The last line of a text.
LEMMA LastLineIs ==
    ASSUME NEW b, NEW n, NEW t, UpTo(b, n, t), NoBreak(b, n)
    PROVE  LastLine(b) = <<n + 1, Len(b)>>
<1>1. PICK k \in Nat : k = Len(b)
  BY DEF UpTo, Text
<1>2. n \in 0..k /\ b \in Text /\ Break(b, n)
  BY <1>1 DEF UpTo
<1>3. Alone(b, n, k)
  BY <1>1, <1>2 DEF Alone, NoBreak
<1>4. /\ <<n + 1, k>> \in Lines(b)
      /\ \A a, f : <<a, f>> \in Lines(b) /\ a > n =>
             (a = n + 1 /\ f = k) \/ (a = k + 1 /\ f = k)
  BY <1>1, <1>2, <1>3, LinesAfter
<1>5. \A l \in Lines(b) : l = <<l[1], l[2]>>
  BY LinesAre
<1>6. \A a, f : <<a, f>> \in Lines(b) => IsLine(b, k, a, f)
  BY <1>1, LinesAre
<1>7. ASSUME NEW l \in Lines(b), l[2] = k PROVE l = <<n + 1, k>>
  <2>1. PICK a : a = l[1]
    OBVIOUS
  <2>2. l = <<a, k>> /\ <<a, k>> \in Lines(b)
    BY <1>5, <1>7, <2>1
  <2>3. a \in 1..k + 1 /\ (a = 1 \/ b[a - 1] = "\n")
    BY <1>6, <2>2 DEF IsLine
  <2>4. a > n
    <3> SUFFICES ASSUME a <= n PROVE FALSE
      BY <1>2, <2>3
    <3>1. a \in Nat
      BY <2>3
    <3>2. k < n
      BY <2>2, <3>1, LinesBefore
    <3> QED
      BY <1>1, <1>2, <3>2
  <2>5. a = n + 1 \/ a = k + 1
    BY <1>4, <2>2, <2>4
  <2>6. a = n + 1
    <3> SUFFICES ASSUME a = k + 1, k # n PROVE FALSE
      BY <2>5
    <3>1. k \in n + 1..k /\ a - 1 = k /\ a # 1
      BY <1>1, <1>2
    <3>2. b[k] # "\n"
      BY <1>1, <3>1 DEF NoBreak
    <3> QED
      BY <2>3, <3>1, <3>2
  <2> QED
    BY <2>2, <2>6
<1>8. <<n + 1, k>> \in Lines(b) /\ <<n + 1, k>>[2] = k
  BY <1>4
<1> QED
  BY <1>1, <1>7, <1>8 DEF LastLine

\* What is settled of a body whose last line starts behind n.
LEMMA SettledIs ==
    ASSUME NEW b, NEW n, NEW t, UpTo(b, n, t), NoBreak(b, n)
    PROVE  SettledProse(b) = IF CouldBeginAVerdict(Rest(b, n)) THEN Prose(t)
                             ELSE WithoutOpenMarker(Prose(b))
<1>1. n \in Int
  BY DEF UpTo
<1>2. LastLine(b) = <<n + 1, Len(b)>>
  BY LastLineIs
<1>3. LastLine(b)[1] - 1 = n
  BY <1>1, <1>2
<1>4. Line(b, LastLine(b)) = Rest(b, n)
  <2>1. PICK k \in Nat : k = Len(b)
    BY DEF UpTo, Text
  <2>2. PICK l : l = LastLine(b)
    OBVIOUS
  <2>3. l = <<n + 1, k>>
    BY <1>2, <2>1, <2>2
  <2>4. l[1] = n + 1 /\ l[2] = k
    BY <2>3
  <2> QED
    BY <2>1, <2>2, <2>4 DEF Line, Rest
<1>5. CouldBecomeControl(b) <=> CouldBeginAVerdict(Rest(b, n))
  BY <1>4, Zenon DEF CouldBecomeControl, CouldBeginAVerdict
<1>6. t = SubSeq(b, 1, n)
  BY DEF UpTo
<1>7. SubSeq(b, 1, LastLine(b)[1] - 1) = t
  BY <1>3, <1>6
<1> QED
  BY <1>5, <1>7, Zenon DEF SettledProse

\* What p shows of the body when nothing is held back by the flush.
LEMMA ShowsSettled ==
    ASSUME NEW p \in ParserState, NEW b, HasRead(p, b)
    PROVE  Out(p) = Rendered(SettledProse(b))
<1>1. PICK n, t : ReadUpTo(p, b, n, t)
  BY DEF HasRead
<1>2. UpTo(b, n, t) /\ NoBreak(b, n)
  BY <1>1 DEF ReadUpTo
<1>3. CASE p.line # None
  <2>1. p.line = Rest(b, n) /\ CouldBeginAVerdict(p.line) /\ p.marker = None /\ Prosed(p, Prose(t))
    BY <1>1, <1>3 DEF ReadUpTo
  <2>2. SettledProse(b) = Prose(t)
    BY <1>2, <2>1, SettledIs
  <2> QED
    BY <2>1, <2>2 DEF Prosed
<1>4. CASE p.line = None
  <2>1. ~CouldBeginAVerdict(Rest(b, n)) /\ Prosed(p, Prose(b))
    BY <1>1, <1>4 DEF ReadUpTo
  <2>2. PICK s : s = Prose(b)
    OBVIOUS
  <2>3. SettledProse(b) = WithoutOpenMarker(s)
    BY <1>2, <2>1, <2>2, SettledIs
  <2>4. Prosed(p, s)
    BY <2>1, <2>2
  <2>5. CASE p.marker = None
    <3>1. OpenMarker(s) = {} /\ Out(p) = Rendered(s)
      BY <2>4, <2>5 DEF Prosed
    <3> QED
      BY <2>3, <3>1 DEF WithoutOpenMarker
  <2>6. CASE p.marker # None
    <3>1. PICK o, w : Ahead(s, o, w) /\ Out(p) = Rendered(w)
      BY <2>4, <2>6 DEF Prosed
    <3>2. s \in Text /\ o \in OpenMarker(s) /\ w = SubSeq(s, 1, o - 1)
      BY <3>1 DEF Ahead
    <3>3. OpenMarker(s) = {o}
      BY <3>2, OneOpen
    <3>4. (CHOOSE i \in OpenMarker(s) : TRUE) = o
      BY <3>3
    <3>5. WithoutOpenMarker(s) = w
      BY <3>2, <3>4 DEF WithoutOpenMarker
    <3> QED
      BY <2>3, <3>1, <3>5
  <2> QED
    BY <2>5, <2>6
<1> QED
  BY <1>3, <1>4

LEMMA ProsedSame ==
    ASSUME NEW p, NEW q, q.marker = p.marker, Out(q) = Out(p), SameCitations(q, p), NEW s, Prosed(p, s)
    PROVE  Prosed(q, s)
BY Zenon DEF Prosed, SameCitations

\* _flush_pending changes nothing of what was read.
LEMMA FlushReads ==
    ASSUME NEW p, NEW r, CharRead(p, r), NEW q, q = Flush(p)
    PROVE  CharRead(q, r) /\ q.pending = <<>> /\ q.state = p.state
<1>1. p \in ParserState /\ r \in Text /\ p.state \in {"verdict", "body", "raised"}
  BY DEF CharRead
<1>2. /\ q \in ParserState /\ q.marker = p.marker /\ q.pending = <<>>
      /\ q.text = p.text \o p.pending /\ SameLine(q, p) /\ SameCitations(q, p)
  BY <1>1, FlushIs
<1>3. Out(q) = Out(p)
  BY <1>1, OutAfterFlush
<1>4. q.state = p.state /\ q.verdict = p.verdict /\ q.line = p.line /\ q.final = p.final
  BY <1>2 DEF SameLine
<1>5. p.state = "verdict" => q = Fresh(r) /\ Undecided(r)
  <2> SUFFICES ASSUME p.state = "verdict" PROVE q = Fresh(r) /\ Undecided(r)
    OBVIOUS
  <2>1. p = Fresh(r) /\ Undecided(r)
    BY DEF CharRead
  <2>2. p = [state |-> "verdict", verdict |-> None, buffer |-> r, marker |-> None,
             pending |-> <<>>, line |-> <<>>, final |-> None, text |-> <<>>,
             cited |-> <<>>, dropped |-> <<>>, events |-> <<>>]
    BY <2>1 DEF Fresh, NewParser
  <2>3. q = [p EXCEPT !.text = p.text \o p.pending, !.pending = <<>>]
    BY DEF Flush
  <2>4. p.text \o p.pending = <<>>
    BY <2>2
  <2>5. q = p
    BY <2>2, <2>3, <2>4
  <2> QED
    BY <2>1, <2>5
<1>6. p.state = "body" => InBody(q, r)
  <2> SUFFICES ASSUME p.state = "body" PROVE InBody(q, r)
    OBVIOUS
  <2>1. InBody(p, r)
    BY DEF CharRead
  <2>2. PICK b : b = Body(r)
    OBVIOUS
  <2>3. PICK n, t : ReadUpTo(p, b, n, t)
    BY <2>1, <2>2 DEF InBody, HasRead
  <2>4. \A s : Prosed(p, s) => Prosed(q, s)
    BY <1>2, <1>3, ProsedSame
  <2>5. ReadUpTo(q, b, n, t)
    BY <1>2, <1>4, <2>3, <2>4, Zenon DEF ReadUpTo
  <2> QED
    BY <1>4, <2>1, <2>2, <2>5 DEF InBody, HasRead
<1>7. p.state # "verdict" => Orderly(q)
  <2>1. Grows(q, p)
    BY <1>1, <1>2, Fields DEF Grows
  <2>2. Told(q, p)
    BY <1>2 DEF Told, SameCitations
  <2>3. p.state # "verdict" => Orderly(p)
    BY DEF CharRead
  <2> QED
    BY <1>1, <1>2, <2>1, <2>2, <2>3, OrderlyStep
<1> QED
  BY <1>1, <1>2, <1>4, <1>5, <1>6, <1>7 DEF CharRead

\* What finish() leaves of a parser that has read the body b.
Answered(q, p, b) ==
    /\ q.verdict = p.verdict /\ q.final = TrailingVerdict(b)
    /\ q.text = Rendered(Prose(b))
    /\ q.cited = Citations(Prose(b)) /\ q.dropped = DroppedMarkers(Prose(b))

Closed(q, p, b) ==
    /\ q \in ParserState /\ q.verdict = p.verdict /\ q.final = TrailingVerdict(b)
    /\ Prosed(q, Prose(b))
    /\ q.text = p.text /\ q.events = p.events /\ q.cited = p.cited

ClosedOf(p) ==
    CASE p.line = None -> p
      [] p.line # None /\ LineVerdict(p) # None -> [p EXCEPT !.final = LineVerdict(p), !.line = None]
      [] p.line # None /\ LineVerdict(p) = None -> Release(p)

\* finish() reads a last line without a newline as a line.
LEMMA ClosesLine ==
    ASSUME NEW p \in ParserState, NEW b, HasRead(p, b), NEW q, q = ClosedOf(p)
    PROVE  Closed(q, p, b)
<1>1. PICK n, t : ReadUpTo(p, b, n, t)
  BY DEF HasRead
<1>2. UpTo(b, n, t) /\ NoBreak(b, n) /\ p.final = TrailingVerdict(t)
  BY <1>1 DEF ReadUpTo
<1>3. /\ Rest(b, n) \in Text /\ Prose(t) \in Text
      /\ Prose(b) = IF Control(Rest(b, n)) THEN Prose(t) ELSE Prose(t) \o Rest(b, n)
      /\ TrailingVerdict(b) = IF Control(Rest(b, n)) THEN VerdictOf(WithoutIndent(Rest(b, n)), NoValue)
                              ELSE TrailingVerdict(t)
  BY <1>2, BodyNow
<1>4. CASE p.line = None
  <2>1. ~CouldBeginAVerdict(Rest(b, n)) /\ Prosed(p, Prose(b))
    BY <1>1, <1>4 DEF ReadUpTo
  <2>2. ~Control(Rest(b, n))
    BY <1>3, <2>1, ControlHopes
  <2>3. q = p
    BY <1>4 DEF ClosedOf
  <2> QED
    BY <1>2, <1>3, <2>1, <2>2, <2>3 DEF Closed
<1>5. CASE p.line # None
  <2>1. p.line = Rest(b, n) /\ CouldBeginAVerdict(p.line) /\ p.marker = None /\ Prosed(p, Prose(t))
    BY <1>1, <1>5 DEF ReadUpTo
  <2>2. /\ LineVerdict(p) = VerdictOf(WithoutIndent(p.line), NoValue)
        /\ Control(p.line) <=> LineVerdict(p) # None
        /\ LineVerdict(p) \in Verdicts \cup {None}
    BY <1>5, <2>1, LineVerdictIs
  <2>3. PICK v \in Verdicts \cup {None} : v = LineVerdict(p)
    BY <2>2
  <2>4. CASE v # None
    <3>1. q = [p EXCEPT !.final = v, !.line = None]
      BY <1>5, <2>3, <2>4 DEF ClosedOf
    <3>2. Control(Rest(b, n))
      BY <2>1, <2>2, <2>3, <2>4
    <3>3. Prose(b) = Prose(t) /\ TrailingVerdict(b) = v
      BY <1>3, <2>1, <2>2, <2>3, <3>2
    <3>4. q \in ParserState
      BY <3>1 DEF ParserState
    <3>5. q.verdict = p.verdict /\ q.final = v /\ q.text = p.text /\ SameProse(q, p)
      BY <3>1 DEF ParserState, SameProse, SameCitations
    <3>6. Prosed(q, Prose(b))
      BY <2>1, <3>3, <3>5, ProsedOther
    <3> QED
      BY <3>3, <3>4, <3>5, <3>6 DEF Closed, SameProse, SameCitations
  <2>5. CASE v = None
    <3>1. q = Release(p)
      BY <1>5, <2>3, <2>5 DEF ClosedOf
    <3>2. ~Control(Rest(b, n))
      BY <2>1, <2>2, <2>3, <2>5
    <3>3. Prose(b) = Prose(t) \o p.line /\ TrailingVerdict(b) = p.final
      BY <1>2, <1>3, <2>1, <3>2
    <3>4. /\ q \in ParserState /\ q.verdict = p.verdict /\ q.final = p.final
          /\ q.text = p.text /\ SameCitations(q, p)
      BY <1>5, <3>1, ReleaseIs
    <3>5. \A i \in 1..Len(p.line) : p.line[i] # "["
      BY <1>3, <2>1, HopefulLine
    <3>6. Prosed(q, Prose(t) \o p.line)
      BY <1>5, <2>1, <3>1, <3>5, ReleaseReads
    <3> QED
      BY <3>3, <3>4, <3>6 DEF Closed, SameCitations
  <2> QED
    BY <2>4, <2>5
<1> QED
  BY <1>4, <1>5

\* finish() leaves the answer the reference reads.
LEMMA ReadsToTheEnd ==
    ASSUME NEW p \in ParserState, NEW b, HasRead(p, b), Orderly(p), NEW q, q = FinishBody(p)
    PROVE  q \in ParserState /\ q.state = "done" /\ Answered(q, p, b) /\ Orderly(q)
<1>1. PICK k : k = ClosedOf(p)
  OBVIOUS
<1>2. PICK u : u = IF k.marker = None THEN k ELSE Literal(k)
  OBVIOUS
<1>3. PICK f : f = Flush(u)
  OBVIOUS
<1>4. q = [f EXCEPT !.state = "done"]
  BY <1>1, <1>2, <1>3, Zenon DEF FinishBody, ClosedOf
<1>5. Closed(k, p, b)
  BY <1>1, ClosesLine
<1>6. PICK s : s = Prose(b)
  OBVIOUS
<1>7. k \in ParserState /\ Prosed(k, s) /\ s \in Text
  BY <1>5, <1>6 DEF Closed, Prosed
<1>8. u \in ParserState /\ SameLine(u, k) /\ SameCitations(u, k) /\ Grows(u, k) /\ Out(u) = Rendered(s)
  <2>1. CASE k.marker = None
    <3>1. u = k
      BY <1>2, <2>1
    <3>2. Out(k) = Rendered(s)
      BY <1>7, <2>1 DEF Prosed
    <3> QED
      BY <1>7, <3>1, <3>2, GrowsByNothing DEF SameLine, SameCitations
  <2>2. CASE k.marker # None
    <3>1. u = Literal(k)
      BY <1>2, <2>2
    <3>2. /\ u \in ParserState /\ SameLine(u, k) /\ SameCitations(u, k) /\ Grows(u, k)
          /\ Out(u) = Out(k) \o (<<"[">> \o k.marker)
      BY <1>7, <2>2, <3>1, LiteralIs
    <3>3. PICK o, w : Ahead(s, o, w) /\ k.marker = SubSeq(s, o + 1, Len(s)) /\ Out(k) = Rendered(w)
      BY <1>7, <2>2 DEF Prosed
    <3>4. Rendered(w) \o (<<"[">> \o SubSeq(s, o + 1, Len(s))) = Rendered(s)
      BY <3>3, OpenText
    <3> QED
      BY <3>2, <3>3, <3>4
  <2> QED
    BY <2>1, <2>2
<1>9. f \in ParserState /\ f.text = Out(u) /\ SameLine(f, u) /\ SameCitations(f, u)
  BY <1>3, <1>8, FlushIs DEF Out
<1>10. Grows(f, u)
  <2>1. u.pending \in Text
    BY <1>8, Fields
  <2> QED
    BY <1>9, <2>1 DEF Grows, Out
<1>11. f.cited = p.cited /\ f.events = p.events
  BY <1>5, <1>8, <1>9 DEF Closed, SameCitations
<1>12. Grows(k, p)
  BY <1>5, GrowsByNothing DEF Closed
<1>13. Grows(f, p)
  <2>1. Grows(u, p)
    BY <1>8, <1>12, GrowsTwice
  <2> QED
    BY <1>10, <2>1, GrowsTwice
<1>14. Orderly(f)
  BY <1>9, <1>11, <1>13, OrderlyStep DEF Told
<1>15. q \in ParserState /\ q.state = "done"
  BY <1>4, <1>9 DEF ParserState
<1>16. /\ q.verdict = f.verdict /\ q.final = f.final /\ q.text = f.text
       /\ q.cited = f.cited /\ q.dropped = f.dropped /\ q.events = f.events
  BY <1>4, <1>9 DEF ParserState
<1>17. Orderly(q)
  BY <1>14, <1>16, Zenon DEF Orderly, OrderedAt
<1>18. Answered(q, p, b)
  <2>1. f.verdict = p.verdict /\ f.final = TrailingVerdict(b)
    BY <1>5, <1>8, <1>9 DEF Closed, SameLine
  <2>2. f.cited = k.cited /\ f.dropped = k.dropped
    BY <1>8, <1>9 DEF SameCitations
  <2>3. k.cited = Citations(s) /\ k.dropped = DroppedMarkers(s)
    BY <1>7 DEF Prosed
  <2> QED
    BY <1>6, <1>8, <1>9, <1>16, <2>1, <2>2, <2>3 DEF Answered
<1> QED
  BY <1>15, <1>17, <1>18

\* What finish() leaves is the answer of the completion r.
Reference(p, r) ==
    LET body == IF Undecided(r) THEN <<>> ELSE Body(r)
    IN  /\ p.text = Rendered(Prose(body))
        /\ p.verdict = HeaderVerdict(r)
        /\ p.final = TrailingVerdict(body)
        /\ p.cited = Citations(Prose(body))
        /\ p.dropped = DroppedMarkers(Prose(body))

\* The inductive invariant.
ParserInv ==
    /\ parser \in ParserState /\ raw \in Text
    /\ parser.state # "done" => CharRead(parser, raw) /\ parser.pending = <<>>
    /\ parser.state = "done" => Reference(parser, raw) /\ Orderly(parser)

\* The invariant, action by action.
LEMMA InitHolds == Init => ParserInv
<1> SUFFICES ASSUME Init PROVE ParserInv
  OBVIOUS
<1>1. <<>> \in Text
  BY NoText
<1>2. parser = Fresh(<<>>) /\ raw = <<>>
  BY DEF Init, Fresh, NewParser
<1>3. parser \in ParserState /\ parser.state = "verdict" /\ parser.pending = <<>>
  BY <1>1, <1>2, FreshIs
<1>4. CharRead(parser, raw)
  BY <1>1, <1>2, <1>3, EmptyFacts DEF CharRead
<1> QED
  BY <1>1, <1>2, <1>3, <1>4 DEF ParserInv

LEMMA FeedHolds ==
    ASSUME ParserInv, NEW text \in Openings \cup Fragments, Feed(text)
    PROVE  ParserInv'
<1>1. text \in Text
  BY SlicesAssumption
<1>2. CharRead(parser, raw)
  BY DEF ParserInv, Feed
<1>3. PICK q : q = Fed(parser, text)
  OBVIOUS
<1>4. CharRead(q, raw \o text)
  BY <1>1, <1>2, <1>3, ReadsSlice
<1>5. parser' = Flush(q) /\ raw' = raw \o text
  BY <1>3 DEF Feed
<1>6. CharRead(parser', raw') /\ parser'.pending = <<>>
  BY <1>4, <1>5, FlushReads
<1>7. parser' \in ParserState /\ raw' \in Text /\ parser'.state # "done"
  BY <1>6 DEF CharRead
<1> QED
  BY <1>6, <1>7 DEF ParserInv

LEMMA FinishHolds == ASSUME ParserInv, Finish PROVE ParserInv'
<1>1. raw' = raw /\ raw \in Text /\ parser \in ParserState
  BY DEF ParserInv, Finish
<1>2. CASE parser.state = "verdict" /\ parser' = FinishVerdict(parser)
  <2>1. CharRead(parser, raw)
    BY <1>2 DEF ParserInv
  <2>2. parser = Fresh(raw) /\ Undecided(raw)
    BY <1>2, <2>1 DEF CharRead
  <2>3. PICK a : a = Announce(Fresh(raw), Error)
    OBVIOUS
  <2>4. /\ a \in ParserState /\ a.state = "body" /\ a.verdict = Error /\ a.text = <<>> /\ a.pending = <<>>
        /\ a.cited = <<>> /\ a.dropped = <<>> /\ a.final = None /\ a.marker = None /\ a.line = <<>>
        /\ a.events = <<[kind |-> "verdict", what |-> Error, at |-> 0]>>
    BY <1>1, <2>3, AnnounceIs
  <2>5. parser' = [a EXCEPT !.state = "done"]
    BY <1>2, <2>2, <2>3 DEF FinishVerdict
  <2>6. parser' \in ParserState /\ parser'.state = "done"
    BY <2>4, <2>5 DEF ParserState
  <2>7. /\ parser'.verdict = a.verdict /\ parser'.final = a.final /\ parser'.text = a.text
        /\ parser'.cited = a.cited /\ parser'.dropped = a.dropped /\ parser'.events = a.events
    BY <2>4, <2>5 DEF ParserState
  <2>8. HeaderVerdict(raw) = Error
    <3>1. ~HasHeader(raw)
      BY <2>2, Bounds DEF HasHeader, Undecided
    <3> QED
      BY <3>1 DEF HeaderVerdict
  <2>9. Orderly(parser')
    BY <2>4, <2>6, <2>7, AnnouncedIsOrderly
  <2>10. Reference(parser', raw')
    BY <1>1, <2>2, <2>4, <2>7, <2>8, EmptyFacts DEF Reference, None
  <2> QED
    BY <1>1, <2>6, <2>9, <2>10 DEF ParserInv
<1>3. CASE parser.state = "body" /\ parser' = FinishBody(parser)
  <2>1. CharRead(parser, raw)
    BY <1>3 DEF ParserInv
  <2>2. InBody(parser, raw) /\ Orderly(parser)
    BY <1>3, <2>1 DEF CharRead
  <2>3. PICK b : b = Body(raw)
    OBVIOUS
  <2>4. parser' \in ParserState /\ parser'.state = "done" /\ Answered(parser', parser, b) /\ Orderly(parser')
    BY <1>1, <1>3, <2>2, <2>3, ReadsToTheEnd DEF InBody
  <2>5. Reference(parser', raw')
    BY <1>1, <2>2, <2>3, <2>4 DEF Reference, Answered, InBody
  <2> QED
    BY <1>1, <2>4, <2>5 DEF ParserInv
<1> QED
  BY <1>2, <1>3 DEF Finish

LEMMA StepHolds == ParserInv /\ [Next]_vars => ParserInv'
<1> SUFFICES ASSUME ParserInv, [Next]_vars PROVE ParserInv'
  OBVIOUS
<1>1. ASSUME NEW text \in IF slices = 0 THEN Openings ELSE Fragments, Feed(text)
      PROVE  ParserInv'
  <2>1. text \in Openings \cup Fragments
    OBVIOUS
  <2> QED
    BY <1>1, <2>1, FeedHolds
<1>2. CASE Finish
  BY <1>2, FinishHolds
<1>3. CASE UNCHANGED vars
  BY <1>3 DEF ParserInv, vars, CharRead, InBody
<1>4. CASE Dropped
  BY <1>3, <1>4 DEF Dropped
<1> QED
  BY <1>1, <1>2, <1>3, <1>4 DEF Next

\* The parser has read exactly what it was fed (the invariant of AnswerParser).
THEOREM ParserInvHolds == Spec => []ParserInv
BY InitHolds, StepHolds, PTL DEF Spec

LEMMA InvSettled == ParserInv => NothingLeakedOrWithheld
<1> SUFFICES ASSUME ParserInv PROVE NothingLeakedOrWithheld
  OBVIOUS
<1>1. ASSUME parser.state = "verdict"
      PROVE  parser.text = <<>> /\ parser.events = <<>> /\ Undecided(raw)
  <2>1. CharRead(parser, raw) /\ raw \in Text
    BY <1>1 DEF ParserInv
  <2>2. parser = Fresh(raw) /\ Undecided(raw)
    BY <1>1, <2>1 DEF CharRead
  <2> QED
    BY <2>1, <2>2, FreshIs
<1>2. ASSUME parser.state = "body" PROVE parser.text = Rendered(SettledProse(Body(raw)))
  <2>1. CharRead(parser, raw) /\ parser.pending = <<>> /\ parser \in ParserState
    BY <1>2 DEF ParserInv
  <2>2. HasRead(parser, Body(raw))
    BY <1>2, <2>1 DEF CharRead, InBody
  <2>3. Out(parser) = Rendered(SettledProse(Body(raw)))
    BY <2>1, <2>2, ShowsSettled
  <2>4. Out(parser) = parser.text
    BY <2>1, JoinNone, Fields DEF Out
  <2> QED
    BY <2>3, <2>4
<1> QED
  BY <1>1, <1>2 DEF NothingLeakedOrWithheld

LEMMA InvReference == ParserInv => AnswerIsReference
<1> SUFFICES ASSUME ParserInv, parser.state = "done" PROVE AnswerIsReference
  BY DEF AnswerIsReference
<1>1. Reference(parser, raw) /\ parser \in ParserState
  BY DEF ParserInv
<1>2. PICK body : body = IF Undecided(raw) THEN <<>> ELSE Body(raw)
  OBVIOUS
<1>3. /\ parser.text = Rendered(Prose(body))
      /\ parser.verdict = HeaderVerdict(raw)
      /\ parser.final = TrailingVerdict(body)
      /\ parser.cited = Citations(Prose(body))
      /\ parser.dropped = DroppedMarkers(Prose(body))
  BY <1>1, <1>2, Zenon DEF Reference
<1>4. HeaderVerdict(raw) = None => HeaderVerdict(raw) = Error
  <2>1. HeaderVerdict(raw) \in Verdicts \cup {Error}
    BY VerdictOfType DEF HeaderVerdict
  <2>2. None \notin Verdicts
    BY ParserAssumption, Zenon DEF None
  <2> QED
    BY <2>1, <2>2
<1>5. FinalVerdict(parser) = IF TrailingVerdict(body) # NoValue THEN TrailingVerdict(body)
                             ELSE HeaderVerdict(raw)
  BY <1>3, <1>4 DEF FinalVerdict, None
<1> QED
  BY <1>2, <1>3, <1>5, Zenon DEF AnswerIsReference

LEMMA InvOrdered == ParserInv => EventsInOrder
<1> SUFFICES ASSUME ParserInv PROVE EventsInOrder
  OBVIOUS
<1>1. CASE parser.state = "verdict"
  <2>1. CharRead(parser, raw) /\ raw \in Text
    BY <1>1 DEF ParserInv
  <2>2. parser = Fresh(raw)
    BY <1>1, <2>1 DEF CharRead
  <2>3. parser.text = <<>> /\ parser.events = <<>>
    BY <2>1, <2>2, FreshIs
  <2> QED
    BY <2>3 DEF EventsInOrder
<1>2. CASE parser.state # "verdict"
  <2>1. Orderly(parser)
    BY <1>2 DEF ParserInv, CharRead
  <2>2. \A i \in DOMAIN parser.events : parser.events[i].kind = "verdict" <=> i = 1
    BY <2>1, Zenon DEF Orderly, OrderedAt
  <2>3. \A i \in DOMAIN parser.events : i > 1 =>
            IsSuffix(<<"[">> \o Numeral[parser.events[i].what] \o <<"]">>,
                     SubSeq(parser.text, 1, parser.events[i].at))
    BY <2>1, Zenon DEF Orderly, OrderedAt
  <2>4. /\ parser.events # <<>> /\ parser.events[1].at = 0
        /\ [i \in 1..Len(parser.events) - 1 |-> parser.events[i + 1].what] = parser.cited
        /\ IsInjective(parser.cited)
    BY <2>1 DEF Orderly
  <2> QED
    BY <2>2, <2>3, <2>4, Zenon DEF EventsInOrder
<1> QED
  BY <1>1, <1>2

\* While the stream runs, feed() has sent the client exactly the rendering of the
\* settled part of the body: no token, no marker that may be dropped, no prose late.
THEOREM SettledIsSent == Spec => []NothingLeakedOrWithheld
BY ParserInvHolds, InvSettled, PTL

\* After finish() text, verdict, citations and dropped markers are those of the
\* whole completion read at once, however it was sliced.
THEOREM AnswerIsTheReference == Spec => []AnswerIsReference
BY ParserInvHolds, InvReference, PTL

\* The verdict event comes first and once, and a citation event right behind the
\* text of its marker, each chunk once.
THEOREM EventsComeInOrder == Spec => []EventsInOrder
BY ParserInvHolds, InvOrdered, PTL
==============================================================================
