---------------------------- MODULE AnswerParser ----------------------------
(***************************************************************************)
(* class AnswerParser of generation/citations.py: the state machine that   *)
(* turns provider text, in whatever slices it arrives, into a verdict,     *)
(* text deltas and citations.  It must decide as early as possible and     *)
(* never take anything back: a token may not reach the client, not even a  *)
(* prefix of it, and prose may not wait for the end of its line.           *)
(*                                                                         *)
(* The text deltas are kept concatenated (text); a verdict or a citation   *)
(* event carries the length of the text emitted before it.                 *)
(***************************************************************************)
EXTENDS AnswerReference

CONSTANTS
    Openings,    \* slices a completion may begin with
    Fragments,   \* slices it may go on with
    MaxSlices    \* how many slices of a completion are explored

VARIABLES
    parser,      \* the fields of the parser and the events it returned
    raw,         \* everything fed so far
    slices       \* how many slices that was

vars == <<parser, raw, slices>>

ASSUME SlicesAssumption == Openings \cup Fragments \subseteq Text

None == NoValue

\* _seen_markers is the set of what was cited, and is left out.
NewParser ==
    [state |-> "verdict", verdict |-> None, buffer |-> <<>>, marker |-> None,
     pending |-> <<>>, line |-> <<>>, final |-> None, text |-> <<>>,
     cited |-> <<>>, dropped |-> <<>>, events |-> <<>>]

Flush(p) == [p EXCEPT !.text = @ \o p.pending, !.pending = <<>>]

Emit(p, kind, what) ==
    [p EXCEPT !.events = Append(@, [kind |-> kind, what |-> what, at |-> Len(p.text)])]

\* Fault: the event leaves before the text it points into.
CiteEarly(p, n) ==
    LET marked == [p EXCEPT !.marker = None,
                            !.pending = @ \o <<"[">> \o Numeral[n] \o <<"]">>]
    IN  IF Contains(p.cited, n) THEN Flush(marked)
        ELSE Flush(Emit([marked EXCEPT !.cited = Append(@, n)], "citation", n))

\* A marker is written in normal form, sent, and cited the first time.
Cite(p, n) ==
    LET sent == Flush([p EXCEPT !.marker = None,
                                !.pending = @ \o <<"[">> \o Numeral[n] \o <<"]">>])
    IN  IF Contains(p.cited, n) THEN sent
        ELSE Emit([sent EXCEPT !.cited = Append(@, n)], "citation", n)

\* _resolve_marker; int() raises on digits that are not decimal.
ResolveMarker(p) ==
    CASE \E i \in DOMAIN p.marker : DigitValue[p.marker[i]] = NoValue ->
            [p EXCEPT !.state = "raised"]
      [] \A i \in DOMAIN p.marker : DigitValue[p.marker[i]] # NoValue ->
            IF Citable(p.marker) THEN Cite(p, ValueOf(p.marker))
            ELSE [p EXCEPT !.marker = None, !.dropped = Append(@, ValueOf(p.marker))]

\* A newline lets the parser watch the next line for a token.
WatchNext(p, c) == IF c = "\n" THEN [p EXCEPT !.line = <<>>] ELSE p

OutsideMarker(p, c) ==
    IF c = "[" THEN Flush([p EXCEPT !.marker = <<>>])
               ELSE [p EXCEPT !.pending = Append(@, c)]

\* What was held as a marker is text after all.
Literal(p) == [p EXCEPT !.pending = @ \o <<"[">> \o p.marker, !.marker = None]

\* The character that breaks a marker is read again, as _feed_body would with
\* the line unwatched: it may open a marker or end the line.
FeedBodyChar(p, c) ==
    CASE p.marker = None -> OutsideMarker(p, c)
      [] p.marker # None /\ c \in DOMAIN DigitValue /\ Len(p.marker) < MaxMarkerDigits ->
            [p EXCEPT !.marker = Append(@, c)]
      [] p.marker \notin {None, <<>>} /\ c = "]" -> ResolveMarker(p)
      [] OTHER -> WatchNext(OutsideMarker(Literal(p), c), c)

\* The held line is blanks and letters of a token, and no marker is open while
\* a line is held: feeding it character by character appends it.
Release(p) == [p EXCEPT !.pending = @ \o p.line, !.line = None]

\* Fault: the indentation counts as part of the token.
CouldBeginExactly(s) == \E v \in Verdicts : IsPrefix(s, Tokens[v])

CouldBeginAVerdict(s) == \E v \in Verdicts : IsPrefix(WithoutIndent(s), Tokens[v])

LineVerdict(p) == VerdictOf(Stripped(p.line), None)

\* Fault: the first control line counts.
SwallowOnce(p) == [p EXCEPT !.final = IF @ = None THEN LineVerdict(p) ELSE @, !.line = <<>>]

\* A control line sets the verdict and leaves the text with its newline.
Swallow(p) == [p EXCEPT !.final = LineVerdict(p), !.line = <<>>]

FeedBody(p, c) ==
    CASE p.line = None -> WatchNext(FeedBodyChar(p, c), c)
      [] p.line # None /\ c = "\n" ->
            IF LineVerdict(p) # None THEN Swallow(p)
            ELSE WatchNext(FeedBodyChar(Release(p), c), c)
      [] p.line # None /\ c # "\n" ->
            IF CouldBeginAVerdict(Append(p.line, c)) THEN [p EXCEPT !.line = Append(@, c)]
            ELSE FeedBodyChar(Release(p), c)

FedBody(p, text) ==
    LET after[i \in 0..Len(text)] == IF i = 0 THEN p ELSE FeedBody(after[i - 1], text[i])
    IN  after[Len(text)]

Announce(p, v) ==
    Emit([p EXCEPT !.state = "body", !.verdict = v, !.buffer = <<>>], "verdict", v)

FeedVerdict(p, c) ==
    CASE c = "\n" -> Announce(p, VerdictOf(Stripped(p.buffer), Error))
      [] c # "\n" /\ Len(p.buffer) < MaxVerdictLine -> [p EXCEPT !.buffer = Append(@, c)]
      [] OTHER -> FedBody(Announce(p, Error), Append(p.buffer, c))

FeedChar(p, c) ==
    CASE p.state = "verdict" -> FeedVerdict(p, c)
      [] p.state = "body"    -> FeedBody(p, c)
      [] p.state = "raised"  -> p

Fed(p, text) ==
    LET after[i \in 0..Len(text)] == IF i = 0 THEN p ELSE FeedChar(after[i - 1], text[i])
    IN  after[Len(text)]

\* The end of the stream: a last line without a newline is still a line, and an
\* open marker was never one.
FinishBody(p) ==
    LET closed == CASE p.line = None -> p
                    [] p.line # None /\ LineVerdict(p) # None ->
                          [p EXCEPT !.final = LineVerdict(p), !.line = None]
                    [] p.line # None /\ LineVerdict(p) = None -> Release(p)
        unmarked == IF closed.marker = None THEN closed ELSE Literal(closed)
    IN  [Flush(unmarked) EXCEPT !.state = "done"]

FinishVerdict(p) == [Announce(p, Error) EXCEPT !.state = "done"]

-----------------------------------------------------------------------------
Init ==
    /\ parser = NewParser
    /\ raw = <<>>
    /\ slices = 0

\* feed() with one slice of provider text.
Feed(text) ==
    /\ parser.state \in {"verdict", "body"}
    /\ parser' = Flush(Fed(parser, text))
    /\ raw' = raw \o text
    /\ slices' = slices + 1

\* finish() at the end of the stream.
Finish ==
    /\ \/ parser.state = "verdict" /\ parser' = FinishVerdict(parser)
       \/ parser.state = "body" /\ parser' = FinishBody(parser)
    /\ UNCHANGED <<raw, slices>>

\* The parser is dropped with the answer it made, or with the exception.
Dropped ==
    /\ parser.state \in {"done", "raised"}
    /\ UNCHANGED vars

Next ==
    \/ \E text \in IF slices = 0 THEN Openings ELSE Fragments :
          slices < MaxSlices /\ Feed(text)
    \/ Finish
    \/ Dropped

Spec == Init /\ [][Next]_vars

-----------------------------------------------------------------------------
(***************************************************************************)
(* Properties.                                                             *)
(***************************************************************************)

\* verdict: the trailing token, or the header if there is none.
FinalVerdict(p) == CASE p.final # None -> p.final
                     [] p.final = None /\ p.verdict # None -> p.verdict
                     [] OTHER -> Error

\* While the stream runs, the client has been sent exactly the rendering of the
\* settled part of the body, however it was sliced: no letter of a verdict line
\* or a control line, nothing of a marker that may still be dropped, and no
\* prose is waiting.
NothingLeakedOrWithheld ==
    /\ parser.state = "verdict" => parser.text = <<>> /\ parser.events = <<>> /\ Undecided(raw)
    /\ parser.state = "body" => parser.text = Rendered(SettledProse(Body(raw)))

\* A finished answer is the one the whole completion reads as: the text, the
\* verdict of its last control line or else its header, the citations in order
\* of first use, and every marker that cites nothing.
AnswerIsReference ==
    parser.state = "done" =>
        LET body == IF Undecided(raw) THEN <<>> ELSE Body(raw)
        IN  /\ parser.text = Rendered(Prose(body))
            /\ parser.verdict = HeaderVerdict(raw)
            /\ FinalVerdict(parser) = IF TrailingVerdict(body) # NoValue
                                      THEN TrailingVerdict(body) ELSE HeaderVerdict(raw)
            /\ parser.cited = Citations(Prose(body))
            /\ parser.dropped = DroppedMarkers(Prose(body))

\* The client learns the verdict before any text and only once, and a citation
\* right after the text of the marker it explains, each one once.
EventsInOrder ==
    LET es == parser.events
        Citing(n) == <<"[">> \o Numeral[n] \o <<"]">>
    IN  /\ parser.text # <<>> => es # <<>>
        /\ \A i \in DOMAIN es : es[i].kind = "verdict" <=> i = 1
        /\ \A i \in DOMAIN es : i > 1 => IsSuffix(Citing(es[i].what), SubSeq(parser.text, 1, es[i].at))
        /\ es # <<>> => /\ es[1].at = 0 /\ IsInjective(parser.cited)
                    /\ [i \in 1..Len(es) - 1 |-> es[i + 1].what] = parser.cited

\* citations.py, _feed_body_char: what is not a marker after all is emitted
\* literally; no text of the provider makes the parser raise.
AnyTextIsRead == parser.state # "raised"
=============================================================================
