-------------------------- MODULE AnswerStreamProofs --------------------------
(***************************************************************************)
(* Proofs about AnswerStream, for answers of any length.  The frames the   *)
(* client has, the one on its way and the queue are one chain, in which    *)
(* every frame may come after the one before it and says what the pump     *)
(* knows.  The pump extends the chain at its end and the body moves the    *)
(* borders; neither breaks it.                                             *)
(***************************************************************************)
EXTENDS AnswerStream, SequenceTheorems, TLAPS

Frames == [kind : Kinds, verdict : Verdicts \cup {None}]

StreamTypeOK ==
    /\ pump \in Active \cup Over
    /\ header \in Tokens \cup {"error", None}
    /\ trailing \in Tokens \cup {None}
    /\ stop \in Stops \cup {None}
    /\ answer \in Verdicts \cup {None}
    /\ row \in Verdicts \cup {None}
    /\ claim \in {"held", "settled", "released"}
    /\ queue \in Seq(Frames)
    /\ pending \in Frames \cup {None}
    /\ body \in {"streaming", "ended", "gone"}
    /\ frames \in Seq(Frames)
    /\ outcome \in [verdict : Verdicts \cup {None}, error : {"upstream_error", None}]
    /\ errors \in Nat

\* Frame f may come after one of kind prev when the pump is at p and the
\* verdicts are h, t and a, and says what they say.
May(p, h, t, a, prev, f) ==
    \/ /\ f.kind = "verdict" /\ prev = "nothing"
       /\ h # None /\ f.verdict = h
    \/ /\ f.kind = "text" /\ prev \in {"verdict", "text"}
    \/ /\ f.kind = "correction" /\ prev \in {"verdict", "text"}
       /\ a # None /\ f.verdict = a /\ t # None /\ t # h
    \/ /\ f.kind = "complete" /\ p = "done" /\ f.verdict = a
       /\ \/ prev = "correction" /\ t # None /\ t # h
          \/ prev \in {"verdict", "text"} /\ ~(t # None /\ t # h)
    \/ /\ f.kind = "error" /\ p = "failed"
       /\ prev \in {"nothing", "verdict", "text", "correction"}
    \/ /\ f = Sentinel
       /\ \/ p = "done" /\ prev = "complete"
          \/ p = "failed" /\ prev = "error"
          \/ p = "cancelled" /\ prev \in {"nothing", "verdict", "text", "correction"}

\* The frames of s, after one of kind prev.
Chained(p, h, t, a, prev, s) ==
    /\ s # <<>> => May(p, h, t, a, prev, s[1])
    /\ \A i \in 1..Len(s) - 1 : May(p, h, t, a, s[i].kind, s[i + 1])

\* The kind a frame after prev and s would come after.
LastOf(prev, s) == IF s = <<>> THEN prev ELSE s[Len(s)].kind

-----------------------------------------------------------------------------
(***************************************************************************)
(* Chains.                                                                 *)
(***************************************************************************)

\* A chain that the pump has not ended yet stays one when the pump goes on.
LEMMA MayStays ==
    ASSUME NEW p \in Active, NEW h, NEW t, NEW a, NEW q, NEW g, NEW u, NEW b,
           h # None => g = h, a # None => b = a /\ u = t /\ g = h,
           NEW prev, NEW f, May(p, h, t, a, prev, f)
    PROVE  May(q, g, u, b, prev, f)
  BY DEF May, Active

LEMMA ChainedStays ==
    ASSUME NEW p \in Active, NEW h, NEW t, NEW a, NEW q, NEW g, NEW u, NEW b,
           h # None => g = h, a # None => b = a /\ u = t /\ g = h,
           NEW prev, NEW s, Chained(p, h, t, a, prev, s)
    PROVE  Chained(q, g, u, b, prev, s)
  BY MayStays DEF Chained

LEMMA ChainedAppend ==
    ASSUME NEW p, NEW h, NEW t, NEW a, NEW prev, NEW s \in Seq(Frames), NEW f \in Frames,
           Chained(p, h, t, a, prev, s), May(p, h, t, a, LastOf(prev, s), f)
    PROVE  /\ Append(s, f) \in Seq(Frames)
           /\ Chained(p, h, t, a, prev, Append(s, f))
           /\ LastOf(prev, Append(s, f)) = f.kind
  <1>1. /\ Append(s, f) \in Seq(Frames) /\ Append(s, f) # <<>>
        /\ Len(Append(s, f)) = Len(s) + 1 /\ Len(s) \in Nat
        /\ \A i \in 1..Len(s) : Append(s, f)[i] = s[i]
        /\ Append(s, f)[Len(s) + 1] = f
    OBVIOUS
  <1>2. LastOf(prev, Append(s, f)) = f.kind
    BY <1>1 DEF LastOf
  <1>3. May(p, h, t, a, prev, Append(s, f)[1])
    <2>1. CASE s = <<>>
      BY <1>1, <2>1 DEF LastOf
    <2>2. CASE s # <<>>
      <3>1. 1 \in 1..Len(s)
        BY <2>2, EmptySeq
      <3>. QED
        BY <1>1, <2>2, <3>1 DEF Chained
    <2>. QED
      BY <2>1, <2>2
  <1>4. ASSUME NEW i \in 1..Len(Append(s, f)) - 1
        PROVE  May(p, h, t, a, Append(s, f)[i].kind, Append(s, f)[i + 1])
    <2>1. i \in 1..Len(s)
      BY <1>1
    <2>2. CASE i = Len(s)
      <3>1. s # <<>>
        BY <2>1
      <3>. QED
        BY <1>1, <2>1, <2>2, <3>1 DEF LastOf
    <2>3. CASE i # Len(s)
      <3>1. i \in 1..Len(s) - 1 /\ i + 1 \in 1..Len(s)
        BY <1>1, <2>1, <2>3
      <3>. QED
        BY <1>1, <2>1, <3>1 DEF Chained
    <2>. QED
      BY <2>2, <2>3
  <1>. QED
    BY <1>1, <1>2, <1>3, <1>4 DEF Chained

LEMMA ChainedTail ==
    ASSUME NEW p, NEW h, NEW t, NEW a, NEW prev, NEW s \in Seq(Frames), s # <<>>,
           Chained(p, h, t, a, prev, s)
    PROVE  /\ Head(s) \in Frames /\ Tail(s) \in Seq(Frames)
           /\ May(p, h, t, a, prev, Head(s))
           /\ Chained(p, h, t, a, Head(s).kind, Tail(s))
           /\ LastOf(Head(s).kind, Tail(s)) = LastOf(prev, s)
  <1>1. /\ Head(s) \in Frames /\ Tail(s) \in Seq(Frames) /\ Head(s) = s[1]
        /\ Len(s) \in Nat \ {0} /\ Len(Tail(s)) = Len(s) - 1
        /\ \A i \in 1..Len(Tail(s)) : Tail(s)[i] = s[i + 1]
    BY HeadTailProperties, EmptySeq
  <1>2. Tail(s) # <<>> => Len(Tail(s)) \in Nat \ {0}
    BY <1>1, EmptySeq
  <1>3. ASSUME NEW i \in 1..Len(Tail(s)) - 1
        PROVE  May(p, h, t, a, Tail(s)[i].kind, Tail(s)[i + 1])
    <2>1. i \in 1..Len(Tail(s)) /\ i + 1 \in 1..Len(Tail(s)) /\ i + 1 \in 1..Len(s) - 1
      BY <1>1
    <2>2. Tail(s)[i] = s[i + 1] /\ Tail(s)[i + 1] = s[(i + 1) + 1]
      BY <1>1, <2>1
    <2>. QED
      BY <2>1, <2>2 DEF Chained
  <1>4. Tail(s) # <<>> => May(p, h, t, a, Head(s).kind, Tail(s)[1])
    <2>. SUFFICES ASSUME Tail(s) # <<>> PROVE May(p, h, t, a, Head(s).kind, Tail(s)[1])
      OBVIOUS
    <2>1. 1 \in 1..Len(Tail(s)) /\ 1 \in 1..Len(s) - 1
      BY <1>1, <1>2
    <2>2. Tail(s)[1] = s[1 + 1]
      BY <1>1, <2>1
    <2>. QED
      BY <1>1, <2>1, <2>2 DEF Chained
  <1>5. LastOf(Head(s).kind, Tail(s)) = LastOf(prev, s)
    <2>1. CASE Tail(s) = <<>>
      <3>1. Len(s) = 1
        BY <1>1, <2>1
      <3>. QED
        BY <1>1, <2>1, <3>1 DEF LastOf
    <2>2. CASE Tail(s) # <<>>
      <3>1. Len(Tail(s)) \in 1..Len(Tail(s)) /\ Len(Tail(s)) + 1 = Len(s)
        BY <1>1, <1>2, <2>2
      <3>2. Tail(s)[Len(Tail(s))] = s[Len(s)]
        BY <1>1, <3>1
      <3>. QED
        BY <2>2, <3>2 DEF LastOf
    <2>. QED
      BY <2>1, <2>2
  <1>. QED
    BY <1>1, <1>3, <1>4, <1>5 DEF Chained

-----------------------------------------------------------------------------
(***************************************************************************)
(* The invariant.                                                          *)
(***************************************************************************)

Chain(prev, s) == Chained(pump, header, trailing, answer, prev, s)

\* What the head of the queue comes after, and what the next frame will.
Before == IF pending # None THEN pending.kind ELSE LastOf("nothing", frames)
Newest == LastOf(Before, queue)

\* The chain, from the first frame the client got to the last one queued.
Ordered ==
    /\ Chain("nothing", frames)
    /\ \A i \in 1..Len(frames) : frames[i].kind # "done"
    /\ body = "streaming" =>
          /\ pending # None =>
                May(pump, header, trailing, answer, LastOf("nothing", frames), pending)
          /\ Chain(Before, queue)

\* How far the chain is, by how far the pump is.
Reached ==
    /\ pump = "start" => Newest = "nothing"
    /\ pump = "reading" => IF header = None THEN Newest = "nothing"
                                            ELSE Newest \in {"verdict", "text"}
    /\ pump = "ended" => Newest \in {"verdict", "text"}
    /\ pump \in {"logging", "logged"} =>
          IF Reconciled THEN Newest = "correction" ELSE Newest \in {"verdict", "text"}

\* The verdicts, the row, the claim and the outcome, by how far the pump is.
Accounted ==
    /\ pump = "start" => header = None /\ trailing = None
    /\ pump \in {"start", "reading", "ended"} => answer = None
    /\ pump \in {"ended", "logging", "logged", "done"} => header # None
    /\ pump \in {"logging", "logged", "done"} =>
          answer # None /\ answer \in {"truncated", "refused", Parsed}
    /\ pump \in {"logged", "done"} => row = answer
    /\ pump \in Active => claim = "held" /\ outcome = NoOutcome
    /\ pump = "done" => claim = "settled" /\ outcome = [verdict |-> answer, error |-> None]
    /\ pump = "failed" => claim = "released" /\ outcome = [verdict |-> None, error |-> "upstream_error"]
    /\ pump = "cancelled" => claim = "released" /\ outcome = NoOutcome
    /\ errors > 0 => pump = "failed"

\* A body that returned had seen the end of the chain.
Closed ==
    /\ body = "ended" => /\ pump \in Over
                         /\ pump = "done" => LastOf("nothing", frames) = "complete"
                         /\ pump = "failed" => LastOf("nothing", frames) = "error"
                         /\ record # None => record = outcome
    /\ body = "streaming" => record = None

IInv ==
    /\ StreamTypeOK
    /\ Ordered
    /\ body = "streaming" => Reached
    /\ Accounted
    /\ Closed

-----------------------------------------------------------------------------
(***************************************************************************)
(* Steps of the pump.                                                      *)
(***************************************************************************)

LEMMA NothingIsNoFrame == None \notin Frames /\ Sentinel \in Frames
  BY NoneAssumption DEF Frames, Kinds, Sentinel, Frame

\* What a step of the pump leaves alone, and what it may set.
PumpStep ==
    /\ pump \in Active
    /\ UNCHANGED <<frames, pending, body, record>>
    /\ header # None => header' = header
    /\ answer # None => answer' = answer /\ trailing' = trailing /\ header' = header

\* The queue s would go on the chain, given what the pump knows now.
Extends(s) == Chained(pump', header', trailing', answer', Before, s)

LEMMA PumpExtends ==
    ASSUME IInv, PumpStep, StreamTypeOK', Accounted',
           body = "streaming" => Extends(queue') /\ Reached'
    PROVE  IInv'
  <1>0. /\ pump \in Active
        /\ frames' = frames /\ pending' = pending /\ body' = body /\ record' = record
        /\ header # None => header' = header
        /\ answer # None => answer' = answer /\ trailing' = trailing /\ header' = header
    BY DEF PumpStep
  <1>1. Chained(pump', header', trailing', answer', "nothing", frames)
    BY <1>0, ChainedStays DEF IInv, Ordered, Chain
  <1>2. ASSUME body = "streaming", pending # None
        PROVE  May(pump', header', trailing', answer', LastOf("nothing", frames), pending)
    BY <1>0, <1>2, MayStays DEF IInv, Ordered
  <1>3. Ordered'
    BY <1>0, <1>1, <1>2 DEF IInv, Ordered, Chain, Extends, Before, LastOf
  <1>4. Closed'
    BY <1>0 DEF IInv, Closed, Active, Over
  <1>. QED
    BY <1>0, <1>3, <1>4 DEF IInv

\* What is queued already stays in order; one more frame goes on it if it may.
LEMMA QueueStays ==
    ASSUME IInv, PumpStep, body = "streaming" PROVE Extends(queue)
  BY ChainedStays DEF IInv, PumpStep, Ordered, Chain, Extends

LEMMA PutOne ==
    ASSUME NEW s \in Seq(Frames), NEW f \in Frames, Extends(s),
           May(pump', header', trailing', answer', LastOf(Before, s), f)
    PROVE  /\ s \o <<f>> \in Seq(Frames) /\ Extends(s \o <<f>>)
           /\ LastOf(Before, s \o <<f>>) = f.kind
  <1>1. s \o <<f>> = Append(s, f)
    OBVIOUS
  <1>2. /\ Append(s, f) \in Seq(Frames) /\ Extends(Append(s, f))
        /\ LastOf(Before, Append(s, f)) = f.kind
    BY ChainedAppend DEF Extends
  <1>. QED
    BY <1>1, <1>2

LEMMA PutTwo ==
    ASSUME NEW s \in Seq(Frames), NEW f \in Frames, NEW g \in Frames, Extends(s),
           May(pump', header', trailing', answer', LastOf(Before, s), f),
           May(pump', header', trailing', answer', f.kind, g)
    PROVE  s \o <<f, g>> \in Seq(Frames) /\ Extends(s \o <<f, g>>)
  <1>1. s \o <<f, g>> = Append(Append(s, f), g)
    OBVIOUS
  <1>2. /\ Append(s, f) \in Seq(Frames) /\ Extends(Append(s, f))
        /\ LastOf(Before, Append(s, f)) = f.kind
    BY ChainedAppend DEF Extends
  <1>. QED
    <2>1. /\ Append(Append(s, f), g) \in Seq(Frames) /\ Extends(Append(Append(s, f), g))
      BY <1>2, ChainedAppend DEF Extends
    <2>. QED
      BY <1>1, <2>1

LEMMA BeforeStays ==
    ASSUME PumpStep PROVE Before' = Before
  BY DEF PumpStep, Before, LastOf

\* Steps of the pump that queue nothing.
LEMMA SilentSteps ==
    ASSUME IInv, OpenStream \/ ReadToken \/ ReadUsage \/ WriteRow
    PROVE  IInv'
  <1>. USE DEF connection, generation, ledger, telemetry
  <1>0. PumpStep /\ queue' = queue
    BY DEF IInv, Accounted, PumpStep, OpenStream, ReadToken, ReadUsage, WriteRow, Active
  <1>1. StreamTypeOK'
    BY DEF IInv, StreamTypeOK, OpenStream, ReadToken, ReadUsage, WriteRow, Active
  <1>2. Accounted'
    BY DEF IInv, Accounted, OpenStream, ReadToken, ReadUsage, WriteRow, Active, Parsed, NoOutcome
  <1>3. body = "streaming" => Extends(queue')
    BY <1>0, QueueStays
  <1>4. Newest' = Newest
    BY <1>0, BeforeStays DEF Newest, LastOf
  <1>5. body = "streaming" => Reached'
    BY <1>4 DEF IInv, Accounted, Reached, OpenStream, ReadToken, ReadUsage, WriteRow, Reconciled
  <1>. QED
    BY <1>0, <1>1, <1>2, <1>3, <1>5, PumpExtends

\* Steps that queue one frame f.
LEMMA OneFrame ==
    ASSUME IInv, PumpStep, Accounted', StreamTypeOK',
           NEW f \in Frames, queue' = queue \o <<f>>,
           body = "streaming" => May(pump', header', trailing', answer', Newest, f),
           Newest' = f.kind => Reached'
    PROVE  IInv'
  <1>1. ASSUME body = "streaming" PROVE Extends(queue') /\ Reached'
    <2>1. Extends(queue) /\ queue \in Seq(Frames)
      BY <1>1, QueueStays DEF IInv, StreamTypeOK
    <2>2. Extends(queue') /\ LastOf(Before, queue') = f.kind
      BY <1>1, <2>1, PutOne DEF Newest
    <2>3. Newest' = f.kind
      BY <2>2, BeforeStays DEF Newest, LastOf
    <2>. QED
      BY <2>2, <2>3
  <1>. QED
    BY <1>1, PumpExtends

LEMMA RefuseKeeps ==
    ASSUME IInv, RefuseWithoutEvidence PROVE IInv'
  <1>. USE DEF connection, generation, ledger, telemetry
  <1>. DEFINE f == Frame("verdict", "insufficient")
  <1>0. PumpStep /\ queue' = queue \o <<f>>
    BY DEF IInv, Accounted, PumpStep, RefuseWithoutEvidence, Active, Put
  <1>1. f \in Frames /\ f.kind = "verdict" /\ f.verdict = "insufficient"
    BY DEF Frame, Frames, Kinds, Verdicts, Tokens
  <1>2. StreamTypeOK'
    <2>1. queue' \in Seq(Frames)
      BY <1>0, <1>1 DEF IInv, StreamTypeOK
    <2>. QED
      BY <2>1 DEF IInv, StreamTypeOK, RefuseWithoutEvidence, Active, Verdicts, Tokens
  <1>3. Accounted'
    BY NoneAssumption
    DEF IInv, Accounted, RefuseWithoutEvidence, Active, Parsed, NoOutcome, Verdicts, Tokens
  <1>4. body = "streaming" => May(pump', header', trailing', answer', Newest, f)
    BY <1>1, NoneAssumption DEF IInv, Reached, RefuseWithoutEvidence, May, Verdicts, Tokens
  <1>5. Newest' = f.kind => Reached'
    BY <1>1 DEF IInv, Accounted, Reached, RefuseWithoutEvidence, Reconciled
  <1>. HIDE DEF f
  <1>. QED
    BY <1>0, <1>1, <1>2, <1>3, <1>4, <1>5, OneFrame

LEMMA ReadHeaderKeeps ==
    ASSUME IInv, ReadHeader PROVE IInv'
  <1>. USE DEF connection, generation, ledger, telemetry
  <1>1. PICK v \in Tokens \cup {"error"} :
            header' = v /\ queue' = queue \o <<Frame("verdict", v)>>
    BY DEF ReadHeader, Put
  <1>. DEFINE f == Frame("verdict", v)
  <1>2. f \in Frames /\ f.kind = "verdict" /\ f.verdict = v
    BY DEF Frame, Frames, Kinds, Verdicts
  <1>3. PumpStep
    BY DEF IInv, Accounted, PumpStep, ReadHeader, Active
  <1>4. StreamTypeOK'
    <2>1. queue' \in Seq(Frames)
      BY <1>1, <1>2 DEF IInv, StreamTypeOK
    <2>. QED
      BY <1>1, <2>1 DEF IInv, StreamTypeOK, ReadHeader
  <1>5. Accounted'
    BY DEF IInv, Accounted, ReadHeader, Active, NoOutcome
  <1>6. header' # None
    BY <1>1, NoneAssumption DEF Verdicts
  <1>7. body = "streaming" => May(pump', header', trailing', answer', Newest, f)
    BY <1>1, <1>2, <1>6 DEF IInv, Reached, ReadHeader, May
  <1>8. Newest' = f.kind => Reached'
    BY <1>2, <1>6 DEF Reached, ReadHeader
  <1>. HIDE DEF f
  <1>9. queue' = queue \o <<f>>
    BY <1>1 DEF f
  <1>. QED
    BY <1>2, <1>3, <1>4, <1>5, <1>7, <1>8, <1>9, OneFrame

LEMMA ReadTextKeeps ==
    ASSUME IInv, ReadText PROVE IInv'
  <1>. USE DEF connection, generation, ledger, telemetry
  <1>. DEFINE f == Frame("text", None)
  <1>1. PumpStep /\ queue' = queue \o <<f>>
    BY DEF PumpStep, ReadText, Active, Put
  <1>2. f \in Frames /\ f.kind = "text"
    BY DEF Frame, Frames, Kinds
  <1>3. StreamTypeOK'
    <2>1. queue' \in Seq(Frames)
      BY <1>1, <1>2 DEF IInv, StreamTypeOK
    <2>. QED
      BY <2>1 DEF IInv, StreamTypeOK, ReadText
  <1>4. Accounted'
    BY DEF IInv, Accounted, ReadText, Active, NoOutcome
  <1>5. body = "streaming" => May(pump', header', trailing', answer', Newest, f)
    BY <1>2 DEF IInv, Reached, ReadText, May
  <1>6. Newest' = f.kind => Reached'
    BY <1>2 DEF Reached, ReadText
  <1>. HIDE DEF f
  <1>. QED
    BY <1>1, <1>2, <1>3, <1>4, <1>5, <1>6, OneFrame

LEMMA ReadEndKeeps ==
    ASSUME IInv, ReadEnd PROVE IInv'
  <1>. USE DEF connection, generation, ledger, telemetry
  <1>. DEFINE f == Frame("verdict", "error")
  <1>1. PumpStep
    BY DEF IInv, Accounted, PumpStep, ReadEnd, Active
  <1>2. f \in Frames /\ f.kind = "verdict" /\ f.verdict = "error"
    BY DEF Frame, Frames, Kinds, Verdicts
  <1>3. header' # None /\ Accounted'
    BY NoneAssumption DEF IInv, Accounted, ReadEnd, Active, NoOutcome, Verdicts
  <1>4. CASE header = None
    <2>1. header' = "error" /\ queue' = queue \o <<f>>
      BY <1>4 DEF ReadEnd, Put
    <2>2. StreamTypeOK'
      <3>1. queue' \in Seq(Frames)
        BY <1>2, <2>1 DEF IInv, StreamTypeOK
      <3>. QED
        BY <2>1, <3>1 DEF IInv, StreamTypeOK, ReadEnd, Active
    <2>3. body = "streaming" => May(pump', header', trailing', answer', Newest, f)
      BY <1>2, <1>3, <1>4, <2>1 DEF IInv, Reached, ReadEnd, May
    <2>4. Newest' = f.kind => Reached'
      BY <1>2 DEF Reached, ReadEnd
    <2>. HIDE DEF f
    <2>. QED
      BY <1>1, <1>2, <1>3, <2>1, <2>2, <2>3, <2>4, OneFrame
  <1>5. CASE header # None
    <2>1. header' = header /\ queue' = queue
      BY <1>5 DEF ReadEnd
    <2>2. StreamTypeOK'
      BY <2>1 DEF IInv, StreamTypeOK, ReadEnd, Active
    <2>3. Newest' = Newest
      BY <1>1, <2>1, BeforeStays DEF Newest, LastOf
    <2>4. body = "streaming" => Reached'
      BY <1>5, <2>3 DEF IInv, Reached, ReadEnd
    <2>. QED
      BY <1>1, <1>3, <2>1, <2>2, <2>4, PumpExtends, QueueStays
  <1>. QED
    BY <1>4, <1>5

LEMMA CloseKeeps ==
    ASSUME IInv, Close PROVE IInv'
  <1>. USE DEF connection, generation, ledger, telemetry
  <1>. DEFINE f == Frame("correction", answer')
  <1>1. PumpStep
    BY DEF IInv, Accounted, PumpStep, Close, Active
  <1>2. /\ answer' \in Verdicts /\ answer' # None
        /\ answer' \in {"truncated", "refused", Parsed}
    <2>1. Parsed \in Tokens \cup {"error"}
      BY DEF IInv, StreamTypeOK, Accounted, Close, Parsed
    <2>. QED
      BY <2>1, NoneAssumption DEF Close, VerdictFor, Verdicts
  <1>3. f \in Frames /\ f.kind = "correction" /\ f.verdict = answer'
    BY <1>2 DEF Frame, Frames, Kinds
  <1>4. Accounted'
    BY <1>2 DEF IInv, Accounted, Close, Active, NoOutcome, Parsed
  <1>5. CASE Reconciled
    <2>1. queue' = queue \o <<f>>
      BY <1>5 DEF Close, Put
    <2>2. StreamTypeOK'
      <3>1. queue' \in Seq(Frames)
        BY <1>3, <2>1 DEF IInv, StreamTypeOK
      <3>. QED
        BY <1>2, <3>1 DEF IInv, StreamTypeOK, Close, Active
    <2>3. body = "streaming" => May(pump', header', trailing', answer', Newest, f)
      BY <1>2, <1>3, <1>5 DEF IInv, Reached, Close, May, Reconciled
    <2>4. Newest' = f.kind => Reached'
      BY <1>3, <1>5 DEF Reached, Close, Reconciled
    <2>. HIDE DEF f
    <2>. QED
      BY <1>1, <1>3, <1>4, <2>1, <2>2, <2>3, <2>4, OneFrame
  <1>6. CASE ~Reconciled
    <2>1. queue' = queue
      <3>1. queue' = queue \o <<>>
        BY <1>6 DEF Close, Put
      <3>. QED
        BY <3>1, ConcatEmptySeq DEF IInv, StreamTypeOK
    <2>2. StreamTypeOK'
      BY <1>2, <2>1 DEF IInv, StreamTypeOK, Close, Active
    <2>3. Newest' = Newest
      BY <1>1, <2>1, BeforeStays DEF Newest, LastOf
    <2>4. body = "streaming" => Reached'
      BY <1>6, <2>3 DEF IInv, Reached, Close, Reconciled
    <2>. QED
      BY <1>1, <1>4, <2>1, <2>2, <2>4, PumpExtends, QueueStays
  <1>. QED
    BY <1>5, <1>6

LEMMA CompleteKeeps ==
    ASSUME IInv, Complete PROVE IInv'
  <1>. USE DEF connection, generation, ledger, telemetry
  <1>. DEFINE f == Frame("complete", answer)
  <1>1. PumpStep /\ queue' = queue \o <<f, Sentinel>>
    BY DEF PumpStep, Complete, Active, Put
  <1>2. /\ f \in Frames /\ f.kind = "complete" /\ f.verdict = answer
        /\ Sentinel \in Frames /\ Sentinel.kind = "done"
    BY NothingIsNoFrame DEF IInv, StreamTypeOK, Frame, Frames, Kinds, Sentinel
  <1>3. Accounted'
    BY DEF IInv, StreamTypeOK, Accounted, Complete, Active, NoOutcome, Parsed
  <1>4. body = "streaming" => Extends(queue') /\ Reached'
    <2>1. Reached'
      BY DEF Reached, Complete
    <2>. SUFFICES ASSUME body = "streaming" PROVE Extends(queue')
      BY <2>1
    <2>2. May(pump', header', trailing', answer', Newest, f)
      BY <1>2 DEF IInv, Reached, Complete, May, Reconciled
    <2>3. May(pump', header', trailing', answer', f.kind, Sentinel)
      BY <1>2 DEF Complete, May
    <2>4. Extends(queue) /\ queue \in Seq(Frames)
      BY <1>1, QueueStays DEF IInv, StreamTypeOK
    <2>. HIDE DEF f
    <2>. QED
      BY <1>1, <1>2, <2>2, <2>3, <2>4, PutTwo DEF Newest
  <1>5. StreamTypeOK'
    <2>1. queue' \in Seq(Frames)
      BY <1>1, <1>2 DEF IInv, StreamTypeOK
    <2>. QED
      BY <2>1 DEF IInv, StreamTypeOK, Complete, Active, Over
  <1>. QED
    BY <1>1, <1>3, <1>4, <1>5, PumpExtends

LEMMA RaiseKeeps ==
    ASSUME IInv, Raise PROVE IInv'
  <1>. USE DEF connection, generation, ledger, telemetry
  <1>. DEFINE f == Frame("error", None)
  <1>1. PumpStep /\ queue' = queue \o <<f, Sentinel>>
    BY DEF PumpStep, Raise, Put
  <1>2. /\ f \in Frames /\ f.kind = "error"
        /\ Sentinel \in Frames /\ Sentinel.kind = "done"
    BY NothingIsNoFrame DEF Frame, Frames, Kinds, Sentinel
  <1>3. Accounted'
    BY DEF IInv, StreamTypeOK, Accounted, Raise, Active, NoOutcome, Parsed
  <1>4. body = "streaming" => Extends(queue') /\ Reached'
    <2>1. Reached'
      BY DEF Reached, Raise
    <2>. SUFFICES ASSUME body = "streaming" PROVE Extends(queue')
      BY <2>1
    <2>2. May(pump', header', trailing', answer', Newest, f)
      BY <1>2 DEF IInv, Reached, Raise, Active, May
    <2>3. May(pump', header', trailing', answer', f.kind, Sentinel)
      BY <1>2 DEF Raise, May
    <2>4. Extends(queue) /\ queue \in Seq(Frames)
      BY <1>1, QueueStays DEF IInv, StreamTypeOK
    <2>. HIDE DEF f
    <2>. QED
      BY <1>1, <1>2, <2>2, <2>3, <2>4, PutTwo DEF Newest
  <1>5. StreamTypeOK'
    <2>1. queue' \in Seq(Frames)
      BY <1>1, <1>2 DEF IInv, StreamTypeOK
    <2>2. outcome' \in [verdict : Verdicts \cup {None}, error : {"upstream_error", None}]
      BY DEF IInv, StreamTypeOK, Raise
    <2>. QED
      BY <2>1, <2>2 DEF IInv, StreamTypeOK, Raise, Active, Over
  <1>. QED
    BY <1>1, <1>3, <1>4, <1>5, PumpExtends

LEMMA CancelKeeps ==
    ASSUME IInv, Cancel PROVE IInv'
  <1>. USE DEF connection, generation, ledger, telemetry
  <1>1. PumpStep /\ queue' = queue \o <<Sentinel>>
    BY DEF PumpStep, Cancel, Put
  <1>2. Accounted'
    BY DEF IInv, StreamTypeOK, Accounted, Cancel, Active, NoOutcome, Parsed
  <1>3. body = "streaming" => May(pump', header', trailing', answer', Newest, Sentinel)
    BY DEF IInv, Reached, Cancel, Active, May
  <1>4. Reached'
    BY DEF Reached, Cancel
  <1>5. StreamTypeOK'
    <2>1. queue' \in Seq(Frames)
      BY <1>1, NothingIsNoFrame DEF IInv, StreamTypeOK
    <2>. QED
      BY <2>1 DEF IInv, StreamTypeOK, Cancel, Active, Over
  <1>. QED
    BY <1>1, <1>2, <1>3, <1>4, <1>5, NothingIsNoFrame, OneFrame

-----------------------------------------------------------------------------
(***************************************************************************)
(* Steps of the body and of the middleware.                                *)
(***************************************************************************)

LEMMA TakeKeeps ==
    ASSUME IInv, Take PROVE IInv'
  <1>. USE DEF generation, ledger, telemetry
  <1>1. /\ Chained(pump, header, trailing, answer, LastOf("nothing", frames), queue)
        /\ queue \in Seq(Frames) /\ queue # <<>> /\ pending = None
        /\ pending' = Head(queue) /\ queue' = Tail(queue)
        /\ body = "streaming"
    BY DEF IInv, StreamTypeOK, Ordered, Before, Chain, Take
  <1>2. /\ Head(queue) \in Frames /\ Tail(queue) \in Seq(Frames)
        /\ May(pump, header, trailing, answer, LastOf("nothing", frames), Head(queue))
        /\ Chained(pump, header, trailing, answer, Head(queue).kind, Tail(queue))
        /\ LastOf(Head(queue).kind, Tail(queue)) = LastOf(LastOf("nothing", frames), queue)
    BY <1>1, ChainedTail
  <1>3. StreamTypeOK'
    BY <1>1, <1>2 DEF IInv, StreamTypeOK, Take
  <1>4. pending' # None /\ Before' = Head(queue).kind
    BY <1>1, <1>2, NothingIsNoFrame DEF Before
  <1>5. Ordered'
    BY <1>1, <1>2, <1>4 DEF IInv, Ordered, Chain, Take, LastOf
  <1>6. Newest' = Newest
    BY <1>1, <1>2, <1>4 DEF Newest, Before, LastOf
  <1>7. Reached'
    BY <1>1, <1>6 DEF IInv, Reached, Take, Reconciled
  <1>8. Accounted' /\ Closed'
    BY DEF IInv, Accounted, Closed, Take, Parsed, NoOutcome, LastOf
  <1>. QED
    BY <1>3, <1>5, <1>7, <1>8 DEF IInv

LEMMA DeliverKeeps ==
    ASSUME IInv, Deliver PROVE IInv'
  <1>. USE DEF generation, ledger, telemetry
  <1>1. /\ May(pump, header, trailing, answer, LastOf("nothing", frames), pending)
        /\ Chained(pump, header, trailing, answer, pending.kind, queue)
        /\ Chained(pump, header, trailing, answer, "nothing", frames)
        /\ pending \in Frames /\ frames \in Seq(Frames) /\ body = "streaming" /\ record = None
        /\ pending' = None
    BY DEF IInv, StreamTypeOK, Ordered, Before, Chain, Deliver, Closed
  <1>2. Accounted'
    BY DEF IInv, Accounted, Deliver, Parsed, NoOutcome
  <1>3. CASE pending = Sentinel
    <2>1. frames' = frames /\ body' = "ended" /\ record' = None
      BY <1>1, <1>3 DEF Deliver
    <2>2. StreamTypeOK'
      BY <1>3, <2>1 DEF IInv, StreamTypeOK, Deliver
    <2>3. Ordered'
      BY <2>1 DEF IInv, Ordered, Chain, Deliver
    <2>4. Closed'
      BY <1>1, <1>3, <2>1 DEF May, Sentinel, Frame, Closed, Deliver, LastOf, Over
    <2>. QED
      BY <1>2, <2>1, <2>2, <2>3, <2>4 DEF IInv
  <1>4. CASE pending # Sentinel
    <2>1. /\ frames' = Append(frames, pending) /\ record' = None
          /\ body' = IF pending.kind = "error" THEN "ended" ELSE "streaming"
      BY <1>1, <1>4 DEF Deliver
    <2>2. /\ Append(frames, pending) \in Seq(Frames)
          /\ Chained(pump, header, trailing, answer, "nothing", Append(frames, pending))
          /\ LastOf("nothing", Append(frames, pending)) = pending.kind
      BY <1>1, ChainedAppend
    <2>3. StreamTypeOK'
      BY <1>4, <2>1, <2>2 DEF IInv, StreamTypeOK, Deliver
    <2>4. pending.kind # "done"
      BY <1>1, <1>4 DEF May
    <2>5. Before' = pending.kind
      BY <1>1, <2>1, <2>2 DEF Before, LastOf
    <2>6. Ordered'
      <3>1. \A i \in 1..Len(frames') : frames'[i].kind # "done"
        BY <1>1, <2>1, <2>4 DEF IInv, Ordered
      <3>. QED
        BY <1>1, <2>1, <2>2, <2>5, <3>1 DEF Ordered, Chain, Deliver
    <2>7. Newest' = Newest
      BY <1>1, <2>5, NothingIsNoFrame DEF Newest, Before, Deliver, LastOf
    <2>8. Reached'
      BY <1>1, <2>7 DEF IInv, Reached, Deliver, Reconciled
    <2>9. Closed'
      BY <1>1, <2>1, <2>2 DEF May, Sentinel, Frame, Closed, Deliver, LastOf, Over
    <2>. QED
      BY <1>2, <2>3, <2>6, <2>8, <2>9 DEF IInv
  <1>. QED
    BY <1>3, <1>4

LEMMA OtherSteps ==
    ASSUME IInv, Heartbeat \/ Disconnect \/ WriteRecord \/ UNCHANGED vars
    PROVE  IInv'
  <1>. USE DEF generation, ledger, telemetry, connection, vars
  <1>1. StreamTypeOK'
    BY DEF IInv, StreamTypeOK, Heartbeat, Disconnect, WriteRecord
  <1>2. Accounted'
    BY DEF IInv, StreamTypeOK, Accounted, Heartbeat, Disconnect, WriteRecord, Parsed, NoOutcome, Active, Over
  <1>3. Closed'
    BY DEF IInv, Closed, Heartbeat, Disconnect, WriteRecord, LastOf
  <1>4. Ordered'
    BY DEF IInv, Ordered, Chain, Before, Heartbeat, Disconnect, WriteRecord, LastOf
  <1>5. body' = "streaming" => Reached'
    BY DEF IInv, Reached, Newest, Before, Heartbeat, Disconnect, WriteRecord, LastOf, Reconciled
  <1>. QED
    BY <1>1, <1>2, <1>3, <1>4, <1>5 DEF IInv

-----------------------------------------------------------------------------
(***************************************************************************)
(* The theorems.                                                           *)
(***************************************************************************)

LEMMA Invariance == Spec => []IInv
  <1>1. Init => IInv
    <2>. SUFFICES ASSUME Init PROVE IInv
      OBVIOUS
    <2>1. StreamTypeOK
      BY DEF Init, StreamTypeOK, NoOutcome, Active
    <2>2. Ordered /\ Reached /\ Closed
      BY DEF Init, Ordered, Chain, Chained, Before, Newest, LastOf, Reached, Closed
    <2>3. Accounted
      BY DEF Init, Accounted, NoOutcome, Active
    <2>. QED
      BY <2>1, <2>2, <2>3 DEF IInv
  <1>2. IInv /\ [Next]_vars => IInv'
    BY SilentSteps, RefuseKeeps, ReadHeaderKeeps, ReadTextKeeps, ReadEndKeeps, CloseKeeps,
       CompleteKeeps, RaiseKeeps, CancelKeeps, TakeKeeps, DeliverKeeps, OtherSteps
    DEF Next, Generate, Render, Finished
  <1>. QED
    BY <1>1, <1>2, PTL DEF Spec

\* What the chain says of the frames a client has.
LEMMA FramesInOrder ==
    ASSUME IInv, NEW i \in 1..Len(frames)
    PROVE  LET prev == IF i = 1 THEN "nothing" ELSE frames[i - 1].kind
           IN  /\ May(pump, header, trailing, answer, prev, frames[i])
               /\ frames[i].kind # "done"
               /\ i # 1 => prev \in Kinds \ {"done"}
  <1>1. /\ frames \in Seq(Frames) /\ Len(frames) \in Nat /\ frames # <<>>
        /\ \A j \in 1..Len(frames) : frames[j] \in Frames /\ frames[j].kind # "done"
        /\ Chained(pump, header, trailing, answer, "nothing", frames)
    BY DEF IInv, StreamTypeOK, Ordered, Chain
  <1>2. CASE i = 1
    BY <1>1, <1>2 DEF Chained
  <1>3. CASE i # 1
    <2>1. i - 1 \in 1..Len(frames) - 1 /\ i - 1 \in 1..Len(frames) /\ (i - 1) + 1 = i
      BY <1>1, <1>3
    <2>2. May(pump, header, trailing, answer, frames[i - 1].kind, frames[(i - 1) + 1])
      BY <1>1, <2>1 DEF Chained
    <2>. QED
      BY <1>1, <1>3, <2>1, <2>2 DEF Frames
  <1>. QED
    BY <1>2, <1>3

\* "complete" is the last frame, and says the verdict of a pump that is done.
LEMMA CompleteIsLast ==
    ASSUME IInv, Received("complete")
    PROVE  /\ pump = "done" /\ frames # <<>> /\ Last.kind = "complete" /\ Last.verdict = answer
           /\ Len(frames) \in Nat /\ Len(frames) > 1
           /\ \/ frames[Len(frames) - 1].kind = "correction" /\ Reconciled
              \/ frames[Len(frames) - 1].kind \in {"verdict", "text"} /\ ~Reconciled
  <1>1. Len(frames) \in Nat /\ DOMAIN frames = 1..Len(frames)
    BY DEF IInv, StreamTypeOK
  <1>2. PICK i \in 1..Len(frames) : frames[i].kind = "complete"
    BY <1>1 DEF Received
  <1>3. i = Len(frames)
    <2>. SUFFICES ASSUME i # Len(frames) PROVE FALSE
      OBVIOUS
    <2>0. Len(frames) \in Nat
      BY <1>1
    <2>1. i + 1 \in 1..Len(frames) /\ i + 1 # 1 /\ (i + 1) - 1 = i
      BY ONLY <2>0, i \in 1..Len(frames), i # Len(frames)
    <2>2. May(pump, header, trailing, answer, frames[i].kind, frames[i + 1])
          /\ frames[i + 1].kind # "done"
      BY <2>1, FramesInOrder
    <2>. QED
      BY <1>2, <2>2 DEF May, Sentinel, Frame
  <1>4. i # 1
    BY <1>2, FramesInOrder DEF May, Sentinel, Frame
  <1>5. May(pump, header, trailing, answer, frames[i - 1].kind, frames[i])
    BY <1>4, FramesInOrder
  <1>. QED
    BY <1>1, <1>2, <1>3, <1>4, <1>5 DEF May, Last, Sentinel, Frame, Reconciled

\* What a client is told is complete is charged and logged with that verdict,
\* and no stream ends with its claim still held.
THEOREM CompleteIsAccounted == Spec => []CompleteMeansAccounted
  <1>1. ASSUME IInv PROVE CompleteMeansAccounted
    <2>1. Received("complete") => row = Last.verdict /\ claim = "settled"
      BY <1>1, CompleteIsLast DEF IInv, Accounted
    <2>2. body = "ended" => claim # "held"
      BY <1>1 DEF IInv, StreamTypeOK, Closed, Accounted, Over
    <2>3. claim = "settled" => row # None
      BY <1>1 DEF IInv, StreamTypeOK, Accounted, Active, Over
    <2>. QED
      BY <2>1, <2>2, <2>3 DEF CompleteMeansAccounted
  <1>. QED
    BY <1>1, Invariance, PTL

\* No client is left believing a verdict the model took back: the last verdict
\* it was shown is that of "complete", unless the provider cut the answer off.
THEOREM NoStaleVerdict == Spec => []LastVerdictStands
  <1>1. ASSUME IInv, Received("complete"), Last.verdict \notin {"truncated", "refused"}
        PROVE  \E i \in DOMAIN frames :
                   /\ frames[i].kind \in {"verdict", "correction"}
                   /\ frames[i].verdict = Last.verdict
                   /\ \A j \in i + 1..Len(frames) : frames[j].kind \notin {"verdict", "correction"}
    <2>. DEFINE n == Len(frames)
    <2>1. /\ n \in Nat /\ n > 1 /\ DOMAIN frames = 1..n
          /\ Last.kind = "complete" /\ Last = frames[n]
      BY <1>1, CompleteIsLast DEF IInv, StreamTypeOK, Last
    <2>2. answer = Parsed /\ Last.verdict = answer /\ pump = "done" /\ header # None
      BY <1>1, CompleteIsLast DEF IInv, Accounted
    <2>3. CASE frames[n - 1].kind = "correction" /\ Reconciled
      <3>1. n - 1 \in 1..n /\ \A j \in (n - 1) + 1..n : j = n
        BY <2>1
      <3>2. May(pump, header, trailing, answer,
                IF n - 1 = 1 THEN "nothing" ELSE frames[(n - 1) - 1].kind, frames[n - 1])
        BY <1>1, <3>1, FramesInOrder
      <3>3. frames[n - 1].verdict = answer
        BY <2>3, <3>2 DEF May, Sentinel, Frame
      <3>. QED
        BY <2>1, <2>2, <2>3, <3>1, <3>3
    <2>4. CASE ~Reconciled
      <3>1. answer = header
        BY <2>2, <2>4 DEF Parsed, Reconciled
      <3>2. 1 \in 1..n
        BY <2>1
      <3>3. May(pump, header, trailing, answer, "nothing", frames[1]) /\ frames[1].kind # "done"
        BY <1>1, <3>2, FramesInOrder
      <3>4. frames[1].kind = "verdict" /\ frames[1].verdict = header
        BY <2>2, <3>3 DEF May, Sentinel, Frame
      <3>5. ASSUME NEW j \in 2..n PROVE frames[j].kind \notin {"verdict", "correction"}
        <4>1. j \in 1..n /\ j # 1
          BY <2>1
        <4>2. /\ May(pump, header, trailing, answer, frames[j - 1].kind, frames[j])
              /\ frames[j - 1].kind \in Kinds
          BY <1>1, <4>1, FramesInOrder
        <4>. QED
          BY <2>4, <4>2 DEF May, Kinds, Reconciled, Sentinel, Frame
      <3>. QED
        BY <2>1, <2>2, <3>1, <3>2, <3>4, <3>5
    <2>. QED
      BY <1>1, <2>3, <2>4, CompleteIsLast
  <1>2. IInv => LastVerdictStands
    BY <1>1 DEF LastVerdictStands
  <1>. QED
    BY <1>2, Invariance, PTL

\* The record of a stream the client stayed on says what the client was told.
THEOREM RecordIsTrue == Spec => []RecordMatchesStream
  <1>1. ASSUME IInv, record # None, body = "ended"
        PROVE  CASE Received("complete") -> record = [verdict |-> Last.verdict, error |-> None]
                 [] Received("error")    -> record.error = "upstream_error"
                 [] OTHER                -> pump = "cancelled"
    <2>1. record = outcome /\ pump \in Over
      BY <1>1 DEF IInv, Closed
    <2>2. Received("complete") =>
            ~Received("error") /\ record = [verdict |-> Last.verdict, error |-> None]
      <3>. SUFFICES ASSUME Received("complete")
                    PROVE  ~Received("error") /\ record = [verdict |-> Last.verdict, error |-> None]
        OBVIOUS
      <3>1. pump = "done" /\ Last.verdict = answer
        BY <1>1, CompleteIsLast
      <3>2. ASSUME NEW i \in 1..Len(frames), frames[i].kind = "error" PROVE FALSE
        BY <1>1, <3>1, <3>2, FramesInOrder DEF May, Sentinel, Frame
      <3>3. ~Received("error")
        BY <1>1, <3>2 DEF Received, IInv, StreamTypeOK
      <3>. QED
        BY <1>1, <2>1, <3>1, <3>3 DEF IInv, Accounted
    <2>3. Received("error") => record.error = "upstream_error"
      <3>. SUFFICES ASSUME Received("error") PROVE record.error = "upstream_error"
        OBVIOUS
      <3>1. PICK i \in 1..Len(frames) : frames[i].kind = "error"
        BY <1>1 DEF Received, IInv, StreamTypeOK
      <3>2. pump = "failed"
        BY <1>1, <3>1, FramesInOrder DEF May, Sentinel, Frame
      <3>. QED
        BY <1>1, <2>1, <3>2 DEF IInv, Accounted
    <2>4. pump \in {"done", "failed"} => Received("complete") \/ Received("error")
      <3>. SUFFICES ASSUME pump \in {"done", "failed"}
                    PROVE  Received("complete") \/ Received("error")
        OBVIOUS
      <3>1. frames # <<>> /\ frames[Len(frames)].kind \in {"complete", "error"}
        BY <1>1 DEF IInv, Closed, LastOf
      <3>2. Len(frames) \in DOMAIN frames
        BY <1>1, <3>1, EmptySeq, LenProperties DEF IInv, StreamTypeOK
      <3>. QED
        BY <3>1, <3>2 DEF Received
    <2>5. CASE Received("complete")
      BY <2>2, <2>5
    <2>6. CASE Received("error")
      BY <2>2, <2>3, <2>6
    <2>7. CASE ~Received("complete") /\ ~Received("error")
      BY <2>1, <2>4, <2>7 DEF Over
    <2>. QED
      BY <2>5, <2>6, <2>7
  <1>2. IInv => RecordMatchesStream
    BY <1>1 DEF RecordMatchesStream, IInv, Accounted
  <1>. QED
    BY <1>2, Invariance, PTL

\* Each frame the client receives is one the contract lets come next: the
\* stream implements StreamContract.
LEMMA DeliverIsPromised ==
    ASSUME IInv, Deliver PROVE [Contract!Next]_frames
  <1>1. CASE pending = Sentinel
    BY <1>1 DEF Deliver
  <1>2. CASE pending # Sentinel
    <2>1. /\ frames \in Seq(Frames) /\ pending \in Frames /\ frames' = Append(frames, pending)
          /\ May(pump, header, trailing, answer, LastOf("nothing", frames), pending)
      BY <1>2 DEF IInv, StreamTypeOK, Ordered, Deliver
    <2>2. /\ Len(frames') = Len(frames) + 1
          /\ SubSeq(frames', 1, Len(frames)) = frames
          /\ frames'[Len(frames')] = pending
      BY <2>1
    <2>3. Contract!LastKind = LastOf("nothing", frames)
      BY DEF Contract!LastKind, Contract!Kind, LastOf
    <2>4. pending.kind \in Contract!Kinds /\ Contract!MayFollow(pending.kind)
      BY <1>2, <2>1, <2>3 DEF May, Contract!Kinds, Contract!MayFollow
    <2>. QED
      BY <2>2, <2>4 DEF Contract!Next
  <1>. QED
    BY <1>1, <1>2

THEOREM StreamImplementsContract == Spec => KeepsContract
  <1>1. Init => Contract!Init
    BY DEF Init, Contract!Init
  <1>2. IInv /\ [Next]_vars => [Contract!Next]_frames
    <2>. SUFFICES ASSUME IInv, [Next]_vars PROVE [Contract!Next]_frames
      OBVIOUS
    <2>1. CASE Deliver
      BY <2>1, DeliverIsPromised
    <2>2. ASSUME Generate \/ Cancel \/ Take \/ Heartbeat \/ Disconnect \/ WriteRecord \/ UNCHANGED vars
          PROVE  frames' = frames
      BY <2>2 DEF Generate, RefuseWithoutEvidence, OpenStream, ReadHeader, ReadText, ReadToken,
                  ReadUsage, ReadEnd, Close, WriteRow, Complete, Raise, Cancel, Take, Heartbeat,
                  Disconnect, WriteRecord, vars, connection
    <2>. QED
      BY <2>1, <2>2 DEF Next, Render, Finished
  <1>. QED
    BY <1>1, <1>2, Invariance, PTL DEF Spec, KeepsContract, Contract!Spec

=============================================================================
