----------------------------- MODULE AnswerStream -----------------------------
(***************************************************************************)
(* One streamed answer: stream_answer of generation/service.py, the pump   *)
(* and the response body of api/routes/query.py, the heartbeats of         *)
(* api/sse.py and the completion record of api/middleware.py.              *)
(*                                                                         *)
(* Three coroutines share a queue and an outcome.  The pump drives the     *)
(* generator and outlives the connection; the body renders what the pump   *)
(* queued and is cancelled when the client leaves; the middleware writes   *)
(* the record when the body is over, wherever the pump is by then.  A step *)
(* below is what one of them does between two suspension points.           *)
(***************************************************************************)
EXTENDS Naturals, Sequences

CONSTANTS
    MaxDeltas,   \* text and citation events of an answer: a bound
    None

Tokens   == {"answered", "insufficient"}
Verdicts == Tokens \cup {"truncated", "refused", "error"}
Stops    == {"normal", "max_tokens", "refusal"}
Active   == {"start", "reading", "ended", "logging", "logged"}
Over     == {"done", "failed", "cancelled"}
Kinds    == {"verdict", "text", "correction", "complete", "error", "done"}

ASSUME StreamAssumption == MaxDeltas \in Nat
ASSUME NoneAssumption   ==
    /\ None \notin Verdicts \cup Stops \cup {"upstream_error"}
    /\ None \notin [kind : Kinds, verdict : Verdicts \cup {None}]

VARIABLES
    pump,        \* where the pump's task is suspended, or how it ended
    header,      \* the parser's header verdict
    trailing,    \* the parser's trailing verdict
    stop,        \* the provider's stop reason, once a Usage event was seen
    deltas,      \* how many text and citation events were queued
    answer,      \* the verdict _finalize was called with
    row,         \* the verdict of the committed query_log row
    claim,       \* the reservation: "held", "settled" or "released"
    queue,       \* what the pump put and the body has not taken
    pending,     \* what the body's outstanding __anext__ has taken
    body,        \* the response body: "streaming", "ended" or "gone"
    frames,      \* the frames the client has received
    idle,        \* the last thing the client received is a heartbeat
    outcome,     \* the outcome dict the pump shares with the middleware
    record,      \* the completion record
    errors       \* rag_qa_errors_total of this request's codes

generation == <<header, trailing, stop, deltas, answer>>
ledger     == <<row, claim>>
connection == <<pending, body, frames, idle>>
telemetry  == <<outcome, record, errors>>
vars       == <<pump, generation, ledger, queue, connection, telemetry>>

Frame(kind, verdict) == [kind |-> kind, verdict |-> verdict]

\* The sentinel that tells the body to return.
Sentinel == Frame("done", None)

NoOutcome == [verdict |-> None, error |-> None]

Put(items) == queue' = queue \o items

-----------------------------------------------------------------------------
(***************************************************************************)
(* The verdict of an answer.                                               *)
(***************************************************************************)

\* AnswerParser.verdict: the trailing token, or the header.
Parsed == IF trailing # None THEN trailing ELSE header

\* AnswerParser.verdict_reconciled.
Reconciled == trailing # None /\ trailing # header

\* _verdict_for: the provider's stop reason outranks the model's verdict.
VerdictFor(parsed, s) ==
    CASE s = "refusal"    -> "refused"
      [] s = "max_tokens" -> "truncated"
      [] OTHER            -> parsed

-----------------------------------------------------------------------------
Init ==
    /\ pump = "start"
    /\ header = None /\ trailing = None /\ stop = None /\ deltas = 0 /\ answer = None
    /\ row = None /\ claim = "held"
    /\ queue = <<>>
    /\ pending = None /\ body = "streaming" /\ frames = <<>> /\ idle = FALSE
    /\ outcome = NoOutcome /\ record = None /\ errors = 0

(***************************************************************************)
(* The pump.                                                               *)
(***************************************************************************)

\* No chunk was retrieved: a verdict at once, and no provider call.
RefuseWithoutEvidence ==
    /\ pump = "start"
    /\ pump' = "logging"
    /\ header' = "insufficient" /\ answer' = "insufficient"
    /\ Put(<<Frame("verdict", "insufficient")>>)
    /\ UNCHANGED <<trailing, stop, deltas, ledger, connection, telemetry>>

OpenStream ==
    /\ pump = "start"
    /\ pump' = "reading"
    /\ UNCHANGED <<generation, ledger, queue, connection, telemetry>>

\* The provider's text completes the verdict line.
ReadHeader ==
    /\ pump = "reading" /\ stop = None /\ header = None
    /\ \E v \in Tokens \cup {"error"} :
          header' = v /\ Put(<<Frame("verdict", v)>>)
    /\ UNCHANGED <<pump, trailing, stop, deltas, answer, ledger, connection, telemetry>>

\* The parser turns a slice of the body into a text or a citation event.
ReadText ==
    /\ pump = "reading" /\ stop = None /\ header # None
    /\ deltas < MaxDeltas
    /\ deltas' = deltas + 1
    /\ Put(<<Frame("text", None)>>)
    /\ UNCHANGED <<pump, header, trailing, stop, answer, ledger, connection, telemetry>>

\* The parser swallows a control line; the last one counts.
ReadToken ==
    /\ pump = "reading" /\ stop = None /\ header # None
    /\ \E v \in Tokens : trailing' = v
    /\ UNCHANGED <<pump, header, stop, deltas, answer, ledger, queue, connection, telemetry>>

\* The adapter's last event carries the stop reason and the usage.  Both
\* adapters yield one whatever the provider sent, so saw_usage holds whenever
\* the stream is exhausted.
ReadUsage ==
    /\ pump = "reading" /\ stop = None
    /\ stop' \in Stops
    /\ UNCHANGED <<pump, header, trailing, deltas, answer, ledger, queue, connection, telemetry>>

\* The stream is exhausted: finish() flushes the parser; without a verdict
\* line the verdict is an error.
ReadEnd ==
    /\ pump = "reading" /\ stop # None
    /\ pump' = "ended"
    /\ IF header = None
       THEN header' = "error" /\ Put(<<Frame("verdict", "error")>>)
       ELSE UNCHANGED <<header, queue>>
    /\ UNCHANGED <<trailing, stop, deltas, answer, ledger, connection, telemetry>>

\* Fault: the client is not told that its provisional verdict was overridden.
CloseUncorrected ==
    /\ pump = "ended"
    /\ pump' = "logging"
    /\ answer' = VerdictFor(Parsed, stop)
    /\ UNCHANGED <<header, trailing, stop, deltas, ledger, queue, connection, telemetry>>

\* The provider's stream is closed; the verdict is settled, a client that was
\* told another one is corrected, and the row is about to be written.
Close ==
    /\ pump = "ended"
    /\ pump' = "logging"
    /\ answer' = VerdictFor(Parsed, stop)
    /\ Put(IF Reconciled THEN <<Frame("correction", VerdictFor(Parsed, stop))>> ELSE <<>>)
    /\ UNCHANGED <<header, trailing, stop, deltas, ledger, connection, telemetry>>

\* The query_log row commits; the pump has not been resumed yet.
WriteRow ==
    /\ pump = "logging"
    /\ pump' = "logged"
    /\ row' = answer
    /\ UNCHANGED <<generation, claim, queue, connection, telemetry>>

\* Fault: the terminal frame is queued before the row is committed.
CompleteBeforeRow ==
    /\ pump \in {"logging", "logged"}
    /\ pump' = "done"
    /\ claim' = "settled"
    /\ outcome' = [outcome EXCEPT !.verdict = answer]
    /\ Put(<<Frame("complete", answer), Sentinel>>)
    /\ UNCHANGED <<generation, row, connection, record, errors>>

\* AnswerComplete reaches the pump: frame, settle, outcome and sentinel.
Complete ==
    /\ pump = "logged"
    /\ pump' = "done"
    /\ claim' = "settled"
    /\ outcome' = [outcome EXCEPT !.verdict = answer]
    /\ Put(<<Frame("complete", answer), Sentinel>>)
    /\ UNCHANGED <<generation, row, connection, record, errors>>

\* The provider, the INSERT or the commit raises, at any suspension point.
Raise ==
    /\ pump \in Active
    /\ pump' = "failed"
    /\ claim' = "released"
    /\ outcome' = [outcome EXCEPT !.error = "upstream_error"]
    /\ errors' = errors + 1
    /\ Put(<<Frame("error", None), Sentinel>>)
    /\ UNCHANGED <<generation, row, connection, record>>

\* Fault: the sentinel is put where the task returns, not in its finally.
CancelSilently ==
    /\ pump \in Active
    /\ pump' = "cancelled"
    /\ claim' = "released"
    /\ UNCHANGED <<generation, row, queue, connection, telemetry>>

\* The task is torn down with the event loop: only the finally runs.
Cancel ==
    /\ pump \in Active
    /\ pump' = "cancelled"
    /\ claim' = "released"
    /\ Put(<<Sentinel>>)
    /\ UNCHANGED <<generation, row, connection, telemetry>>

(***************************************************************************)
(* The body, behind with_heartbeats.                                       *)
(***************************************************************************)

\* The outstanding __anext__ gets an item.
Take ==
    /\ body = "streaming" /\ pending = None /\ queue # <<>>
    /\ pending' = Head(queue)
    /\ queue' = Tail(queue)
    /\ UNCHANGED <<pump, generation, ledger, body, frames, idle, telemetry>>

\* Its frame goes out, or the body returns; an error frame is the last one.
Deliver ==
    /\ body = "streaming" /\ pending # None
    /\ pending' = None
    /\ IF pending = Sentinel
       THEN body' = "ended" /\ UNCHANGED <<frames, idle>>
       ELSE /\ frames' = Append(frames, pending)
            /\ idle' = FALSE
            /\ body' = IF pending.kind = "error" THEN "ended" ELSE body
    /\ UNCHANGED <<pump, generation, ledger, queue, telemetry>>

\* Fault: the timeout cancels the read it was waiting for (asyncio.wait_for).
HeartbeatCancelling ==
    /\ body = "streaming"
    /\ pending' = None
    /\ idle' = TRUE
    /\ UNCHANGED <<pump, generation, ledger, queue, body, frames, telemetry>>

\* The interval passes with nothing to deliver: the read stays outstanding.
Heartbeat ==
    /\ body = "streaming" /\ pending = None
    /\ idle' = TRUE
    /\ UNCHANGED <<pump, generation, ledger, queue, pending, body, frames, telemetry>>

\* Fault: nothing but the body keeps the pump alive.
DisconnectCollecting ==
    /\ body = "streaming"
    /\ body' = "gone"
    /\ pending' = None
    /\ pump' = IF pump \in Active THEN "collected" ELSE pump
    /\ UNCHANGED <<generation, ledger, queue, frames, idle, telemetry>>

\* The client leaves; the body is cancelled, the pump is not.
Disconnect ==
    /\ body = "streaming"
    /\ body' = "gone"
    /\ pending' = None
    /\ UNCHANGED <<pump, generation, ledger, queue, frames, idle, telemetry>>

(***************************************************************************)
(* The middleware.                                                         *)
(***************************************************************************)

\* Fault: the record keeps the outcome as it was when the request came in.
WriteRecordEarly ==
    /\ body # "streaming" /\ record = None
    /\ record' = NoOutcome
    /\ UNCHANGED <<pump, generation, ledger, queue, connection, outcome, errors>>

\* The app has returned: what is known of the outcome by now is recorded, and
\* an error in it is counted.
WriteRecord ==
    /\ body # "streaming" /\ record = None
    /\ record' = outcome
    /\ errors' = IF outcome.error # None THEN errors + 1 ELSE errors
    /\ UNCHANGED <<pump, generation, ledger, queue, connection, outcome>>

\* The request is over.
Finished ==
    /\ pump \in Over /\ record # None
    /\ UNCHANGED vars

Generate ==
    \/ RefuseWithoutEvidence
    \/ OpenStream
    \/ ReadHeader
    \/ ReadText
    \/ ReadToken
    \/ ReadUsage
    \/ ReadEnd
    \/ Close
    \/ WriteRow
    \/ Complete
    \/ Raise

Render == Take \/ Deliver

Next ==
    \/ Generate
    \/ Cancel
    \/ Render
    \/ Heartbeat
    \/ Disconnect
    \/ WriteRecord
    \/ Finished

Spec == Init /\ [][Next]_vars

\* The event loop runs every ready coroutine, and the provider ends its stream
\* (the clients carry timeouts); nobody has to leave or to be cancelled.
FairSpec ==
    /\ Spec
    /\ WF_vars(Generate)
    /\ WF_vars(ReadUsage)
    /\ WF_vars(Render)
    /\ WF_vars(WriteRecord)

-----------------------------------------------------------------------------
(***************************************************************************)
(* Properties.                                                             *)
(***************************************************************************)

Contract == INSTANCE StreamContract WITH frames <- frames

\* Whatever the pump, the timer and the client do, the client receives frames
\* in the promised order: the stream implements the contract.
KeepsContract == Contract!Spec

Received(kind) == \E i \in DOMAIN frames : frames[i].kind = kind

Last == frames[Len(frames)]

\* A client that has been told "complete" was charged and logged: the row is
\* committed with that verdict and the claim is settled.  One whose stream has
\* ended holds no claim any more.
CompleteMeansAccounted ==
    /\ Received("complete") => row = Last.verdict /\ claim = "settled"
    /\ body = "ended" => claim # "held"
    /\ claim = "settled" => row # None

\* The last verdict a client was shown before "complete" is the answer's, or
\* the provider cut the answer off or refused it: no client is left believing
\* a provisional verdict the model took back.
LastVerdictStands ==
    Received("complete") /\ Last.verdict \notin {"truncated", "refused"} =>
        \E i \in DOMAIN frames :
            /\ frames[i].kind \in {"verdict", "correction"}
            /\ frames[i].verdict = Last.verdict
            /\ \A j \in i + 1..Len(frames) : frames[j].kind \notin {"verdict", "correction"}

\* A stream the client stayed on is recorded with what the client was told: the
\* verdict of "complete", or the error; only a torn-down pump leaves neither.
\* A client that leaves is not an error.
RecordMatchesStream ==
    /\ record # None /\ body = "ended" =>
          CASE Received("complete") -> record = [verdict |-> Last.verdict, error |-> None]
            [] Received("error")    -> record.error = "upstream_error"
            [] OTHER                -> pump = "cancelled"
    /\ errors > 0 => pump = "failed"

\* The response is over and recorded at some point, however the pump ended: the
\* sentinel is put on every way out of the task.
StreamEnds == <>(body # "streaming" /\ record # None)

\* Generation outlives the connection: a client that leaves loses neither the
\* row nor the claim.
OutlivesClient ==
    body = "gone" ~> \/ row # None /\ claim = "settled"
                     \/ pump \in {"failed", "cancelled"} /\ claim = "released"

\* rag_qa_errors_total counts "error responses by condition code": one response
\* that failed counts once.
ErrorCountedOnce == errors <= 1
=============================================================================
