---------------------------- MODULE EmbedBatches ----------------------------
(***************************************************************************)
(* embed_all of ingest/embedder.py: batches of texts as tasks of their own *)
(* under a semaphore, each tried again after a transient error, gathered.  *)
(* gather raises as soon as one task has; the others are not cancelled and *)
(* go on calling and waiting behind the caller's back.  A task keeps its   *)
(* permit while it backs off.                                              *)
(***************************************************************************)
EXTENDS Naturals, Sequences, FiniteSets, SequencesExt

CONSTANTS
    BatchSize,
    Concurrency,
    MaxAttempts,
    MaxBatches     \* batches of one call: a bound

ASSUME EmbedAssumption == {BatchSize, Concurrency, MaxAttempts, MaxBatches} \subseteq Nat \ {0}

VARIABLES
    status,     \* embed_all: "idle", "running", "raised" or "done"
    texts,      \* what it was called with
    vectors,    \* what it returned
    task,       \* task[b]: where run_batch of batch b is
    attempt,    \* attempt[b]: the calls made for batch b
    answers     \* answers[b]: the vectors batch b got

call      == <<status, texts, vectors>>
tasks     == <<task, attempt, answers>>
embedVars == <<call, tasks>>

BatchCount(ts) == (Len(ts) + BatchSize - 1) \div BatchSize

Batch(b) ==
    SubSeq(texts, (b - 1) * BatchSize + 1,
           IF b * BatchSize < Len(texts) THEN b * BatchSize ELSE Len(texts))

\* Fault: a task that raises keeps its permit.
InsideKeeping == {b \in DOMAIN task : task[b] \in {"calling", "backoff", "raised"}}

\* The tasks inside `async with semaphore`.
Inside == {b \in DOMAIN task : task[b] \in {"calling", "backoff"}}

Ended(b) == task[b] \in {"answered", "raised"}

-----------------------------------------------------------------------------
EmbedInit ==
    /\ status = "idle" /\ texts = <<>> /\ vectors = <<>>
    /\ task = <<>> /\ attempt = <<>> /\ answers = <<>>

EmbedAll(ts) ==
    /\ status = "idle"
    /\ BatchCount(ts) <= MaxBatches
    /\ status' = "running"
    /\ texts' = ts
    /\ task' = [b \in 1..BatchCount(ts) |-> "waiting"]
    /\ attempt' = [b \in 1..BatchCount(ts) |-> 0]
    /\ answers' = [b \in 1..BatchCount(ts) |-> <<>>]
    /\ UNCHANGED vectors

MoveTo(b, state) == task' = [task EXCEPT ![b] = state]

CallClient(b) ==
    /\ MoveTo(b, "calling")
    /\ attempt' = [attempt EXCEPT ![b] = @ + 1]
    /\ UNCHANGED <<call, answers>>

Acquire(b) ==
    /\ task[b] = "waiting"
    /\ Cardinality(Inside) < Concurrency
    /\ CallClient(b)

\* The client answers with the vectors of the batch.
Answer(b) ==
    /\ task[b] = "calling"
    /\ MoveTo(b, "answered")
    /\ answers' = [answers EXCEPT ![b] = Batch(b)]
    /\ UNCHANGED <<call, attempt>>

\* A transient error: another attempt later, or the error is raised.
Transient(b) ==
    /\ task[b] = "calling"
    /\ MoveTo(b, IF attempt[b] = MaxAttempts THEN "raised" ELSE "backoff")
    /\ UNCHANGED <<call, attempt, answers>>

Retry(b) ==
    /\ task[b] = "backoff"
    /\ CallClient(b)

\* Any other error of the client.
Refuse(b) ==
    /\ task[b] = "calling"
    /\ MoveTo(b, "raised")
    /\ UNCHANGED <<call, attempt, answers>>

\* gather has seen a task raise, and its caller is resumed.
GatherRaises ==
    /\ status = "running"
    /\ \E b \in DOMAIN task : task[b] = "raised"
    /\ status' = "raised"
    /\ UNCHANGED <<texts, vectors, tasks>>

\* Fault: what came back is returned once nothing is under way any more.
GatherReturnsAnswered ==
    /\ status = "running"
    /\ \A b \in DOMAIN task : Ended(b)
    /\ status' = "done"
    /\ vectors' = FlattenSeq(answers)
    /\ UNCHANGED <<texts, tasks>>

GatherReturns ==
    /\ status = "running"
    /\ \A b \in DOMAIN task : task[b] = "answered"
    /\ status' = "done"
    /\ vectors' = FlattenSeq(answers)
    /\ UNCHANGED <<texts, tasks>>

Step(b) == Acquire(b) \/ Answer(b) \/ Transient(b) \/ Retry(b) \/ Refuse(b)

Gather == GatherRaises \/ GatherReturns

EmbedNext == Gather \/ \E b \in DOMAIN task : Step(b)

\* A call of the client ends (it has a timeout), a backoff is a sleep, and the
\* event loop runs every ready task.
EmbedFairness ==
    /\ \A b \in 1..MaxBatches : WF_embedVars(b \in DOMAIN task /\ Step(b))
    /\ WF_embedVars(Gather)

-----------------------------------------------------------------------------
Promise == INSTANCE EmbedContract WITH status <- status, texts <- texts, vectors <- vectors

Permits == INSTANCE BoundedUse
    WITH Uses <- 1..MaxBatches, Capacity <- Concurrency, inUse <- Inside

\* embed_all raises or returns a vector for every text in order, whatever order
\* its batches are answered in and whichever fail; and the tasks between
\* acquire and release are a bounded use of the semaphore, retries, backoff and
\* tasks that outlive a failed call included.
EmbedsAsPromised == Promise!Spec /\ Permits!Spec

\* Every call of embed_all ends, and after a failure its other tasks do too:
\* nothing goes on calling the provider for ever.
EmbeddingEnds ==
    status = "running" ~> status # "running" /\ \A b \in DOMAIN task : Ended(b)
=============================================================================
