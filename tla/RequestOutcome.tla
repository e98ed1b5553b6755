---------------------------- MODULE RequestOutcome ----------------------------
(***************************************************************************)
(* What a request of the API comes to: the startup checks of deps.py and   *)
(* app.py, keys, the errors a handler raises and what middleware.py,       *)
(* errors.py and conditions.py make of them: a response, counters and the  *)
(* completion record.  Streamed answers are AnswerStream's; the guard, the *)
(* pool and the ingest are modules of their own and appear here as what    *)
(* they raise.                                                             *)
(***************************************************************************)
EXTENDS Naturals, FiniteSets

CONSTANTS
    Requests,
    Environments,   \* environments of a process: raw values of the variables
    MaxSeconds,     \* whole seconds to the end of a window: a bound
    Unreadable,     \* a text that is no amount
    None

VARIABLES
    env,        \* the environment, and what create_app was handed
    process,    \* "created", "serving" or "refused"
    request,    \* request[r]: its stage, route and key
    error,      \* error[r]: the exception on its way up
    outcome,    \* outcome[r]: what record_outcome has been told
    response,   \* response[r]: what has been rendered
    metrics     \* the counters of the failure signal and of requests

vars == <<env, process, request, error, outcome, response, metrics>>

-----------------------------------------------------------------------------
(***************************************************************************)
(* CONDITIONS: for each code its status, presentation and reset.           *)
(***************************************************************************)

Condition(status, presentation, reset) ==
    [status |-> status, presentation |-> presentation, reset |-> reset]

Conditions ==
    [budget_exhausted   |-> Condition(503, "explanatory", "window"),
     budget_pressure    |-> Condition(503, "transient", "shortly"),
     overloaded         |-> Condition(503, "transient", "shortly"),
     embedder_mismatch  |-> Condition(503, "degraded", "operator"),
     empty_corpus       |-> Condition(503, "degraded", "operator"),
     upstream_error     |-> Condition(502, "transient", "shortly"),
     misconfigured      |-> Condition(500, "degraded", "operator"),
     internal_error     |-> Condition(500, "degraded", "shortly"),
     unauthenticated    |-> Condition(401, "request", "none"),
     forbidden          |-> Condition(403, "request", "none"),
     not_found          |-> Condition(404, "request", "none"),
     http_error         |-> Condition(400, "request", "none"),
     validation_error   |-> Condition(422, "request", "none"),
     ingest_in_progress |-> Condition(409, "transient", "shortly"),
     ingest_too_large   |-> Condition(413, "request", "none")]

Codes    == DOMAIN Conditions
Ceilings == {"daily", "monthly"}

ASSUME RequestsAssumption == IsFiniteSet(Requests)
ASSUME SecondsAssumption  == MaxSeconds \in Nat
ASSUME NoneAssumption     == None \notin Nat /\ None \notin BOOLEAN /\ None \notin Codes

-----------------------------------------------------------------------------
(***************************************************************************)
(* Settings and startup.                                                   *)
(***************************************************************************)

Spelled == [true |-> {"1"}, false |-> {"", "off"}]

\* Fault: any text is true.
BoolTruthy(raw) == raw # ""

\* _bool: None where it raises.
Bool(raw) ==
    IF raw \in Spelled.true THEN TRUE ELSE IF raw \in Spelled.false THEN FALSE ELSE None

\* _decimal: an amount is given in whole units, an absent one as None.
Readable(raw) == raw # Unreadable

\* Settings.from_env.
Parses ==
    /\ {Bool(env.anonymous), Bool(env.unlimited)} \subseteq BOOLEAN
    /\ Readable(env.monthly) /\ Readable(env.daily)

Budgeted == env.monthly \notin {None, 0} \/ env.daily \notin {None, 0}

\* SpendGuard.enabled: a limit of zero is a limit.
Armed == (env.monthly # None \/ env.daily # None) /\ (env.factory \/ ~env.provided)

\* require_serving, _check_budget_shape and the check of the guard in _lifespan.
MayServe ==
    /\ env.provided \/ (env.database # "" /\ env.providerKeys)
    /\ env.monthly # None /\ env.daily # None => env.daily <= env.monthly
    /\ Bool(env.anonymous) \/ env.readKey # "" \/ env.adminKey # ""
    /\ Bool(env.unlimited) \/ Budgeted
    /\ Budgeted => Armed

NoOutcome == [code |-> None, ceiling |-> None]

Init ==
    /\ env \in Environments
    /\ process = "created"
    /\ request = [r \in Requests |-> [stage |-> "new", route |-> None, key |-> ""]]
    /\ error = [r \in Requests |-> None]
    /\ outcome = [r \in Requests |-> NoOutcome]
    /\ response = [r \in Requests |-> None]
    /\ metrics = [errors |-> [c \in Codes |-> 0], trips |-> [c \in Ceilings |-> 0],
                  shed |-> 0, pressure |-> 0, requests |-> 0]

perRequest == <<request, error, outcome, response, metrics>>

Startup ==
    /\ process = "created"
    /\ process' = IF Parses /\ MayServe THEN "serving" ELSE "refused"
    /\ UNCHANGED <<env, perRequest>>

-----------------------------------------------------------------------------
(***************************************************************************)
(* Errors.  An error has the code and status of its class, or of what      *)
(* translate or a handler of app.py overwrote them with.                   *)
(***************************************************************************)

Stage(r, stage) == request' = [request EXCEPT ![r].stage = stage]

Error(code, status, retryAfter, ceiling, api) ==
    [code |-> code, status |-> status, retryAfter |-> retryAfter,
     ceiling |-> ceiling, api |-> api]

ApiError(code) == Error(code, Conditions[code].status, None, None, TRUE)

Retryable(code, seconds, ceiling) ==
    Error(code, Conditions[code].status, seconds, ceiling, TRUE)

\* Fault: the last second of a window is none.
SecondsUntilFloored(seconds) == seconds

\* seconds_until_utc_midnight and seconds_until_utc_month_end, of the whole
\* seconds that are left: none in the last second.
SecondsUntil(seconds) == IF seconds = 0 THEN 1 ELSE seconds

Exhausted(seconds) ==
    {Retryable("budget_exhausted", SecondsUntil(seconds), c) : c \in Ceilings}

PressureRetryAfter == 5

Pressure == {Retryable("budget_pressure", PressureRetryAfter, c) : c \in Ceilings}

\* An exception that is no ApiError when it leaves its handler, as translate
\* knows it: a model without a price, or anything else.
Bare(code) == Error(code, Conditions[code].status, None, None, FALSE)

Bug == Bare("internal_error")

Raise(r, e) ==
    /\ Stage(r, "raised")
    /\ error' = [error EXCEPT ![r] = e]
    /\ UNCHANGED <<env, process, outcome, response, metrics>>

Proceed(r, stage) ==
    /\ Stage(r, stage)
    /\ UNCHANGED <<env, process, error, outcome, response, metrics>>

Render(r, status, code, retryAfter) ==
    response' = [response EXCEPT ![r] =
        [status |-> status, code |-> code, retryAfter |-> retryAfter]]

Respond(r, status) ==
    /\ Stage(r, "rendered")
    /\ Render(r, status, None, None)
    /\ UNCHANGED <<env, process, error, outcome, metrics>>

-----------------------------------------------------------------------------
(***************************************************************************)
(* Handlers.                                                               *)
(***************************************************************************)

Open      == {"health", "healthz"}
AdminOnly == {"ingest", "metrics"}
Routes    == {"query"} \cup AdminOnly \cup Open

\* A path or method that no route has is refused by the router.
Unrouted == {ApiError("not_found"), Error("http_error", 405, None, None, TRUE)}

\* What a caller may present: nothing, a configured key, or another one, of
\* ASCII characters or not.
Presented == {"", env.readKey, env.adminKey, "other", "foreign"}

Arrive(r) ==
    /\ process = "serving" /\ request[r].stage = "new"
    /\ \E route \in Routes \cup {None}, key \in Presented :
           request' = [request EXCEPT ![r] = [stage |-> "routed", route |-> route, key |-> key]]
    /\ UNCHANGED <<env, process, error, outcome, response, metrics>>

At(r, stage, route) == request[r].stage = stage /\ request[r].route = route

Unmatched(r) ==
    /\ At(r, "routed", None)
    /\ \E e \in Unrouted : Raise(r, e)

\* A body that is no JSON is refused before its key is looked at.
Garble(r) ==
    /\ request[r].stage = "routed" /\ request[r].route \in {"query", "ingest"}
    /\ Raise(r, ApiError("validation_error"))

\* verify: an unset key matches nothing, the admin key reads, and a key with
\* other than ASCII characters cannot be compared.
Holds(presented, key) == key # "" /\ presented = key

Authenticate(r) ==
    LET key == request[r].key
        isAdmin == Holds(key, env.adminKey)
        isRead  == Holds(key, env.readKey)
    IN  /\ request[r].stage = "routed" /\ request[r].route \in Routes \ Open
        /\ IF Bool(env.anonymous) THEN Proceed(r, "authorised")
           ELSE IF key = "foreign" THEN Raise(r, Bug)
           ELSE IF ~isAdmin /\ ~isRead THEN Raise(r, ApiError("unauthenticated"))
           ELSE IF request[r].route \in AdminOnly /\ ~isAdmin THEN Raise(r, ApiError("forbidden"))
           ELSE Proceed(r, "authorised")

\* healthz answers; health is 503 without an error when the database is gone.
Probe(r) ==
    /\ request[r].stage = "routed" /\ request[r].route \in Open
    /\ \/ Respond(r, 200)
       \/ request[r].route = "health" /\ Respond(r, 503)

\* The body is checked, and the question for blanks.
Validate(r) ==
    /\ request[r].stage = "authorised" /\ request[r].route \in {"query", "ingest"}
    /\ Proceed(r, "valid") \/ Raise(r, ApiError("validation_error"))

\* SpendGuard.check; its refresh may fail.
CheckBudget(r) ==
    /\ At(r, "valid", "query")
    /\ \/ Proceed(r, "checked")
       \/ Armed /\ \E s \in 0..MaxSeconds : \E e \in Exhausted(s) \cup {Bug} : Raise(r, e)

\* _retrieve: what translate knows, and what it does not.
Retrieve(r) ==
    /\ At(r, "checked", "query")
    /\ \/ Proceed(r, "retrieved")
       \/ Raise(r, Retryable("overloaded", 1, None))
       \/ \E e \in {ApiError("embedder_mismatch"), ApiError("empty_corpus"), Bug} : Raise(r, e)

\* _reserve: max_cost needs a price and is not translated here.
Reserve(r) ==
    /\ At(r, "retrieved", "query")
    /\ \/ Proceed(r, "reserved")
       \/ Armed /\ \E s \in 0..MaxSeconds :
              \E e \in Exhausted(s) \cup Pressure \cup {Bug, Bare("misconfigured")} : Raise(r, e)

\* Generator.answer: a model without a price, or a failure of the provider.
Answer(r) ==
    /\ At(r, "reserved", "query")
    /\ \/ Respond(r, 200)
       \/ \E code \in {"misconfigured", "upstream_error"} : Raise(r, ApiError(code))

\* A real ingest may be too large, find another one or fail.
Ingest(r) ==
    /\ At(r, "valid", "ingest")
    /\ \/ Respond(r, 200)
       \/ \E code \in {"validation_error", "ingest_too_large", "ingest_in_progress"} :
              Raise(r, ApiError(code))
       \/ env.provided /\ Raise(r, ApiError("misconfigured"))
       \/ Raise(r, Bug)

Scrape(r) ==
    /\ At(r, "authorised", "metrics")
    /\ Respond(r, 200)

-----------------------------------------------------------------------------
(***************************************************************************)
(* The way out.                                                            *)
(***************************************************************************)

\* envelope: a Retry-After of zero seconds would be no header.
Envelope(r, e) == Render(r, e.status, e.code, IF e.retryAfter = 0 THEN None ELSE e.retryAfter)

\* _envelope of app.py, below the metrics middleware.
Handle(r) ==
    /\ request[r].stage = "raised" /\ error[r].api
    /\ outcome' = [outcome EXCEPT ![r] = [code |-> error[r].code, ceiling |-> error[r].ceiling]]
    /\ Envelope(r, error[r])
    /\ Stage(r, "rendered")
    /\ UNCHANGED <<env, process, error, metrics>>

\* MetricsMiddleware sees the response start.
StartResponse(r) ==
    /\ request[r].stage = "rendered"
    /\ Stage(r, "started")
    /\ metrics' = [metrics EXCEPT !.requests = @ + 1]
    /\ UNCHANGED <<env, process, error, outcome, response>>

\* RequestContextMiddleware finishes what nobody handled; its response does not
\* pass the metrics middleware, which is inside it.
Unhandled(r) ==
    /\ request[r].stage = "raised" /\ ~error[r].api
    /\ outcome' = [outcome EXCEPT ![r].code = error[r].code]
    /\ Envelope(r, error[r])
    /\ Stage(r, "started")
    /\ UNCHANGED <<env, process, error, metrics>>

\* Fault: whatever is answered 503 counts as shed.
RecordByStatus(m, o) ==
    IF o.code = None THEN m
    ELSE [m EXCEPT !.errors[o.code] = @ + 1,
                   !.shed = @ + (IF Conditions[o.code].status = 503 THEN 1 ELSE 0),
                   !.trips = [c \in Ceilings |->
                       @[c] + (IF o.code = "budget_exhausted" /\ o.ceiling = c THEN 1 ELSE 0)],
                   !.pressure = @ + (IF o.code = "budget_pressure" THEN 1 ELSE 0)]

\* _record, of the counters m and an outcome o.
Record(m, o) ==
    IF o.code = None THEN m
    ELSE [m EXCEPT !.errors[o.code] = @ + 1,
                   !.shed = @ + (IF o.code = "overloaded" THEN 1 ELSE 0),
                   !.trips = [c \in Ceilings |->
                       @[c] + (IF o.code = "budget_exhausted" /\ o.ceiling = c THEN 1 ELSE 0)],
                   !.pressure = @ + (IF o.code = "budget_pressure" THEN 1 ELSE 0)]

\* The body is out, or its client gone: _finish runs either way.
Finish(r) ==
    /\ request[r].stage = "started"
    /\ Stage(r, "done")
    /\ metrics' = Record(metrics, outcome[r])
    /\ UNCHANGED <<env, process, error, outcome, response>>

Handler(r) ==
    \/ Unmatched(r) \/ Garble(r) \/ Authenticate(r) \/ Probe(r) \/ Validate(r)
    \/ CheckBudget(r) \/ Retrieve(r) \/ Reserve(r) \/ Answer(r)
    \/ Ingest(r) \/ Scrape(r)

Idle ==
    /\ process = "refused" \/ \A r \in Requests : request[r].stage = "done"
    /\ UNCHANGED vars

Next ==
    \/ Startup
    \/ \E r \in Requests :
           Arrive(r) \/ Handler(r) \/ Handle(r) \/ StartResponse(r) \/ Unhandled(r) \/ Finish(r)
    \/ Idle

Spec == Init /\ [][Next]_vars

-----------------------------------------------------------------------------
(***************************************************************************)
(* Properties.                                                             *)
(***************************************************************************)

Done(code) == {r \in Requests : request[r].stage = "done" /\ response[r].code = code}

\* SPEC-008, the failure signal: whatever path an error took, through a handler
\* of app.py or past all of them, the counters tell a spend trip by its ceiling,
\* pressure, a shed and every other condition apart as the callers saw them.
FailureSignalIsExact ==
    /\ \A code \in Codes : metrics.errors[code] = Cardinality(Done(code))
    /\ metrics.shed = Cardinality(Done("overloaded"))
    /\ metrics.pressure = Cardinality(Done("budget_pressure"))
    /\ \A c \in Ceilings : metrics.trips[c] =
           Cardinality({r \in Done("budget_exhausted") : error[r].ceiling = c})

\* schemas.py, ErrorDetail.reset: "window" means Retry-After is a clock, so one
\* is there, in the last second too; "operator" and "none" have none.
ClockIsHonest ==
    \A r \in Requests : response[r] # None /\ response[r].code # None =>
        LET reset == Conditions[response[r].code].reset
        IN  /\ reset = "window" => response[r].retryAfter # None
            /\ reset \in {"operator", "none"} => response[r].retryAfter = None

\* deps.py: whatever the environment says, a process that serves answers a route
\* with a key to its holder only, and a question only under an armed ceiling,
\* unless the operator has spelt out that it should not.
ServesOnlyAsMeant ==
    \A r \in Requests : response[r] # None /\ response[r].status = 200 =>
        /\ \/ request[r].route \in Open
           \/ env.anonymous \in Spelled.true
           \/ request[r].key # "" /\ request[r].key = env.adminKey
           \/ /\ request[r].key # "" /\ request[r].key = env.readKey
              /\ request[r].route = "query"
        /\ request[r].route = "query" => Armed \/ env.unlimited \in Spelled.true
=============================================================================
