------------------------- MODULE RequestOutcomeProofs -------------------------
(***************************************************************************)
(* Proofs about RequestOutcome, for any number of requests and whatever    *)
(* the environment says.  A handler step either raises an error that fits  *)
(* its condition, goes on as it may, or answers; what is rendered, noted   *)
(* for the record and counted then follows from that error.                *)
(***************************************************************************)
EXTENDS RequestOutcome, FiniteSetTheorems, TLAPS

Errors == [code : Codes, status : Nat, retryAfter : Nat \cup {None},
           ceiling : Ceilings \cup {None}, api : BOOLEAN]

Responses == [status : Nat, code : Codes \cup {None}, retryAfter : Nat \cup {None}]

Stages == {"new", "routed", "authorised", "valid", "checked", "retrieved", "reserved",
           "raised", "rendered", "started", "done"}

\* Behind the check of the key, and before.
PastKey  == {"authorised", "valid", "checked", "retrieved", "reserved"}
Handling == {"routed"} \cup PastKey

\* With a response.
Answered == {"rendered", "started", "done"}

OutcomeTypeOK ==
    /\ process \in {"created", "serving", "refused"}
    /\ request \in [Requests -> [stage : Stages, route : Routes \cup {None}, key : Presented]]
    /\ error \in [Requests -> Errors \cup {None}]
    /\ outcome \in [Requests -> [code : Codes \cup {None}, ceiling : Ceilings \cup {None}]]
    /\ response \in [Requests -> Responses \cup {None}]
    /\ metrics \in [errors : [Codes -> Nat], trips : [Ceilings -> Nat],
                    shed : Nat, pressure : Nat, requests : Nat]

\* An error has the Retry-After of its condition, is no success, and names a
\* ceiling only where a handler of app.py will see it.
Fits(e) ==
    /\ e \in Errors
    /\ e.status # 200
    /\ Conditions[e.code].reset = "window" => e.retryAfter \in Nat \ {0}
    /\ Conditions[e.code].reset \in {"operator", "none"} => e.retryAfter = None
    /\ e.code = "budget_exhausted" => e.api

\* The caller has a key for the route, or none is asked for.
Entitled(r) ==
    \/ env.anonymous \in Spelled.true
    \/ request[r].key # "" /\ request[r].key = env.adminKey
    \/ /\ request[r].key # "" /\ request[r].key = env.readKey
       /\ request[r].route = "query"

\* The response of a request that did not raise.
Plain(r) ==
    /\ response[r].code = None
    /\ outcome[r].code = None
    /\ response[r].status = 200 => request[r].route \in Open \/ Entitled(r)

\* The response of one that did, and what was noted for the record.
OfError(r) ==
    /\ Fits(error[r])
    /\ outcome[r].code = error[r].code
    /\ error[r].code = "budget_exhausted" => outcome[r].ceiling = error[r].ceiling
    /\ response[r].code = error[r].code
    /\ response[r].status = error[r].status
    /\ response[r].retryAfter = IF error[r].retryAfter = 0 THEN None ELSE error[r].retryAfter

\* What holds of request r at its stage.
Consistent(r) ==
    /\ request[r].stage # "new" => process = "serving"
    /\ request[r].stage \in PastKey => Entitled(r)
    /\ request[r].stage = "raised" => Fits(error[r])
    /\ request[r].stage \notin Answered => response[r] = None /\ outcome[r] = NoOutcome
    /\ request[r].stage \in Answered => Plain(r) \/ OfError(r)

ServingMeans == process = "serving" => Parses /\ MayServe

IInv ==
    /\ OutcomeTypeOK
    /\ ServingMeans
    /\ \A r \in Requests : Consistent(r)
    /\ FailureSignalIsExact

-----------------------------------------------------------------------------
(***************************************************************************)
(* The conditions and the errors built from them.                          *)
(***************************************************************************)

LEMMA CodeNames ==
    Codes = {"budget_exhausted", "budget_pressure", "overloaded", "embedder_mismatch",
             "empty_corpus", "upstream_error", "misconfigured", "internal_error",
             "unauthenticated", "forbidden", "not_found", "http_error",
             "validation_error", "ingest_in_progress", "ingest_too_large"}
  BY DEF Codes, Conditions

LEMMA ConditionFacts ==
    ASSUME NEW code \in Codes
    PROVE  /\ Conditions[code].status \in Nat /\ Conditions[code].status # 200
           /\ Conditions[code].reset = "window" => code = "budget_exhausted"
           /\ code \in {"overloaded", "budget_pressure"} => Conditions[code].reset = "shortly"
  BY CodeNames DEF Conditions, Condition

LEMMA ApiErrorFits ==
    ASSUME NEW code \in Codes \ {"budget_exhausted"}
    PROVE  Fits(ApiError(code)) /\ Fits(Bare(code))
  BY ConditionFacts DEF Fits, ApiError, Bare, Error, Errors

\* Ceilings, clocks and the pressure on them.
LEMMA BudgetErrorsFit ==
    /\ \A seconds \in 0..MaxSeconds : \A e \in Exhausted(seconds) : Fits(e)
    /\ \A e \in Pressure : Fits(e)
  <1>1. "budget_exhausted" \in Codes /\ "budget_pressure" \in Codes
    BY CodeNames
  <1>2. Conditions["budget_exhausted"].reset = "window"
    BY DEF Conditions, Condition
  <1>3. ASSUME NEW seconds \in 0..MaxSeconds, NEW e \in Exhausted(seconds) PROVE Fits(e)
    <2>1. SecondsUntil(seconds) \in Nat \ {0}
      BY SecondsAssumption DEF SecondsUntil
    <2>2. PICK c \in Ceilings :
              e = Error("budget_exhausted", Conditions["budget_exhausted"].status,
                        SecondsUntil(seconds), c, TRUE)
      BY DEF Exhausted, Retryable
    <2>3. /\ e \in Errors /\ e.code = "budget_exhausted" /\ e.api
          /\ e.status = Conditions["budget_exhausted"].status
          /\ e.retryAfter = SecondsUntil(seconds)
      BY <1>1, <2>1, <2>2, ConditionFacts DEF Error, Errors
    <2>. QED
      BY <1>1, <1>2, <2>1, <2>3, ConditionFacts DEF Fits
  <1>4. ASSUME NEW e \in Pressure PROVE Fits(e)
    <2>1. PICK c \in Ceilings :
              e = Error("budget_pressure", Conditions["budget_pressure"].status, 5, c, TRUE)
      BY <1>4 DEF Pressure, PressureRetryAfter, Retryable
    <2>2. /\ e \in Errors /\ e.code = "budget_pressure"
          /\ e.status = Conditions["budget_pressure"].status
      BY <1>1, <2>1, ConditionFacts DEF Error, Errors
    <2>. QED
      BY <1>1, <2>2, ConditionFacts DEF Fits
  <1>. QED
    BY <1>3, <1>4

LEMMA OtherErrorsFit ==
    /\ Fits(Retryable("overloaded", 1, None))
    /\ \A e \in Unrouted : Fits(e)
    /\ Fits(Bug)
  <1>1. {"overloaded", "not_found", "http_error", "internal_error"} \subseteq Codes \ {"budget_exhausted"}
    BY CodeNames
  <1>2. Fits(Retryable("overloaded", 1, None))
    BY <1>1, ConditionFacts DEF Retryable, Error, Errors, Fits
  <1>3. Fits(Error("http_error", 405, None, None, TRUE))
    <2>1. Conditions["http_error"].reset = "none"
      BY DEF Conditions, Condition
    <2>. QED
      BY <1>1, <2>1 DEF Error, Errors, Fits
  <1>. QED
    BY <1>1, <1>2, <1>3, ApiErrorFits DEF Unrouted, Bug

-----------------------------------------------------------------------------
(***************************************************************************)
(* What a handler step comes to.                                           *)
(***************************************************************************)

\* It raises an error that fits, goes on behind the key, or answers a caller
\* who may ask.
Raises(r)  == \E e \in Errors : Fits(e) /\ Raise(r, e)
GoesOn(r)  == \E stage \in PastKey : Proceed(r, stage) /\ Entitled(r)
Answers(r) == \E status \in Nat :
                 /\ Respond(r, status)
                 /\ status = 200 => request[r].route \in Open \/ Entitled(r)

LEMMA HandlerMoves ==
    ASSUME IInv, NEW r \in Requests, Handler(r)
    PROVE  request[r].stage \in Handling /\ (Raises(r) \/ GoesOn(r) \/ Answers(r))
  <1>. DEFINE Outcome == Raises(r) \/ GoesOn(r) \/ Answers(r)
  <1>0. Consistent(r) /\ ServingMeans
    BY DEF IInv
  <1>1. ASSUME NEW e, Fits(e), Raise(r, e) PROVE Outcome
    BY <1>1 DEF Fits, Raises
  <1>2. ASSUME NEW stage \in PastKey, Proceed(r, stage), Entitled(r) PROVE Outcome
    BY <1>2 DEF GoesOn
  <1>3. ASSUME Respond(r, 200), Entitled(r) PROVE Outcome
    BY <1>3 DEF Answers
  <1>4. ASSUME NEW code \in Codes \ {"budget_exhausted"}, Raise(r, ApiError(code)) PROVE Outcome
    BY <1>1, <1>4, ApiErrorFits
  <1>5. ASSUME Raise(r, Bug) PROVE Outcome
    BY <1>1, <1>5, OtherErrorsFit
  <1>6. ASSUME NEW s \in 0..MaxSeconds, NEW e \in Exhausted(s) \cup Pressure, Raise(r, e) PROVE Outcome
    BY <1>1, <1>6, BudgetErrorsFit
  <1>7. {"unauthenticated", "forbidden", "validation_error", "embedder_mismatch", "empty_corpus",
         "misconfigured", "upstream_error", "ingest_too_large", "ingest_in_progress"}
        \subseteq Codes \ {"budget_exhausted"}
    BY CodeNames
  <1>. HIDE DEF Outcome
  <1>8. request[r].stage \in PastKey => Entitled(r)
    BY <1>0 DEF Consistent
  <1>10. CASE Unmatched(r)
    BY <1>1, <1>10, OtherErrorsFit DEF Unmatched, At, Handling, Outcome
  <1>11. CASE Garble(r)
    BY <1>4, <1>7, <1>11 DEF Garble, Handling, Outcome
  <1>12. CASE Authenticate(r)
    <2>1. request[r].stage = "routed"
      BY <1>12 DEF Authenticate
    <2>2. Parses
      BY <1>0, <2>1 DEF Consistent, ServingMeans
    <2>3. Bool(env.anonymous) \in BOOLEAN /\ (Bool(env.anonymous) => env.anonymous \in Spelled.true)
      BY <2>2, NoneAssumption DEF Parses, Bool
    <2>4. CASE Bool(env.anonymous)
      <3>1. Proceed(r, "authorised") /\ Entitled(r)
        BY <1>12, <2>3, <2>4 DEF Authenticate, Entitled
      <3>. QED
        BY <1>2, <2>1, <3>1 DEF Handling, PastKey, Outcome
    <2>5. CASE ~Bool(env.anonymous)
      <3>1. \/ Raise(r, Bug) \/ Raise(r, ApiError("unauthenticated")) \/ Raise(r, ApiError("forbidden"))
            \/ /\ Proceed(r, "authorised")
               /\ \/ Holds(request[r].key, env.adminKey)
                  \/ /\ Holds(request[r].key, env.readKey)
                     /\ request[r].route \in Routes \ (Open \cup AdminOnly)
        BY <1>12, <2>5 DEF Authenticate
      <3>2. CASE Raise(r, Bug)
        BY <1>5, <2>1, <3>2 DEF Handling, Outcome
      <3>3. CASE Raise(r, ApiError("unauthenticated")) \/ Raise(r, ApiError("forbidden"))
        BY <1>4, <1>7, <2>1, <3>3 DEF Handling, Outcome
      <3>4. CASE /\ Proceed(r, "authorised")
                 /\ \/ Holds(request[r].key, env.adminKey)
                    \/ /\ Holds(request[r].key, env.readKey)
                       /\ request[r].route \in Routes \ (Open \cup AdminOnly)
        <4>1. Entitled(r)
          BY <3>4 DEF Holds, Entitled, Routes, AdminOnly, Open
        <4>. QED
          BY <1>2, <2>1, <3>4, <4>1 DEF Handling, PastKey, Outcome
      <3>. QED
        BY <3>1, <3>2, <3>3, <3>4
    <2>. QED
      BY <2>4, <2>5
  <1>13. CASE Probe(r)
    <2>1. request[r].stage = "routed" /\ request[r].route \in Open
          /\ (Respond(r, 200) \/ Respond(r, 503))
      BY <1>13 DEF Probe
    <2>. QED
      BY <2>1 DEF Handling, Answers, Outcome
  <1>14. CASE Validate(r)
    BY <1>2, <1>4, <1>7, <1>8, <1>14 DEF Validate, Handling, PastKey, Outcome
  <1>15. CASE CheckBudget(r)
    <2>1. request[r].stage = "valid" /\ Entitled(r)
      BY <1>8, <1>15 DEF CheckBudget, At, PastKey
    <2>2. CASE Proceed(r, "checked")
      BY <1>2, <2>1, <2>2 DEF Handling, PastKey, Outcome
    <2>3. CASE \E s \in 0..MaxSeconds : \E e \in Exhausted(s) \cup {Bug} : Raise(r, e)
      BY <1>5, <1>6, <2>1, <2>3 DEF Handling, PastKey, Outcome
    <2>. QED
      BY <1>15, <2>2, <2>3 DEF CheckBudget
  <1>16. CASE Retrieve(r)
    <2>1. request[r].stage = "checked" /\ Entitled(r)
      BY <1>8, <1>16 DEF Retrieve, At, PastKey
    <2>2. CASE Proceed(r, "retrieved")
      BY <1>2, <2>1, <2>2 DEF Handling, PastKey, Outcome
    <2>3. CASE Raise(r, Retryable("overloaded", 1, None))
      BY <1>1, <2>1, <2>3, OtherErrorsFit DEF Handling, PastKey, Outcome
    <2>4. CASE \E e \in {ApiError("embedder_mismatch"), ApiError("empty_corpus"), Bug} : Raise(r, e)
      BY <1>4, <1>5, <1>7, <2>1, <2>4 DEF Handling, PastKey, Outcome
    <2>. QED
      BY <1>16, <2>2, <2>3, <2>4 DEF Retrieve
  <1>17. CASE Reserve(r)
    <2>1. request[r].stage = "retrieved" /\ Entitled(r)
      BY <1>8, <1>17 DEF Reserve, At, PastKey
    <2>2. CASE Proceed(r, "reserved")
      BY <1>2, <2>1, <2>2 DEF Handling, PastKey, Outcome
    <2>3. CASE \E s \in 0..MaxSeconds : \E e \in Exhausted(s) \cup Pressure : Raise(r, e)
      BY <1>6, <2>1, <2>3 DEF Handling, PastKey, Outcome
    <2>4. CASE Raise(r, Bug) \/ Raise(r, Bare("misconfigured"))
      BY <1>1, <1>5, <1>7, <2>1, <2>4, ApiErrorFits DEF Handling, PastKey, Outcome
    <2>. QED
      BY <1>17, <2>2, <2>3, <2>4 DEF Reserve
  <1>18. CASE Answer(r)
    BY <1>3, <1>4, <1>7, <1>8, <1>18 DEF Answer, At, Handling, PastKey, Outcome
  <1>19. CASE Ingest(r)
    BY <1>3, <1>4, <1>5, <1>7, <1>8, <1>19 DEF Ingest, At, Handling, PastKey, Outcome
  <1>20. CASE Scrape(r)
    BY <1>3, <1>8, <1>20 DEF Scrape, At, Handling, PastKey, Outcome
  <1>. QED
    BY <1>10, <1>11, <1>12, <1>13, <1>14, <1>15, <1>16, <1>17, <1>18, <1>19, <1>20
    DEF Handler, Outcome

-----------------------------------------------------------------------------
(***************************************************************************)
(* Steps of one request that count nothing: what was said of the others    *)
(* still holds, and the counters agree with what is done.                  *)
(***************************************************************************)

LEMMA InitEstablishes == Init => IInv
  <1>. SUFFICES ASSUME Init PROVE IInv
    OBVIOUS
  <1>1. OutcomeTypeOK
    BY DEF Init, OutcomeTypeOK, Stages, Presented, NoOutcome
  <1>2. ServingMeans
    BY DEF Init, ServingMeans
  <1>3. \A r \in Requests : Consistent(r)
    BY DEF Init, Consistent, PastKey, Answered
  <1>4. FailureSignalIsExact
    <2>1. \A code : Done(code) = {}
      BY DEF Init, Done
    <2>2. {r \in Done("budget_exhausted") : FALSE} = {}
      OBVIOUS
    <2>. QED
      BY <2>1, <2>2, FS_EmptySet, CodeNames DEF Init, FailureSignalIsExact
  <1>. QED
    BY <1>1, <1>2, <1>3, <1>4 DEF IInv

LEMMA UncountedStep ==
    ASSUME IInv, OutcomeTypeOK', env' = env, process' = process,
           NEW r \in Requests, Consistent(r)',
           \A q \in Requests \ {r} : /\ request'[q] = request[q] /\ error'[q] = error[q]
                                    /\ outcome'[q] = outcome[q] /\ response'[q] = response[q],
           request[r].stage # "done", request'[r].stage # "done",
           metrics'.errors = metrics.errors, metrics'.trips = metrics.trips,
           metrics'.shed = metrics.shed, metrics'.pressure = metrics.pressure
    PROVE  IInv'
  <1>1. ServingMeans'
    BY DEF IInv, ServingMeans, Parses, MayServe, Readable, Budgeted, Armed
  <1>2. ASSUME NEW q \in Requests PROVE Consistent(q)'
    <2>1. CASE q # r
      <3>1. Entitled(q)' = Entitled(q)
        BY <2>1 DEF Entitled, Spelled
      <3>2. Plain(q)' = Plain(q)
        BY <2>1, <3>1 DEF Plain, Open
      <3>3. Fits(error[q])' = Fits(error[q])
        BY <2>1 DEF Fits, Errors
      <3>4. OfError(q)' = OfError(q)
        BY <2>1, <3>3 DEF OfError
      <3>. QED
        BY <2>1, <3>1, <3>2, <3>3, <3>4 DEF IInv, Consistent, NoOutcome, PastKey, Answered
    <2>. QED
      BY <2>1
  <1>3. FailureSignalIsExact'
    <2>1. \A code : Done(code)' = Done(code)
      BY DEF Done
    <2>2. \A q \in Done("budget_exhausted") : error'[q] = error[q]
      BY DEF Done
    <2>3. ASSUME NEW c
          PROVE  {q \in Done("budget_exhausted")' : error'[q].ceiling = c}
                     = {q \in Done("budget_exhausted") : error[q].ceiling = c}
      BY <2>1, <2>2
    <2>. QED
      BY <2>1, <2>3 DEF IInv, FailureSignalIsExact
  <1>. QED
    BY <1>1, <1>2, <1>3 DEF IInv

\* A step to another stage, and what is rendered.
LEMMA StageMoves ==
    ASSUME OutcomeTypeOK, env' = env, NEW r \in Requests, NEW stage \in Stages, Stage(r, stage)
    PROVE  /\ request' \in [Requests -> [stage : Stages, route : Routes \cup {None}, key : Presented]]'
           /\ request'[r] = [stage |-> stage, route |-> request[r].route, key |-> request[r].key]
           /\ \A q \in Requests \ {r} : request'[q] = request[q]
  BY DEF OutcomeTypeOK, Stage, Presented

LEMMA Renders ==
    ASSUME OutcomeTypeOK, NEW r \in Requests, NEW status \in Nat, NEW code \in Codes \cup {None},
           NEW retryAfter \in Nat \cup {None}, Render(r, status, code, retryAfter)
    PROVE  /\ response' \in [Requests -> Responses \cup {None}]
           /\ response'[r] = [status |-> status, code |-> code, retryAfter |-> retryAfter]
           /\ \A q \in Requests \ {r} : response'[q] = response[q]
  <1>1. [status |-> status, code |-> code, retryAfter |-> retryAfter] \in Responses
    BY DEF Responses
  <1>. QED
    BY <1>1 DEF OutcomeTypeOK, Render

LEMMA StartupKeeps ==
    ASSUME IInv, Startup PROVE IInv'
  <1>1. OutcomeTypeOK'
    BY DEF IInv, Startup, perRequest, OutcomeTypeOK, Presented
  <1>2. ServingMeans'
    BY DEF Startup, ServingMeans, Parses, MayServe, Readable, Budgeted, Armed
  <1>3. \A r \in Requests : Consistent(r)'
    BY DEF IInv, Startup, perRequest, Consistent, Entitled, Plain, OfError, PastKey, Answered
  <1>4. FailureSignalIsExact'
    BY DEF IInv, Startup, perRequest, FailureSignalIsExact, Done
  <1>. QED
    BY <1>1, <1>2, <1>3, <1>4 DEF IInv

LEMMA ArriveKeeps ==
    ASSUME IInv, NEW r \in Requests, Arrive(r) PROVE IInv'
  <1>1. PICK route \in Routes \cup {None}, key \in Presented :
            request' = [request EXCEPT ![r] = [stage |-> "routed", route |-> route, key |-> key]]
    BY DEF Arrive
  <1>2. OutcomeTypeOK'
    BY <1>1 DEF IInv, Arrive, OutcomeTypeOK, Presented, Stages
  <1>3. Consistent(r)'
    BY <1>1 DEF IInv, Arrive, OutcomeTypeOK, Consistent, PastKey, Answered
  <1>. QED
    BY <1>1, <1>2, <1>3, UncountedStep DEF IInv, Arrive, OutcomeTypeOK

LEMMA RaiseKeeps ==
    ASSUME IInv, NEW r \in Requests, request[r].stage \in Handling,
           NEW e \in Errors, Fits(e), Raise(r, e)
    PROVE  IInv'
  <1>1. /\ request' \in [Requests -> [stage : Stages, route : Routes \cup {None}, key : Presented]]'
        /\ request'[r] = [stage |-> "raised", route |-> request[r].route, key |-> request[r].key]
        /\ \A q \in Requests \ {r} : request'[q] = request[q]
    BY StageMoves DEF IInv, Raise, Stages
  <1>2. error' \in [Requests -> Errors \cup {None}] /\ error'[r] = e
        /\ \A q \in Requests \ {r} : error'[q] = error[q]
    BY DEF IInv, OutcomeTypeOK, Raise
  <1>3. OutcomeTypeOK'
    BY <1>1, <1>2 DEF IInv, Raise, OutcomeTypeOK
  <1>4. Consistent(r)'
    BY <1>1, <1>2 DEF IInv, Raise, Consistent, Handling, PastKey, Answered, Fits
  <1>. QED
    BY <1>1, <1>2, <1>3, <1>4, UncountedStep DEF Raise, Handling, PastKey

LEMMA ProceedKeeps ==
    ASSUME IInv, NEW r \in Requests, request[r].stage \in Handling,
           NEW stage \in PastKey, Proceed(r, stage), Entitled(r)
    PROVE  IInv'
  <1>1. /\ request' \in [Requests -> [stage : Stages, route : Routes \cup {None}, key : Presented]]'
        /\ request'[r] = [stage |-> stage, route |-> request[r].route, key |-> request[r].key]
        /\ \A q \in Requests \ {r} : request'[q] = request[q]
    BY StageMoves DEF IInv, Proceed, Stages, PastKey
  <1>2. OutcomeTypeOK'
    BY <1>1 DEF IInv, Proceed, OutcomeTypeOK
  <1>3. Consistent(r)'
    <2>1. env' = env
      BY DEF Proceed
    <2>2. request'[r].key = request[r].key /\ request'[r].route = request[r].route
      BY <1>1
    <2>3. Entitled(r)'
      BY <2>1, <2>2 DEF Entitled, Spelled
    <2>. QED
      BY <1>1, <2>3 DEF IInv, Proceed, Consistent, NoOutcome, Handling, PastKey, Answered
  <1>. QED
    BY <1>1, <1>2, <1>3, UncountedStep DEF Proceed, Handling, PastKey

LEMMA RespondKeeps ==
    ASSUME IInv, NEW r \in Requests, request[r].stage \in Handling,
           NEW status \in Nat, Respond(r, status),
           status = 200 => request[r].route \in Open \/ Entitled(r)
    PROVE  IInv'
  <1>1. /\ request' \in [Requests -> [stage : Stages, route : Routes \cup {None}, key : Presented]]'
        /\ request'[r] = [stage |-> "rendered", route |-> request[r].route, key |-> request[r].key]
        /\ \A q \in Requests \ {r} : request'[q] = request[q]
    BY StageMoves DEF IInv, Respond, Stages
  <1>2. /\ response' \in [Requests -> Responses \cup {None}]
        /\ response'[r] = [status |-> status, code |-> None, retryAfter |-> None]
        /\ \A q \in Requests \ {r} : response'[q] = response[q]
    BY Renders DEF IInv, Respond
  <1>3. OutcomeTypeOK'
    BY <1>1, <1>2 DEF IInv, Respond, OutcomeTypeOK
  <1>4. Consistent(r)'
    <2>0. /\ env' = env
          /\ request'[r].key = request[r].key /\ request'[r].route = request[r].route
      BY <1>1 DEF Respond
    <2>1. Entitled(r)' = Entitled(r)
      BY <2>0 DEF Entitled, Spelled
    <2>2. outcome[r].code = None /\ process = "serving"
      BY DEF IInv, Consistent, NoOutcome, Handling, PastKey, Answered
    <2>3. Plain(r)'
      BY <1>1, <1>2, <2>1, <2>2 DEF Respond, Plain, Open
    <2>. QED
      BY <1>1, <2>2, <2>3 DEF Respond, Consistent, PastKey, Answered
  <1>. QED
    BY <1>1, <1>2, <1>3, <1>4, UncountedStep DEF Respond, Handling, PastKey

-----------------------------------------------------------------------------
(***************************************************************************)
(* The way out, and what is counted.                                       *)
(***************************************************************************)

\* What envelope renders of an error that fits.
LEMMA EnvelopeFits ==
    ASSUME OutcomeTypeOK, NEW r \in Requests, Fits(error[r]), Envelope(r, error[r])
    PROVE  /\ response' \in [Requests -> Responses \cup {None}]
           /\ response'[r] = [status |-> error[r].status, code |-> error[r].code,
                  retryAfter |-> IF error[r].retryAfter = 0 THEN None ELSE error[r].retryAfter]
           /\ \A q \in Requests \ {r} : response'[q] = response[q]
  BY Renders DEF Envelope, Fits, Errors

LEMMA HandleKeeps ==
    ASSUME IInv, NEW r \in Requests, Handle(r) PROVE IInv'
  <1>1. Fits(error[r]) /\ request[r].stage = "raised" /\ process = "serving"
    BY DEF IInv, Handle, Consistent
  <1>2. /\ request' \in [Requests -> [stage : Stages, route : Routes \cup {None}, key : Presented]]'
        /\ request'[r] = [stage |-> "rendered", route |-> request[r].route, key |-> request[r].key]
        /\ \A q \in Requests \ {r} : request'[q] = request[q]
    BY StageMoves DEF IInv, Handle, Stages
  <1>3. /\ outcome' \in [Requests -> [code : Codes \cup {None}, ceiling : Ceilings \cup {None}]]
        /\ outcome'[r].code = error[r].code /\ outcome'[r].ceiling = error[r].ceiling
        /\ \A q \in Requests \ {r} : outcome'[q] = outcome[q]
    BY <1>1 DEF IInv, OutcomeTypeOK, Handle, Fits, Errors
  <1>4. /\ response' \in [Requests -> Responses \cup {None}]
        /\ response'[r] = [status |-> error[r].status, code |-> error[r].code,
              retryAfter |-> IF error[r].retryAfter = 0 THEN None ELSE error[r].retryAfter]
        /\ \A q \in Requests \ {r} : response'[q] = response[q]
    BY <1>1, EnvelopeFits DEF IInv, Handle
  <1>5. OutcomeTypeOK'
    BY <1>1, <1>2, <1>3, <1>4 DEF IInv, Handle, OutcomeTypeOK
  <1>6. OfError(r)'
    <2>1. Fits(error[r])'
      BY <1>1 DEF Handle, Fits, Errors
    <2>. QED
      BY <1>1, <1>3, <1>4, <2>1 DEF Handle, OfError
  <1>7. Consistent(r)'
    BY <1>1, <1>2, <1>6 DEF Handle, Consistent, PastKey, Answered
  <1>. QED
    BY <1>1, <1>2, <1>3, <1>4, <1>5, <1>7, UncountedStep DEF Handle

LEMMA UnhandledKeeps ==
    ASSUME IInv, NEW r \in Requests, Unhandled(r) PROVE IInv'
  <1>1. /\ Fits(error[r]) /\ request[r].stage = "raised" /\ process = "serving"
        /\ error[r].code # "budget_exhausted"
    BY DEF IInv, Unhandled, Consistent, Fits
  <1>2. /\ request' \in [Requests -> [stage : Stages, route : Routes \cup {None}, key : Presented]]'
        /\ request'[r] = [stage |-> "started", route |-> request[r].route, key |-> request[r].key]
        /\ \A q \in Requests \ {r} : request'[q] = request[q]
    BY StageMoves DEF IInv, Unhandled, Stages
  <1>3. /\ outcome' \in [Requests -> [code : Codes \cup {None}, ceiling : Ceilings \cup {None}]]
        /\ outcome'[r].code = error[r].code
        /\ \A q \in Requests \ {r} : outcome'[q] = outcome[q]
    BY <1>1 DEF IInv, OutcomeTypeOK, Unhandled, Fits, Errors
  <1>4. /\ response' \in [Requests -> Responses \cup {None}]
        /\ response'[r] = [status |-> error[r].status, code |-> error[r].code,
              retryAfter |-> IF error[r].retryAfter = 0 THEN None ELSE error[r].retryAfter]
        /\ \A q \in Requests \ {r} : response'[q] = response[q]
    BY <1>1, EnvelopeFits DEF IInv, Unhandled
  <1>5. OutcomeTypeOK'
    BY <1>1, <1>2, <1>3, <1>4 DEF IInv, Unhandled, OutcomeTypeOK
  <1>6. OfError(r)'
    <2>1. Fits(error[r])'
      BY <1>1 DEF Unhandled, Fits, Errors
    <2>. QED
      BY <1>1, <1>3, <1>4, <2>1 DEF Unhandled, OfError
  <1>7. Consistent(r)'
    BY <1>1, <1>2, <1>6 DEF Unhandled, Consistent, PastKey, Answered
  <1>. QED
    BY <1>1, <1>2, <1>3, <1>4, <1>5, <1>7, UncountedStep DEF Unhandled

LEMMA StartResponseKeeps ==
    ASSUME IInv, NEW r \in Requests, StartResponse(r) PROVE IInv'
  <1>1. /\ request' \in [Requests -> [stage : Stages, route : Routes \cup {None}, key : Presented]]'
        /\ request'[r] = [stage |-> "started", route |-> request[r].route, key |-> request[r].key]
        /\ \A q \in Requests \ {r} : request'[q] = request[q]
    BY StageMoves DEF IInv, StartResponse, Stages
  <1>2. OutcomeTypeOK'
    <2>1. metrics' \in [errors : [Codes -> Nat], trips : [Ceilings -> Nat],
                        shed : Nat, pressure : Nat, requests : Nat]
      BY DEF IInv, StartResponse, OutcomeTypeOK
    <2>. QED
      BY <1>1, <2>1 DEF IInv, StartResponse, OutcomeTypeOK
  <1>3. Consistent(r)'
    <2>1. Entitled(r)' = Entitled(r)
      BY <1>1 DEF StartResponse, Entitled, Spelled
    <2>2. Plain(r)' = Plain(r)
      BY <1>1, <2>1 DEF StartResponse, Plain, Open
    <2>3. OfError(r)' = OfError(r)
      BY DEF StartResponse, OfError, Fits, Errors
    <2>4. process = "serving" /\ (Plain(r) \/ OfError(r))
      BY DEF IInv, StartResponse, Consistent, Answered
    <2>. QED
      BY <1>1, <2>2, <2>3, <2>4 DEF StartResponse, Consistent, PastKey, Answered
  <1>4. /\ metrics'.errors = metrics.errors /\ metrics'.trips = metrics.trips
        /\ metrics'.shed = metrics.shed /\ metrics'.pressure = metrics.pressure
    BY DEF IInv, OutcomeTypeOK, StartResponse
  <1>. QED
    BY <1>1, <1>2, <1>3, <1>4, UncountedStep DEF StartResponse

LEMMA OneMore ==
    ASSUME NEW S \in SUBSET Requests, NEW r \in Requests \ S
    PROVE  Cardinality(S \cup {r}) = Cardinality(S) + 1
  BY RequestsAssumption, FS_Subset, FS_AddElement

\* What _finish adds to each counter.
LEMMA RecordAdds ==
    ASSUME OutcomeTypeOK, NEW r \in Requests, metrics' = Record(metrics, outcome[r])
    PROVE  /\ metrics' \in [errors : [Codes -> Nat], trips : [Ceilings -> Nat],
                             shed : Nat, pressure : Nat, requests : Nat]
           /\ outcome[r].code = None => metrics' = metrics
           /\ outcome[r].code # None =>
                /\ \A code \in Codes : metrics'.errors[code] =
                       metrics.errors[code] + (IF code = outcome[r].code THEN 1 ELSE 0)
                /\ metrics'.shed = metrics.shed + (IF outcome[r].code = "overloaded" THEN 1 ELSE 0)
                /\ metrics'.pressure =
                       metrics.pressure + (IF outcome[r].code = "budget_pressure" THEN 1 ELSE 0)
                /\ \A c \in Ceilings : metrics'.trips[c] = metrics.trips[c] +
                       (IF outcome[r].code = "budget_exhausted" /\ outcome[r].ceiling = c THEN 1 ELSE 0)
  <1>1. metrics \in [errors : [Codes -> Nat], trips : [Ceilings -> Nat],
                     shed : Nat, pressure : Nat, requests : Nat]
        /\ outcome[r] \in [code : Codes \cup {None}, ceiling : Ceilings \cup {None}]
    BY DEF OutcomeTypeOK
  <1>2. CASE outcome[r].code = None
    BY <1>1, <1>2 DEF Record
  <1>3. CASE outcome[r].code # None
    <2>1. outcome[r].code \in Codes
      BY <1>1, <1>3
    <2>2. metrics' = [errors |-> [metrics.errors EXCEPT ![outcome[r].code] = @ + 1],
                      trips |-> [c \in Ceilings |-> metrics.trips[c] +
                          (IF outcome[r].code = "budget_exhausted" /\ outcome[r].ceiling = c THEN 1 ELSE 0)],
                      shed |-> metrics.shed + (IF outcome[r].code = "overloaded" THEN 1 ELSE 0),
                      pressure |-> metrics.pressure +
                          (IF outcome[r].code = "budget_pressure" THEN 1 ELSE 0),
                      requests |-> metrics.requests]
      BY <1>1, <1>3 DEF Record
    <2>. QED
      BY <1>1, <1>3, <2>1, <2>2
  <1>. QED
    BY <1>2, <1>3

LEMMA FinishKeeps ==
    ASSUME IInv, NEW r \in Requests, Finish(r) PROVE IInv'
  <1>. DEFINE Trips(c) == {q \in Done("budget_exhausted") : error[q].ceiling = c}
  <1>1. /\ request' \in [Requests -> [stage : Stages, route : Routes \cup {None}, key : Presented]]'
        /\ request'[r] = [stage |-> "done", route |-> request[r].route, key |-> request[r].key]
        /\ \A q \in Requests \ {r} : request'[q] = request[q]
    BY StageMoves DEF IInv, Finish, Stages
  <1>2. request[r].stage = "started" /\ process = "serving" /\ (Plain(r) \/ OfError(r))
    BY DEF IInv, Finish, Consistent, Answered
  <1>3. OutcomeTypeOK'
    <2>1. metrics' \in [errors : [Codes -> Nat], trips : [Ceilings -> Nat],
                        shed : Nat, pressure : Nat, requests : Nat]
      BY RecordAdds DEF IInv, Finish
    <2>. QED
      BY <1>1, <2>1 DEF IInv, Finish, OutcomeTypeOK
  <1>4. ServingMeans'
    BY DEF IInv, Finish, ServingMeans, Parses, MayServe, Readable, Budgeted, Armed
  <1>5. ASSUME NEW q \in Requests PROVE Consistent(q)'
    <2>0. env' = env /\ request'[q].key = request[q].key /\ request'[q].route = request[q].route
      BY <1>1 DEF Finish
    <2>1. Entitled(q)' = Entitled(q)
      BY <2>0 DEF Entitled, Spelled
    <2>2. Plain(q)' = Plain(q)
      BY <2>0, <2>1 DEF Finish, Plain, Open
    <2>3. OfError(q)' = OfError(q) /\ Fits(error[q])' = Fits(error[q])
      BY DEF Finish, OfError, Fits, Errors
    <2>4. CASE q = r
      BY <1>1, <1>2, <2>2, <2>3, <2>4 DEF Finish, Consistent, PastKey, Answered
    <2>5. CASE q # r
      BY <1>1, <2>1, <2>2, <2>3, <2>5 DEF IInv, Finish, Consistent, NoOutcome, PastKey, Answered
    <2>. QED
      BY <2>4, <2>5
  <1>6. /\ \A code : Done(code) \subseteq Requests /\ r \notin Done(code)
        /\ \A c : Trips(c) \subseteq Requests /\ r \notin Trips(c)
    BY <1>2 DEF Done
  <1>7. ASSUME NEW code \in Codes
        PROVE  Done(code)' = IF response[r].code = code THEN Done(code) \cup {r} ELSE Done(code)
    BY <1>1 DEF Finish, Done
  <1>8. ASSUME NEW c
        PROVE  Trips(c)' = IF response[r].code = "budget_exhausted" /\ error[r].ceiling = c
                           THEN Trips(c) \cup {r} ELSE Trips(c)
    BY <1>1 DEF Finish, Done
  <1>. HIDE DEF Trips
  <1>9. FailureSignalIsExact'
    <2>0. {"overloaded", "budget_pressure", "budget_exhausted"} \subseteq Codes
      BY CodeNames
    <2>1. CASE Plain(r)
      <3>1. metrics' = metrics
        BY <2>1, RecordAdds DEF IInv, Finish, Plain
      <3>2. \A code \in Codes : Done(code)' = Done(code)
        BY <1>7, <2>1, NoneAssumption DEF Plain
      <3>3. \A c : Trips(c)' = Trips(c)
        BY <1>8, <2>0, <2>1, NoneAssumption DEF Plain
      <3>. QED
        BY <2>0, <3>1, <3>2, <3>3 DEF IInv, FailureSignalIsExact, Trips
    <2>2. CASE OfError(r)
      <3>1. /\ outcome[r].code # None /\ response[r].code = outcome[r].code
            /\ outcome[r].code = "budget_exhausted" => outcome[r].ceiling = error[r].ceiling
        BY <2>2, NoneAssumption DEF OfError, Fits, Errors
      <3>2. /\ \A code \in Codes : metrics'.errors[code] =
                   metrics.errors[code] + (IF code = outcome[r].code THEN 1 ELSE 0)
            /\ metrics'.shed = metrics.shed + (IF outcome[r].code = "overloaded" THEN 1 ELSE 0)
            /\ metrics'.pressure =
                   metrics.pressure + (IF outcome[r].code = "budget_pressure" THEN 1 ELSE 0)
            /\ \A c \in Ceilings : metrics'.trips[c] = metrics.trips[c] +
                   (IF outcome[r].code = "budget_exhausted" /\ outcome[r].ceiling = c THEN 1 ELSE 0)
        BY <3>1, RecordAdds DEF IInv, Finish
      <3>3. ASSUME NEW code \in Codes
            PROVE  Cardinality(Done(code)') =
                     Cardinality(Done(code)) + (IF code = outcome[r].code THEN 1 ELSE 0)
        <4>1. Cardinality(Done(code) \cup {r}) = Cardinality(Done(code)) + 1
          BY <1>6, OneMore
        <4>2. Cardinality(Done(code)) \in Nat
          BY <1>6, RequestsAssumption, FS_Subset, FS_CardinalityType
        <4>3. CASE response[r].code = code
          BY <1>7, <3>1, <4>1, <4>3
        <4>4. CASE ~(response[r].code = code)
          BY <1>7, <3>1, <4>2, <4>4
        <4>. QED
          BY <4>3, <4>4
      <3>4. ASSUME NEW c
            PROVE  Cardinality(Trips(c)') = Cardinality(Trips(c)) +
                     (IF outcome[r].code = "budget_exhausted" /\ outcome[r].ceiling = c THEN 1 ELSE 0)
        <4>1. Cardinality(Trips(c) \cup {r}) = Cardinality(Trips(c)) + 1
          BY <1>6, OneMore
        <4>2. Cardinality(Trips(c)) \in Nat
          BY <1>6, RequestsAssumption, FS_Subset, FS_CardinalityType
        <4>3. CASE response[r].code = "budget_exhausted" /\ error[r].ceiling = c
          BY <1>8, <3>1, <4>1, <4>3
        <4>4. CASE ~(response[r].code = "budget_exhausted" /\ error[r].ceiling = c)
          BY <1>8, <3>1, <4>2, <4>4
        <4>. QED
          BY <4>3, <4>4
      <3>. QED
        <4>1. \A code \in Codes : metrics'.errors[code] = Cardinality(Done(code)')
          BY <3>2, <3>3 DEF IInv, FailureSignalIsExact
        <4>2. /\ metrics'.shed = Cardinality(Done("overloaded")')
              /\ metrics'.pressure = Cardinality(Done("budget_pressure")')
          BY <2>0, <3>2, <3>3 DEF IInv, FailureSignalIsExact
        <4>3. \A c \in Ceilings : metrics'.trips[c] = Cardinality(Trips(c)')
          <5>1. \A c \in Ceilings : metrics.trips[c] = Cardinality(Trips(c))
            BY DEF IInv, FailureSignalIsExact, Trips
          <5>. QED
            BY <3>2, <3>4, <5>1
        <4>. QED
          BY <4>1, <4>2, <4>3 DEF FailureSignalIsExact, Trips
    <2>. QED
      BY <1>2, <2>1, <2>2
  <1>. QED
    BY <1>3, <1>4, <1>5, <1>9 DEF IInv

LEMMA StutterKeeps ==
    ASSUME IInv, UNCHANGED vars PROVE IInv'
  <1>1. OutcomeTypeOK'
    BY DEF IInv, vars, OutcomeTypeOK, Presented
  <1>2. ServingMeans'
    BY DEF IInv, vars, ServingMeans, Parses, MayServe, Readable, Budgeted, Armed
  <1>3. \A r \in Requests : Consistent(r)'
    <2>. SUFFICES ASSUME NEW r \in Requests PROVE Consistent(r)'
      OBVIOUS
    <2>1. Entitled(r)' = Entitled(r)
      BY DEF vars, Entitled, Spelled
    <2>2. Plain(r)' = Plain(r)
      BY <2>1 DEF vars, Plain, Open
    <2>3. OfError(r)' = OfError(r) /\ Fits(error[r])' = Fits(error[r])
      BY DEF vars, OfError, Fits, Errors
    <2>. QED
      BY <2>1, <2>2, <2>3 DEF IInv, vars, Consistent, NoOutcome, PastKey, Answered
  <1>4. FailureSignalIsExact'
    BY DEF IInv, vars, FailureSignalIsExact, Done
  <1>. QED
    BY <1>1, <1>2, <1>3, <1>4 DEF IInv

-----------------------------------------------------------------------------
(***************************************************************************)
(* The theorems.                                                           *)
(***************************************************************************)

LEMMA StepKeeps ==
    ASSUME IInv, [Next]_vars PROVE IInv'
  <1>1. CASE Startup
    BY <1>1, StartupKeeps
  <1>2. ASSUME NEW r \in Requests, Arrive(r) PROVE IInv'
    BY <1>2, ArriveKeeps
  <1>3. ASSUME NEW r \in Requests, Handler(r) PROVE IInv'
    <2>1. request[r].stage \in Handling /\ (Raises(r) \/ GoesOn(r) \/ Answers(r))
      BY <1>3, HandlerMoves
    <2>2. CASE Raises(r)
      BY <2>1, <2>2, RaiseKeeps DEF Raises
    <2>3. CASE GoesOn(r)
      BY <2>1, <2>3, ProceedKeeps DEF GoesOn
    <2>4. CASE Answers(r)
      BY <2>1, <2>4, RespondKeeps DEF Answers
    <2>. QED
      BY <2>1, <2>2, <2>3, <2>4
  <1>4. ASSUME NEW r \in Requests, Handle(r) PROVE IInv'
    BY <1>4, HandleKeeps
  <1>5. ASSUME NEW r \in Requests, StartResponse(r) PROVE IInv'
    BY <1>5, StartResponseKeeps
  <1>6. ASSUME NEW r \in Requests, Unhandled(r) PROVE IInv'
    BY <1>6, UnhandledKeeps
  <1>7. ASSUME NEW r \in Requests, Finish(r) PROVE IInv'
    BY <1>7, FinishKeeps
  <1>8. CASE Idle \/ UNCHANGED vars
    BY <1>8, StutterKeeps DEF Idle
  <1>. QED
    BY <1>1, <1>2, <1>3, <1>4, <1>5, <1>6, <1>7, <1>8 DEF Next

LEMMA InvariantHolds == Spec => []IInv
  BY InitEstablishes, StepKeeps, PTL DEF Spec

\* However many requests there are and whichever way each one fails, the
\* counters of _record tell the conditions apart as the callers saw them.
THEOREM FailureSignalExact == Spec => []FailureSignalIsExact
  <1>1. IInv => FailureSignalIsExact
    BY DEF IInv
  <1>. QED
    BY <1>1, InvariantHolds, PTL

\* A rendered Retry-After agrees with the reset of its condition, whatever is
\* left of the window and whichever handler rendered it.
THEOREM ClockHonest == Spec => []ClockIsHonest
  <1>1. ASSUME IInv PROVE ClockIsHonest
    <2>1. SUFFICES ASSUME NEW r \in Requests, response[r] # None, response[r].code # None
                   PROVE  LET reset == Conditions[response[r].code].reset
                          IN  /\ reset = "window" => response[r].retryAfter # None
                              /\ reset \in {"operator", "none"} => response[r].retryAfter = None
      BY DEF ClockIsHonest
    <2>2. OfError(r)
      BY <1>1, <2>1 DEF IInv, Consistent, Plain
    <2>. QED
      BY <2>2, NoneAssumption DEF OfError, Fits, Errors
  <1>. QED
    BY <1>1, InvariantHolds, PTL

\* In any environment a process that serves serves as its operator spelt out:
\* routes with a key to its holder, questions under an armed ceiling.
THEOREM ServesAsMeant == Spec => []ServesOnlyAsMeant
  <1>1. ASSUME IInv PROVE ServesOnlyAsMeant
    <2>1. SUFFICES ASSUME NEW r \in Requests, response[r] # None, response[r].status = 200
                   PROVE  /\ request[r].route \in Open \/ Entitled(r)
                          /\ Armed \/ env.unlimited \in Spelled.true
      BY DEF ServesOnlyAsMeant, Entitled
    <2>2. process = "serving" /\ (Plain(r) \/ OfError(r))
      BY <1>1, <2>1 DEF IInv, Consistent, Answered
    <2>3. Plain(r)
      BY <2>1, <2>2 DEF OfError, Fits
    <2>4. Parses /\ MayServe
      BY <1>1, <2>2 DEF IInv, ServingMeans
    <2>5. Bool(env.unlimited) => env.unlimited \in Spelled.true
      BY <2>4, NoneAssumption DEF Parses, Bool
    <2>. QED
      BY <2>1, <2>3, <2>4, <2>5 DEF Plain, MayServe
  <1>. QED
    BY <1>1, InvariantHolds, PTL

=============================================================================
