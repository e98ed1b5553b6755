----------------------------- MODULE SpendGuard -----------------------------
(***************************************************************************)
(* The spend ceiling of the question-answering API: class SpendGuard and   *)
(* class Reservation of api/budget.py, driven by the requests of           *)
(* api/routes/query.py and by the query_log rows of generation/service.py. *)
(*                                                                         *)
(* Every replica of the API holds one guard.  A request asks it twice:     *)
(* check() before retrieval ("is the money gone?") and reserve() before    *)
(* the provider call ("is the rest already claimed?").  Both first make    *)
(* the cached query_log totals current, which may suspend the coroutine on *)
(* a single-flight lock and on a SELECT; everything after that runs        *)
(* without a suspension point.  The provider then bills the call, the      *)
(* query_log row commits, and only afterwards does the route settle: the   *)
(* steps another coroutine, another replica, midnight or a crash can fall  *)
(* between are the actions below.                                          *)
(*                                                                         *)
(* Money is counted in units of which Cent make a cent.  Time is the UTC   *)
(* day number; the age of the cache is one bit, "younger than the TTL".    *)
(***************************************************************************)
EXTENDS Integers, FiniteSets

CONSTANTS
    Replicas,      \* processes of the API, one SpendGuard each
    Requests,      \* the requests of a behaviour, one coroutine each
    Home,          \* Home[q]: the replica request q is sent to
    SourceOf,      \* SourceOf[q]: whose spend it is, "visitor" or "eval"
    LastDay,       \* days are 0..LastDay: the bound on the clock
    MonthOf,       \* MonthOf[d]: the first day of the month of day d
    DaysIn,        \* DaysIn[d]: how many days the calendar gives d's month
    Cent,          \* units of money in one cent
    MonthlyLimit,  \* RAG_QA_MONTHLY_BUDGET_USD, or NoLimit
    DailyLimit,    \* RAG_QA_DAILY_BUDGET_USD, or NoLimit
    Amounts,       \* the worst cases max_cost may compute
    MaxAmount,     \* no worst case is larger than this
    NoLimit,       \* the limit is not configured (None)
    NoDay,         \* nothing is cached yet (_refreshed_at is None)
    NoTotals,      \* no SELECT has returned
    Nobody         \* the refresh lock is free

Days    == 0..LastDay
Sources == {"visitor", "eval"}

ASSUME PopulationAssumption ==
    /\ IsFiniteSet(Requests)
    /\ Home \in [Requests -> Replicas]
    /\ SourceOf \in [Requests -> Sources]
    /\ Nobody \notin Requests

ASSUME CalendarAssumption ==
    /\ LastDay \in Nat
    /\ MonthOf \in [Days -> Days]
    /\ \A d \in Days : MonthOf[d] <= d
    /\ \A d, e \in Days : d <= e => MonthOf[d] <= MonthOf[e]
    /\ DaysIn \in [Days -> Nat \ {0}]
    /\ NoDay \notin Days

\* require_serving (api/deps.py) reads a limit of zero as "no ceiling", so a
\* configured limit is positive.
ASSUME MoneyAssumption ==
    /\ Cent \in Nat \ {0}
    /\ NoLimit \notin Nat
    /\ MonthlyLimit \in (Nat \ {0}) \cup {NoLimit}
    /\ DailyLimit \in (Nat \ {0}) \cup {NoLimit}
    /\ MaxAmount \in Nat
    /\ Amounts \subseteq 0..MaxAmount
    /\ NoTotals \notin [day : Nat, month : Nat]

VARIABLES
    today,        \* the UTC day the clock shows
    spent,        \* spent[s][d]: cost of the query_log rows of source s with
                  \* created_at >= the start of day d, over all replicas
    guard,        \* guard[r]: the fields of replica r's SpendGuard
    holder,       \* holder[r]: the request inside _refresh_lock
    totals,       \* totals[r]: what the outstanding SELECT of r has read
    stage,        \* stage[q]: where request q is in routes/query.py
    now,          \* now[q]: the day check() or reserve() captured
    amount,       \* amount[q]: the worst case q claims
    cost,         \* cost[q]: what the answer to q reports it cost
    requestedAt,  \* requestedAt[q]: the day its answer was asked for
    own,          \* own[r][s][d]: the part of spent written by replica r
    settling,     \* settling[r]: cost settled since totals[r] was read
    forgotten,    \* forgotten[r]: settling[r] when the last refresh ended
    worst,        \* worst[r]: the largest forgotten[r] so far
    noCount       \* noCount[r]: cost of rows whose request never settled

clock    == <<today>>
ledger   == <<spent, own>>
lock     == <<holder, totals>>
request  == <<stage, now, amount, cost, requestedAt>>
history  == <<settling, forgotten, worst, noCount>>
vars     == <<clock, ledger, guard, lock, request, history>>

Min2(a, b) == IF a <= b THEN a ELSE b
Max2(a, b) == IF a >= b THEN a ELSE b

-----------------------------------------------------------------------------
(***************************************************************************)
(* The ceilings.                                                           *)
(***************************************************************************)

Enabled == MonthlyLimit # NoLimit \/ DailyLimit # NoLimit

\* derive_daily_limit: the month's budget over its days, floored to the cent,
\* and never below one cent.
DerivedDailyLimit(d) ==
    Max2(Cent, Cent * (MonthlyLimit \div (DaysIn[d] * Cent)))

\* _daily_shape: an override may exceed the derived ceiling, up to twice it.
DailyLimitFor(d) ==
    CASE MonthlyLimit = NoLimit -> DailyLimit
      [] MonthlyLimit # NoLimit /\ DailyLimit = NoLimit -> DerivedDailyLimit(d)
      [] OTHER -> Min2(DailyLimit, 2 * DerivedDailyLimit(d))

(***************************************************************************)
(* The methods of SpendGuard that do not suspend, as functions of its      *)
(* fields.  cachedDay stands for _refreshed_at, _cached_day and            *)
(* _cached_month, which _refresh sets together; fresh is "age < TTL".      *)
(***************************************************************************)

NewGuard ==
    [dayTotal |-> 0, monthTotal |-> 0, delta |-> 0, deltaMonthlyOnly |-> 0,
     reserved |-> 0, reservedMonthlyOnly |-> 0,
     cachedDay |-> NoDay, fresh |-> FALSE]

Stale(g, d) == ~g.fresh \/ g.cachedDay # d

\* Fault: the monthly ceiling itself is still allowed.
MonthlyExceeded(g, claims) ==
    /\ MonthlyLimit # NoLimit
    /\ g.monthTotal + g.delta + g.deltaMonthlyOnly + claims > MonthlyLimit

\* Fault: an evaluation's spend since the refresh is left out.
MonthlyReachedByVisitors(g, claims) ==
    /\ MonthlyLimit # NoLimit
    /\ g.monthTotal + g.delta + claims >= MonthlyLimit

MonthlyReached(g, claims) ==
    /\ MonthlyLimit # NoLimit
    /\ g.monthTotal + g.delta + g.deltaMonthlyOnly + claims >= MonthlyLimit

\* Fault: the daily ceiling itself is still allowed.
DailyExceeded(g, d, claims) ==
    /\ DailyLimitFor(d) # NoLimit
    /\ g.dayTotal + g.delta + claims > DailyLimitFor(d)

DailyReached(g, d, claims) ==
    /\ DailyLimitFor(d) # NoLimit
    /\ g.dayTotal + g.delta + claims >= DailyLimitFor(d)

\* _enforce(counting_reservations=False): the money is gone.
Exhausted(g, d) == MonthlyReached(g, 0) \/ DailyReached(g, d, 0)

\* _enforce(counting_reservations=True): the rest is claimed.
Committed(g, d) ==
    \/ MonthlyReached(g, g.reserved + g.reservedMonthlyOnly)
    \/ DailyReached(g, d, g.reserved)

Claim(g, a, s) ==
    IF s = "visitor" THEN [g EXCEPT !.reserved = @ + a]
                     ELSE [g EXCEPT !.reservedMonthlyOnly = @ + a]

\* Fault: every claim is given back to the visitors.
DischargeToVisitors(g, a, s) == [g EXCEPT !.reserved = @ - a]

Discharge(g, a, s) ==
    IF s = "visitor" THEN [g EXCEPT !.reserved = @ - a]
                     ELSE [g EXCEPT !.reservedMonthlyOnly = @ - a]

Record(g, c, s) ==
    IF s = "visitor" THEN [g EXCEPT !.delta = @ + c]
                     ELSE [g EXCEPT !.deltaMonthlyOnly = @ + c]

\* The tail of _refresh: new totals, no delta, the claims untouched.
Refreshed(g, t, d) ==
    [g EXCEPT !.dayTotal = t.day, !.monthTotal = t.month,
              !.delta = 0, !.deltaMonthlyOnly = 0,
              !.cachedDay = d, !.fresh = TRUE]

\* Fault: the difference to the claim is recorded instead of the cost.
SettledByDifference(g, q) ==
    Discharge(Record(g, cost[q] - amount[q], SourceOf[q]), amount[q], SourceOf[q])

\* Fault: the claim is given back and the cost forgotten.
SettledUnrecorded(g, q) == Discharge(g, amount[q], SourceOf[q])

\* Fault: the cost is recorded by settle and again by the finally.
SettledTwice(g, q) ==
    Discharge(Record(Record(g, cost[q], SourceOf[q]), cost[q], SourceOf[q]),
              amount[q], SourceOf[q])

\* Reservation.settle: the cost is recorded, then the claim given back.
Settled(g, q) == Discharge(Record(g, cost[q], SourceOf[q]), amount[q], SourceOf[q])

\* Reservation.release on a path that never settled.
Released(g, q) == Discharge(g, amount[q], SourceOf[q])

\* Fault: the scrape reads the totals and not what was spent since.
MonthlyHeadroomOfTotals(g) == Max2(0, MonthlyLimit - g.monthTotal)

\* snapshot().remaining, what /metrics publishes from the cache alone.
DailyHeadroom(g, d) == Max2(0, DailyLimitFor(d) - g.dayTotal - g.delta)

MonthlyHeadroom(g) ==
    Max2(0, MonthlyLimit - g.monthTotal - g.delta - g.deltaMonthlyOnly)

-----------------------------------------------------------------------------
(***************************************************************************)
(* Stages of a request.  In "check" and "reserve" it is suspended in       *)
(* _current; from "generate" to "logged" it holds a claim.                 *)
(***************************************************************************)

Asking  == {"check", "reserve"}
Holding == {"generate", "calling", "billed", "logged"}
Ended   == {"exhausted", "pressure", "served", "failed"}
Stages  == {"idle", "retrieve"} \cup Asking \cup Holding \cup Ended

HoldingAt(r, s) ==
    {q \in Requests : stage[q] \in Holding /\ Home[q] = r /\ SourceOf[q] = s}

\* The answer check() gives: refused, or on to retrieval.
Checked(g, d) == IF Exhausted(g, d) THEN "exhausted" ELSE "retrieve"

\* Fault: claims are looked at first.
AdmittedClaimsFirst(g, d) ==
    CASE Committed(g, d) -> "pressure"
      [] ~Committed(g, d) /\ Exhausted(g, d) -> "exhausted"
      [] OTHER -> "generate"

\* The answer _admit gives: money gone is reported before money claimed.
Admitted(g, d) ==
    CASE Exhausted(g, d) -> "exhausted"
      [] ~Exhausted(g, d) /\ Committed(g, d) -> "pressure"
      [] OTHER -> "generate"

\* What follows _current without a suspension point, on the guard g it leaves.
Decide(q, asked, d, a, g) ==
    IF asked = "check"
    THEN /\ stage' = [stage EXCEPT ![q] = Checked(g, d)]
         /\ guard' = [guard EXCEPT ![Home[q]] = g]
    ELSE /\ stage' = [stage EXCEPT ![q] = Admitted(g, d)]
         /\ guard' = [guard EXCEPT ![Home[q]] =
                        IF Admitted(g, d) = "generate"
                        THEN Claim(g, a, SourceOf[q]) ELSE g]

\* Entering check() or reserve(): with a current cache the answer is immediate,
\* with a stale one the coroutine queues on the refresh lock.
Ask(q, asked, a) ==
    /\ now' = [now EXCEPT ![q] = today]
    /\ amount' = [amount EXCEPT ![q] = a]
    /\ IF Enabled /\ Stale(guard[Home[q]], today)
       THEN /\ stage' = [stage EXCEPT ![q] = asked]
            /\ UNCHANGED guard
       ELSE Decide(q, asked, today, a, guard[Home[q]])
    /\ UNCHANGED <<clock, ledger, lock, cost, requestedAt, history>>

-----------------------------------------------------------------------------
Init ==
    /\ today = 0
    /\ spent = [s \in Sources |-> [d \in Days |-> 0]]
    /\ own = [r \in Replicas |-> [s \in Sources |-> [d \in Days |-> 0]]]
    /\ guard = [r \in Replicas |-> NewGuard]
    /\ holder = [r \in Replicas |-> Nobody]
    /\ totals = [r \in Replicas |-> NoTotals]
    /\ stage = [q \in Requests |-> "idle"]
    /\ now = [q \in Requests |-> 0]
    /\ amount = [q \in Requests |-> 0]
    /\ cost = [q \in Requests |-> 0]
    /\ requestedAt = [q \in Requests |-> 0]
    /\ settling = [r \in Replicas |-> 0]
    /\ forgotten = [r \in Replicas |-> 0]
    /\ worst = [r \in Replicas |-> 0]
    /\ noCount = [r \in Replicas |-> 0]

\* POST /query reaches budget.check().
Arrive(q) ==
    /\ stage[q] = "idle"
    /\ Ask(q, "check", 0)

\* Retrieval returns; the prompt, and so the worst case, is known: zero when
\* no chunk was found or no ceiling is configured.
Retrieved(q) ==
    /\ stage[q] = "retrieve"
    /\ \E a \in IF Enabled THEN Amounts ELSE {0} : Ask(q, "reserve", a)

\* Overloaded, or the retriever raised: nothing is claimed yet.
RetrievalFails(q) ==
    /\ stage[q] = "retrieve"
    /\ stage' = [stage EXCEPT ![q] = "failed"]
    /\ UNCHANGED <<clock, ledger, guard, lock, now, amount, cost, requestedAt, history>>

(***************************************************************************)
(* _current, slow path.                                                    *)
(***************************************************************************)

\* A coroutine gets the lock and finds the cache current after all: the
\* re-check makes the followers of a refresh issue nothing.
FollowRefresh(q) ==
    LET r == Home[q] IN
    /\ stage[q] \in Asking
    /\ holder[r] = Nobody
    /\ ~Stale(guard[r], now[q])
    /\ Decide(q, stage[q], now[q], amount[q], guard[r])
    /\ UNCHANGED <<clock, ledger, lock, now, amount, cost, requestedAt, history>>

\* Fault: no re-check under the lock.
BeginRefreshUnchecked(q) ==
    LET r == Home[q] IN
    /\ stage[q] \in Asking
    /\ holder[r] = Nobody
    /\ holder' = [holder EXCEPT ![r] = q]
    /\ UNCHANGED <<clock, ledger, guard, totals, request, history>>

\* A coroutine gets the lock, finds the cache stale and issues the SELECT.
BeginRefresh(q) ==
    LET r == Home[q] IN
    /\ stage[q] \in Asking
    /\ holder[r] = Nobody
    /\ Stale(guard[r], now[q])
    /\ holder' = [holder EXCEPT ![r] = q]
    /\ UNCHANGED <<clock, ledger, guard, totals, request, history>>

\* The database evaluates _SPEND_WINDOWS; the result is not back yet.
ReadTotals(q) ==
    LET r == Home[q] IN
    /\ holder[r] = q
    /\ totals[r] = NoTotals
    /\ totals' = [totals EXCEPT ![r] =
                    [day   |-> spent["visitor"][now[q]],
                     month |-> spent["visitor"][MonthOf[now[q]]]
                                 + spent["eval"][MonthOf[now[q]]]]]
    /\ settling' = [settling EXCEPT ![r] = 0]
    /\ UNCHANGED <<clock, ledger, guard, holder, request, forgotten, worst, noCount>>

\* The result arrives: the cache is replaced, the delta cleared, the lock
\* released, and the coroutine goes on to its answer.
CompleteRefresh(q) ==
    LET r == Home[q] IN
    /\ holder[r] = q
    /\ totals[r] # NoTotals
    /\ Decide(q, stage[q], now[q], amount[q], Refreshed(guard[r], totals[r], now[q]))
    /\ holder' = [holder EXCEPT ![r] = Nobody]
    /\ totals' = [totals EXCEPT ![r] = NoTotals]
    /\ forgotten' = [forgotten EXCEPT ![r] = settling[r]]
    /\ worst' = [worst EXCEPT ![r] = Max2(@, settling[r])]
    /\ settling' = [settling EXCEPT ![r] = 0]
    /\ UNCHANGED <<clock, ledger, now, amount, cost, requestedAt, noCount>>

\* Fault: the coroutine swallows the exception and queues on the lock again.
RefreshFailsRetried(q) ==
    /\ holder[Home[q]] = q
    /\ holder' = [holder EXCEPT ![Home[q]] = Nobody]
    /\ totals' = [totals EXCEPT ![Home[q]] = NoTotals]
    /\ UNCHANGED <<clock, ledger, guard, request, history>>

\* The checkout or the SELECT raises: the lock is released, nothing is cached.
RefreshFails(q) ==
    LET r == Home[q] IN
    /\ holder[r] = q
    /\ stage' = [stage EXCEPT ![q] = "failed"]
    /\ holder' = [holder EXCEPT ![r] = Nobody]
    /\ totals' = [totals EXCEPT ![r] = NoTotals]
    /\ settling' = [settling EXCEPT ![r] = 0]
    /\ UNCHANGED <<clock, ledger, guard, now, amount, cost, requestedAt,
                   forgotten, worst, noCount>>

(***************************************************************************)
(* Generation, under a claim.                                              *)
(***************************************************************************)

\* answer() or the pump's first step of stream_answer(): the request is stamped
\* with the instant its row and its price will carry.
CallProvider(q) ==
    /\ stage[q] = "generate"
    /\ requestedAt' = [requestedAt EXCEPT ![q] = today]
    /\ stage' = [stage EXCEPT ![q] = "calling"]
    /\ UNCHANGED <<clock, ledger, guard, lock, now, amount, cost, history>>

\* The provider bills, never more than the worst case.  A stream that ends
\* without a usage event is reported as costing nothing.
ProviderBills(q) ==
    /\ stage[q] = "calling"
    /\ \E b \in 0..amount[q] : cost' = [cost EXCEPT ![q] = b]
    /\ stage' = [stage EXCEPT ![q] = "billed"]
    /\ UNCHANGED <<clock, ledger, guard, lock, now, amount, requestedAt, history>>

\* A row with q's cost, created at requestedAt[q], becomes visible.
Insert(q) ==
    LET Since(f) == [d \in Days |-> IF d <= requestedAt[q] THEN f[d] + cost[q] ELSE f[d]]
    IN  /\ spent' = [spent EXCEPT ![SourceOf[q]] = Since(@)]
        /\ own' = [own EXCEPT ![Home[q]][SourceOf[q]] = Since(own[Home[q]][SourceOf[q]])]

\* _write_query_log commits; the route has not been resumed yet.
LogRow(q) ==
    /\ stage[q] = "billed"
    /\ Insert(q)
    /\ stage' = [stage EXCEPT ![q] = "logged"]
    /\ UNCHANGED <<clock, guard, lock, now, amount, cost, requestedAt,
                   settling, forgotten, worst, noCount>>

\* answer() returned, or the pump saw AnswerComplete: settle, then the finally.
Settle(q) ==
    LET r == Home[q] IN
    /\ stage[q] = "logged"
    /\ guard' = [guard EXCEPT ![r] = Settled(@, q)]
    /\ settling' = [settling EXCEPT ![r] = IF totals[r] = NoTotals THEN @ ELSE @ + cost[q]]
    /\ stage' = [stage EXCEPT ![q] = "served"]
    /\ UNCHANGED <<clock, ledger, lock, now, amount, cost, requestedAt,
                   forgotten, worst, noCount>>

\* The call raises or is cancelled; the finally releases the claim.
Fail(q) ==
    /\ guard' = [guard EXCEPT ![Home[q]] = Released(@, q)]
    /\ stage' = [stage EXCEPT ![q] = "failed"]
    /\ UNCHANGED <<clock, lock, now, amount, cost, requestedAt,
                   settling, forgotten, worst>>

\* The provider call fails without being billed.
ProviderFails(q) ==
    /\ stage[q] = "calling"
    /\ Fail(q)
    /\ UNCHANGED <<ledger, noCount>>

\* After the provider billed, the stream or the INSERT raises: there is no row.
AnswerLost(q) ==
    /\ stage[q] = "billed"
    /\ Fail(q)
    /\ UNCHANGED <<ledger, noCount>>

\* The INSERT commits but commit() raises: there is a row, and no settle.
CommitUnacknowledged(q) ==
    /\ stage[q] = "billed"
    /\ Insert(q)
    /\ Fail(q)
    /\ noCount' = [noCount EXCEPT ![Home[q]] = @ + cost[q]]

(***************************************************************************)
(* The environment: time, and a process that dies.                         *)
(***************************************************************************)

\* The cache reaches its TTL.
Expire(r) ==
    /\ guard[r].fresh
    /\ guard' = [guard EXCEPT ![r].fresh = FALSE]
    /\ UNCHANGED <<clock, ledger, lock, request, history>>

Midnight ==
    /\ today < LastDay
    /\ today' = today + 1
    /\ UNCHANGED <<ledger, guard, lock, request, history>>

\* The process dies and restarts: the guard, the lock and the claims are gone,
\* and the requests with them; query_log keeps its rows.
Restart(r) ==
    /\ guard[r] # NewGuard \/ holder[r] # Nobody
    /\ guard' = [guard EXCEPT ![r] = NewGuard]
    /\ holder' = [holder EXCEPT ![r] = Nobody]
    /\ totals' = [totals EXCEPT ![r] = NoTotals]
    /\ settling' = [settling EXCEPT ![r] = 0]
    /\ stage' = [q \in Requests |->
                   IF Home[q] = r /\ stage[q] \notin {"idle"} \cup Ended
                   THEN "failed" ELSE stage[q]]
    /\ UNCHANGED <<clock, ledger, now, amount, cost, requestedAt,
                   forgotten, worst, noCount>>

\* Every request has ended; the system waits for more.
Quiescent ==
    /\ \A q \in Requests : stage[q] \in Ended
    /\ UNCHANGED vars

\* The steps of q's coroutine; Progress are those its own event loop, the
\* database and the provider (with its client timeout) always take in the end.
Progress(q) ==
    \/ Retrieved(q)
    \/ FollowRefresh(q)
    \/ BeginRefresh(q)
    \/ ReadTotals(q)
    \/ CompleteRefresh(q)
    \/ CallProvider(q)
    \/ ProviderBills(q)
    \/ LogRow(q)
    \/ Settle(q)

Failure(q) ==
    \/ RetrievalFails(q)
    \/ RefreshFails(q)
    \/ ProviderFails(q)
    \/ AnswerLost(q)
    \/ CommitUnacknowledged(q)

Next ==
    \/ \E q \in Requests : Arrive(q) \/ Progress(q) \/ Failure(q)
    \/ \E r \in Replicas : Expire(r) \/ Restart(r)
    \/ Midnight
    \/ Quiescent

Spec == Init /\ [][Next]_vars

FairSpec == Spec /\ \A q \in Requests : WF_vars(Progress(q) \/ Failure(q))

-----------------------------------------------------------------------------
(***************************************************************************)
(* Properties.                                                             *)
(***************************************************************************)

GuardType ==
    [dayTotal : Nat, monthTotal : Nat, delta : Nat, deltaMonthlyOnly : Nat,
     reserved : Int, reservedMonthlyOnly : Int,
     cachedDay : Days \cup {NoDay}, fresh : BOOLEAN]

\* Every variable has its type.
TypeOK ==
    /\ today \in Days
    /\ spent \in [Sources -> [Days -> Nat]]
    /\ own \in [Replicas -> [Sources -> [Days -> Nat]]]
    /\ guard \in [Replicas -> GuardType]
    /\ holder \in [Replicas -> Requests \cup {Nobody}]
    /\ totals \in [Replicas -> [day : Nat, month : Nat] \cup {NoTotals}]
    /\ stage \in [Requests -> Stages]
    /\ now \in [Requests -> Days]
    /\ amount \in [Requests -> 0..MaxAmount]
    /\ cost \in [Requests -> 0..MaxAmount]
    /\ requestedAt \in [Requests -> Days]
    /\ settling \in [Replicas -> Nat]
    /\ forgotten \in [Replicas -> Nat]
    /\ worst \in [Replicas -> Nat]
    /\ noCount \in [Replicas -> Nat]

\* Sums over the requests of a set, as the number of pairs <<request, unit>>:
\* a form the theorems about finite sets reason about.
Units(S, f) == {u \in S \X (1..MaxAmount) : u[2] <= f[u[1]]}
Total(S, f) == Cardinality(Units(S, f))

\* What the guard reserves is exactly the sum of the claims still open, per
\* source: no path out of generation (settle then finally, an exception, a
\* refresh in between, a restart) leaks a claim or gives one back twice.
ClaimsExact ==
    \A r \in Replicas :
        /\ guard[r].reserved = Total(HoldingAt(r, "visitor"), amount)
        /\ guard[r].reservedMonthlyOnly = Total(HoldingAt(r, "eval"), amount)

\* Claims whose cost is in no row yet.
Open(r, s) == HoldingAt(r, s) \ {q \in Requests : stage[q] = "logged"}
Logged(r, s) == {q \in HoldingAt(r, s) : stage[q] = "logged"}

OwnMonth(r, d) == own[r]["visitor"][MonthOf[d]] + own[r]["eval"][MonthOf[d]]

\* The coroutine inside the lock is one of this replica, suspended in _current.
HolderAsks ==
    \A r \in Replicas :
        holder[r] # Nobody => Home[holder[r]] = r /\ stage[holder[r]] \in Asking

\* No captured instant and no cached window is in the future.
PastDays ==
    /\ \A q \in Requests : now[q] <= today
    /\ \A r \in Replicas : guard[r].cachedDay # NoDay => guard[r].cachedDay <= today

\* The worst case is an upper bound on what the answer is priced at.
CostWithinClaim ==
    \A q \in Requests : stage[q] \in {"billed", "logged"} => cost[q] <= amount[q]

\* A replica's rows are rows of query_log, and a later window holds fewer.
OwnRows ==
    \A r \in Replicas, s \in Sources, d \in Days :
        /\ own[r][s][d] <= spent[s][d]
        /\ \A e \in Days : d <= e => own[r][s][e] <= own[r][s][d]

\* worst is the largest thing a refresh has forgotten.
WorstIsLargest == \A r \in Replicas : forgotten[r] <= worst[r]

\* What an outstanding SELECT has read covers the replica's own rows but for
\* those still to be settled, those settled since, and those that never will be.
SelectCounts ==
    \A r \in Replicas :
        LET d     == now[holder[r]]
            slack == settling[r] + noCount[r]
        IN  totals[r] # NoTotals =>
                /\ holder[r] # Nobody
                /\ own[r]["visitor"][d]
                      <= totals[r].day + Total(Logged(r, "visitor"), cost) + slack
                /\ OwnMonth(r, d)
                      <= totals[r].month + Total(Logged(r, "visitor"), cost)
                                         + Total(Logged(r, "eval"), cost) + slack

\* What the ceilings rest on beside the exact claims: who holds the refresh
\* lock, which days a cache and a request can carry, and what a SELECT that is
\* still under way can have missed.
Bookkeeping ==
    HolderAsks /\ PastDays /\ CostWithinClaim /\ OwnRows /\ WorstIsLargest /\ SelectCounts

\* What the guard counts covers what its replica has written to query_log in
\* the windows the cache is for, except what is still to be settled, what the
\* last refresh forgot and what never settled.
CountsOwnRows ==
    \A r \in Replicas :
        LET g == guard[r]
            slack == forgotten[r] + noCount[r]
        IN  g.cachedDay # NoDay =>
                /\ own[r]["visitor"][g.cachedDay]
                      <= g.dayTotal + g.delta + Total(Logged(r, "visitor"), cost) + slack
                /\ OwnMonth(r, g.cachedDay)
                      <= g.monthTotal + g.delta + g.deltaMonthlyOnly
                           + Total(Logged(r, "visitor"), cost)
                           + Total(Logged(r, "eval"), cost) + slack

\* The guard counts only money its sources really spent: what a replica adds to
\* the cached totals is covered, source by source, by rows it wrote itself.
SpendIsReal ==
    \A r \in Replicas :
        LET g == guard[r]
        IN  /\ g.delta + Total(Logged(r, "visitor"), cost) <= own[r]["visitor"][0]
            /\ g.deltaMonthlyOnly + Total(Logged(r, "eval"), cost) <= own[r]["eval"][0]
            /\ g.cachedDay # NoDay =>
                  /\ g.dayTotal <= spent["visitor"][g.cachedDay]
                  /\ g.monthTotal <= spent["visitor"][MonthOf[g.cachedDay]]
                                        + spent["eval"][MonthOf[g.cachedDay]]

\* The headroom a scrape reads, once there is one, never promises money this
\* replica has already spent: not after a midnight, not while a refresh runs,
\* not for a row its request has settled.
HeadroomNeverOverstated ==
    \A r \in Replicas :
        LET slack == forgotten[r] + noCount[r]
                       + Total(Logged(r, "visitor"), cost) + Total(Logged(r, "eval"), cost)
        IN  guard[r].cachedDay # NoDay =>
                /\ DailyLimitFor(today) # NoLimit =>
                      DailyHeadroom(guard[r], today)
                        <= Max2(0, DailyLimitFor(today) - own[r]["visitor"][today] + slack)
                /\ MonthlyLimit # NoLimit =>
                      MonthlyHeadroom(guard[r])
                        <= Max2(0, MonthlyLimit - OwnMonth(r, today) + slack)

\* One replica spends less in a month than the monthly ceiling plus one worst
\* case, claims not yet written included; the two terms on the right are what
\* a refresh may forget and what never settles.
MonthlyCeiling ==
    MonthlyLimit # NoLimit =>
        \A r \in Replicas :
            OwnMonth(r, today) + Total(Open(r, "visitor"), amount)
                               + Total(Open(r, "eval"), amount)
                < MonthlyLimit + MaxAmount + worst[r] + noCount[r]

\* The same for the visitors' part of a day, against the daily ceiling of that
\* day or of an earlier one, since a claim may be carried over midnight.
DailyCeiling ==
    Enabled =>
        \A r \in Replicas : \E d \in 0..today :
            own[r]["visitor"][today] + Total(Open(r, "visitor"), amount)
                < DailyLimitFor(d) + MaxAmount + worst[r] + noCount[r]

\* A request turned away with budget_pressure ("reset: shortly") is waiting for
\* a claim: money is left, and somebody holds the rest of it.
PressureIsTransient ==
    [][\A q \in Requests :
          stage'[q] = "pressure" /\ stage[q] # "pressure" =>
              /\ ~Exhausted(guard[Home[q]]', now'[q])
              /\ \E p \in Requests :
                     Home[p] = Home[q] /\ stage[p] \in Holding /\ amount[p] > 0]_vars

\* A refresh never replaces totals that are still current: a burst on a cold
\* replica costs one aggregate query, not one each.
OneQueryPerWindow ==
    [][\A r \in Replicas :
          holder[r] # Nobody /\ totals[r] # NoTotals /\ holder'[r] = Nobody /\ guard[r].fresh
              => guard[r].cachedDay # now[holder[r]]]_vars

\* Every request that entered the guard gets out of it, and gives back what it
\* claimed.
EveryRequestEnds ==
    \A q \in Requests : stage[q] # "idle" ~> stage[q] \in Ended

\* The module docstring of api/budget.py: "one replica can spend at most
\* ceiling + one worst-case query", read for requests that all settle.
SettledWithinOneQuery ==
    \A r \in Replicas :
        noCount[r] = 0 => OwnMonth(r, today) <= MonthlyLimit + MaxAmount
=============================================================================
