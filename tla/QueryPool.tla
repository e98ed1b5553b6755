------------------------------ MODULE QueryPool -------------------------------
(***************************************************************************)
(* What one replica's requests wait for: the query semaphore of            *)
(* api/concurrency.py, the connections of db/engine.py, the refresh lock   *)
(* of the spend guard and the advisory lock of an ingest.                  *)
(*                                                                         *)
(* A query holds one permit over its retrieval, which embeds without a     *)
(* connection and then searches with one; it asks for another connection   *)
(* only when it has none, to refresh the guard's totals before and after   *)
(* retrieval and to write its query_log row.  A readiness probe takes one  *)
(* connection.  An ingest keeps the connection its advisory lock lives on  *)
(* and takes a second one for every document.                              *)
(***************************************************************************)
EXTENDS Naturals, FiniteSets

CONSTANTS
    Queries, Probes, Ingests,   \* the requests that reach the replica
    PoolSize, MaxOverflow,      \* POOL_SIZE and POOL_MAX_OVERFLOW
    QueryConnections,           \* QUERY_CONNECTIONS: what one retrieval takes
    ReservedConnections,        \* RESERVED_CONNECTIONS: what queries leave
    HoldPendingSuccessor,       \* the bound the derived one is held at
    None

Requests == Queries \cup Probes \cup Ingests

Capacity == PoolSize + MaxOverflow

Reserved == Cardinality(ReservedConnections)

ASSUME RequestsAssumption ==
    /\ IsFiniteSet(Requests) /\ None \notin Requests
    /\ Queries \cap Probes = {} /\ Queries \cap Ingests = {} /\ Probes \cap Ingests = {}

\* One retrieval takes one connection, some are left to others, and an ingest
\* that has the lock can get a second one.
ASSUME PoolAssumption ==
    /\ PoolSize \in Nat /\ MaxOverflow \in Nat /\ Capacity >= 2
    /\ IsFiniteSet(ReservedConnections) /\ Reserved < Capacity
    /\ IsFiniteSet(QueryConnections) /\ Cardinality(QueryConnections) = 1
    /\ HoldPendingSuccessor \in Nat \ {0}

\* Fault: the reserve is not subtracted.
WholePool == IF Capacity > 1 THEN Capacity ELSE 1

\* max_concurrent_queries: what the pool carries beside the reserve, at least
\* one.
DerivedMaxConcurrentQueries ==
    LET carried == (Capacity - Reserved) \div Cardinality(QueryConnections)
    IN  IF carried > 1 THEN carried ELSE 1

MaxConcurrentQueries ==
    IF DerivedMaxConcurrentQueries < HoldPendingSuccessor
    THEN DerivedMaxConcurrentQueries
    ELSE HoldPendingSuccessor

VARIABLES
    stage,       \* where each request is suspended
    permits,     \* the semaphore's value
    free,        \* connections that are neither checked out nor held back
    refresher,   \* who holds the guard's refresh lock
    advisory     \* whose session holds the advisory lock

vars == <<stage, permits, free, refresher, advisory>>

\* Suspended in the pool, waiting for a connection.
Wanting == {"check_wants", "search_wants", "reserve_wants", "log_wants",
            "probe_wants", "lock_wants", "document_wants"}

\* With a connection for a statement of its own.
Working == {"check_reads", "searches", "reserve_reads", "logs", "probes", "writes"}

\* An ingest under its lock, with the connection the lock lives on.
Locked == {"ingests", "document_wants", "writes"}

\* With the session of single_flight.
LockSession == Locked \cup {"locks"}

\* A query with a permit.
Retrieving == {"embeds", "search_wants", "searches"}

\* A query that holds the refresh lock.
Refreshing == {"check_wants", "check_reads", "reserve_wants", "reserve_reads"}

Waiting == {"check", "acquires", "reserve"} \cup Wanting

Over == {"answered", "shed", "failed"}

Stages == Waiting \cup Working \cup LockSession \cup Retrieving
              \cup {"arrives", "generates"} \cup Over

At(stages) == {r \in Requests : stage[r] \in stages}

\* The connections checked out: one for each lock's session and one for
\* each statement of another.
CheckedOut == (At(LockSession) \X {"lock"}) \cup (At(Working) \X {"statement"})

-----------------------------------------------------------------------------
Init ==
    /\ stage = [r \in Requests |-> "arrives"]
    /\ permits = MaxConcurrentQueries
    /\ free = Capacity
    /\ refresher = None
    /\ advisory = None

Moves(r, from, to) ==
    /\ stage[r] \in from
    /\ stage' = [stage EXCEPT ![r] = to]

Arrive(r) ==
    /\ Moves(r, {"arrives"}, IF r \in Queries THEN "check"
                            ELSE IF r \in Probes THEN "probe_wants" ELSE "lock_wants")
    /\ UNCHANGED <<permits, free, refresher, advisory>>

\* Where a query goes when the guard has admitted it.
Admitted(r) == IF stage[r] \in {"check", "check_reads"} THEN "acquires" ELSE "generates"

\* The guard's totals are fresh, or were refreshed while this query waited.
Pass(r) ==
    /\ Moves(r, {"check", "reserve"}, Admitted(r))
    /\ UNCHANGED <<permits, free, refresher, advisory>>

\* Fault: whoever finds them stale refreshes them.
RefreshUnlocked(r) ==
    /\ refresher' = r
    /\ Moves(r, {"check", "reserve"},
             IF stage[r] = "check" THEN "check_wants" ELSE "reserve_wants")
    /\ UNCHANGED <<permits, free, advisory>>

\* They are stale: the refresh lock, then a session.
TakeRefreshLock(r) ==
    /\ refresher = None
    /\ refresher' = r
    /\ Moves(r, {"check", "reserve"},
             IF stage[r] = "check" THEN "check_wants" ELSE "reserve_wants")
    /\ UNCHANGED <<permits, free, advisory>>

EndRefresh(r) ==
    /\ Moves(r, {"check_reads", "reserve_reads"}, Admitted(r))
    /\ free' = free + 1
    /\ refresher' = None
    /\ UNCHANGED <<permits, advisory>>

\* _retrieve: a permit before the query is embedded.
AcquirePermit(r) ==
    /\ permits > 0
    /\ permits' = permits - 1
    /\ Moves(r, {"acquires"}, "embeds")
    /\ UNCHANGED <<free, refresher, advisory>>

\* Fault: the wait for a permit is inside the block whose finally gives it back.
ShedReleasing(r) ==
    /\ permits = 0
    /\ permits' = permits + 1
    /\ Moves(r, {"acquires"}, "shed")
    /\ UNCHANGED <<free, refresher, advisory>>

\* No permit within query_acquire_timeout_seconds: Overloaded.
Shed(r) ==
    /\ permits = 0
    /\ Moves(r, {"acquires"}, "shed")
    /\ UNCHANGED <<permits, free, refresher, advisory>>

\* Fault: the session is opened before the question is embedded, and another
\* one for the search.
EmbedInSession(r) ==
    /\ free > 0
    /\ free' = free - 1
    /\ Moves(r, {"embeds"}, "search_wants")
    /\ UNCHANGED <<permits, refresher, advisory>>

Embed(r) ==
    /\ Moves(r, {"embeds"}, "search_wants")
    /\ UNCHANGED <<permits, free, refresher, advisory>>

\* A connection is there: the statement it was wanted for begins.
Statement(wanting) ==
    CASE wanting = "check_wants"    -> "check_reads"
      [] wanting = "search_wants"   -> "searches"
      [] wanting = "reserve_wants"  -> "reserve_reads"
      [] wanting = "log_wants"      -> "logs"
      [] wanting = "probe_wants"    -> "probes"
      [] wanting = "lock_wants"     -> "locks"
      [] wanting = "document_wants" -> "writes"

CheckOut(r) ==
    /\ stage[r] \in Wanting
    /\ free > 0
    /\ free' = free - 1
    /\ Moves(r, Wanting, Statement(stage[r]))
    /\ UNCHANGED <<permits, refresher, advisory>>

\* Retriever.retrieve closes its session, then _retrieve gives the permit back.
EndSearch(r) ==
    /\ Moves(r, {"searches"}, "reserve")
    /\ free' = free + 1
    /\ permits' = permits + 1
    /\ UNCHANGED <<refresher, advisory>>

\* The provider has answered; the row is next.
Generate(r) ==
    /\ Moves(r, {"generates"}, "log_wants")
    /\ UNCHANGED <<permits, free, refresher, advisory>>

\* The row is committed, or the probe has its answer.
EndStatement(r) ==
    /\ Moves(r, {"logs", "probes"}, "answered")
    /\ free' = free + 1
    /\ UNCHANGED <<permits, refresher, advisory>>

\* Fault: pg_advisory_lock, which waits for the lock on its connection.
TryLockBlocking(r) ==
    /\ stage[r] = "locks"
    /\ advisory = None
    /\ advisory' = r
    /\ Moves(r, {"locks"}, "ingests")
    /\ UNCHANGED <<permits, free, refresher>>

\* pg_try_advisory_lock: the lock and its connection, or neither.
TryLock(r) ==
    /\ IF advisory = None
       THEN Moves(r, {"locks"}, "ingests") /\ advisory' = r /\ UNCHANGED free
       ELSE Moves(r, {"locks"}, "failed") /\ free' = free + 1 /\ UNCHANGED advisory
    /\ UNCHANGED <<permits, refresher>>

\* The next document of an ingest: its hash or its replacement.
NextDocument(r) ==
    /\ Moves(r, {"ingests"}, "document_wants")
    /\ UNCHANGED <<permits, free, refresher, advisory>>

EndDocument(r) ==
    /\ Moves(r, {"writes"}, "ingests")
    /\ free' = free + 1
    /\ UNCHANGED <<permits, refresher, advisory>>

Unlock(r) ==
    /\ Moves(r, {"ingests"}, "answered")
    /\ free' = free + 1
    /\ advisory' = None
    /\ UNCHANGED <<permits, refresher>>

Connections(r) ==
    (IF stage[r] \in LockSession THEN 1 ELSE 0) + (IF stage[r] \in Working THEN 1 ELSE 0)

\* Fault: the permit is given back by the return only.
UnwoundKeepingPermit(r) ==
    /\ permits' = IF stage[r] = "searches" THEN permits + 1 ELSE permits
    /\ free' = free + Connections(r)
    /\ refresher' = IF refresher = r THEN None ELSE refresher
    /\ advisory' = IF advisory = r THEN None ELSE advisory

\* What request r holds is given back on the way out.
Unwound(r) ==
    /\ permits' = IF stage[r] \in Retrieving THEN permits + 1 ELSE permits
    /\ free' = free + Connections(r)
    /\ refresher' = IF refresher = r THEN None ELSE refresher
    /\ advisory' = IF advisory = r THEN None ELSE advisory

\* pool_timeout passed without a connection, the provider or the database
\* raised, or the caller went away: every block on the stack is unwound.
Fail(r) ==
    /\ Moves(r, Stages \ ({"arrives"} \cup Over), "failed")
    /\ Unwound(r)

Step(r) ==
    \/ Pass(r) \/ TakeRefreshLock(r) \/ EndRefresh(r)
    \/ AcquirePermit(r) \/ Shed(r) \/ Embed(r) \/ CheckOut(r) \/ EndSearch(r)
    \/ Generate(r) \/ EndStatement(r)
    \/ TryLock(r) \/ EndDocument(r)

Done ==
    /\ \A r \in Requests : stage[r] \in Over
    /\ UNCHANGED vars

Next ==
    \/ \E r \in Requests : Arrive(r) \/ Step(r) \/ NextDocument(r) \/ Unlock(r) \/ Fail(r)
    \/ Done

Spec == Init /\ [][Next]_vars

\* Every await of a request ends: the pool, the semaphore, the clients and the
\* driver have timeouts, and a request names finitely many files.
FairSpec ==
    /\ Spec
    /\ \A r \in Requests : WF_vars(Step(r)) /\ SF_vars(Unlock(r))

-----------------------------------------------------------------------------
(***************************************************************************)
(* Properties.                                                             *)
(***************************************************************************)

\* Every variable has its type, and no counter leaves its range.
TypeOK ==
    /\ stage \in [Requests -> Stages]
    /\ permits \in 0..MaxConcurrentQueries
    /\ free \in 0..Capacity
    /\ refresher \in Queries \cup {None}
    /\ advisory \in Ingests \cup {None}

\* Whatever fails, times out or is cancelled wherever, each permit and each
\* connection is either there or with a request that will give it back, and a
\* lock is held by a request that is under way with it.
ResourcesExact ==
    /\ permits + Cardinality(At(Retrieving)) = MaxConcurrentQueries
    /\ free + Cardinality(CheckedOut) = Capacity
    /\ \A r \in Requests :
          /\ refresher = r <=> stage[r] \in Refreshing
          /\ advisory = r <=> stage[r] \in Locked

\* What a request cannot go on without.
Blocked(r) ==
    \/ stage[r] \in {"check", "reserve"} /\ refresher # None
    \/ stage[r] = "acquires" /\ permits = 0
    \/ stage[r] \in Wanting /\ free = 0

\* No request waits in a circle: as long as one is blocked, another is under
\* way that needs nothing.  Permits, refresh lock, advisory lock and pool are
\* taken in an order that only the one ingest with the lock departs from, by
\* asking for a connection while it has one.
SomebodyMoves ==
    (\E r \in Requests : Blocked(r)) =>
        \E r \in Requests : stage[r] \notin {"arrives"} \cup Over /\ ~Blocked(r)

\* A readiness probe or a log write that finds no connection finds as many as
\* are reserved with something else than a search: searches alone never starve
\* it.
ReserveKept ==
    free = 0 => Cardinality(CheckedOut \ (At({"searches"}) \X {"statement"})) >= Reserved

\* Semaphore, pool and locks are each a bounded use, whatever the others do.
Permits == INSTANCE BoundedUse WITH
    Uses <- Queries, Capacity <- MaxConcurrentQueries, inUse <- At(Retrieving)

Connected == INSTANCE BoundedUse WITH
    Uses <- Requests \X {"lock", "statement"}, Capacity <- Capacity, inUse <- CheckedOut

RefreshLock == INSTANCE BoundedUse WITH
    Uses <- Queries, Capacity <- 1, inUse <- At(Refreshing)

IngestLock == INSTANCE BoundedUse WITH
    Uses <- Ingests, Capacity <- 1, inUse <- At(Locked)

KeepsBounds ==
    Permits!Spec /\ Connected!Spec /\ RefreshLock!Spec /\ IngestLock!Spec

\* Every request that came is answered, shed or failed, though all of them share
\* the pool: no wait depends on a timeout of the pool.
EveryRequestEnds ==
    \A r \in Requests : stage[r] # "arrives" ~> stage[r] \in Over
=============================================================================
