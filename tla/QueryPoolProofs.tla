--------------------------- MODULE QueryPoolProofs ---------------------------
(***************************************************************************)
(* Every step of QueryPool moves one request and settles with each         *)
(* resource what that request took or gave back (Settles).  Of such a step *)
(* the accounts are preserved and each resource is a bounded use.          *)
(***************************************************************************)
EXTENDS QueryPool, FiniteSetTheorems, TLAPS

\* Where only a query, or only an ingest, can be.
QueryStages == {"check", "acquires", "reserve", "generates", "log_wants", "logs"}
                   \cup Retrieving \cup Refreshing

IngestStages == {"lock_wants"} \cup LockSession

Kinds ==
    \A r \in Requests :
        /\ stage[r] \in QueryStages => r \in Queries
        /\ stage[r] \in IngestStages => r \in Ingests

\* The inductive invariant.
IInv == TypeOK /\ ResourcesExact /\ Kinds

In(s, stages) == IF s \in stages THEN 1 ELSE 0

Taken(s) == In(s, LockSession) + In(s, Working)

\* Request r goes to another stage and settles with every resource.
Settles(r, to) ==
    /\ to \in Stages
    /\ stage' = [stage EXCEPT ![r] = to]
    /\ permits' = permits + In(stage[r], Retrieving) - In(to, Retrieving)
    /\ In(to, Retrieving) > In(stage[r], Retrieving) => permits > 0
    /\ free' = free + Taken(stage[r]) - Taken(to)
    /\ Taken(to) > Taken(stage[r]) => free > 0
    /\ \/ stage[r] \in Refreshing /\ to \notin Refreshing /\ refresher' = None
       \/ stage[r] \notin Refreshing /\ to \in Refreshing /\ refresher = None /\ refresher' = r
       \/ (stage[r] \in Refreshing <=> to \in Refreshing) /\ refresher' = refresher
    /\ \/ stage[r] \in Locked /\ to \notin Locked /\ advisory' = None
       \/ stage[r] \notin Locked /\ to \in Locked /\ advisory = None /\ advisory' = r
       \/ (stage[r] \in Locked <=> to \in Locked) /\ advisory' = advisory
    /\ to \in QueryStages => r \in Queries
    /\ to \in IngestStages => r \in Ingests
    /\ \/ /\ to \in LockSession => stage[r] \in LockSession
          /\ to \in Working => stage[r] \in Working
       \/ /\ to \in LockSession /\ stage[r] \notin LockSession
          /\ to \in Working <=> stage[r] \in Working
       \/ /\ to \in Working /\ stage[r] \notin Working
          /\ to \in LockSession <=> stage[r] \in LockSession

USE DEF Requests

-----------------------------------------------------------------------------
(***************************************************************************)
(* Counting.                                                               *)
(***************************************************************************)

\* The requests at some stages are finitely many.
LEMMA AtFinite ==
    ASSUME NEW S
    PROVE  /\ IsFiniteSet(At(S))
           /\ Cardinality(At(S)) \in Nat
  <1>1. At(S) \in SUBSET Requests
    BY DEF At
  <1>. QED
    BY <1>1, RequestsAssumption, FS_Subset, FS_CardinalityType

LEMMA AtFiniteNext ==
    ASSUME NEW S
    PROVE  /\ IsFiniteSet(At(S)')
           /\ Cardinality(At(S)') \in Nat
  <1>1. At(S)' \in SUBSET Requests
    BY DEF At
  <1>. QED
    BY <1>1, RequestsAssumption, FS_Subset, FS_CardinalityType

\* How a move changes who is at some stages.
LEMMA AtMoved ==
    ASSUME TypeOK, NEW r \in Requests, NEW to, NEW S,
           stage' = [stage EXCEPT ![r] = to]
    PROVE  At(S)' = IF to \in S THEN At(S) \cup {r} ELSE At(S) \ {r}
  BY DEF TypeOK, At

\* How a move changes how many they are.
LEMMA MoveCounted ==
    ASSUME TypeOK, NEW r \in Requests, NEW to, NEW S,
           stage' = [stage EXCEPT ![r] = to]
    PROVE  Cardinality(At(S)') = Cardinality(At(S)) - In(stage[r], S) + In(to, S)
  <1>1. r \in At(S) <=> stage[r] \in S
    BY DEF At
  <1>2. IsFiniteSet(At(S)) /\ Cardinality(At(S)) \in Nat
    BY AtFinite
  <1>3. CASE to \in S
    <2>1. At(S)' = At(S) \cup {r}
      BY <1>3, AtMoved
    <2>2. Cardinality(At(S) \cup {r}) =
             IF r \in At(S) THEN Cardinality(At(S)) ELSE Cardinality(At(S)) + 1
      BY <1>2, FS_AddElement
    <2>. QED
      BY <1>1, <1>2, <1>3, <2>1, <2>2 DEF In
  <1>4. CASE to \notin S
    <2>1. At(S)' = At(S) \ {r}
      BY <1>4, AtMoved
    <2>2. Cardinality(At(S) \ {r}) =
             IF r \in At(S) THEN Cardinality(At(S)) - 1 ELSE Cardinality(At(S))
      BY <1>2, FS_RemoveElement
    <2>. QED
      BY <1>1, <1>2, <1>4, <2>1, <2>2 DEF In
  <1>. QED
    BY <1>3, <1>4

\* A use of a connection is the lock's session or a statement.
LEMMA UsesCounted ==
    ASSUME NEW L, NEW W, IsFiniteSet(L), IsFiniteSet(W)
    PROVE  /\ IsFiniteSet((L \X {"lock"}) \cup (W \X {"statement"}))
           /\ Cardinality((L \X {"lock"}) \cup (W \X {"statement"})) =
                 Cardinality(L) + Cardinality(W)
  <1>1. /\ IsFiniteSet({"lock"}) /\ Cardinality({"lock"}) = 1
        /\ IsFiniteSet({"statement"}) /\ Cardinality({"statement"}) = 1
    BY FS_Singleton
  <1>2. Cardinality(L) \in Nat /\ Cardinality(W) \in Nat
    BY FS_CardinalityType
  <1>3. /\ IsFiniteSet(L \X {"lock"})
        /\ Cardinality(L \X {"lock"}) = Cardinality(L) * 1
    BY <1>1, FS_Product
  <1>4. /\ IsFiniteSet(W \X {"statement"})
        /\ Cardinality(W \X {"statement"}) = Cardinality(W) * 1
    BY <1>1, FS_Product
  <1>5. (L \X {"lock"}) \cap (W \X {"statement"}) = {}
    OBVIOUS
  <1>6. Cardinality({}) = 0
    BY FS_EmptySet
  <1>7. /\ IsFiniteSet((L \X {"lock"}) \cup (W \X {"statement"}))
        /\ Cardinality((L \X {"lock"}) \cup (W \X {"statement"})) =
              Cardinality(L \X {"lock"}) + Cardinality(W \X {"statement"})
                 - Cardinality((L \X {"lock"}) \cap (W \X {"statement"}))
    BY <1>3, <1>4, FS_Union
  <1>8. /\ Cardinality(L \X {"lock"}) = Cardinality(L)
        /\ Cardinality(W \X {"statement"}) = Cardinality(W)
    BY <1>2, <1>3, <1>4
  <1>9. Cardinality((L \X {"lock"}) \cap (W \X {"statement"})) = 0
    BY <1>5, <1>6
  <1>. QED
    BY <1>2, <1>7, <1>8, <1>9

\* The connections checked out, counted by who has them.
LEMMA CheckedOutCounted ==
    /\ IsFiniteSet(CheckedOut)
    /\ Cardinality(CheckedOut) = Cardinality(At(LockSession)) + Cardinality(At(Working))
  BY AtFinite, UsesCounted DEF CheckedOut

LEMMA CheckedOutCountedNext ==
    Cardinality(CheckedOut') = Cardinality(At(LockSession)') + Cardinality(At(Working)')
  BY AtFiniteNext, UsesCounted DEF CheckedOut

\* The derived bound is a positive number that leaves the reserve.
LEMMA BoundFits ==
    /\ MaxConcurrentQueries \in Nat \ {0}
    /\ Capacity \in Nat
    /\ Reserved \in Nat
    /\ MaxConcurrentQueries <= Capacity - Reserved
  <1>1. Reserved \in Nat
    BY PoolAssumption, FS_CardinalityType DEF Reserved
  <1>2. Capacity \in Nat
    BY PoolAssumption DEF Capacity
  <1>3. (Capacity - Reserved) \div Cardinality(QueryConnections) = Capacity - Reserved
    BY <1>1, <1>2, PoolAssumption
  <1>. QED
    BY <1>1, <1>2, <1>3, PoolAssumption DEF MaxConcurrentQueries, DerivedMaxConcurrentQueries

-----------------------------------------------------------------------------
(***************************************************************************)
(* Every action settles.                                                   *)
(***************************************************************************)

Names == {"arrives", "generates", "check", "acquires", "reserve", "embeds", "searches",
          "search_wants", "check_wants", "check_reads", "reserve_wants", "reserve_reads",
          "log_wants", "logs", "probe_wants", "probes", "lock_wants", "locks", "ingests",
          "document_wants", "writes", "answered", "shed", "failed"}

\* The stages, one by one.
LEMMA StageNames == Stages = Names
  BY DEF Stages, Names, Waiting, Wanting, Working, LockSession, Locked, Retrieving, Over

LEMMA SettledSomewhere ==
    ASSUME NEW r, NEW to, Settles(r, to)
    PROVE  \E t \in Stages : Settles(r, t)
  BY DEF Settles

USE DEF Waiting, Wanting, Working, LockSession, Locked, Retrieving, Refreshing, Over,
        QueryStages, IngestStages, In, Taken

\* Every step of a request leaves it at a stage with every resource settled.
LEMMA StepSettles ==
    ASSUME IInv, NEW r \in Requests,
           Arrive(r) \/ Step(r) \/ NextDocument(r) \/ Unlock(r) \/ Fail(r)
    PROVE  \E to \in Stages : Settles(r, to)
  <1>. USE StageNames
  <1>0. /\ stage \in [Requests -> Names] /\ stage[r] \in Names
        /\ permits \in Nat /\ free \in Nat
        /\ r # None
    BY BoundFits, RequestsAssumption DEF IInv, TypeOK
  <1>00. /\ stage[r] \in QueryStages => r \in Queries
         /\ stage[r] \in IngestStages => r \in Ingests
         /\ refresher = r <=> stage[r] \in Refreshing
         /\ advisory = r <=> stage[r] \in Locked
    BY DEF IInv, Kinds, ResourcesExact
  <1>1. CASE Arrive(r)
    <2>1. CASE r \in Queries
      <3>1. Settles(r, "check")
        BY <1>0, <1>00, <1>1, <2>1 DEF Arrive, Moves, Settles, Names
      <3>. QED
        BY ONLY <3>1, SettledSomewhere
    <2>2. CASE r \in Probes
      <3>0. r \notin Queries
        BY <2>2, RequestsAssumption
      <3>1. Settles(r, "probe_wants")
        BY <1>0, <1>00, <1>1, <2>2, <3>0 DEF Arrive, Moves, Settles, Names
      <3>. QED
        BY ONLY <3>1, SettledSomewhere
    <2>3. CASE r \in Ingests
      <3>0. r \notin Queries /\ r \notin Probes
        BY <2>3, RequestsAssumption
      <3>1. Settles(r, "lock_wants")
        BY <1>0, <1>00, <1>1, <2>3, <3>0 DEF Arrive, Moves, Settles, Names
      <3>. QED
        BY ONLY <3>1, SettledSomewhere
    <2>. QED
      BY <2>1, <2>2, <2>3
  <1>2. CASE Pass(r)
    <2>1. Settles(r, Admitted(r))
      BY <1>0, <1>00, <1>2 DEF Pass, Moves, Settles, Names, Admitted
    <2>. QED
      BY ONLY <2>1, SettledSomewhere
  <1>3. CASE TakeRefreshLock(r)
    <2>1. Settles(r, IF stage[r] = "check" THEN "check_wants" ELSE "reserve_wants")
      BY <1>0, <1>00, <1>3 DEF TakeRefreshLock, Moves, Settles, Names
    <2>. QED
      BY ONLY <2>1, SettledSomewhere
  <1>4. CASE EndRefresh(r)
    <2>1. Settles(r, Admitted(r))
      BY <1>0, <1>00, <1>4 DEF EndRefresh, Moves, Settles, Names, Admitted
    <2>. QED
      BY ONLY <2>1, SettledSomewhere
  <1>5. CASE AcquirePermit(r)
    <2>1. Settles(r, "embeds")
      BY <1>0, <1>00, <1>5 DEF AcquirePermit, Moves, Settles, Names
    <2>. QED
      BY ONLY <2>1, SettledSomewhere
  <1>6. CASE Shed(r)
    <2>1. Settles(r, "shed")
      BY <1>0, <1>00, <1>6 DEF Shed, Moves, Settles, Names
    <2>. QED
      BY ONLY <2>1, SettledSomewhere
  <1>7. CASE Embed(r)
    <2>1. Settles(r, "search_wants")
      BY <1>0, <1>00, <1>7 DEF Embed, Moves, Settles, Names
    <2>. QED
      BY ONLY <2>1, SettledSomewhere
  <1>8. CASE CheckOut(r)
    <2>1. Settles(r, Statement(stage[r]))
      BY <1>0, <1>00, <1>8 DEF CheckOut, Moves, Settles, Names, Statement
    <2>. QED
      BY ONLY <2>1, SettledSomewhere
  <1>9. CASE EndSearch(r)
    <2>1. Settles(r, "reserve")
      BY <1>0, <1>00, <1>9 DEF EndSearch, Moves, Settles, Names
    <2>. QED
      BY ONLY <2>1, SettledSomewhere
  <1>10. CASE Generate(r)
    <2>1. Settles(r, "log_wants")
      BY <1>0, <1>00, <1>10 DEF Generate, Moves, Settles, Names
    <2>. QED
      BY ONLY <2>1, SettledSomewhere
  <1>11. CASE EndStatement(r)
    <2>1. Settles(r, "answered")
      BY <1>0, <1>00, <1>11 DEF EndStatement, Moves, Settles, Names
    <2>. QED
      BY ONLY <2>1, SettledSomewhere
  <1>12. CASE TryLock(r)
    <2>1. CASE advisory = None
      <3>1. Settles(r, "ingests")
        BY <1>0, <1>00, <1>12, <2>1 DEF TryLock, Moves, Settles, Names
      <3>. QED
        BY ONLY <3>1, SettledSomewhere
    <2>2. CASE advisory # None
      <3>1. Settles(r, "failed")
        BY <1>0, <1>00, <1>12, <2>2 DEF TryLock, Moves, Settles, Names
      <3>. QED
        BY ONLY <3>1, SettledSomewhere
    <2>. QED
      BY <2>1, <2>2
  <1>13. CASE NextDocument(r)
    <2>1. Settles(r, "document_wants")
      BY <1>0, <1>00, <1>13 DEF NextDocument, Moves, Settles, Names
    <2>. QED
      BY ONLY <2>1, SettledSomewhere
  <1>14. CASE EndDocument(r)
    <2>1. Settles(r, "ingests")
      BY <1>0, <1>00, <1>14 DEF EndDocument, Moves, Settles, Names
    <2>. QED
      BY ONLY <2>1, SettledSomewhere
  <1>15. CASE Unlock(r)
    <2>1. Settles(r, "answered")
      BY <1>0, <1>00, <1>15 DEF Unlock, Moves, Settles, Names
    <2>. QED
      BY ONLY <2>1, SettledSomewhere
  <1>16. CASE Fail(r)
    <2>1. Settles(r, "failed")
      BY <1>0, <1>00, <1>16 DEF Fail, Unwound, Connections, Moves, Settles, Names
    <2>. QED
      BY ONLY <2>1, SettledSomewhere
  <1>. QED
    BY <1>1, <1>2, <1>3, <1>4, <1>5, <1>6, <1>7, <1>8, <1>9, <1>10, <1>11, <1>12,
       <1>13, <1>14, <1>15, <1>16 DEF Step

-----------------------------------------------------------------------------
(***************************************************************************)
(* The invariant.                                                          *)
(***************************************************************************)

\* The initial state: nothing is held.
LEMMA InitIInv == Init => IInv
  <1>. SUFFICES ASSUME Init PROVE IInv
    OBVIOUS
  <1>1. /\ At(Retrieving) = {} /\ At(LockSession) = {} /\ At(Working) = {}
    BY DEF Init, At
  <1>2. Cardinality({}) = 0
    BY FS_EmptySet
  <1>3. TypeOK
    BY BoundFits, StageNames DEF Init, TypeOK, Names
  <1>4. Cardinality(CheckedOut) = 0
    BY <1>1, <1>2, CheckedOutCounted
  <1>5. ResourcesExact
    BY <1>1, <1>2, <1>4, BoundFits, RequestsAssumption DEF Init, ResourcesExact
  <1>6. Kinds
    BY DEF Init, Kinds
  <1>. QED
    BY <1>3, <1>5, <1>6 DEF IInv

\* A move that settles keeps the accounts.
LEMMA SettlesKeepsIInv ==
    ASSUME IInv, NEW r \in Requests, NEW to \in Stages, Settles(r, to)
    PROVE  IInv'
  <1>. DEFINE R == Cardinality(At(Retrieving))
              L == Cardinality(At(LockSession))
              W == Cardinality(At(Working))
  <1>0. TypeOK /\ stage' = [stage EXCEPT ![r] = to] /\ r # None
    BY RequestsAssumption DEF IInv, Settles
  <1>1. R \in Nat /\ L \in Nat /\ W \in Nat
    BY AtFinite
  <1>2. R' \in Nat /\ L' \in Nat /\ W' \in Nat
    BY AtFiniteNext
  <1>3. /\ R' = R - In(stage[r], Retrieving) + In(to, Retrieving)
        /\ L' = L - In(stage[r], LockSession) + In(to, LockSession)
        /\ W' = W - In(stage[r], Working) + In(to, Working)
    <2>. HIDE DEF Retrieving, LockSession, Working, In
    <2>. QED
      BY <1>0, MoveCounted
  <1>4. Cardinality(CheckedOut) = L + W /\ Cardinality(CheckedOut') = L' + W'
    BY CheckedOutCounted, CheckedOutCountedNext
  <1>5. permits + R = MaxConcurrentQueries /\ free + L + W = Capacity
    BY <1>1, <1>4, BoundFits DEF IInv, ResourcesExact, TypeOK
  <1>. HIDE DEF R, L, W
  <1>6. /\ permits' + R' = MaxConcurrentQueries
        /\ permits' \in 0..MaxConcurrentQueries
    BY <1>0, <1>1, <1>2, <1>3, <1>5, BoundFits DEF Settles, TypeOK
  <1>7. /\ free' + L' + W' = Capacity
        /\ free' \in 0..Capacity
    BY <1>0, <1>1, <1>2, <1>3, <1>5, BoundFits DEF Settles, TypeOK
  <1>8. /\ refresher' \in Queries \cup {None}
        /\ advisory' \in Ingests \cup {None}
        /\ stage' \in [Requests -> Stages]
    BY <1>0 DEF Settles, TypeOK
  <1>9. \A q \in Requests :
           /\ refresher' = q <=> stage'[q] \in Refreshing
           /\ advisory' = q <=> stage'[q] \in Locked
    <2>. SUFFICES ASSUME NEW q \in Requests
                  PROVE  /\ refresher' = q <=> stage'[q] \in Refreshing
                         /\ advisory' = q <=> stage'[q] \in Locked
      OBVIOUS
    <2>. HIDE DEF Refreshing, Locked
    <2>1. /\ refresher = q <=> stage[q] \in Refreshing
          /\ advisory = q <=> stage[q] \in Locked
          /\ refresher = r <=> stage[r] \in Refreshing
          /\ advisory = r <=> stage[r] \in Locked
      BY DEF IInv, ResourcesExact
    <2>2. stage'[q] = IF q = r THEN to ELSE stage[q]
      BY <1>0 DEF TypeOK
    <2>3. q # None
      BY RequestsAssumption
    <2>4. refresher' = q <=> stage'[q] \in Refreshing
      BY <1>0, <2>1, <2>2, <2>3 DEF Settles
    <2>5. advisory' = q <=> stage'[q] \in Locked
      BY <1>0, <2>1, <2>2, <2>3 DEF Settles
    <2>. QED
      BY <2>4, <2>5
  <1>10. Kinds'
    <2>. HIDE DEF QueryStages, IngestStages
    <2>1. \A q \in Requests : stage'[q] = IF q = r THEN to ELSE stage[q]
      BY <1>0 DEF TypeOK
    <2>. QED
      BY <2>1 DEF IInv, Kinds, Settles
  <1>11. Cardinality(CheckedOut') = L' + W' /\ Cardinality(At(Retrieving)') = R'
    BY <1>4 DEF R
  <1>12. ResourcesExact'
    <2>. HIDE DEF Retrieving, Refreshing, Locked
    <2>1. permits' + Cardinality(At(Retrieving)') = MaxConcurrentQueries
      BY <1>6, <1>11
    <2>2. free' + Cardinality(CheckedOut') = Capacity
      BY <1>2, <1>7, <1>11
    <2>. QED
      BY <1>9, <2>1, <2>2 DEF ResourcesExact
  <1>. QED
    BY <1>6, <1>7, <1>8, <1>10, <1>12 DEF IInv, TypeOK

\* Every step keeps the invariant.
LEMMA NextKeepsIInv == IInv /\ [Next]_vars => IInv'
  <1>. SUFFICES ASSUME IInv, [Next]_vars PROVE IInv'
    OBVIOUS
  <1>1. ASSUME UNCHANGED vars PROVE IInv'
    BY <1>1 DEF IInv, vars, TypeOK, ResourcesExact, Kinds, CheckedOut, At
  <1>2. ASSUME NEW r \in Requests,
               Arrive(r) \/ Step(r) \/ NextDocument(r) \/ Unlock(r) \/ Fail(r)
        PROVE  IInv'
    BY <1>2, StepSettles, SettlesKeepsIInv
  <1>. QED
    BY <1>1, <1>2 DEF Next, Done

LEMMA Invariance == Spec => []IInv
  BY InitIInv, NextKeepsIInv, PTL DEF Spec

-----------------------------------------------------------------------------
(***************************************************************************)
(* The theorems.                                                           *)
(***************************************************************************)

\* The counters stay in their range and the locks with requests of their kind.
THEOREM PoolTypeCorrect == Spec => []TypeOK
  BY Invariance, PTL DEF IInv

\* No permit, no connection and no lock is lost or given back twice.
THEOREM ResourcesAreExact == Spec => []ResourcesExact
  BY Invariance, PTL DEF IInv

\* Somebody at some stages, if they are counted.
LEMMA SomebodyThere ==
    ASSUME NEW S, Cardinality(At(S)) # 0
    PROVE  \E r \in Requests : stage[r] \in S
  <1>1. At(S) # {}
    BY FS_EmptySet
  <1>. QED
    BY <1>1 DEF At

\* Two connections are out, and at most one of them is an ingest's that waits:
\* one connection holder goes on.
LEMMA HolderMoves ==
    ASSUME IInv, free = 0
    PROVE  \E r \in Requests : stage[r] \in Working \cup {"locks", "ingests"}
  <1>. SUFFICES ASSUME \A r \in Requests : stage[r] \notin Working \cup {"locks", "ingests"}
                PROVE  FALSE
    OBVIOUS
  <1>. DEFINE L == At(LockSession)
              W == At(Working)
  <1>1. W = {}
    BY DEF At
  <1>2. \A p, q \in L : p = q
    BY DEF At, IInv, ResourcesExact
  <1>3. IsFiniteSet(L) /\ Cardinality(L) \in Nat
    BY AtFinite
  <1>4. Cardinality(L) <= 1
    <2>1. CASE L = {}
      BY <2>1, FS_EmptySet
    <2>2. CASE L # {}
      <3>1. PICK p : p \in L
        BY <2>2
      <3>2. L = {p}
        BY <1>2, <3>1
      <3>3. Cardinality({p}) = 1
        BY FS_Singleton
      <3>. HIDE DEF L
      <3>. QED
        BY <3>2, <3>3
    <2>. QED
      BY <2>1, <2>2
  <1>5. Cardinality(W) = 0
    BY <1>1, FS_EmptySet
  <1>6. Cardinality(L) + Cardinality(W) = Capacity
    BY CheckedOutCounted, BoundFits, <1>3, <1>5 DEF IInv, ResourcesExact, TypeOK
  <1>. HIDE DEF L, W
  <1>. QED
    BY <1>3, <1>4, <1>5, <1>6, PoolAssumption, BoundFits

\* Requests do not wait for each other in a circle.
THEOREM NobodyWaitsInACircle == Spec => []SomebodyMoves
  <1>1. IInv => SomebodyMoves
    <2>. SUFFICES ASSUME IInv, NEW b \in Requests, Blocked(b)
                  PROVE  \E r \in Requests : stage[r] \notin {"arrives"} \cup Over /\ ~Blocked(r)
      BY DEF SomebodyMoves
    <2>. USE DEF Blocked
    <2>1. ASSUME free = 0
          PROVE  \E r \in Requests : stage[r] \notin {"arrives"} \cup Over /\ ~Blocked(r)
      BY <2>1, HolderMoves
    <2>2. ASSUME free # 0, permits = 0
          PROVE  \E r \in Requests : stage[r] \notin {"arrives"} \cup Over /\ ~Blocked(r)
      <3>1. Cardinality(At(Retrieving)) # 0
        BY <2>2, BoundFits DEF IInv, ResourcesExact
      <3>2. PICK r \in Requests : stage[r] \in Retrieving
        BY <3>1, SomebodyThere
      <3>. QED
        BY <2>2, <3>2
    <2>3. ASSUME free # 0, permits # 0
          PROVE  \E r \in Requests : stage[r] \notin {"arrives"} \cup Over /\ ~Blocked(r)
      <3>1. refresher # None /\ refresher \in Requests
        BY <2>3 DEF IInv, TypeOK
      <3>2. stage[refresher] \in Refreshing
        BY <3>1 DEF IInv, ResourcesExact
      <3>. QED
        BY <2>3, <3>1, <3>2
    <2>. QED
      BY <2>1, <2>2, <2>3
  <1>. QED
    BY <1>1, Invariance, PTL

\* Searches leave the reserve to the others.
THEOREM ReserveIsKept == Spec => []ReserveKept
  <1>1. IInv => ReserveKept
    <2>. SUFFICES ASSUME IInv, free = 0
                  PROVE  Cardinality(CheckedOut \ (At({"searches"}) \X {"statement"})) >= Reserved
      BY DEF ReserveKept
    <2>. DEFINE S == At({"searches"}) \X {"statement"}
    <2>1. At({"searches"}) \subseteq At(Retrieving) /\ S \subseteq CheckedOut
      BY DEF At, CheckedOut
    <2>2. /\ IsFiniteSet(At({"searches"})) /\ Cardinality(At({"searches"})) \in Nat
          /\ IsFiniteSet(At(Retrieving)) /\ Cardinality(At(Retrieving)) \in Nat
      BY AtFinite
    <2>3. Cardinality(At({"searches"})) <= Cardinality(At(Retrieving))
      BY <2>1, <2>2, FS_Subset
    <2>4. Cardinality(At(Retrieving)) <= MaxConcurrentQueries
      BY <2>2, BoundFits DEF IInv, ResourcesExact, TypeOK
    <2>5. IsFiniteSet({"statement"}) /\ Cardinality({"statement"}) = 1
      BY FS_Singleton
    <2>6. Cardinality(S) = Cardinality(At({"searches"})) * 1
      BY <2>2, <2>5, FS_Product
    <2>7. Cardinality(CheckedOut) = Capacity
      BY CheckedOutCounted, FS_CardinalityType, BoundFits DEF IInv, ResourcesExact
    <2>8. CheckedOut \cap S = S
      BY <2>1
    <2>9. Cardinality(CheckedOut \ S) = Cardinality(CheckedOut) - Cardinality(CheckedOut \cap S)
      BY CheckedOutCounted, FS_Difference
    <2>10. Cardinality(S) = Cardinality(At({"searches"}))
      BY <2>2, <2>6
    <2>11. Cardinality(CheckedOut \ S) = Capacity - Cardinality(At({"searches"}))
      BY <2>7, <2>8, <2>9, <2>10
    <2>. QED
      BY <2>2, <2>3, <2>4, <2>11, BoundFits
  <1>. QED
    BY <1>1, Invariance, PTL

\* A resource counted by who is at some stages is a bounded use.
LEMMA StagesUseBounded ==
    ASSUME IInv, NEW r \in Requests, NEW to \in Stages, Settles(r, to),
           NEW S, NEW Cap, NEW Users,
           to \in S => r \in Users,
           to \in S /\ stage[r] \notin S => Cardinality(At(S)) < Cap
    PROVE  \/ \E u \in Users \ At(S) : Cardinality(At(S)) < Cap /\ At(S)' = At(S) \cup {u}
           \/ \E over \in SUBSET At(S) : At(S)' = At(S) \ over
  <1>1. At(S)' = IF to \in S THEN At(S) \cup {r} ELSE At(S) \ {r}
    BY AtMoved DEF IInv, Settles
  <1>2. r \in At(S) <=> stage[r] \in S
    BY DEF At
  <1>3. CASE to \in S /\ stage[r] \notin S
    BY <1>1, <1>2, <1>3
  <1>4. CASE to \in S /\ stage[r] \in S
    <2>1. At(S)' = At(S) \ {}
      BY <1>1, <1>2, <1>4
    <2>. QED
      BY <2>1
  <1>5. CASE to \notin S
    <2>1. At(S)' = At(S) \ (At(S) \cap {r})
      BY <1>1, <1>5
    <2>. QED
      BY <2>1
  <1>. QED
    BY <1>3, <1>4, <1>5

\* A lock has no holder when its variable says so.
LEMMA LockFree ==
    ASSUME IInv
    PROVE  /\ refresher = None => Cardinality(At(Refreshing)) < 1
           /\ advisory = None => Cardinality(At(Locked)) < 1
  <1>1. refresher = None => At(Refreshing) = {}
    BY RequestsAssumption DEF IInv, ResourcesExact, At
  <1>2. advisory = None => At(Locked) = {}
    BY RequestsAssumption DEF IInv, ResourcesExact, At
  <1>3. Cardinality({}) = 0
    BY FS_EmptySet
  <1>. QED
    BY <1>1, <1>2, <1>3

\* One step of a request is one step of each bounded use.
LEMMA SettlesImplements ==
    ASSUME IInv, NEW r \in Requests, NEW to \in Stages, Settles(r, to)
    PROVE  Permits!Next /\ Connected!Next /\ RefreshLock!Next /\ IngestLock!Next
  <1>1. Permits!Next
    <2>1. to \in Retrieving => r \in Queries
      BY DEF Settles
    <2>2. to \in Retrieving /\ stage[r] \notin Retrieving =>
             Cardinality(At(Retrieving)) < MaxConcurrentQueries
      <3>1. Cardinality(At(Retrieving)) \in Nat
        BY AtFinite
      <3>. QED
        BY <3>1, BoundFits DEF IInv, ResourcesExact, TypeOK, Settles
    <2>. HIDE DEF Retrieving
    <2>3. \/ \E u \in Queries \ At(Retrieving) :
                Cardinality(At(Retrieving)) < MaxConcurrentQueries /\ At(Retrieving)' = At(Retrieving) \cup {u}
          \/ \E over \in SUBSET At(Retrieving) : At(Retrieving)' = At(Retrieving) \ over
      BY <2>1, <2>2, StagesUseBounded
    <2>. QED
      BY <2>3 DEF Permits!Next, Permits!Acquire, Permits!Release, Permits!Cardinality, Cardinality
  <1>2. RefreshLock!Next
    <2>1. to \in Refreshing => r \in Queries
      BY DEF Settles
    <2>2. to \in Refreshing /\ stage[r] \notin Refreshing => Cardinality(At(Refreshing)) < 1
      BY LockFree DEF Settles
    <2>. HIDE DEF Refreshing
    <2>3. \/ \E u \in Queries \ At(Refreshing) :
                Cardinality(At(Refreshing)) < 1 /\ At(Refreshing)' = At(Refreshing) \cup {u}
          \/ \E over \in SUBSET At(Refreshing) : At(Refreshing)' = At(Refreshing) \ over
      BY <2>1, <2>2, StagesUseBounded, SMTT(30)
    <2>. QED
      BY <2>3 DEF RefreshLock!Next, RefreshLock!Acquire, RefreshLock!Release, RefreshLock!Cardinality, Cardinality
  <1>3. IngestLock!Next
    <2>1. to \in Locked => r \in Ingests
      BY DEF Settles
    <2>2. to \in Locked /\ stage[r] \notin Locked => Cardinality(At(Locked)) < 1
      BY LockFree DEF Settles
    <2>. HIDE DEF Locked
    <2>3. \/ \E u \in Ingests \ At(Locked) :
                Cardinality(At(Locked)) < 1 /\ At(Locked)' = At(Locked) \cup {u}
          \/ \E over \in SUBSET At(Locked) : At(Locked)' = At(Locked) \ over
      BY <2>1, <2>2, StagesUseBounded
    <2>. QED
      BY <2>3 DEF IngestLock!Next, IngestLock!Acquire, IngestLock!Release, IngestLock!Cardinality, Cardinality
  <1>4. Connected!Next
    <2>. DEFINE L == At(LockSession)
                W == At(Working)
    <2>1. /\ L' = IF to \in LockSession THEN L \cup {r} ELSE L \ {r}
          /\ W' = IF to \in Working THEN W \cup {r} ELSE W \ {r}
          /\ r \in L <=> stage[r] \in LockSession
          /\ r \in W <=> stage[r] \in Working
      <3>. HIDE DEF LockSession, Working
      <3>. QED
        BY AtMoved DEF IInv, Settles, At
    <2>2. CheckedOut = (L \X {"lock"}) \cup (W \X {"statement"})
      BY DEF CheckedOut
    <2>3. CheckedOut' = (L' \X {"lock"}) \cup (W' \X {"statement"})
      BY DEF CheckedOut
    <2>4. CASE /\ to \in LockSession => stage[r] \in LockSession
               /\ to \in Working => stage[r] \in Working
      <3>. HIDE DEF LockSession, Working, L, W
      <3>1. L' \subseteq L /\ W' \subseteq W
        BY <2>1, <2>4
      <3>2. CheckedOut' = CheckedOut \ (CheckedOut \ CheckedOut')
        BY <2>2, <2>3, <3>1
      <3>. QED
        BY <3>2 DEF Connected!Next, Connected!Release
    <2>5. Taken(to) > Taken(stage[r]) => Cardinality(CheckedOut) < Capacity
      <3>1. Cardinality(CheckedOut) \in Nat
        BY CheckedOutCounted, FS_CardinalityType
      <3>. QED
        BY <3>1, BoundFits DEF IInv, ResourcesExact, TypeOK, Settles
    <2>6. CASE /\ to \in LockSession /\ stage[r] \notin LockSession
               /\ to \in Working <=> stage[r] \in Working
      <3>1. Cardinality(CheckedOut) < Capacity
        BY <2>5, <2>6
      <3>. HIDE DEF LockSession, Working, L, W
      <3>2. L' = L \cup {r} /\ r \notin L /\ W' = W
        BY <2>1, <2>6
      <3>3. CheckedOut' = CheckedOut \cup {<<r, "lock">>} /\ <<r, "lock">> \notin CheckedOut
        BY <2>2, <2>3, <3>2
      <3>4. <<r, "lock">> \in Requests \X {"lock", "statement"}
        OBVIOUS
      <3>. QED
        BY <3>1, <3>3, <3>4 DEF Connected!Next, Connected!Acquire, Connected!Cardinality, Cardinality
    <2>7. CASE /\ to \in Working /\ stage[r] \notin Working
               /\ to \in LockSession <=> stage[r] \in LockSession
      <3>1. Cardinality(CheckedOut) < Capacity
        BY <2>5, <2>7
      <3>. HIDE DEF LockSession, Working, L, W
      <3>2. W' = W \cup {r} /\ r \notin W /\ L' = L
        BY <2>1, <2>7
      <3>3. /\ CheckedOut' = CheckedOut \cup {<<r, "statement">>}
            /\ <<r, "statement">> \notin CheckedOut
        BY <2>2, <2>3, <3>2
      <3>4. <<r, "statement">> \in Requests \X {"lock", "statement"}
        OBVIOUS
      <3>. QED
        BY <3>1, <3>3, <3>4 DEF Connected!Next, Connected!Acquire, Connected!Cardinality, Cardinality
    <2>. QED
      BY <2>4, <2>6, <2>7 DEF Settles
  <1>. QED
    BY <1>1, <1>2, <1>3, <1>4

\* Semaphore, pool and both locks implement the bounded use.
THEOREM EachResourceIsBounded == Spec => KeepsBounds
  <1>1. Init => Permits!Init /\ Connected!Init /\ RefreshLock!Init /\ IngestLock!Init
    BY DEF Init, At, CheckedOut, Permits!Init, Connected!Init, RefreshLock!Init, IngestLock!Init
  <1>2. IInv /\ [Next]_vars => /\ [Permits!Next]_(At(Retrieving))
                              /\ [Connected!Next]_CheckedOut
                              /\ [RefreshLock!Next]_(At(Refreshing))
                              /\ [IngestLock!Next]_(At(Locked))
    <2>1. CASE UNCHANGED vars
      BY <2>1 DEF vars, At, CheckedOut
    <2>2. ASSUME IInv, NEW r \in Requests,
                 Arrive(r) \/ Step(r) \/ NextDocument(r) \/ Unlock(r) \/ Fail(r)
          PROVE  Permits!Next /\ Connected!Next /\ RefreshLock!Next /\ IngestLock!Next
      BY <2>2, StepSettles, SettlesImplements
    <2>. QED
      BY <2>1, <2>2 DEF Next, Done
  <1>. QED
    BY <1>1, <1>2, Invariance, PTL
    DEF Spec, KeepsBounds, Permits!Spec, Connected!Spec, RefreshLock!Spec, IngestLock!Spec
=============================================================================
