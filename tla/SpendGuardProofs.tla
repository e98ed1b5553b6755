---------------------------- MODULE SpendGuardProofs ----------------------------
(***************************************************************************)
(* Theorems about SpendGuard, for every population of requests and         *)
(* replicas, every calendar and every pair of ceilings: types, the refresh *)
(* lock, exact claims, that every step preserves the accounts, and that    *)
(* one replica keeps its ceilings and reports what is so.                  *)
(*                                                                         *)
(* An admission finds what the guard counts and what it reserves below     *)
(* the ceiling.  The first covers the replica's rows (CountsOwnRows), the  *)
(* second the open claims (ClaimsExact), so rows and claims together are   *)
(* below the ceiling and the newest claim.  No other step adds to them: a  *)
(* claim turns into a row that costs no more, or is given back.            *)
(***************************************************************************)
EXTENDS SpendGuard, FiniteSetTheorems, TLAPS

(***************************************************************************)
(* Sums over finite sets of requests.                                      *)
(***************************************************************************)

LEMMA UnitsFinite ==
    ASSUME NEW S \in SUBSET Requests, NEW f
    PROVE  /\ IsFiniteSet(Units(S, f))
           /\ Total(S, f) \in Nat
<1>1. IsFiniteSet(S)
  BY FS_Subset, PopulationAssumption
<1>2. IsFiniteSet(1..MaxAmount)
  BY FS_Interval, MoneyAssumption
<1>3. IsFiniteSet(S \X (1..MaxAmount))
  BY <1>1, <1>2, FS_Product
<1>4. Units(S, f) \in SUBSET (S \X (1..MaxAmount))
  BY DEF Units
<1>5. IsFiniteSet(Units(S, f))
  BY <1>3, <1>4, FS_Subset
<1> QED
  BY <1>5, FS_CardinalityType DEF Total

LEMMA TotalCongruent ==
    ASSUME NEW S \in SUBSET Requests, NEW f, NEW g,
           \A q \in S : f[q] = g[q]
    PROVE  Total(S, f) = Total(S, g)
<1>1. Units(S, f) = Units(S, g)
  BY DEF Units
<1> QED
  BY <1>1 DEF Total

LEMMA TotalEmpty ==
    ASSUME NEW f
    PROVE  Total({}, f) = 0
<1>1. Units({}, f) = {}
  BY DEF Units
<1> QED
  BY <1>1, FS_EmptySet DEF Total

LEMMA TotalMonotone ==
    ASSUME NEW S \in SUBSET Requests, NEW f \in [Requests -> Nat], NEW g \in [Requests -> Nat],
           \A q \in S : f[q] <= g[q]
    PROVE  Total(S, f) <= Total(S, g)
<1>1. Units(S, f) \in SUBSET Units(S, g)
  <2> SUFFICES ASSUME NEW u \in Units(S, f) PROVE u \in Units(S, g)
    OBVIOUS
  <2>1. u \in S \X (1..MaxAmount) /\ u[2] <= f[u[1]]
    BY DEF Units
  <2>2. u[1] \in S /\ u[1] \in Requests /\ u[2] \in Nat
    BY <2>1, MoneyAssumption
  <2>3. u[2] <= g[u[1]]
    BY <2>1, <2>2
  <2> QED
    BY <2>1, <2>3 DEF Units
<1> QED
  BY <1>1, UnitsFinite, FS_Subset DEF Total

LEMMA TotalUnion ==
    ASSUME NEW S \in SUBSET Requests, NEW T \in SUBSET Requests, S \cap T = {}, NEW f
    PROVE  Total(S \cup T, f) = Total(S, f) + Total(T, f)
<1>1. Units(S \cup T, f) = Units(S, f) \cup Units(T, f)
  BY DEF Units
<1>2. Units(S, f) \cap Units(T, f) = {}
  BY DEF Units
<1>3. /\ IsFiniteSet(Units(S, f)) /\ Cardinality(Units(S, f)) \in Nat
      /\ IsFiniteSet(Units(T, f)) /\ Cardinality(Units(T, f)) \in Nat
  BY UnitsFinite DEF Total
<1>4. Cardinality(Units(S, f) \cup Units(T, f))
         = Cardinality(Units(S, f)) + Cardinality(Units(T, f))
                                    - Cardinality(Units(S, f) \cap Units(T, f))
  BY <1>3, FS_Union
<1>5. Cardinality(Units(S, f) \cap Units(T, f)) = 0
  BY <1>2, FS_EmptySet
<1>6. Cardinality(Units(S \cup T, f)) = Cardinality(Units(S, f)) + Cardinality(Units(T, f))
  <2>1. Cardinality(Units(S \cup T, f)) = Cardinality(Units(S, f) \cup Units(T, f))
    BY <1>1
  <2>2. Cardinality(Units(S, f) \cup Units(T, f))
           = Cardinality(Units(S, f)) + Cardinality(Units(T, f)) - 0
    BY <1>4, <1>5
  <2> QED
    BY <2>1, <2>2, <1>3
<1> QED
  BY <1>6 DEF Total

LEMMA TotalSingleton ==
    ASSUME NEW q \in Requests, NEW f, f[q] \in 0..MaxAmount
    PROVE  Total({q}, f) = f[q]
<1> DEFINE n == f[q]
           U == Units({q}, f)
           row == [i \in 1..n |-> <<q, i>>]
<1>1. n \in Nat /\ n <= MaxAmount /\ MaxAmount \in Nat
  BY MoneyAssumption
<1>2. row \in Bijection(1..n, U)
  <2>1. \A i \in 1..n : <<q, i>> \in U
    BY <1>1 DEF Units
  <2>2. \A u \in U : u \in {q} \X (1..MaxAmount) /\ u[2] <= n
    BY DEF Units
  <2>3. \A u \in U : u[2] \in 1..n /\ u = <<q, u[2]>>
    BY <1>1, <2>2
  <2>4. row \in [1..n -> U] /\ \A i \in 1..n : row[i] = <<q, i>>
    BY <2>1
  <2>5. \A i, j \in 1..n : row[i] = row[j] => i = j
    BY <2>4
  <2>6. row \in Injection(1..n, U)
    BY <2>4, <2>5 DEF Injection, IsInjective
  <2>7. \A u \in U : \E i \in 1..n : row[i] = u
    BY <2>3, <2>4
  <2>8. row \in Surjection(1..n, U)
    BY <2>4, <2>7 DEF Surjection
  <2> QED
    BY <2>6, <2>8 DEF Bijection
<1>3. ExistsBijection(1..n, U)
  BY <1>2 DEF ExistsBijection
<1> QED
  BY <1>1, <1>3, FS_CountingElements DEF Total

\* One request joins, or leaves, the set that is summed over.
LEMMA TotalAdd ==
    ASSUME NEW S \in SUBSET Requests, NEW q \in Requests \ S, NEW f, f[q] \in 0..MaxAmount
    PROVE  Total(S \cup {q}, f) = Total(S, f) + f[q]
<1>1. S \cap {q} = {} /\ {q} \in SUBSET Requests /\ q \in Requests
  OBVIOUS
<1>2. Total(S \cup {q}, f) = Total(S, f) + Total({q}, f)
  BY <1>1, TotalUnion
<1> QED
  BY <1>1, <1>2, TotalSingleton

LEMMA TotalRemove ==
    ASSUME NEW S \in SUBSET Requests, NEW q \in S, NEW f, f[q] \in 0..MaxAmount
    PROVE  /\ Total(S \ {q}, f) = Total(S, f) - f[q]
           /\ f[q] <= Total(S, f)
<1>1. S = (S \ {q}) \cup {q}
  OBVIOUS
<1>2. Total(S, f) = Total(S \ {q}, f) + f[q]
  BY <1>1, TotalAdd
<1>3. Total(S \ {q}, f) \in Nat
  BY UnitsFinite
<1> QED
  BY <1>2, <1>3

Part(b, x) == IF b THEN x ELSE 0

\* The sum after one request changed its membership or its value.
LEMMA TotalUpdate ==
    ASSUME NEW S \in SUBSET Requests, NEW T \in SUBSET Requests, NEW q \in Requests,
           NEW f \in [Requests -> 0..MaxAmount], NEW g \in [Requests -> 0..MaxAmount],
           S \ {q} = T \ {q}, \A p \in Requests \ {q} : f[p] = g[p]
    PROVE  Total(T, g) = Total(S, f) - Part(q \in S, f[q]) + Part(q \in T, g[q])
<1>1. ASSUME NEW R \in SUBSET Requests, NEW h \in [Requests -> 0..MaxAmount]
      PROVE  Total(R, h) = Total(R \ {q}, h) + Part(q \in R, h[q])
  <2>1. Total(R \ {q}, h) \in Nat /\ Total(R, h) \in Nat
    BY UnitsFinite
  <2>2. CASE q \in R
    <3>1. Total(R \ {q}, h) = Total(R, h) - h[q]
      BY <2>2, TotalRemove
    <3>2. h[q] \in Nat
      BY MoneyAssumption
    <3>3. Part(q \in R, h[q]) = h[q]
      BY <2>2 DEF Part
    <3> QED
      BY <2>1, <3>1, <3>2, <3>3
  <2>3. CASE q \notin R
    <3>1. R \ {q} = R
      BY <2>3
    <3>2. Total(R \ {q}, h) = Total(R, h)
      BY <3>1
    <3>3. Part(q \in R, h[q]) = 0
      BY <2>3 DEF Part
    <3> QED
      BY <2>1, <3>2, <3>3
  <2> QED
    BY <2>2, <2>3
<1>2. Total(S \ {q}, f) = Total(T \ {q}, g)
  BY TotalCongruent
<1>3. /\ Total(S, f) = Total(S \ {q}, f) + Part(q \in S, f[q])
      /\ Total(T, g) = Total(T \ {q}, g) + Part(q \in T, g[q])
  BY <1>1
<1>4. /\ Total(S \ {q}, f) \in Nat /\ Part(q \in S, f[q]) \in Nat
      /\ Total(T \ {q}, g) \in Nat /\ Part(q \in T, g[q]) \in Nat
  BY UnitsFinite, MoneyAssumption DEF Part
<1> QED
  BY <1>2, <1>3, <1>4

(***************************************************************************)
(* Type correctness.                                                       *)
(***************************************************************************)

LEMMA GuardOperations ==
    ASSUME NEW g \in GuardType, NEW a \in Nat, NEW s \in Sources
    PROVE  /\ Claim(g, a, s) \in GuardType
           /\ Discharge(g, a, s) \in GuardType
           /\ Record(g, a, s) \in GuardType
           /\ \A t \in [day : Nat, month : Nat], d \in Days : Refreshed(g, t, d) \in GuardType
<1>1. Claim(g, a, s) \in GuardType
  BY DEF GuardType, Claim
<1>2. Discharge(g, a, s) \in GuardType
  BY DEF GuardType, Discharge
<1>3. Record(g, a, s) \in GuardType
  BY DEF GuardType, Record
<1>4. ASSUME NEW t \in [day : Nat, month : Nat], NEW d \in Days
      PROVE  Refreshed(g, t, d) \in GuardType
  BY DEF GuardType, Refreshed
<1> QED
  BY <1>1, <1>2, <1>3, <1>4

LEMMA NewGuardType == NewGuard \in GuardType
BY DEF NewGuard, GuardType

LEMMA DecideType ==
    ASSUME TypeOK, NEW q \in Requests, NEW asked, NEW d, NEW a \in 0..MaxAmount,
           NEW g \in GuardType, Decide(q, asked, d, a, g)
    PROVE  /\ stage' \in [Requests -> Stages]
           /\ guard' \in [Replicas -> GuardType]
<1>1. Checked(g, d) \in Stages /\ Admitted(g, d) \in Stages
  BY DEF Checked, Admitted, Stages, Ended, Holding, Asking
<1>2. SourceOf[q] \in Sources /\ Home[q] \in Replicas /\ a \in Nat
  BY PopulationAssumption, MoneyAssumption
<1>3. Claim(g, a, SourceOf[q]) \in GuardType
  BY <1>2, GuardOperations
<1> QED
  BY <1>1, <1>2, <1>3, ZenonT(60) DEF Decide, TypeOK

LEMMA AskType ==
    ASSUME TypeOK, NEW q \in Requests, NEW asked \in Asking, NEW a \in 0..MaxAmount,
           Ask(q, asked, a)
    PROVE  TypeOK'
<1>1. /\ Home[q] \in Replicas /\ guard[Home[q]] \in GuardType
      /\ today \in Days /\ asked \in Stages
  BY PopulationAssumption DEF TypeOK, Stages
<1>2. stage' \in [Requests -> Stages] /\ guard' \in [Replicas -> GuardType]
  <2>1. CASE Enabled /\ Stale(guard[Home[q]], today)
    BY <2>1, <1>1 DEF Ask, TypeOK
  <2>2. CASE ~(Enabled /\ Stale(guard[Home[q]], today))
    <3>1. Decide(q, asked, today, a, guard[Home[q]])
      BY <2>2 DEF Ask
    <3> QED
      BY <3>1, <1>1, DecideType
  <2> QED
    BY <2>1, <2>2
<1>3. now' \in [Requests -> Days] /\ amount' \in [Requests -> 0..MaxAmount]
  BY <1>1 DEF Ask, TypeOK
<1> QED
  BY <1>2, <1>3 DEF Ask, TypeOK, clock, ledger, lock, history

LEMMA InsertType ==
    ASSUME TypeOK, NEW q \in Requests, Insert(q)
    PROVE  /\ spent' \in [Sources -> [Days -> Nat]]
           /\ own' \in [Replicas -> [Sources -> [Days -> Nat]]]
<1> DEFINE Since(f) == [d \in Days |-> IF d <= requestedAt[q] THEN f[d] + cost[q] ELSE f[d]]
           mine == own[Home[q]]
           row == [mine EXCEPT ![SourceOf[q]] = Since(mine[SourceOf[q]])]
<1>1. /\ SourceOf[q] \in Sources /\ Home[q] \in Replicas /\ cost[q] \in Nat
      /\ spent[SourceOf[q]] \in [Days -> Nat]
      /\ mine \in [Sources -> [Days -> Nat]]
      /\ mine[SourceOf[q]] \in [Days -> Nat]
  BY PopulationAssumption, MoneyAssumption DEF TypeOK
<1>2. ASSUME NEW f \in [Days -> Nat] PROVE Since(f) \in [Days -> Nat]
  BY <1>1
<1>3. spent' = [spent EXCEPT ![SourceOf[q]] = Since(spent[SourceOf[q]])]
  BY DEF Insert
<1>4. own' = [own EXCEPT ![Home[q]] = row]
  BY DEF Insert
<1> HIDE DEF Since
<1>5. spent' \in [Sources -> [Days -> Nat]]
  BY <1>1, <1>2, <1>3 DEF TypeOK
<1>6. row \in [Sources -> [Days -> Nat]]
  BY <1>1, <1>2
<1> HIDE DEF row, mine
<1>7. own' \in [Replicas -> [Sources -> [Days -> Nat]]]
  BY <1>1, <1>4, <1>6 DEF TypeOK
<1> QED
  BY <1>5, <1>7

LEMMA InitType == Init => TypeOK
<1> SUFFICES ASSUME Init PROVE TypeOK
  OBVIOUS
<1>1. 0 \in Days /\ 0 \in 0..MaxAmount /\ "idle" \in Stages
  BY CalendarAssumption, MoneyAssumption DEF Days, Stages
<1> QED
  BY <1>1, NewGuardType DEF Init, TypeOK

\* Every step keeps the types.
LEMMA TypeStep == TypeOK /\ [Next]_vars => TypeOK'
<1> SUFFICES ASSUME TypeOK, [Next]_vars PROVE TypeOK'
  OBVIOUS
<1> USE DEF clock, ledger, lock, request, history
<1>a. /\ Home \in [Requests -> Replicas] /\ SourceOf \in [Requests -> Sources]
      /\ MaxAmount \in Nat /\ Amounts \subseteq 0..MaxAmount
      /\ LastDay \in Nat /\ MonthOf \in [Days -> Days]
      /\ "visitor" \in Sources /\ "eval" \in Sources
  BY PopulationAssumption, CalendarAssumption, MoneyAssumption DEF Sources
<1>b. \A x \in {"check", "reserve", "retrieve", "failed", "calling", "billed",
                 "logged", "served"} : x \in Stages
  BY DEF Stages, Asking, Holding, Ended
<1>1. ASSUME NEW q \in Requests, Arrive(q) PROVE TypeOK'
  BY <1>1, <1>a, AskType DEF Arrive, Asking
<1>2. ASSUME NEW q \in Requests, Retrieved(q) PROVE TypeOK'
  <2>1. PICK a \in IF Enabled THEN Amounts ELSE {0} : Ask(q, "reserve", a)
    BY <1>2 DEF Retrieved
  <2>2. a \in 0..MaxAmount
    BY <1>a
  <2> QED
    BY <2>1, <2>2, AskType DEF Asking
<1>3. ASSUME NEW q \in Requests, RetrievalFails(q) PROVE TypeOK'
  BY <1>3, <1>b DEF RetrievalFails, TypeOK
<1>4. ASSUME NEW q \in Requests, FollowRefresh(q) PROVE TypeOK'
  <2>1. guard[Home[q]] \in GuardType /\ amount[q] \in 0..MaxAmount
    BY <1>a DEF TypeOK
  <2>2. stage' \in [Requests -> Stages] /\ guard' \in [Replicas -> GuardType]
    BY <1>4, <2>1, DecideType DEF FollowRefresh
  <2> QED
    BY <1>4, <2>2 DEF FollowRefresh, TypeOK
<1>5. ASSUME NEW q \in Requests, BeginRefresh(q) PROVE TypeOK'
  BY <1>5, <1>a DEF BeginRefresh, TypeOK
<1>6. ASSUME NEW q \in Requests, ReadTotals(q) PROVE TypeOK'
  <2>1. /\ now[q] \in Days /\ MonthOf[now[q]] \in Days
        /\ spent["visitor"] \in [Days -> Nat] /\ spent["eval"] \in [Days -> Nat]
    BY <1>a DEF TypeOK
  <2>2. totals' \in [Replicas -> [day : Nat, month : Nat] \cup {NoTotals}]
    BY <1>6, <1>a, <2>1 DEF ReadTotals, TypeOK
  <2> QED
    BY <1>6, <2>2 DEF ReadTotals, TypeOK
<1>7. ASSUME NEW q \in Requests, CompleteRefresh(q) PROVE TypeOK'
  <2>1. /\ guard[Home[q]] \in GuardType /\ now[q] \in Days /\ amount[q] \in 0..MaxAmount
        /\ totals[Home[q]] \in [day : Nat, month : Nat] /\ settling[Home[q]] \in Nat
    BY <1>7, <1>a DEF CompleteRefresh, TypeOK
  <2>2. Refreshed(guard[Home[q]], totals[Home[q]], now[q]) \in GuardType
    BY <2>1, <1>a, GuardOperations
  <2>3. stage' \in [Requests -> Stages] /\ guard' \in [Replicas -> GuardType]
    BY <1>7, <2>1, <2>2, DecideType DEF CompleteRefresh
  <2>4. worst' \in [Replicas -> Nat] /\ forgotten' \in [Replicas -> Nat]
    BY <1>7, <2>1 DEF CompleteRefresh, TypeOK, Max2
  <2> QED
    BY <1>7, <2>3, <2>4 DEF CompleteRefresh, TypeOK
<1>8. ASSUME NEW q \in Requests, RefreshFails(q) PROVE TypeOK'
  BY <1>8, <1>b DEF RefreshFails, TypeOK
<1>9. ASSUME NEW q \in Requests, CallProvider(q) PROVE TypeOK'
  BY <1>9, <1>b DEF CallProvider, TypeOK
<1>10. ASSUME NEW q \in Requests, ProviderBills(q) PROVE TypeOK'
  <2>1. PICK b \in 0..amount[q] : cost' = [cost EXCEPT ![q] = b]
    BY <1>10 DEF ProviderBills
  <2>2. b \in 0..MaxAmount
    BY <1>a DEF TypeOK
  <2>3. cost' \in [Requests -> 0..MaxAmount]
    BY <2>1, <2>2 DEF TypeOK
  <2> QED
    BY <1>10, <2>3, <1>b DEF ProviderBills, TypeOK
<1>11. ASSUME NEW q \in Requests, LogRow(q) PROVE TypeOK'
  <2> QED
    BY <1>11, <1>b, InsertType DEF LogRow, TypeOK
<1>12. ASSUME NEW q \in Requests PROVE /\ Settled(guard[Home[q]], q) \in GuardType
                                       /\ Released(guard[Home[q]], q) \in GuardType
  <2>1. /\ guard[Home[q]] \in GuardType /\ amount[q] \in Nat /\ cost[q] \in Nat
        /\ SourceOf[q] \in Sources
    BY <1>a DEF TypeOK
  <2> QED
    BY <2>1, GuardOperations DEF Settled, Released
<1>13. ASSUME NEW q \in Requests, Settle(q) PROVE TypeOK'
  <2>1. guard' \in [Replicas -> GuardType]
    BY <1>12, <1>13 DEF Settle, TypeOK
  <2>2. settling[Home[q]] + cost[q] \in Nat /\ settling[Home[q]] \in Nat
    BY <1>a DEF TypeOK
  <2>3. settling' \in [Replicas -> Nat]
    BY <1>13, <2>2 DEF Settle, TypeOK
  <2> QED
    BY <1>13, <1>b, <2>1, <2>3 DEF Settle, TypeOK
<1>14. ASSUME NEW q \in Requests, ProviderFails(q) \/ AnswerLost(q) PROVE TypeOK'
  <2>1. guard' \in [Replicas -> GuardType]
    BY <1>12, <1>14 DEF ProviderFails, AnswerLost, Fail, TypeOK
  <2> QED
    BY <1>14, <1>b, <2>1 DEF ProviderFails, AnswerLost, Fail, TypeOK
<1>15. ASSUME NEW q \in Requests, CommitUnacknowledged(q) PROVE TypeOK'
  <2>1. guard' \in [Replicas -> GuardType]
    BY <1>12, <1>15 DEF CommitUnacknowledged, Fail, TypeOK
  <2>2. noCount' \in [Replicas -> Nat]
    BY <1>15, <1>a DEF CommitUnacknowledged, TypeOK
  <2> QED
    BY <1>15, <1>b, <2>1, <2>2, InsertType DEF CommitUnacknowledged, Fail, TypeOK
<1>16. ASSUME NEW r \in Replicas, Expire(r) PROVE TypeOK'
  <2>1. [guard[r] EXCEPT !.fresh = FALSE] \in GuardType
    BY ZenonT(60) DEF TypeOK, GuardType
  <2>2. guard' \in [Replicas -> GuardType]
    BY <1>16, <2>1 DEF Expire, TypeOK
  <2> QED
    BY <1>16, <2>2 DEF Expire, TypeOK
<1>17. ASSUME NEW r \in Replicas, Restart(r) PROVE TypeOK'
  <2>1. guard' \in [Replicas -> GuardType]
    BY <1>17, NewGuardType DEF Restart, TypeOK
  <2>2. stage' \in [Requests -> Stages]
    BY <1>17, <1>b DEF Restart, TypeOK
  <2> QED
    BY <1>17, <2>1, <2>2 DEF Restart, TypeOK
<1>18. ASSUME Midnight PROVE TypeOK'
  <2>1. today' \in Days
    BY <1>18, <1>a DEF Midnight, TypeOK, Days
  <2> QED
    BY <1>18, <2>1 DEF Midnight, TypeOK
<1>19. ASSUME UNCHANGED vars PROVE TypeOK'
  BY <1>19 DEF vars, TypeOK
<1> QED
  BY <1>1, <1>2, <1>3, <1>4, <1>5, <1>6, <1>7, <1>8, <1>9, <1>10, <1>11, <1>13, <1>14,
     <1>15, <1>16, <1>17, <1>18, <1>19 DEF Next, Progress, Failure, Quiescent

\* Every variable of every reachable state has its type, for any requests,
\* replicas, calendar, limits and amounts.
THEOREM TypeCorrect == Spec => []TypeOK
<1> QED
  BY InitType, TypeStep, PTL DEF Spec

(***************************************************************************)
(* How a step moves the three sums the invariants speak of.                *)
(***************************************************************************)

HeldTotal(r, s)   == Total(HoldingAt(r, s), amount)
OpenTotal(r, s)   == Total(Open(r, s), amount)
LoggedTotal(r, s) == Total(Logged(r, s), cost)

Mine(q, r, s) == Home[q] = r /\ SourceOf[q] = s

\* A coroutine that moves to stage v; only q's claim and cost may change, and
\* not while they are counted.
Moves(q, v) ==
    /\ stage' = [stage EXCEPT ![q] = v]
    /\ \A p \in Requests \ {q} : amount'[p] = amount[p] /\ cost'[p] = cost[p]
    /\ stage[q] \in Holding => amount'[q] = amount[q]
    /\ stage[q] = "logged" => cost'[q] = cost[q]

LEMMA SumsMove ==
    ASSUME TypeOK, TypeOK', NEW q \in Requests, NEW v, Moves(q, v), NEW r, NEW s
    PROVE  /\ HeldTotal(r, s)' = HeldTotal(r, s)
                  - Part(Mine(q, r, s) /\ stage[q] \in Holding, amount[q])
                  + Part(Mine(q, r, s) /\ v \in Holding, amount'[q])
           /\ OpenTotal(r, s)' = OpenTotal(r, s)
                  - Part(Mine(q, r, s) /\ stage[q] \in Holding \ {"logged"}, amount[q])
                  + Part(Mine(q, r, s) /\ v \in Holding \ {"logged"}, amount'[q])
           /\ LoggedTotal(r, s)' = LoggedTotal(r, s)
                  - Part(Mine(q, r, s) /\ stage[q] = "logged", cost[q])
                  + Part(Mine(q, r, s) /\ v = "logged", cost'[q])
<1>1. /\ amount \in [Requests -> 0..MaxAmount] /\ amount' \in [Requests -> 0..MaxAmount]
      /\ cost \in [Requests -> 0..MaxAmount] /\ cost' \in [Requests -> 0..MaxAmount]
      /\ stage \in [Requests -> Stages]
      /\ \A p \in Requests \ {q} : stage'[p] = stage[p]
      /\ stage'[q] = v
      /\ \A p \in Requests \ {q} : amount[p] = amount'[p] /\ cost[p] = cost'[p]
  BY DEF TypeOK, Moves
<1>2. Total(HoldingAt(r, s)', amount') = Total(HoldingAt(r, s), amount)
          - Part(q \in HoldingAt(r, s), amount[q]) + Part(q \in HoldingAt(r, s)', amount'[q])
  <2>1. HoldingAt(r, s) \ {q} = HoldingAt(r, s)' \ {q}
    BY <1>1 DEF HoldingAt
  <2>2. HoldingAt(r, s) \in SUBSET Requests /\ HoldingAt(r, s)' \in SUBSET Requests
    BY DEF HoldingAt
  <2> QED
    BY <1>1, <2>1, <2>2, TotalUpdate
<1>3. Total(Open(r, s)', amount') = Total(Open(r, s), amount)
          - Part(q \in Open(r, s), amount[q]) + Part(q \in Open(r, s)', amount'[q])
  <2>1. Open(r, s) \ {q} = Open(r, s)' \ {q}
    BY <1>1 DEF HoldingAt, Open
  <2>2. Open(r, s) \in SUBSET Requests /\ Open(r, s)' \in SUBSET Requests
    BY DEF HoldingAt, Open
  <2> QED
    BY <1>1, <2>1, <2>2, TotalUpdate
<1>4. Total(Logged(r, s)', cost') = Total(Logged(r, s), cost)
          - Part(q \in Logged(r, s), cost[q]) + Part(q \in Logged(r, s)', cost'[q])
  <2>1. Logged(r, s) \ {q} = Logged(r, s)' \ {q}
    BY <1>1 DEF HoldingAt, Logged
  <2>2. Logged(r, s) \in SUBSET Requests /\ Logged(r, s)' \in SUBSET Requests
    BY DEF HoldingAt, Logged
  <2> QED
    BY <1>1, <2>1, <2>2, TotalUpdate
<1>5. /\ q \in HoldingAt(r, s) <=> Mine(q, r, s) /\ stage[q] \in Holding
      /\ q \in HoldingAt(r, s)' <=> Mine(q, r, s) /\ v \in Holding
      /\ q \in Open(r, s) <=> Mine(q, r, s) /\ stage[q] \in Holding \ {"logged"}
      /\ q \in Open(r, s)' <=> Mine(q, r, s) /\ v \in Holding \ {"logged"}
      /\ q \in Logged(r, s) <=> Mine(q, r, s) /\ stage[q] = "logged"
      /\ q \in Logged(r, s)' <=> Mine(q, r, s) /\ v = "logged"
  BY <1>1 DEF HoldingAt, Open, Logged, Mine, Holding
<1> QED
  BY <1>2, <1>3, <1>4, <1>5 DEF HeldTotal, OpenTotal, LoggedTotal, Part

\* What _current is followed by, seen from outside: the request moves, and the
\* guard is g, with one more claim if the request was admitted.
LEMMA DecideEffect ==
    ASSUME TypeOK, NEW q \in Requests, NEW asked, NEW d, NEW a, NEW g, Decide(q, asked, d, a, g)
    PROVE  /\ stage' = [stage EXCEPT ![q] = stage'[q]]
           /\ stage'[q] \in {"exhausted", "retrieve", "pressure", "generate"}
           /\ guard' = [guard EXCEPT ![Home[q]] =
                           IF stage'[q] = "generate" THEN Claim(g, a, SourceOf[q]) ELSE g]
           /\ stage'[q] = "generate" => ~Exhausted(g, d) /\ ~Committed(g, d)
<1>1. CASE asked = "check"
  <2>1. stage' = [stage EXCEPT ![q] = Checked(g, d)] /\ guard' = [guard EXCEPT ![Home[q]] = g]
    BY <1>1 DEF Decide
  <2>2. stage'[q] = Checked(g, d)
    BY <2>1 DEF TypeOK
  <2>3. Checked(g, d) \in {"exhausted", "retrieve"}
    BY DEF Checked
  <2> QED
    BY <2>1, <2>2, <2>3
<1>2. CASE asked # "check"
  <2>1. /\ stage' = [stage EXCEPT ![q] = Admitted(g, d)]
        /\ guard' = [guard EXCEPT ![Home[q]] =
                        IF Admitted(g, d) = "generate" THEN Claim(g, a, SourceOf[q]) ELSE g]
    BY <1>2 DEF Decide
  <2>2. stage'[q] = Admitted(g, d)
    BY <2>1 DEF TypeOK
  <2>3. /\ Admitted(g, d) \in {"exhausted", "pressure", "generate"}
        /\ Admitted(g, d) = "generate" => ~Exhausted(g, d) /\ ~Committed(g, d)
    BY DEF Admitted
  <2> QED
    BY <2>1, <2>2, <2>3
<1> QED
  BY <1>1, <1>2

LEMMA AskEffect ==
    ASSUME TypeOK, NEW q \in Requests, NEW asked \in Asking, NEW a, Ask(q, asked, a),
           stage[q] \notin Holding
    PROVE  /\ Moves(q, stage'[q])
           /\ amount'[q] = a
           /\ stage'[q] \notin Holding \ {"generate"}
           /\ guard' = [guard EXCEPT ![Home[q]] = IF stage'[q] = "generate"
                           THEN Claim(guard[Home[q]], a, SourceOf[q]) ELSE guard[Home[q]]]
           /\ stage'[q] = "generate" =>
                 /\ ~(Enabled /\ Stale(guard[Home[q]], today))
                 /\ ~Committed(guard[Home[q]], today)
<1>1. /\ amount' = [amount EXCEPT ![q] = a] /\ cost' = cost
      /\ Home[q] \in Replicas
  BY PopulationAssumption DEF Ask
<1>2. CASE Enabled /\ Stale(guard[Home[q]], today)
  <2>1. stage' = [stage EXCEPT ![q] = asked] /\ guard' = guard
    BY <1>2 DEF Ask
  <2>2. stage'[q] = asked /\ asked \notin Holding
    BY <2>1 DEF TypeOK, Asking, Holding
  <2>3. Moves(q, stage'[q])
    BY <1>1, <2>1, <2>2 DEF Moves, TypeOK, Holding
  <2> QED
    BY <1>1, <2>1, <2>2, <2>3 DEF TypeOK, Holding
<1>3. CASE ~(Enabled /\ Stale(guard[Home[q]], today))
  <2>1. Decide(q, asked, today, a, guard[Home[q]])
    BY <1>3 DEF Ask
  <2>2. /\ stage' = [stage EXCEPT ![q] = stage'[q]]
        /\ stage'[q] \in {"exhausted", "retrieve", "pressure", "generate"}
        /\ guard' = [guard EXCEPT ![Home[q]] = IF stage'[q] = "generate"
                        THEN Claim(guard[Home[q]], a, SourceOf[q]) ELSE guard[Home[q]]]
        /\ stage'[q] = "generate" => ~Committed(guard[Home[q]], today)
    BY <2>1, DecideEffect
  <2>3. Moves(q, stage'[q])
    BY <1>1, <2>2 DEF Moves, TypeOK, Holding
  <2>4. amount'[q] = a
    BY <1>1 DEF TypeOK
  <2>5. stage'[q] \notin Holding \ {"generate"}
    BY <2>2 DEF Holding
  <2> QED
    BY <1>3, <2>2, <2>3, <2>4, <2>5
<1> QED
  BY <1>2, <1>3

(***************************************************************************)
(* The refresh lock.                                                       *)
(***************************************************************************)

\* A coroutine that moves from a stage it does not hold the lock in.
LEMMA HolderAsksMove ==
    ASSUME TypeOK, HolderAsks, NEW q \in Requests, UNCHANGED holder,
           \A p \in Requests \ {q} : stage'[p] = stage[p],
           holder[Home[q]] # q
    PROVE  HolderAsks'
<1>1. ASSUME NEW r \in Replicas, holder[r] # Nobody
      PROVE  /\ holder[r] \in Requests /\ Home[holder[r]] = r
             /\ stage[holder[r]] \in Asking /\ stage'[holder[r]] = stage[holder[r]]
  <2>1. holder \in [Replicas -> Requests \cup {Nobody}]
    BY DEF TypeOK
  <2>2. holder[r] \in Requests
    BY <1>1, <2>1
  <2>3. Home[holder[r]] = r /\ stage[holder[r]] \in Asking
    BY <1>1 DEF HolderAsks
  <2>4. holder[r] # q
    BY <2>3
  <2> QED
    BY <2>2, <2>3, <2>4
<1> QED
  BY <1>1 DEF HolderAsks

LEMMA HolderAsksStep == TypeOK /\ HolderAsks /\ [Next]_vars => HolderAsks'
<1> SUFFICES ASSUME TypeOK, HolderAsks, [Next]_vars PROVE HolderAsks'
  OBVIOUS
<1> USE DEF clock, ledger, lock, request, history
<1>h. /\ Home \in [Requests -> Replicas] /\ Nobody \notin Requests
      /\ \A q \in Requests : stage[q] \notin Asking => holder[Home[q]] # q
  BY PopulationAssumption DEF HolderAsks
<1>a. ASSUME UNCHANGED <<stage, holder>> PROVE HolderAsks'
  BY <1>a DEF HolderAsks
<1>b. ASSUME NEW q \in Requests, NEW v, stage' = [stage EXCEPT ![q] = v],
             holder[Home[q]] # q, UNCHANGED holder
      PROVE  HolderAsks'
  <2>1. \A p \in Requests \ {q} : stage'[p] = stage[p]
    BY <1>b DEF TypeOK
  <2> QED
    BY <1>b, <2>1, HolderAsksMove
<1>c. ASSUME NEW q \in Requests, NEW v, stage' = [stage EXCEPT ![q] = v],
             holder' = [holder EXCEPT ![Home[q]] = Nobody]
      PROVE  HolderAsks'
  BY <1>c, <1>h DEF HolderAsks, TypeOK
<1>d. ASSUME NEW q \in Requests, NEW asked \in Asking, NEW a, Ask(q, asked, a),
             stage[q] \notin Asking \cup Holding
      PROVE  HolderAsks'
  <2>1. Moves(q, stage'[q])
    BY <1>d, AskEffect
  <2> QED
    BY <1>b, <1>d, <1>h, <2>1 DEF Ask, Moves
<1>1. ASSUME NEW q \in Requests, Arrive(q) \/ Retrieved(q) PROVE HolderAsks'
  BY <1>1, <1>d DEF Arrive, Retrieved, Asking, Holding
<1>2. ASSUME NEW q \in Requests, FollowRefresh(q) PROVE HolderAsks'
  <2>1. stage' = [stage EXCEPT ![q] = stage'[q]]
    BY <1>2, DecideEffect DEF FollowRefresh
  <2> QED
    BY <1>2, <1>b, <1>h, <2>1 DEF FollowRefresh
<1>3. ASSUME NEW q \in Requests, BeginRefresh(q) PROVE HolderAsks'
  BY <1>3, <1>h DEF BeginRefresh, HolderAsks, TypeOK
<1>4. ASSUME NEW q \in Requests, CompleteRefresh(q) PROVE HolderAsks'
  <2>1. stage' = [stage EXCEPT ![q] = stage'[q]]
    BY <1>4, DecideEffect DEF CompleteRefresh
  <2> QED
    BY <1>4, <1>c, <2>1 DEF CompleteRefresh
<1>5. ASSUME NEW q \in Requests, RefreshFails(q) PROVE HolderAsks'
  BY <1>5, <1>c DEF RefreshFails
<1>6. ASSUME NEW q \in Requests,
             \/ RetrievalFails(q) \/ CallProvider(q) \/ ProviderBills(q) \/ LogRow(q)
             \/ Settle(q) \/ ProviderFails(q) \/ AnswerLost(q) \/ CommitUnacknowledged(q)
      PROVE  HolderAsks'
  <2>1. stage[q] \notin Asking /\ UNCHANGED holder /\ \E v : stage' = [stage EXCEPT ![q] = v]
    BY <1>6 DEF RetrievalFails, CallProvider, ProviderBills, LogRow, Settle, ProviderFails,
                AnswerLost, CommitUnacknowledged, Fail, Asking
  <2> QED
    BY <1>b, <1>h, <2>1
<1>7. ASSUME NEW q \in Requests, ReadTotals(q) PROVE HolderAsks'
  BY <1>7, <1>a DEF ReadTotals
<1>8. ASSUME NEW r \in Replicas, Expire(r) PROVE HolderAsks'
  BY <1>8, <1>a DEF Expire
<1>9. ASSUME NEW r \in Replicas, Restart(r) PROVE HolderAsks'
  <2>1. /\ \A x \in Replicas : holder'[x] = IF x = r THEN Nobody ELSE holder[x]
        /\ \A q \in Requests : Home[q] # r => stage'[q] = stage[q]
    BY <1>9 DEF Restart, TypeOK
  <2> QED
    BY <2>1 DEF HolderAsks, TypeOK
<1>10. ASSUME Midnight \/ UNCHANGED vars PROVE HolderAsks'
  BY <1>10, <1>a DEF Midnight, vars
<1> QED
  BY <1>1, <1>2, <1>3, <1>4, <1>5, <1>6, <1>7, <1>8, <1>9, <1>10
  DEF Next, Progress, Failure, Quiescent

\* _refresh_lock is only ever held by a coroutine of the same replica that is
\* suspended in _current: no path leaves it taken.
THEOREM LockHeldByAsker == Spec => []HolderAsks
<1>1. Init => HolderAsks
  BY DEF Init, HolderAsks
<1> QED
  BY <1>1, HolderAsksStep, TypeCorrect, PTL DEF Spec

(***************************************************************************)
(* The reservations are exact.                                             *)
(***************************************************************************)

LEMMA ClaimsMove ==
    ASSUME TypeOK, TypeOK', ClaimsExact, NEW q \in Requests, NEW v, Moves(q, v),
           \A r \in Replicas :
              /\ guard'[r].reserved = guard[r].reserved
                    - Part(Mine(q, r, "visitor") /\ stage[q] \in Holding, amount[q])
                    + Part(Mine(q, r, "visitor") /\ v \in Holding, amount'[q])
              /\ guard'[r].reservedMonthlyOnly = guard[r].reservedMonthlyOnly
                    - Part(Mine(q, r, "eval") /\ stage[q] \in Holding, amount[q])
                    + Part(Mine(q, r, "eval") /\ v \in Holding, amount'[q])
    PROVE  ClaimsExact'
<1> SUFFICES ASSUME NEW r \in Replicas
             PROVE  /\ guard'[r].reserved = HeldTotal(r, "visitor")'
                    /\ guard'[r].reservedMonthlyOnly = HeldTotal(r, "eval")'
  BY DEF ClaimsExact, HeldTotal
<1>1. /\ guard[r].reserved = HeldTotal(r, "visitor")
      /\ guard[r].reservedMonthlyOnly = HeldTotal(r, "eval")
  BY DEF ClaimsExact, HeldTotal
<1> QED
  BY <1>1, SumsMove

\* A step that takes no claim and gives none back.
LEMMA ClaimsStay ==
    ASSUME TypeOK, TypeOK', ClaimsExact, NEW q \in Requests, NEW v, Moves(q, v),
           stage[q] \in Holding <=> v \in Holding,
           \A r \in Replicas : /\ guard'[r].reserved = guard[r].reserved
                              /\ guard'[r].reservedMonthlyOnly = guard[r].reservedMonthlyOnly
    PROVE  ClaimsExact'
<1>1. \A r \in Replicas : guard[r].reserved \in Int /\ guard[r].reservedMonthlyOnly \in Int
  BY DEF TypeOK, GuardType
<1>2. amount[q] \in Int /\ amount'[q] \in Int
  BY MoneyAssumption DEF TypeOK
<1>3. stage[q] \in Holding => amount'[q] = amount[q]
  BY DEF Moves
<1> QED
  BY <1>1, <1>2, <1>3, ClaimsMove DEF Part

\* A claim taken on a guard g that differs from the old one in its cache only.
LEMMA ClaimTaken ==
    ASSUME TypeOK, TypeOK', ClaimsExact, NEW q \in Requests, Moves(q, stage'[q]),
           stage[q] \notin Holding, stage'[q] \notin Holding \ {"generate"},
           NEW g \in GuardType,
           /\ g.reserved = guard[Home[q]].reserved
           /\ g.reservedMonthlyOnly = guard[Home[q]].reservedMonthlyOnly,
           guard' = [guard EXCEPT ![Home[q]] = IF stage'[q] = "generate"
                       THEN Claim(g, amount'[q], SourceOf[q]) ELSE g]
    PROVE  ClaimsExact'
<1>1. /\ Home[q] \in Replicas /\ SourceOf[q] \in {"visitor", "eval"}
      /\ amount'[q] \in Int
      /\ \A r \in Replicas : guard[r].reserved \in Int /\ guard[r].reservedMonthlyOnly \in Int
  BY PopulationAssumption, MoneyAssumption DEF Sources, TypeOK, GuardType
<1>2. \A r \in Replicas : r # Home[q] => guard'[r] = guard[r]
  BY DEF TypeOK
<1>3. guard'[Home[q]] = IF stage'[q] = "generate" THEN Claim(g, amount'[q], SourceOf[q]) ELSE g
  BY <1>1 DEF TypeOK
<1>4. /\ guard'[Home[q]].reserved = g.reserved
            + Part(stage'[q] = "generate" /\ SourceOf[q] = "visitor", amount'[q])
      /\ guard'[Home[q]].reservedMonthlyOnly = g.reservedMonthlyOnly
            + Part(stage'[q] = "generate" /\ SourceOf[q] = "eval", amount'[q])
  BY <1>1, <1>3 DEF Claim, Part, GuardType
<1>5. stage'[q] \in Holding <=> stage'[q] = "generate"
  BY DEF Holding
<1>6. ASSUME NEW r \in Replicas
      PROVE  /\ guard'[r].reserved = guard[r].reserved
                    - Part(Mine(q, r, "visitor") /\ stage[q] \in Holding, amount[q])
                    + Part(Mine(q, r, "visitor") /\ stage'[q] \in Holding, amount'[q])
             /\ guard'[r].reservedMonthlyOnly = guard[r].reservedMonthlyOnly
                    - Part(Mine(q, r, "eval") /\ stage[q] \in Holding, amount[q])
                    + Part(Mine(q, r, "eval") /\ stage'[q] \in Holding, amount'[q])
  <2>1. CASE r = Home[q]
    BY <1>1, <1>4, <1>5, <2>1 DEF Part, Mine
  <2>2. CASE r # Home[q]
    BY <1>1, <1>2, <2>2 DEF Part, Mine
  <2> QED
    BY <2>1, <2>2
<1> QED
  BY <1>6, ClaimsMove

\* A claim given back, with or without the cost being recorded first.
LEMMA ClaimReturned ==
    ASSUME TypeOK, TypeOK', ClaimsExact, NEW q \in Requests, NEW v, Moves(q, v),
           stage[q] \in Holding, v \notin Holding,
           guard' = [guard EXCEPT ![Home[q]] = Settled(@, q)]
             \/ guard' = [guard EXCEPT ![Home[q]] = Released(@, q)]
    PROVE  ClaimsExact'
<1>1. /\ Home[q] \in Replicas /\ SourceOf[q] \in {"visitor", "eval"}
      /\ amount[q] \in Int /\ guard[Home[q]] \in GuardType
      /\ \A r \in Replicas : guard[r].reserved \in Int /\ guard[r].reservedMonthlyOnly \in Int
  BY PopulationAssumption, MoneyAssumption DEF Sources, TypeOK, GuardType
<1>2. \A r \in Replicas : r # Home[q] => guard'[r] = guard[r]
  BY DEF TypeOK
<1>3. \/ guard'[Home[q]] = Settled(guard[Home[q]], q)
      \/ guard'[Home[q]] = Released(guard[Home[q]], q)
  BY <1>1 DEF TypeOK
<1>4. /\ guard'[Home[q]].reserved = guard[Home[q]].reserved
            - Part(SourceOf[q] = "visitor", amount[q])
      /\ guard'[Home[q]].reservedMonthlyOnly = guard[Home[q]].reservedMonthlyOnly
            - Part(SourceOf[q] = "eval", amount[q])
  <2> DEFINE g == guard[Home[q]]
             k == Record(g, cost[q], SourceOf[q])
  <2>1. /\ k.reserved = g.reserved /\ k.reservedMonthlyOnly = g.reservedMonthlyOnly
        /\ k \in GuardType
    <3>1. cost[q] \in Nat
      BY MoneyAssumption DEF TypeOK
    <3> QED
      BY <1>1, <3>1, GuardOperations DEF Record, GuardType, Sources
  <2>2. ASSUME NEW h \in GuardType
        PROVE  /\ Discharge(h, amount[q], SourceOf[q]).reserved
                     = h.reserved - Part(SourceOf[q] = "visitor", amount[q])
               /\ Discharge(h, amount[q], SourceOf[q]).reservedMonthlyOnly
                     = h.reservedMonthlyOnly - Part(SourceOf[q] = "eval", amount[q])
    BY <1>1 DEF Discharge, Part, GuardType
  <2> QED
    BY <1>1, <1>3, <2>1, <2>2 DEF Settled, Released
<1>5. ASSUME NEW r \in Replicas
      PROVE  /\ guard'[r].reserved = guard[r].reserved
                    - Part(Mine(q, r, "visitor") /\ stage[q] \in Holding, amount[q])
                    + Part(Mine(q, r, "visitor") /\ v \in Holding, amount'[q])
             /\ guard'[r].reservedMonthlyOnly = guard[r].reservedMonthlyOnly
                    - Part(Mine(q, r, "eval") /\ stage[q] \in Holding, amount[q])
                    + Part(Mine(q, r, "eval") /\ v \in Holding, amount'[q])
  <2>1. CASE r = Home[q]
    BY <1>1, <1>4, <2>1 DEF Part, Mine
  <2>2. CASE r # Home[q]
    BY <1>1, <1>2, <2>2 DEF Part, Mine
  <2> QED
    BY <2>1, <2>2
<1> QED
  BY <1>5, ClaimsMove

\* A step after which q is where it was put and the claims are not touched.
LEMMA QuietMove ==
    ASSUME TypeOK, NEW q \in Requests, NEW v,
           stage' = [stage EXCEPT ![q] = v], UNCHANGED amount,
           cost' = [cost EXCEPT ![q] = cost'[q]], stage[q] = "logged" => cost'[q] = cost[q]
    PROVE  Moves(q, v)
BY DEF Moves, TypeOK

LEMMA ClaimsInit == Init => ClaimsExact
<1> SUFFICES ASSUME Init, NEW r \in Replicas
             PROVE  /\ guard[r].reserved = Total(HoldingAt(r, "visitor"), amount)
                    /\ guard[r].reservedMonthlyOnly = Total(HoldingAt(r, "eval"), amount)
  BY DEF ClaimsExact
<1>1. HoldingAt(r, "visitor") = {} /\ HoldingAt(r, "eval") = {}
  BY DEF Init, HoldingAt, Holding
<1>2. Total({}, amount) = 0
  BY TotalEmpty
<1> QED
  BY <1>1, <1>2 DEF Init, NewGuard

LEMMA ClaimsSurviveRestart ==
    ASSUME TypeOK, TypeOK', ClaimsExact, NEW r \in Replicas, Restart(r)
    PROVE  ClaimsExact'
<1> SUFFICES ASSUME NEW x \in Replicas
             PROVE  /\ guard'[x].reserved = Total(HoldingAt(x, "visitor")', amount')
                    /\ guard'[x].reservedMonthlyOnly = Total(HoldingAt(x, "eval")', amount')
  BY DEF ClaimsExact
<1>1. /\ amount' = amount
      /\ guard' = [guard EXCEPT ![r] = NewGuard]
      /\ stage' = [q \in Requests |->
                     IF Home[q] = r /\ stage[q] \notin {"idle"} \cup Ended
                     THEN "failed" ELSE stage[q]]
  BY DEF Restart
<1>2. CASE x = r
  <2>1. HoldingAt(x, "visitor")' = {} /\ HoldingAt(x, "eval")' = {}
    BY <1>1, <1>2 DEF HoldingAt, Holding, Ended
  <2>2. guard'[x] = NewGuard
    BY <1>1, <1>2 DEF TypeOK
  <2>3. Total({}, amount') = 0
    BY TotalEmpty
  <2> QED
    BY <2>1, <2>2, <2>3 DEF NewGuard
<1>3. CASE x # r
  <2>1. ASSUME NEW s PROVE HoldingAt(x, s)' = HoldingAt(x, s)
    BY <1>1, <1>3 DEF HoldingAt
  <2>2. guard'[x] = guard[x]
    BY <1>1, <1>3 DEF TypeOK
  <2> QED
    BY <1>1, <2>1, <2>2 DEF ClaimsExact
<1> QED
  BY <1>2, <1>3

LEMMA ClaimsStep == TypeOK /\ HolderAsks /\ ClaimsExact /\ [Next]_vars => ClaimsExact'
<1> SUFFICES ASSUME TypeOK, HolderAsks, ClaimsExact, [Next]_vars PROVE ClaimsExact'
  OBVIOUS
<1> USE DEF clock, ledger, lock, request, history
<1>t. TypeOK'
  BY TypeStep
<1>a. ASSUME UNCHANGED <<stage, amount>>,
             \A r \in Replicas : /\ guard'[r].reserved = guard[r].reserved
                                /\ guard'[r].reservedMonthlyOnly = guard[r].reservedMonthlyOnly
      PROVE  ClaimsExact'
  BY <1>a DEF ClaimsExact, HoldingAt
<1>b. ASSUME NEW q \in Requests, NEW v, stage' = [stage EXCEPT ![q] = v],
             UNCHANGED <<amount, guard>>,
             cost' = [cost EXCEPT ![q] = cost'[q]], stage[q] = "logged" => cost'[q] = cost[q],
             stage[q] \in Holding <=> v \in Holding
      PROVE  ClaimsExact'
  <2>1. Moves(q, v)
    BY <1>b, QuietMove
  <2> QED
    BY <1>b, <1>t, <2>1, ClaimsStay
<1>c. ASSUME NEW q \in Requests, NEW v, stage' = [stage EXCEPT ![q] = v],
             UNCHANGED <<amount, cost>>, stage[q] \in Holding, v \notin Holding,
             guard' = [guard EXCEPT ![Home[q]] = Settled(@, q)]
               \/ guard' = [guard EXCEPT ![Home[q]] = Released(@, q)]
      PROVE  ClaimsExact'
  <2>1. Moves(q, v)
    BY <1>c DEF Moves
  <2> QED
    BY <1>c, <1>t, <2>1, ClaimReturned
<1>d. ASSUME NEW q \in Requests, NEW asked \in Asking, NEW a, Ask(q, asked, a),
             stage[q] \notin Holding
      PROVE  ClaimsExact'
  <2>1. /\ Moves(q, stage'[q]) /\ amount'[q] = a /\ stage'[q] \notin Holding \ {"generate"}
        /\ guard' = [guard EXCEPT ![Home[q]] = IF stage'[q] = "generate"
                       THEN Claim(guard[Home[q]], a, SourceOf[q]) ELSE guard[Home[q]]]
    BY <1>d, AskEffect
  <2>2. guard[Home[q]] \in GuardType
    BY PopulationAssumption DEF TypeOK
  <2> QED
    BY <1>d, <1>t, <2>1, <2>2, ClaimTaken
<1>e. ASSUME NEW q \in Requests, NEW g \in GuardType, stage[q] \in Asking,
             g.reserved = guard[Home[q]].reserved,
             g.reservedMonthlyOnly = guard[Home[q]].reservedMonthlyOnly,
             Decide(q, stage[q], now[q], amount[q], g), UNCHANGED <<amount, cost>>
      PROVE  ClaimsExact'
  <2>1. /\ stage' = [stage EXCEPT ![q] = stage'[q]]
        /\ stage'[q] \in {"exhausted", "retrieve", "pressure", "generate"}
        /\ guard' = [guard EXCEPT ![Home[q]] =
                        IF stage'[q] = "generate" THEN Claim(g, amount[q], SourceOf[q]) ELSE g]
    BY <1>e, DecideEffect
  <2>2. Moves(q, stage'[q])
    BY <1>e, <2>1 DEF Moves
  <2>3. stage[q] \notin Holding /\ stage'[q] \notin Holding \ {"generate"}
    BY <1>e, <2>1 DEF Asking, Holding
  <2> QED
    BY <1>e, <1>t, <2>1, <2>2, <2>3, ClaimTaken
<1>1. ASSUME NEW q \in Requests, Arrive(q) PROVE ClaimsExact'
  BY <1>1, <1>d DEF Arrive, Asking, Holding
<1>2. ASSUME NEW q \in Requests, Retrieved(q) PROVE ClaimsExact'
  BY <1>2, <1>d DEF Retrieved, Asking, Holding
<1>3. ASSUME NEW q \in Requests, FollowRefresh(q) PROVE ClaimsExact'
  <2>1. guard[Home[q]] \in GuardType
    BY PopulationAssumption DEF TypeOK
  <2> QED
    BY <1>3, <1>e, <2>1 DEF FollowRefresh
<1>4. ASSUME NEW q \in Requests, BeginRefresh(q) \/ ReadTotals(q) PROVE ClaimsExact'
  BY <1>4, <1>a DEF BeginRefresh, ReadTotals
<1>5. ASSUME NEW q \in Requests, CompleteRefresh(q) PROVE ClaimsExact'
  <2> DEFINE g == Refreshed(guard[Home[q]], totals[Home[q]], now[q])
  <2>1. /\ Home[q] \in Replicas /\ guard[Home[q]] \in GuardType /\ now[q] \in Days
        /\ totals[Home[q]] \in [day : Nat, month : Nat]
        /\ stage[q] \in Asking
    BY <1>5, PopulationAssumption DEF CompleteRefresh, TypeOK, HolderAsks
  <2>2. g \in GuardType
    BY <2>1, GuardOperations, 0 \in Nat, "visitor" \in Sources DEF Sources
  <2>3. /\ g.reserved = guard[Home[q]].reserved
        /\ g.reservedMonthlyOnly = guard[Home[q]].reservedMonthlyOnly
    BY <2>1 DEF Refreshed, GuardType
  <2> QED
    BY <1>5, <1>e, <2>1, <2>2, <2>3 DEF CompleteRefresh
<1>6. ASSUME NEW q \in Requests, RetrievalFails(q) \/ RefreshFails(q) PROVE ClaimsExact'
  <2>1. stage[q] \notin Holding /\ "failed" \notin Holding
    BY <1>6, PopulationAssumption
    DEF RetrievalFails, RefreshFails, HolderAsks, Asking, Holding
  <2>2. stage' = [stage EXCEPT ![q] = "failed"] /\ UNCHANGED <<amount, guard, cost>>
    BY <1>6 DEF RetrievalFails, RefreshFails
  <2> QED
    BY <1>b, <2>1, <2>2 DEF TypeOK
<1>7. ASSUME NEW q \in Requests, CallProvider(q) \/ LogRow(q) PROVE ClaimsExact'
  <2>1. PICK v \in {"calling", "logged"} : stage' = [stage EXCEPT ![q] = v]
    BY <1>7 DEF CallProvider, LogRow
  <2>2. stage[q] \in Holding /\ v \in Holding
    BY <1>7 DEF CallProvider, LogRow, Holding
  <2>3. UNCHANGED <<amount, guard, cost>> /\ cost' = [cost EXCEPT ![q] = cost'[q]]
    BY <1>7 DEF CallProvider, LogRow, TypeOK
  <2> QED
    BY <1>b, <2>1, <2>2, <2>3
<1>8. ASSUME NEW q \in Requests, ProviderBills(q) PROVE ClaimsExact'
  <2>1. /\ stage' = [stage EXCEPT ![q] = "billed"] /\ stage[q] = "calling"
        /\ UNCHANGED <<amount, guard>>
    BY <1>8 DEF ProviderBills
  <2>2. \E c : cost' = [cost EXCEPT ![q] = c]
    BY <1>8 DEF ProviderBills
  <2>3. cost' = [cost EXCEPT ![q] = cost'[q]]
    BY <2>2 DEF TypeOK
  <2> QED
    BY <1>b, <2>1, <2>3 DEF Holding
<1>9. ASSUME NEW q \in Requests, Settle(q) PROVE ClaimsExact'
  BY <1>9, <1>c DEF Settle, Holding
<1>10. ASSUME NEW q \in Requests, ProviderFails(q) \/ AnswerLost(q) \/ CommitUnacknowledged(q)
       PROVE  ClaimsExact'
  <2>1. stage[q] \in Holding /\ UNCHANGED cost /\ Fail(q)
    BY <1>10 DEF ProviderFails, AnswerLost, CommitUnacknowledged, Fail, Holding
  <2> QED
    BY <1>c, <2>1 DEF Fail, Holding
<1>11. ASSUME NEW r \in Replicas, Expire(r) PROVE ClaimsExact'
  <2>1. \A x \in Replicas : /\ guard'[x].reserved = guard[x].reserved
                           /\ guard'[x].reservedMonthlyOnly = guard[x].reservedMonthlyOnly
    BY <1>11 DEF Expire, TypeOK, GuardType
  <2> QED
    BY <1>11, <1>a, <2>1 DEF Expire
<1>12. ASSUME NEW r \in Replicas, Restart(r) PROVE ClaimsExact'
  BY <1>12, <1>t, ClaimsSurviveRestart
<1>13. ASSUME Midnight \/ UNCHANGED vars PROVE ClaimsExact'
  BY <1>13, <1>a DEF Midnight, vars
<1> QED
  BY <1>1, <1>2, <1>3, <1>4, <1>5, <1>6, <1>7, <1>8, <1>9, <1>10, <1>11, <1>12, <1>13
  DEF Next, Progress, Failure, Quiescent

\* No path out of generation leaks a claim or gives one back twice, whatever
\* the requests, replicas and amounts.
THEOREM ReservationsExact == Spec => []ClaimsExact
<1>1. Init => ClaimsExact
  BY ClaimsInit
<1>2. TypeOK /\ HolderAsks /\ ClaimsExact /\ [Next]_vars => ClaimsExact'
  BY ClaimsStep
<1> QED
  BY <1>1, <1>2, TypeCorrect, LockHeldByAsker, PTL DEF Spec

-----------------------------------------------------------------------------
(***************************************************************************)
(* The accounts of a replica.                                              *)
(*                                                                         *)
(* What the guard counts covers the replica's own rows (CountsOwnRows).    *)
(* That is not inductive: the totals a refresh installs were read earlier, *)
(* so what the outstanding SELECT can have missed is kept account of too   *)
(* (SelectCounts), from the statement to the assignment.  Both are         *)
(* balances, moved by rows (Insert), settlements and refreshes.            *)
(***************************************************************************)

(***************************************************************************)
(* What each operation does to the fields that count money.                *)
(***************************************************************************)

SameMoney(g, h) ==
    /\ h.dayTotal = g.dayTotal /\ h.monthTotal = g.monthTotal
    /\ h.delta = g.delta /\ h.deltaMonthlyOnly = g.deltaMonthlyOnly
    /\ h.cachedDay = g.cachedDay

LEMMA ClaimKeepsMoney ==
    ASSUME NEW g \in GuardType, NEW a, NEW s
    PROVE  SameMoney(g, Claim(g, a, s)) /\ SameMoney(g, Discharge(g, a, s))
BY DEF SameMoney, Claim, Discharge, GuardType

LEMMA SettledMoney ==
    ASSUME NEW g \in GuardType, NEW q \in Requests, cost[q] \in Nat
    PROVE  LET h == Settled(g, q)
           IN  /\ h.dayTotal = g.dayTotal /\ h.monthTotal = g.monthTotal
               /\ h.cachedDay = g.cachedDay
               /\ h.delta = g.delta + Part(SourceOf[q] = "visitor", cost[q])
               /\ h.deltaMonthlyOnly = g.deltaMonthlyOnly + Part(SourceOf[q] = "eval", cost[q])
<1> DEFINE k == Record(g, cost[q], SourceOf[q])
<1>1. SourceOf[q] \in Sources
  BY PopulationAssumption
<1>2. k \in GuardType
  BY <1>1, GuardOperations
<1>3. /\ k.dayTotal = g.dayTotal /\ k.monthTotal = g.monthTotal /\ k.cachedDay = g.cachedDay
      /\ k.delta = g.delta + Part(SourceOf[q] = "visitor", cost[q])
      /\ k.deltaMonthlyOnly = g.deltaMonthlyOnly + Part(SourceOf[q] = "eval", cost[q])
  BY <1>1 DEF Record, GuardType, Part, Sources
<1> HIDE DEF k
<1>4. SameMoney(k, Discharge(k, amount[q], SourceOf[q]))
  BY <1>2, ClaimKeepsMoney
<1> QED
  BY <1>3, <1>4 DEF SameMoney, Settled, k

(***************************************************************************)
(* How a row moves the replica's part of the ledger.                       *)
(***************************************************************************)

LEMMA InsertEffect ==
    ASSUME TypeOK, NEW q \in Requests, Insert(q)
    PROVE  \A r \in Replicas, s \in Sources, d \in Days :
              /\ own'[r][s][d] = own[r][s][d]
                                   + Part(Mine(q, r, s) /\ d <= requestedAt[q], cost[q])
              /\ spent'[s][d] = spent[s][d]
                                   + Part(SourceOf[q] = s /\ d <= requestedAt[q], cost[q])
<1> DEFINE Since(f) == [d \in Days |-> IF d <= requestedAt[q] THEN f[d] + cost[q] ELSE f[d]]
           mine == own[Home[q]]
           row == [mine EXCEPT ![SourceOf[q]] = Since(mine[SourceOf[q]])]
<1>1. /\ SourceOf[q] \in Sources /\ Home[q] \in Replicas /\ cost[q] \in Nat
      /\ \A r \in Replicas, s \in Sources, d \in Days :
            own[r][s][d] \in Nat /\ spent[s][d] \in Nat
      /\ mine \in [Sources -> [Days -> Nat]]
  BY PopulationAssumption, MoneyAssumption DEF TypeOK
<1>3. /\ spent' = [spent EXCEPT ![SourceOf[q]] = Since(spent[SourceOf[q]])]
      /\ own' = [own EXCEPT ![Home[q]] = row]
  BY DEF Insert
<1> HIDE DEF Since
<1>4. \A s \in Sources :
         /\ spent'[s] = IF s = SourceOf[q] THEN Since(spent[s]) ELSE spent[s]
         /\ row[s] = IF s = SourceOf[q] THEN Since(mine[s]) ELSE mine[s]
  BY <1>1, <1>3 DEF TypeOK
<1>5. \A r \in Replicas : own'[r] = IF r = Home[q] THEN row ELSE own[r]
  <2> HIDE DEF row, mine
  <2> QED
    BY <1>3 DEF TypeOK
<1>6. ASSUME NEW r \in Replicas, NEW s \in Sources, NEW d \in Days
      PROVE  own'[r][s][d] = own[r][s][d] + Part(Mine(q, r, s) /\ d <= requestedAt[q], cost[q])
  <2>1. CASE r = Home[q] /\ s = SourceOf[q]
    <3>1. own'[r][s] = Since(own[r][s])
      BY <1>4, <1>5, <2>1
    <3>2. own'[r][s][d] = IF d <= requestedAt[q] THEN own[r][s][d] + cost[q] ELSE own[r][s][d]
      BY <3>1 DEF Since
    <3>3. Mine(q, r, s)
      BY <2>1 DEF Mine
    <3>4. own[r][s][d] \in Int /\ cost[q] \in Int
      BY <1>1
    <3>5. CASE d <= requestedAt[q]
      BY <3>2, <3>3, <3>5 DEF Part
    <3>6. CASE ~(d <= requestedAt[q])
      BY <3>2, <3>4, <3>6 DEF Part
    <3> QED
      BY <3>5, <3>6
  <2>2. CASE ~(r = Home[q] /\ s = SourceOf[q])
    <3>1. own'[r][s] = own[r][s]
      BY <1>4, <1>5, <2>2
    <3> QED
      BY <1>1, <2>2, <3>1 DEF Part, Mine
  <2> QED
    BY <2>1, <2>2
<1>7. ASSUME NEW s \in Sources, NEW d \in Days
      PROVE  spent'[s][d] = spent[s][d] + Part(SourceOf[q] = s /\ d <= requestedAt[q], cost[q])
  <2>1. CASE s = SourceOf[q]
    <3>1. spent'[s] = Since(spent[s])
      BY <1>4, <2>1
    <3>2. spent'[s][d] = IF d <= requestedAt[q] THEN spent[s][d] + cost[q] ELSE spent[s][d]
      BY <3>1 DEF Since
    <3>3. spent[s][d] \in Int /\ cost[q] \in Int
      BY <1>1
    <3>4. CASE d <= requestedAt[q]
      BY <2>1, <3>2, <3>4 DEF Part
    <3>5. CASE ~(d <= requestedAt[q])
      BY <3>2, <3>3, <3>5 DEF Part
    <3> QED
      BY <3>4, <3>5
  <2>2. CASE s # SourceOf[q]
    <3>1. spent'[s] = spent[s]
      BY <1>4, <2>2
    <3> QED
      BY <1>1, <2>2, <3>1 DEF Part
  <2> QED
    BY <2>1, <2>2
<1> QED
  BY <1>6, <1>7

(***************************************************************************)
(* The steps by what they do to the guards.                                *)
(***************************************************************************)

LEMMA SameMoneyReflexive == \A g : SameMoney(g, g)
BY DEF SameMoney

LEMMA DecideMoney ==
    ASSUME TypeOK, NEW q \in Requests, NEW asked, NEW d, NEW a, NEW g \in GuardType,
           Decide(q, asked, d, a, g)
    PROVE  /\ SameMoney(g, guard'[Home[q]])
           /\ \A r \in Replicas : r # Home[q] => guard'[r] = guard[r]
<1>1. guard' = [guard EXCEPT ![Home[q]] =
                  IF stage'[q] = "generate" THEN Claim(g, a, SourceOf[q]) ELSE g]
  BY DecideEffect
<1>2. Home[q] \in Replicas
  BY PopulationAssumption
<1>3. guard'[Home[q]] = g \/ guard'[Home[q]] = Claim(g, a, SourceOf[q])
  BY <1>1, <1>2 DEF TypeOK
<1>4. \A r \in Replicas : r # Home[q] => guard'[r] = guard[r]
  BY <1>1 DEF TypeOK
<1> QED
  BY <1>3, <1>4, ClaimKeepsMoney, SameMoneyReflexive

LEMMA AskMoney ==
    ASSUME TypeOK, NEW q \in Requests, NEW asked, NEW a, Ask(q, asked, a)
    PROVE  \A r \in Replicas : SameMoney(guard[r], guard'[r])
<1>1. CASE Enabled /\ Stale(guard[Home[q]], today)
  BY <1>1, SameMoneyReflexive DEF Ask
<1>2. CASE ~(Enabled /\ Stale(guard[Home[q]], today))
  <2>1. Decide(q, asked, today, a, guard[Home[q]])
    BY <1>2 DEF Ask
  <2>2. guard[Home[q]] \in GuardType
    BY PopulationAssumption DEF TypeOK
  <2> QED
    BY <2>1, <2>2, DecideMoney, SameMoneyReflexive
<1> QED
  BY <1>1, <1>2

\* The steps that leave every counted amount where it is.
Unmetered ==
    \/ \E q \in Requests :
          \/ Arrive(q) \/ Retrieved(q) \/ RetrievalFails(q) \/ FollowRefresh(q)
          \/ BeginRefresh(q) \/ ReadTotals(q) \/ RefreshFails(q) \/ CallProvider(q)
          \/ ProviderBills(q) \/ LogRow(q) \/ ProviderFails(q) \/ AnswerLost(q)
          \/ CommitUnacknowledged(q)
    \/ \E r \in Replicas : Expire(r)
    \/ Midnight
    \/ UNCHANGED vars

LEMMA NextCases ==
    ASSUME [Next]_vars
    PROVE  \/ Unmetered
           \/ \E q \in Requests : CompleteRefresh(q) \/ Settle(q)
           \/ \E r \in Replicas : Restart(r)
BY DEF Next, Progress, Failure, Quiescent, Unmetered

LEMMA UnmeteredMoney ==
    ASSUME TypeOK, Unmetered
    PROVE  \A r \in Replicas : SameMoney(guard[r], guard'[r])
<1>1. ASSUME NEW q \in Requests, Arrive(q) \/ Retrieved(q)
      PROVE  \A r \in Replicas : SameMoney(guard[r], guard'[r])
  BY <1>1, AskMoney DEF Arrive, Retrieved
<1>2. ASSUME NEW q \in Requests, FollowRefresh(q)
      PROVE  \A r \in Replicas : SameMoney(guard[r], guard'[r])
  <2>1. guard[Home[q]] \in GuardType
    BY PopulationAssumption DEF TypeOK
  <2> QED
    BY <1>2, <2>1, DecideMoney, SameMoneyReflexive DEF FollowRefresh
<1>3. ASSUME UNCHANGED guard
      PROVE  \A r \in Replicas : SameMoney(guard[r], guard'[r])
  BY <1>3, SameMoneyReflexive
<1>4. ASSUME NEW q \in Requests,
             \/ RetrievalFails(q) \/ BeginRefresh(q) \/ ReadTotals(q) \/ RefreshFails(q)
             \/ CallProvider(q) \/ ProviderBills(q) \/ LogRow(q)
      PROVE  \A r \in Replicas : SameMoney(guard[r], guard'[r])
  BY <1>3, <1>4
  DEF RetrievalFails, BeginRefresh, ReadTotals, RefreshFails, CallProvider, ProviderBills, LogRow
<1>5. ASSUME NEW q \in Requests, ProviderFails(q) \/ AnswerLost(q) \/ CommitUnacknowledged(q)
      PROVE  \A r \in Replicas : SameMoney(guard[r], guard'[r])
  <2>1. guard' = [guard EXCEPT ![Home[q]] = Released(guard[Home[q]], q)]
    BY <1>5 DEF ProviderFails, AnswerLost, CommitUnacknowledged, Fail
  <2>2. /\ guard[Home[q]] \in GuardType
        /\ SameMoney(guard[Home[q]], Released(guard[Home[q]], q))
    BY PopulationAssumption, ClaimKeepsMoney DEF TypeOK, Released
  <2> QED
    BY <2>1, <2>2, SameMoneyReflexive DEF TypeOK
<1>6. ASSUME NEW x \in Replicas, Expire(x)
      PROVE  \A r \in Replicas : SameMoney(guard[r], guard'[r])
  BY <1>6 DEF Expire, SameMoney, TypeOK, GuardType
<1>7. ASSUME Midnight \/ UNCHANGED vars
      PROVE  \A r \in Replicas : SameMoney(guard[r], guard'[r])
  BY <1>3, <1>7 DEF Midnight, vars
<1> QED
  BY <1>1, <1>2, <1>4, <1>5, <1>6, <1>7 DEF Unmetered

LEMMA SettleMoney ==
    ASSUME TypeOK, NEW q \in Requests, Settle(q)
    PROVE  /\ \A r \in Replicas : r # Home[q] => guard'[r] = guard[r]
           /\ guard'[Home[q]] = Settled(guard[Home[q]], q)
BY PopulationAssumption DEF Settle, TypeOK

LEMMA CompleteMoney ==
    ASSUME TypeOK, NEW q \in Requests, CompleteRefresh(q)
    PROVE  /\ \A r \in Replicas : r # Home[q] => guard'[r] = guard[r]
           /\ guard'[Home[q]].dayTotal = totals[Home[q]].day
           /\ guard'[Home[q]].monthTotal = totals[Home[q]].month
           /\ guard'[Home[q]].delta = 0
           /\ guard'[Home[q]].deltaMonthlyOnly = 0
           /\ guard'[Home[q]].cachedDay = now[q]
<1> DEFINE g == Refreshed(guard[Home[q]], totals[Home[q]], now[q])
<1>1. /\ guard[Home[q]] \in GuardType /\ now[q] \in Days
      /\ totals[Home[q]] \in [day : Nat, month : Nat]
  BY PopulationAssumption DEF CompleteRefresh, TypeOK
<1>2. g \in GuardType
  BY <1>1, GuardOperations, 0 \in Nat, "visitor" \in Sources DEF Sources
<1>3. /\ g.dayTotal = totals[Home[q]].day /\ g.monthTotal = totals[Home[q]].month
      /\ g.delta = 0 /\ g.deltaMonthlyOnly = 0 /\ g.cachedDay = now[q]
  BY <1>1 DEF Refreshed, GuardType
<1> HIDE DEF g
<1>4. Decide(q, stage[q], now[q], amount[q], g)
  BY DEF CompleteRefresh, g
<1>5. SameMoney(g, guard'[Home[q]]) /\ \A r \in Replicas : r # Home[q] => guard'[r] = guard[r]
  BY <1>2, <1>4, DecideMoney
<1> QED
  BY <1>3, <1>5 DEF SameMoney

LEMMA RestartMoney ==
    ASSUME TypeOK, NEW x \in Replicas, Restart(x)
    PROVE  /\ guard'[x].cachedDay = NoDay
           /\ \A r \in Replicas : r # x => guard'[r] = guard[r]
BY DEF Restart, TypeOK, NewGuard

(***************************************************************************)
(* Days, prices, rows: the simple parts of the invariant.                  *)
(***************************************************************************)

LEMMA PastDaysStep == TypeOK /\ PastDays /\ [Next]_vars => PastDays'
<1> SUFFICES ASSUME TypeOK, PastDays, [Next]_vars PROVE PastDays'
  OBVIOUS
<1> USE DEF clock, ledger, lock, request, history
<1>t. TypeOK' /\ NoDay \notin Days
  BY TypeStep, CalendarAssumption
<1>1. today \in Int /\ today' \in Int /\ today <= today'
  <2>1. today' = today \/ today' = today + 1
    BY DEF Next, Progress, Failure, Quiescent, vars, Arrive, Retrieved, Ask, RetrievalFails,
           FollowRefresh, BeginRefresh, ReadTotals, CompleteRefresh, RefreshFails, CallProvider,
           ProviderBills, LogRow, Settle, ProviderFails, AnswerLost, CommitUnacknowledged, Fail,
           Expire, Restart, Midnight
  <2> QED
    BY <2>1, CalendarAssumption DEF TypeOK, Days
<1>2. \A q \in Requests : now'[q] = now[q] \/ now'[q] = today
  <2>1. now' = now \/ \E q \in Requests : now' = [now EXCEPT ![q] = today]
    BY DEF Next, Progress, Failure, Quiescent, vars, Arrive, Retrieved, Ask, RetrievalFails,
           FollowRefresh, BeginRefresh, ReadTotals, CompleteRefresh, RefreshFails, CallProvider,
           ProviderBills, LogRow, Settle, ProviderFails, AnswerLost, CommitUnacknowledged, Fail,
           Expire, Restart, Midnight
  <2> QED
    BY <2>1 DEF TypeOK
<1>3. \A r \in Replicas : \/ guard'[r].cachedDay = guard[r].cachedDay
                          \/ guard'[r].cachedDay = NoDay
                          \/ \E q \in Requests : guard'[r].cachedDay = now[q]
  <2>1. CASE Unmetered
    BY <2>1, UnmeteredMoney DEF SameMoney
  <2>2. ASSUME NEW q \in Requests, CompleteRefresh(q) \/ Settle(q)
        PROVE  \A r \in Replicas : \/ guard'[r].cachedDay = guard[r].cachedDay
                                   \/ guard'[r].cachedDay = now[q]
    <3>1. CASE CompleteRefresh(q)
      BY <3>1, CompleteMoney
    <3>2. CASE Settle(q)
      <4>1. cost[q] \in Nat /\ guard[Home[q]] \in GuardType
        BY PopulationAssumption, MoneyAssumption DEF TypeOK
      <4> QED
        BY <3>2, <4>1, SettleMoney, SettledMoney
    <3> QED
      BY <2>2, <3>1, <3>2
  <2>3. ASSUME NEW x \in Replicas, Restart(x)
        PROVE  \A r \in Replicas : \/ guard'[r].cachedDay = guard[r].cachedDay
                                   \/ guard'[r].cachedDay = NoDay
    BY <2>3, RestartMoney
  <2> QED
    BY <2>1, <2>2, <2>3, NextCases
<1>4. ASSUME NEW q \in Requests PROVE now'[q] <= today'
  <2>1. now[q] <= today /\ now[q] \in Int
    BY CalendarAssumption DEF PastDays, TypeOK, Days
  <2> QED
    BY <1>1, <1>2, <2>1
<1>5. ASSUME NEW r \in Replicas, guard'[r].cachedDay # NoDay
      PROVE  guard'[r].cachedDay <= today'
  <2>1. guard'[r].cachedDay \in Int
    BY <1>t, <1>5, CalendarAssumption DEF TypeOK, GuardType, Days
  <2>2. guard'[r].cachedDay <= today
    BY <1>3, <1>5 DEF PastDays
  <2> QED
    BY <1>1, <2>1, <2>2
<1> QED
  BY <1>4, <1>5 DEF PastDays

LEMMA CostWithinClaimStep == TypeOK /\ CostWithinClaim /\ [Next]_vars => CostWithinClaim'
<1> SUFFICES ASSUME TypeOK, CostWithinClaim, [Next]_vars,
                    NEW p \in Requests, stage'[p] \in {"billed", "logged"}
             PROVE  cost'[p] <= amount'[p]
  BY DEF CostWithinClaim
<1> USE DEF clock, ledger, lock, request, history
<1>a. ASSUME stage'[p] = stage[p], cost'[p] = cost[p], amount'[p] = amount[p]
      PROVE  cost'[p] <= amount'[p]
  BY <1>a DEF CostWithinClaim
<1>b. ASSUME NEW q \in Requests, NEW v, stage' = [stage EXCEPT ![q] = v],
             v \notin {"billed", "logged"}, UNCHANGED <<cost, amount>>
      PROVE  cost'[p] <= amount'[p]
  BY <1>a, <1>b DEF TypeOK
<1>c. ASSUME NEW q \in Requests, NEW asked \in Asking, NEW a, Ask(q, asked, a),
             stage[q] \notin Holding
      PROVE  cost'[p] <= amount'[p]
  <2>1. Moves(q, stage'[q]) /\ stage'[q] \notin Holding \ {"generate"}
    BY <1>c, AskEffect
  <2>2. p # q
    BY <2>1 DEF Holding
  <2> QED
    BY <1>a, <2>1, <2>2 DEF Moves, TypeOK
<1>1. ASSUME NEW q \in Requests, Arrive(q) \/ Retrieved(q) PROVE cost'[p] <= amount'[p]
  BY <1>1, <1>c DEF Arrive, Retrieved, Asking, Holding
<1>2. ASSUME NEW q \in Requests, FollowRefresh(q) \/ CompleteRefresh(q)
      PROVE  cost'[p] <= amount'[p]
  <2>1. PICK g : Decide(q, stage[q], now[q], amount[q], g)
    BY <1>2 DEF FollowRefresh, CompleteRefresh
  <2>2. /\ stage' = [stage EXCEPT ![q] = stage'[q]]
        /\ stage'[q] \in {"exhausted", "retrieve", "pressure", "generate"}
    BY <2>1, DecideEffect
  <2>3. UNCHANGED <<cost, amount>>
    BY <1>2 DEF FollowRefresh, CompleteRefresh
  <2> QED
    BY <1>b, <2>2, <2>3
<1>3. ASSUME NEW q \in Requests, ProviderBills(q) PROVE cost'[p] <= amount'[p]
  <2>1. PICK b \in 0..amount[q], usage \in BOOLEAN :
           cost' = [cost EXCEPT ![q] = IF usage THEN b ELSE 0]
    BY <1>3 DEF ProviderBills
  <2>2. CASE p = q
    <3>1. amount[q] \in Nat /\ amount' = amount
      BY <1>3, MoneyAssumption DEF ProviderBills, TypeOK
    <3>2. cost'[p] = IF usage THEN b ELSE 0
      BY <2>1, <2>2 DEF TypeOK
    <3> QED
      BY <2>2, <3>1, <3>2
  <2>3. CASE p # q
    BY <1>3, <1>a, <2>1, <2>3 DEF ProviderBills, TypeOK
  <2> QED
    BY <2>2, <2>3
<1>4. ASSUME NEW q \in Requests, LogRow(q) PROVE cost'[p] <= amount'[p]
  BY <1>4 DEF LogRow, TypeOK, CostWithinClaim
<1>5. ASSUME NEW q \in Requests, BeginRefresh(q) \/ ReadTotals(q) PROVE cost'[p] <= amount'[p]
  BY <1>5, <1>a DEF BeginRefresh, ReadTotals
<1>6. ASSUME NEW q \in Requests,
             \/ RetrievalFails(q) \/ RefreshFails(q) \/ CallProvider(q) \/ Settle(q)
             \/ ProviderFails(q) \/ AnswerLost(q) \/ CommitUnacknowledged(q)
      PROVE  cost'[p] <= amount'[p]
  <2>1. /\ \E v \in {"failed", "calling", "served"} : stage' = [stage EXCEPT ![q] = v]
        /\ UNCHANGED <<cost, amount>>
    BY <1>6 DEF RetrievalFails, RefreshFails, CallProvider, Settle, ProviderFails, AnswerLost,
                CommitUnacknowledged, Fail
  <2> QED
    BY <1>b, <2>1
<1>7. ASSUME NEW r \in Replicas, Restart(r) PROVE cost'[p] <= amount'[p]
  <2>1. stage'[p] = stage[p] /\ UNCHANGED <<cost, amount>>
    BY <1>7 DEF Restart
  <2> QED
    BY <1>a, <2>1
<1>8. ASSUME NEW r \in Replicas, Expire(r) PROVE cost'[p] <= amount'[p]
  BY <1>8, <1>a DEF Expire
<1>9. ASSUME Midnight \/ UNCHANGED vars PROVE cost'[p] <= amount'[p]
  BY <1>9, <1>a DEF Midnight, vars
<1> QED
  BY <1>1, <1>2, <1>3, <1>4, <1>5, <1>6, <1>7, <1>8, <1>9
  DEF Next, Progress, Failure, Quiescent

\* The steps that write a row, and the ledger under all the others.
LEMMA LedgerCases ==
    ASSUME [Next]_vars
    PROVE  \/ UNCHANGED <<spent, own>>
           \/ \E q \in Requests : Insert(q) /\ (LogRow(q) \/ CommitUnacknowledged(q))
<1> USE DEF clock, ledger, lock, request, history
<1>1. ASSUME NEW q \in Requests, LogRow(q) \/ CommitUnacknowledged(q)
      PROVE  Insert(q) /\ (LogRow(q) \/ CommitUnacknowledged(q))
  BY <1>1 DEF LogRow, CommitUnacknowledged
<1>2. ASSUME NEW q \in Requests,
             \/ Arrive(q) \/ Retrieved(q) \/ RetrievalFails(q) \/ FollowRefresh(q)
             \/ BeginRefresh(q) \/ ReadTotals(q) \/ CompleteRefresh(q) \/ RefreshFails(q)
             \/ CallProvider(q) \/ ProviderBills(q) \/ Settle(q) \/ ProviderFails(q)
             \/ AnswerLost(q)
      PROVE  UNCHANGED <<spent, own>>
  BY <1>2 DEF Arrive, Retrieved, Ask, RetrievalFails, FollowRefresh, BeginRefresh, ReadTotals,
              CompleteRefresh, RefreshFails, CallProvider, ProviderBills, Settle, ProviderFails,
              AnswerLost
<1>3. ASSUME NEW r \in Replicas, Expire(r) \/ Restart(r) PROVE UNCHANGED <<spent, own>>
  BY <1>3 DEF Expire, Restart
<1>4. ASSUME Midnight \/ UNCHANGED vars PROVE UNCHANGED <<spent, own>>
  BY <1>4 DEF Midnight, vars
<1> QED
  BY <1>1, <1>2, <1>3, <1>4 DEF Next, Progress, Failure, Quiescent

LEMMA OwnRowsStep == TypeOK /\ OwnRows /\ [Next]_vars => OwnRows'
<1> SUFFICES ASSUME TypeOK, OwnRows, [Next]_vars PROVE OwnRows'
  OBVIOUS
<1>1. CASE UNCHANGED <<spent, own>>
  BY <1>1 DEF OwnRows
<1>2. ASSUME NEW q \in Requests, Insert(q) PROVE OwnRows'
  <2> SUFFICES ASSUME NEW r \in Replicas, NEW s \in Sources, NEW d \in Days
               PROVE  /\ own'[r][s][d] <= spent'[s][d]
                      /\ \A e \in Days : d <= e => own'[r][s][e] <= own'[r][s][d]
    BY DEF OwnRows
  <2>1. /\ \A e \in Days : own[r][s][e] \in Int
        /\ spent[s][d] \in Int /\ cost[q] \in Nat
        /\ requestedAt[q] \in Int /\ \A e \in Days : e \in Int
    <3>1. /\ \A e \in Days : own[r][s][e] \in Nat
          /\ spent[s][d] \in Nat /\ cost[q] \in 0..MaxAmount /\ requestedAt[q] \in Days
      BY DEF TypeOK
    <3>2. \A e \in Days : e \in Int
      BY CalendarAssumption DEF Days
    <3> QED
      BY <3>1, <3>2, MoneyAssumption
  <2>2. /\ own[r][s][d] <= spent[s][d]
        /\ \A e \in Days : d <= e => own[r][s][e] <= own[r][s][d]
    BY DEF OwnRows
  <2>3. /\ \A e \in Days : own'[r][s][e] = own[r][s][e]
                               + Part(Mine(q, r, s) /\ e <= requestedAt[q], cost[q])
        /\ spent'[s][d] = spent[s][d] + Part(SourceOf[q] = s /\ d <= requestedAt[q], cost[q])
    BY <1>2, InsertEffect
  <2>4. own'[r][s][d] <= spent'[s][d]
    BY <2>1, <2>2, <2>3 DEF Part, Mine
  <2>5. ASSUME NEW e \in Days, d <= e PROVE own'[r][s][e] <= own'[r][s][d]
    <3>1. e <= requestedAt[q] => d <= requestedAt[q]
      BY <2>1, <2>5
    <3>2. Part(Mine(q, r, s) /\ e <= requestedAt[q], cost[q])
             <= Part(Mine(q, r, s) /\ d <= requestedAt[q], cost[q])
      BY <2>1, <3>1 DEF Part
    <3>3. /\ Part(Mine(q, r, s) /\ e <= requestedAt[q], cost[q]) \in Int
          /\ Part(Mine(q, r, s) /\ d <= requestedAt[q], cost[q]) \in Int
      BY <2>1 DEF Part
    <3> QED
      BY <2>1, <2>2, <2>3, <2>5, <3>2, <3>3
  <2> QED
    BY <2>4, <2>5
<1> QED
  BY <1>1, <1>2, LedgerCases

LEMMA WorstIsLargestStep == TypeOK /\ WorstIsLargest /\ [Next]_vars => WorstIsLargest'
<1> SUFFICES ASSUME TypeOK, WorstIsLargest, [Next]_vars PROVE WorstIsLargest'
  OBVIOUS
<1> USE DEF clock, ledger, lock, request, history
<1>1. ASSUME NEW q \in Requests, CompleteRefresh(q) PROVE WorstIsLargest'
  <2>1. /\ forgotten' = [forgotten EXCEPT ![Home[q]] = settling[Home[q]]]
        /\ worst' = [worst EXCEPT ![Home[q]] = Max2(worst[Home[q]], settling[Home[q]])]
    BY <1>1 DEF CompleteRefresh
  <2>2. Home[q] \in Replicas /\ worst[Home[q]] \in Int /\ settling[Home[q]] \in Int
    BY PopulationAssumption DEF TypeOK
  <2>3. settling[Home[q]] <= Max2(worst[Home[q]], settling[Home[q]])
    BY <2>2 DEF Max2
  <2> QED
    BY <2>1, <2>2, <2>3 DEF WorstIsLargest, TypeOK
<1>2. UNCHANGED <<forgotten, worst>> \/ \E q \in Requests : CompleteRefresh(q)
  BY DEF Next, Progress, Failure, Quiescent, vars, Arrive, Retrieved, Ask, RetrievalFails,
         FollowRefresh, BeginRefresh, ReadTotals, RefreshFails, CallProvider,
         ProviderBills, LogRow, Settle, ProviderFails, AnswerLost, CommitUnacknowledged, Fail,
         Expire, Restart, Midnight
<1> QED
  BY <1>1, <1>2 DEF WorstIsLargest

(***************************************************************************)
(* The accounts of one replica.                                            *)
(***************************************************************************)

CountsAt(r) ==
    guard[r].cachedDay # NoDay =>
        /\ own[r]["visitor"][guard[r].cachedDay]
              <= guard[r].dayTotal + guard[r].delta + LoggedTotal(r, "visitor")
                   + (forgotten[r] + noCount[r])
        /\ OwnMonth(r, guard[r].cachedDay)
              <= guard[r].monthTotal + guard[r].delta + guard[r].deltaMonthlyOnly
                   + LoggedTotal(r, "visitor") + LoggedTotal(r, "eval")
                   + (forgotten[r] + noCount[r])

SelectAt(r) ==
    totals[r] # NoTotals =>
        /\ holder[r] # Nobody
        /\ own[r]["visitor"][now[holder[r]]]
              <= totals[r].day + LoggedTotal(r, "visitor") + (settling[r] + noCount[r])
        /\ OwnMonth(r, now[holder[r]])
              <= totals[r].month + LoggedTotal(r, "visitor") + LoggedTotal(r, "eval")
                   + (settling[r] + noCount[r])

LEMMA AccountsOfReplicas ==
    /\ CountsOwnRows <=> \A r \in Replicas : CountsAt(r)
    /\ SelectCounts <=> \A r \in Replicas : SelectAt(r)
BY DEF CountsOwnRows, CountsAt, SelectCounts, SelectAt, LoggedTotal

LEMMA AccountsOfReplicasNext ==
    /\ CountsOwnRows' <=> \A r \in Replicas : CountsAt(r)'
    /\ SelectCounts' <=> \A r \in Replicas : SelectAt(r)'
BY DEF CountsOwnRows, CountsAt, SelectCounts, SelectAt, LoggedTotal

\* A step that moves nothing the cache accounts for, or nothing an outstanding
\* SELECT does.
SameCounts(r) ==
    /\ SameMoney(guard[r], guard'[r])
    /\ own'[r] = own[r] /\ forgotten'[r] = forgotten[r] /\ noCount'[r] = noCount[r]
    /\ \A s \in Sources : LoggedTotal(r, s)' = LoggedTotal(r, s)

SameSelect(r) ==
    /\ totals'[r] = totals[r] /\ settling'[r] = settling[r]
    /\ totals[r] # NoTotals /\ holder[r] # Nobody =>
          holder'[r] = holder[r] /\ now'[holder[r]] = now[holder[r]]
    /\ own'[r] = own[r] /\ noCount'[r] = noCount[r]
    /\ \A s \in Sources : LoggedTotal(r, s)' = LoggedTotal(r, s)

LEMMA SameCountsKeeps ==
    ASSUME NEW r \in Replicas, SameCounts(r), CountsAt(r)
    PROVE  CountsAt(r)'
<1>1. /\ LoggedTotal(r, "visitor")' = LoggedTotal(r, "visitor")
      /\ LoggedTotal(r, "eval")' = LoggedTotal(r, "eval")
  BY DEF SameCounts, Sources
<1> QED
  BY <1>1 DEF SameCounts, CountsAt, SameMoney, OwnMonth

LEMMA SameSelectKeeps ==
    ASSUME NEW r \in Replicas, SameSelect(r), SelectAt(r)
    PROVE  SelectAt(r)'
<1>1. /\ LoggedTotal(r, "visitor")' = LoggedTotal(r, "visitor")
      /\ LoggedTotal(r, "eval")' = LoggedTotal(r, "eval")
  BY DEF SameSelect, Sources
<1> QED
  BY <1>1 DEF SameSelect, SelectAt, OwnMonth

\* A request that neither enters nor leaves "logged" moves no logged cost.
LEMMA LoggedStays ==
    ASSUME TypeOK, TypeOK', NEW q \in Requests, NEW v, Moves(q, v),
           stage[q] # "logged", v # "logged"
    PROVE  \A r, s : LoggedTotal(r, s)' = LoggedTotal(r, s)
<1> SUFFICES ASSUME NEW r, NEW s PROVE LoggedTotal(r, s)' = LoggedTotal(r, s)
  OBVIOUS
<1>1. LoggedTotal(r, s)' = LoggedTotal(r, s)
           - Part(Mine(q, r, s) /\ stage[q] = "logged", cost[q])
           + Part(Mine(q, r, s) /\ v = "logged", cost'[q])
  BY SumsMove
<1>2. LoggedTotal(r, s) \in Int
  <2>1. Logged(r, s) \in SUBSET Requests
    BY DEF Logged, HoldingAt
  <2> QED
    BY <2>1, UnitsFinite DEF LoggedTotal
<1> QED
  BY <1>1, <1>2 DEF Part

LEMMA LoggedSame ==
    ASSUME UNCHANGED <<stage, cost>>
    PROVE  \A r, s : LoggedTotal(r, s)' = LoggedTotal(r, s)
BY DEF LoggedTotal, Logged, HoldingAt

LEMMA AmountsAreNumbers ==
    ASSUME TypeOK, NEW r \in Replicas
    PROVE  /\ \A s : HeldTotal(r, s) \in Nat /\ OpenTotal(r, s) \in Nat /\ LoggedTotal(r, s) \in Nat
           /\ \A s \in Sources, d \in Days : own[r][s][d] \in Nat /\ spent[s][d] \in Nat
           /\ guard[r].dayTotal \in Nat /\ guard[r].monthTotal \in Nat
           /\ guard[r].delta \in Nat /\ guard[r].deltaMonthlyOnly \in Nat
           /\ guard[r].cachedDay \in Days \cup {NoDay}
           /\ settling[r] \in Nat /\ forgotten[r] \in Nat /\ worst[r] \in Nat
           /\ noCount[r] \in Nat
           /\ \A q \in Requests : cost[q] \in Nat /\ amount[q] \in Nat /\ now[q] \in Days
           /\ "visitor" \in Sources /\ "eval" \in Sources
           /\ \A d \in Days : MonthOf[d] \in Days
<1>1. \A s : HeldTotal(r, s) \in Nat /\ OpenTotal(r, s) \in Nat /\ LoggedTotal(r, s) \in Nat
  <2> SUFFICES ASSUME NEW s
               PROVE  HeldTotal(r, s) \in Nat /\ OpenTotal(r, s) \in Nat /\ LoggedTotal(r, s) \in Nat
    OBVIOUS
  <2>1. /\ HoldingAt(r, s) \in SUBSET Requests /\ Open(r, s) \in SUBSET Requests
        /\ Logged(r, s) \in SUBSET Requests
    BY DEF HoldingAt, Open, Logged
  <2> QED
    BY <2>1, UnitsFinite DEF HeldTotal, OpenTotal, LoggedTotal
<1>2. \A s \in Sources, d \in Days : own[r][s][d] \in Nat /\ spent[s][d] \in Nat
  BY DEF TypeOK
<1>3. guard[r] \in GuardType
  BY DEF TypeOK
<1>4. \A q \in Requests : cost[q] \in Nat /\ amount[q] \in Nat /\ now[q] \in Days
  BY MoneyAssumption DEF TypeOK
<1>5. settling[r] \in Nat /\ forgotten[r] \in Nat /\ worst[r] \in Nat /\ noCount[r] \in Nat
  BY DEF TypeOK
<1>6. \A d \in Days : MonthOf[d] \in Days
  BY CalendarAssumption
<1> QED
  BY <1>1, <1>2, <1>3, <1>4, <1>5, <1>6 DEF GuardType, Sources

LEMMA AmountsAreNumbersNext ==
    ASSUME TypeOK', NEW r \in Replicas
    PROVE  /\ \A s : HeldTotal(r, s)' \in Nat /\ OpenTotal(r, s)' \in Nat /\ LoggedTotal(r, s)' \in Nat
           /\ \A s \in Sources, d \in Days : own'[r][s][d] \in Nat
           /\ guard'[r].dayTotal \in Nat /\ guard'[r].monthTotal \in Nat
           /\ guard'[r].delta \in Nat /\ guard'[r].deltaMonthlyOnly \in Nat
           /\ guard'[r].reserved \in Int /\ guard'[r].reservedMonthlyOnly \in Int
           /\ guard'[r].cachedDay \in Days \cup {NoDay}
           /\ settling'[r] \in Nat /\ forgotten'[r] \in Nat /\ worst'[r] \in Nat
           /\ noCount'[r] \in Nat
<1>1. \A s : HeldTotal(r, s)' \in Nat /\ OpenTotal(r, s)' \in Nat /\ LoggedTotal(r, s)' \in Nat
  <2> SUFFICES ASSUME NEW s
               PROVE  HeldTotal(r, s)' \in Nat /\ OpenTotal(r, s)' \in Nat /\ LoggedTotal(r, s)' \in Nat
    OBVIOUS
  <2>1. /\ HoldingAt(r, s)' \in SUBSET Requests /\ Open(r, s)' \in SUBSET Requests
        /\ Logged(r, s)' \in SUBSET Requests
    BY DEF HoldingAt, Open, Logged
  <2> QED
    BY <2>1, UnitsFinite DEF HeldTotal, OpenTotal, LoggedTotal
<1>2. \A s \in Sources, d \in Days : own'[r][s][d] \in Nat
  BY DEF TypeOK
<1>3. guard'[r] \in GuardType
  BY DEF TypeOK
<1>4. settling'[r] \in Nat /\ forgotten'[r] \in Nat /\ worst'[r] \in Nat /\ noCount'[r] \in Nat
  BY DEF TypeOK
<1> QED
  BY <1>1, <1>2, <1>3, <1>4 DEF GuardType

\* The rows of a replica rise by at most x and y, and so does what is counted.
Rise(r, x, y) ==
    \A d \in Days : /\ own'[r]["visitor"][d] <= own[r]["visitor"][d] + x
                    /\ own'[r]["eval"][d] <= own[r]["eval"][d] + y

LEMMA CountsRise ==
    ASSUME TypeOK, TypeOK', NEW r \in Replicas, NEW x \in Nat, NEW y \in Nat, Rise(r, x, y),
           guard'[r].cachedDay = guard[r].cachedDay, CountsAt(r),
           guard[r].dayTotal + guard[r].delta + LoggedTotal(r, "visitor")
                + (forgotten[r] + noCount[r]) + x
             <= guard'[r].dayTotal + guard'[r].delta + LoggedTotal(r, "visitor")'
                  + (forgotten'[r] + noCount'[r]),
           guard[r].monthTotal + guard[r].delta + guard[r].deltaMonthlyOnly
                + LoggedTotal(r, "visitor") + LoggedTotal(r, "eval")
                + (forgotten[r] + noCount[r]) + x + y
             <= guard'[r].monthTotal + guard'[r].delta + guard'[r].deltaMonthlyOnly
                  + LoggedTotal(r, "visitor")' + LoggedTotal(r, "eval")'
                  + (forgotten'[r] + noCount'[r])
    PROVE  CountsAt(r)'
<1> SUFFICES ASSUME guard'[r].cachedDay # NoDay
             PROVE  /\ own'[r]["visitor"][guard'[r].cachedDay]
                          <= guard'[r].dayTotal + guard'[r].delta + LoggedTotal(r, "visitor")'
                               + (forgotten'[r] + noCount'[r])
                    /\ OwnMonth(r, guard[r].cachedDay)'
                          <= guard'[r].monthTotal + guard'[r].delta + guard'[r].deltaMonthlyOnly
                               + LoggedTotal(r, "visitor")' + LoggedTotal(r, "eval")'
                               + (forgotten'[r] + noCount'[r])
  BY DEF CountsAt, OwnMonth
<1> DEFINE d == guard[r].cachedDay
           e == MonthOf[d]
<1>1. d \in Days /\ e \in Days
  BY AmountsAreNumbers
<1>2. /\ own[r]["visitor"][d] \in Int /\ own'[r]["visitor"][d] \in Int
      /\ own[r]["visitor"][e] \in Int /\ own'[r]["visitor"][e] \in Int
      /\ own[r]["eval"][e] \in Int /\ own'[r]["eval"][e] \in Int
  BY <1>1, AmountsAreNumbers, AmountsAreNumbersNext
<1>3. /\ own'[r]["visitor"][d] <= own[r]["visitor"][d] + x
      /\ own'[r]["visitor"][e] <= own[r]["visitor"][e] + x
      /\ own'[r]["eval"][e] <= own[r]["eval"][e] + y
  BY <1>1 DEF Rise
<1>4. /\ own[r]["visitor"][d] <= guard[r].dayTotal + guard[r].delta + LoggedTotal(r, "visitor")
                                     + (forgotten[r] + noCount[r])
      /\ own[r]["visitor"][e] + own[r]["eval"][e]
              <= guard[r].monthTotal + guard[r].delta + guard[r].deltaMonthlyOnly
                   + LoggedTotal(r, "visitor") + LoggedTotal(r, "eval")
                   + (forgotten[r] + noCount[r])
  BY DEF CountsAt, OwnMonth
<1>5. OwnMonth(r, guard[r].cachedDay)' = own'[r]["visitor"][e] + own'[r]["eval"][e]
  BY DEF OwnMonth
<1> HIDE DEF d, e
<1>6. /\ LoggedTotal(r, "visitor") \in Int /\ LoggedTotal(r, "eval") \in Int
      /\ LoggedTotal(r, "visitor")' \in Int /\ LoggedTotal(r, "eval")' \in Int
      /\ guard[r].dayTotal \in Int /\ guard[r].monthTotal \in Int
      /\ guard[r].delta \in Int /\ guard[r].deltaMonthlyOnly \in Int
      /\ guard'[r].dayTotal \in Int /\ guard'[r].monthTotal \in Int
      /\ guard'[r].delta \in Int /\ guard'[r].deltaMonthlyOnly \in Int
      /\ forgotten[r] \in Int /\ noCount[r] \in Int
      /\ forgotten'[r] \in Int /\ noCount'[r] \in Int
  BY AmountsAreNumbers, AmountsAreNumbersNext
<1>7. own'[r]["visitor"][d] <= guard'[r].dayTotal + guard'[r].delta + LoggedTotal(r, "visitor")'
                               + (forgotten'[r] + noCount'[r])
  BY <1>2, <1>3, <1>4, <1>6
<1>8. own'[r]["visitor"][e] + own'[r]["eval"][e]
         <= guard'[r].monthTotal + guard'[r].delta + guard'[r].deltaMonthlyOnly
              + LoggedTotal(r, "visitor")' + LoggedTotal(r, "eval")'
              + (forgotten'[r] + noCount'[r])
  BY <1>2, <1>3, <1>4, <1>6
<1> QED
  BY <1>5, <1>7, <1>8 DEF d

LEMMA SelectRise ==
    ASSUME TypeOK, TypeOK', HolderAsks, NEW r \in Replicas, NEW x \in Nat, NEW y \in Nat,
           Rise(r, x, y), SelectAt(r),
           totals'[r] = totals[r], holder'[r] = holder[r], now' = now,
           LoggedTotal(r, "visitor") + (settling[r] + noCount[r]) + x
             <= LoggedTotal(r, "visitor")' + (settling'[r] + noCount'[r]),
           LoggedTotal(r, "visitor") + LoggedTotal(r, "eval") + (settling[r] + noCount[r]) + x + y
             <= LoggedTotal(r, "visitor")' + LoggedTotal(r, "eval")' + (settling'[r] + noCount'[r])
    PROVE  SelectAt(r)'
<1> SUFFICES ASSUME totals[r] # NoTotals PROVE SelectAt(r)'
  BY DEF SelectAt
<1> DEFINE d == now[holder[r]]
           e == MonthOf[d]
<1>1. d \in Days /\ e \in Days /\ holder[r] # Nobody
  <2>1. holder[r] # Nobody
    BY DEF SelectAt
  <2>2. holder[r] \in Requests
    BY <2>1 DEF TypeOK
  <2> QED
    BY <2>1, <2>2, AmountsAreNumbers
<1>2. /\ own[r]["visitor"][d] \in Int /\ own'[r]["visitor"][d] \in Int
      /\ own[r]["visitor"][e] \in Int /\ own'[r]["visitor"][e] \in Int
      /\ own[r]["eval"][e] \in Int /\ own'[r]["eval"][e] \in Int
  BY <1>1, AmountsAreNumbers, AmountsAreNumbersNext
<1>3. /\ own'[r]["visitor"][d] <= own[r]["visitor"][d] + x
      /\ own'[r]["visitor"][e] <= own[r]["visitor"][e] + x
      /\ own'[r]["eval"][e] <= own[r]["eval"][e] + y
  BY <1>1 DEF Rise
<1>4. /\ own[r]["visitor"][d] <= totals[r].day + LoggedTotal(r, "visitor")
                                     + (settling[r] + noCount[r])
      /\ own[r]["visitor"][e] + own[r]["eval"][e]
            <= totals[r].month + LoggedTotal(r, "visitor") + LoggedTotal(r, "eval")
                 + (settling[r] + noCount[r])
  BY DEF SelectAt, OwnMonth
<1>5. totals[r].day \in Int /\ totals[r].month \in Int
  BY DEF TypeOK
<1>6. /\ LoggedTotal(r, "visitor") \in Int /\ LoggedTotal(r, "eval") \in Int
      /\ LoggedTotal(r, "visitor")' \in Int /\ LoggedTotal(r, "eval")' \in Int
      /\ settling[r] \in Int /\ noCount[r] \in Int
      /\ settling'[r] \in Int /\ noCount'[r] \in Int
  BY AmountsAreNumbers, AmountsAreNumbersNext
<1>8. now'[holder'[r]] = d
  OBVIOUS
<1> HIDE DEF d, e
<1>9. own'[r]["visitor"][d] <= totals[r].day + LoggedTotal(r, "visitor")' + (settling'[r] + noCount'[r])
  BY <1>2, <1>3, <1>4, <1>5, <1>6
<1>10. own'[r]["visitor"][e] + own'[r]["eval"][e]
          <= totals[r].month + LoggedTotal(r, "visitor")' + LoggedTotal(r, "eval")'
               + (settling'[r] + noCount'[r])
  BY <1>2, <1>3, <1>4, <1>5, <1>6
<1>11. OwnMonth(r, now[holder[r]])' = own'[r]["visitor"][e] + own'[r]["eval"][e]
  BY <1>8 DEF OwnMonth, e
<1> QED
  BY <1>1, <1>8, <1>9, <1>10, <1>11 DEF SelectAt

\* A step that moves one request between stages whose cost is not counted.
LEMMA QuietAccounts ==
    ASSUME TypeOK, TypeOK', HolderAsks, CountsOwnRows, SelectCounts, Unmetered,
           NEW q \in Requests, NEW v, Moves(q, v), stage[q] # "logged", v # "logged",
           UNCHANGED <<own, totals, holder, forgotten, settling, noCount>>,
           \A p \in Requests : stage[p] \in Asking => now'[p] = now[p]
    PROVE  CountsOwnRows' /\ SelectCounts'
<1>1. \A r, s : LoggedTotal(r, s)' = LoggedTotal(r, s)
  BY LoggedStays
<1>2. ASSUME NEW r \in Replicas PROVE CountsAt(r)' /\ SelectAt(r)'
  <2>1. SameCounts(r)
    BY <1>1, UnmeteredMoney DEF SameCounts
  <2>2. SameSelect(r)
    BY <1>1 DEF SameSelect, HolderAsks, TypeOK
  <2> QED
    BY <2>1, <2>2, SameCountsKeeps, SameSelectKeeps, AccountsOfReplicas
<1> QED
  BY <1>2, AccountsOfReplicasNext

LEMMA InsertRise ==
    ASSUME TypeOK, TypeOK', NEW q \in Requests, Insert(q), NEW r \in Replicas
    PROVE  Rise(r, Part(Mine(q, r, "visitor"), cost[q]), Part(Mine(q, r, "eval"), cost[q]))
<1> SUFFICES ASSUME NEW d \in Days, NEW s \in Sources
             PROVE  own'[r][s][d] <= own[r][s][d] + Part(Mine(q, r, s), cost[q])
  BY DEF Rise, Sources
<1>1. own'[r][s][d] = own[r][s][d] + Part(Mine(q, r, s) /\ d <= requestedAt[q], cost[q])
  BY InsertEffect
<1>2. own[r][s][d] \in Nat /\ cost[q] \in Nat
  BY AmountsAreNumbers
<1> QED
  BY <1>1, <1>2 DEF Part

LEMMA LogRowAccounts ==
    ASSUME TypeOK, TypeOK', HolderAsks, CountsOwnRows, SelectCounts, NEW q \in Requests, LogRow(q),
           NEW r \in Replicas
    PROVE  CountsAt(r)' /\ SelectAt(r)'
<1> USE DEF clock, ledger, lock, request, history
<1> DEFINE x == Part(Mine(q, r, "visitor"), cost[q])
           y == Part(Mine(q, r, "eval"), cost[q])
<1>1. x \in Nat /\ y \in Nat
  BY AmountsAreNumbers DEF Part
<1>2. Rise(r, x, y)
  BY InsertRise DEF LogRow
<1>3. SameMoney(guard[r], guard'[r])
  BY SameMoneyReflexive DEF LogRow
<1>4. Moves(q, "logged") /\ stage[q] # "logged" /\ UNCHANGED cost
  BY DEF LogRow, Moves, Holding
<1>5. /\ LoggedTotal(r, "visitor")' = LoggedTotal(r, "visitor") + x
      /\ LoggedTotal(r, "eval")' = LoggedTotal(r, "eval") + y
  <2>1. ASSUME NEW s
        PROVE  LoggedTotal(r, s)' = LoggedTotal(r, s) - Part(FALSE, cost[q]) + Part(Mine(q, r, s), cost[q])
    <3>1. LoggedTotal(r, s)' = LoggedTotal(r, s)
               - Part(Mine(q, r, s) /\ stage[q] = "logged", cost[q])
               + Part(Mine(q, r, s) /\ "logged" = "logged", cost'[q])
      BY <1>4, SumsMove
    <3> QED
      BY <1>4, <3>1 DEF Part
  <2>2. /\ LoggedTotal(r, "visitor") \in Int /\ LoggedTotal(r, "eval") \in Int
    BY AmountsAreNumbers
  <2> QED
    BY <2>1, <2>2 DEF Part
<1>6. CountsAt(r) /\ SelectAt(r)
  BY AccountsOfReplicas
<1>7. UNCHANGED <<totals, holder, now, settling, forgotten, noCount>>
  BY DEF LogRow
<1> HIDE DEF x, y
<1>8. /\ LoggedTotal(r, "visitor") \in Int /\ LoggedTotal(r, "eval") \in Int
      /\ guard[r].dayTotal \in Int /\ guard[r].monthTotal \in Int
      /\ guard[r].delta \in Int /\ guard[r].deltaMonthlyOnly \in Int
      /\ forgotten[r] \in Int /\ noCount[r] \in Int /\ settling[r] \in Int
  BY AmountsAreNumbers
<1>9. CountsAt(r)'
  BY <1>1, <1>2, <1>3, <1>5, <1>6, <1>7, <1>8, CountsRise DEF SameMoney
<1>10. SelectAt(r)'
  <2>1. /\ LoggedTotal(r, "visitor") + (settling[r] + noCount[r]) + x
             <= LoggedTotal(r, "visitor")' + (settling'[r] + noCount'[r])
        /\ LoggedTotal(r, "visitor") + LoggedTotal(r, "eval") + (settling[r] + noCount[r]) + x + y
             <= LoggedTotal(r, "visitor")' + LoggedTotal(r, "eval")' + (settling'[r] + noCount'[r])
    BY <1>1, <1>5, <1>7, <1>8
  <2>2. totals'[r] = totals[r] /\ holder'[r] = holder[r] /\ now' = now
    BY <1>7
  <2> QED
    BY <1>1, <1>2, <1>6, <2>1, <2>2, SelectRise
<1> QED
  BY <1>9, <1>10

LEMMA CommitUnacknowledgedAccounts ==
    ASSUME TypeOK, TypeOK', HolderAsks, CountsOwnRows, SelectCounts, NEW q \in Requests,
           CommitUnacknowledged(q), NEW r \in Replicas
    PROVE  CountsAt(r)' /\ SelectAt(r)'
<1> USE DEF clock, ledger, lock, request, history
<1> DEFINE x == Part(Mine(q, r, "visitor"), cost[q])
           y == Part(Mine(q, r, "eval"), cost[q])
<1>1. x \in Nat /\ y \in Nat
  BY AmountsAreNumbers DEF Part
<1>2. Rise(r, x, y)
  BY InsertRise DEF CommitUnacknowledged
<1>3. SameMoney(guard[r], guard'[r])
  BY UnmeteredMoney DEF Unmetered
<1>4. Moves(q, "failed") /\ stage[q] = "billed"
  BY DEF CommitUnacknowledged, Fail, Moves, Holding
<1>5. /\ LoggedTotal(r, "visitor")' = LoggedTotal(r, "visitor")
      /\ LoggedTotal(r, "eval")' = LoggedTotal(r, "eval")
  BY <1>4, LoggedStays
<1>6. CountsAt(r) /\ SelectAt(r)
  BY AccountsOfReplicas
<1>7. UNCHANGED <<totals, holder, now, settling, forgotten>>
  BY DEF CommitUnacknowledged, Fail
<1>8. /\ LoggedTotal(r, "visitor") \in Int /\ LoggedTotal(r, "eval") \in Int
      /\ guard[r].dayTotal \in Int /\ guard[r].monthTotal \in Int
      /\ guard[r].delta \in Int /\ guard[r].deltaMonthlyOnly \in Int
      /\ forgotten[r] \in Int /\ noCount[r] \in Int /\ settling[r] \in Int
      /\ cost[q] \in Nat
  BY AmountsAreNumbers
<1>9. noCount'[r] = noCount[r] + Part(Home[q] = r, cost[q])
  <2>1. noCount' = [noCount EXCEPT ![Home[q]] = noCount[Home[q]] + cost[q]]
    BY DEF CommitUnacknowledged
  <2>2. CASE Home[q] = r
    BY <2>1, <2>2 DEF TypeOK, Part
  <2>3. CASE Home[q] # r
    BY <1>8, <2>1, <2>3 DEF TypeOK, Part
  <2> QED
    BY <2>2, <2>3
<1>10. noCount[r] + x <= noCount'[r] /\ noCount[r] + x + y <= noCount'[r] /\ noCount'[r] \in Int
  BY <1>8, <1>9 DEF Part, Mine
<1> HIDE DEF x, y
<1>11. CountsAt(r)'
  BY <1>1, <1>2, <1>3, <1>5, <1>6, <1>7, <1>8, <1>10, CountsRise DEF SameMoney
<1>12. SelectAt(r)'
  <2>1. /\ LoggedTotal(r, "visitor") + (settling[r] + noCount[r]) + x
             <= LoggedTotal(r, "visitor")' + (settling'[r] + noCount'[r])
        /\ LoggedTotal(r, "visitor") + LoggedTotal(r, "eval") + (settling[r] + noCount[r]) + x + y
             <= LoggedTotal(r, "visitor")' + LoggedTotal(r, "eval")' + (settling'[r] + noCount'[r])
    BY <1>1, <1>5, <1>7, <1>8, <1>10
  <2>2. totals'[r] = totals[r] /\ holder'[r] = holder[r] /\ now' = now
    BY <1>7
  <2> QED
    BY <1>1, <1>2, <1>6, <2>1, <2>2, SelectRise
<1> QED
  BY <1>11, <1>12

LEMMA SettleAccounts ==
    ASSUME TypeOK, TypeOK', HolderAsks, CountsOwnRows, SelectCounts, NEW q \in Requests,
           Settle(q), NEW r \in Replicas
    PROVE  CountsAt(r)' /\ SelectAt(r)'
<1> USE DEF clock, ledger, lock, request, history
<1> DEFINE x == Part(Mine(q, r, "visitor"), cost[q])
           y == Part(Mine(q, r, "eval"), cost[q])
<1>1. /\ LoggedTotal(r, "visitor") \in Int /\ LoggedTotal(r, "eval") \in Int
      /\ guard[r].dayTotal \in Int /\ guard[r].monthTotal \in Int
      /\ guard[r].delta \in Int /\ guard[r].deltaMonthlyOnly \in Int
      /\ forgotten[r] \in Int /\ noCount[r] \in Int /\ settling[r] \in Int
      /\ cost[q] \in Nat
  BY AmountsAreNumbers
<1>2. Rise(r, 0, 0)
  BY AmountsAreNumbers DEF Rise, Settle
<1>3. Moves(q, "served") /\ stage[q] = "logged"
  BY DEF Settle, Moves
<1>4. /\ LoggedTotal(r, "visitor")' = LoggedTotal(r, "visitor") - x
      /\ LoggedTotal(r, "eval")' = LoggedTotal(r, "eval") - y
  <2>1. ASSUME NEW s
        PROVE  LoggedTotal(r, s)' = LoggedTotal(r, s) - Part(Mine(q, r, s), cost[q]) + Part(FALSE, cost[q])
    <3>1. LoggedTotal(r, s)' = LoggedTotal(r, s)
               - Part(Mine(q, r, s) /\ stage[q] = "logged", cost[q])
               + Part(Mine(q, r, s) /\ "served" = "logged", cost'[q])
      BY <1>3, SumsMove
    <3> QED
      BY <1>3, <3>1 DEF Part
  <2> QED
    BY <1>1, <2>1 DEF Part
<1>5. /\ guard'[r].dayTotal = guard[r].dayTotal /\ guard'[r].monthTotal = guard[r].monthTotal
      /\ guard'[r].cachedDay = guard[r].cachedDay
      /\ guard'[r].delta = guard[r].delta + x
      /\ guard'[r].deltaMonthlyOnly = guard[r].deltaMonthlyOnly + y
  <2>1. CASE r = Home[q]
    <3>1. guard[r] \in GuardType
      BY DEF TypeOK
    <3>2. guard'[r] = Settled(guard[r], q)
      BY <2>1, SettleMoney
    <3> QED
      BY <1>1, <2>1, <3>1, <3>2, SettledMoney DEF Mine
  <2>2. CASE r # Home[q]
    BY <1>1, <2>2, SettleMoney DEF Mine, Part
  <2> QED
    BY <2>1, <2>2
<1>6. CountsAt(r) /\ SelectAt(r)
  BY AccountsOfReplicas
<1>7. UNCHANGED <<totals, holder, now, forgotten, noCount>>
  BY DEF Settle
<1>8. totals[r] # NoTotals => settling'[r] = settling[r] + Part(Home[q] = r, cost[q])
  <2>1. settling' = [settling EXCEPT ![Home[q]] =
                       IF totals[Home[q]] = NoTotals THEN settling[Home[q]]
                       ELSE settling[Home[q]] + cost[q]]
    BY DEF Settle
  <2>2. CASE Home[q] = r
    BY <2>1, <2>2 DEF TypeOK, Part
  <2>3. CASE Home[q] # r
    BY <1>1, <2>1, <2>3 DEF TypeOK, Part
  <2> QED
    BY <2>2, <2>3
<1>9. x \in Int /\ y \in Int
  BY <1>1 DEF Part
<1>10. /\ x <= Part(Home[q] = r, cost[q]) /\ x + y <= Part(Home[q] = r, cost[q])
       /\ Part(Home[q] = r, cost[q]) \in Int
  BY <1>1 DEF Part, Mine
<1> HIDE DEF x, y
<1>11. CountsAt(r)'
  BY <1>1, <1>2, <1>4, <1>5, <1>6, <1>7, <1>9, CountsRise
<1>12. SelectAt(r)'
  <2>1. CASE totals[r] = NoTotals
    BY <1>7, <2>1 DEF SelectAt
  <2>2. CASE totals[r] # NoTotals
    BY <1>1, <1>2, <1>4, <1>6, <1>7, <1>8, <1>9, <1>10, <2>2, SelectRise
  <2> QED
    BY <2>1, <2>2
<1> QED
  BY <1>11, <1>12

\* Elsewhere than at the home of the request that moves, nothing is disturbed.
LEMMA AccountsElsewhere ==
    ASSUME TypeOK, TypeOK', HolderAsks, CountsOwnRows, SelectCounts,
           NEW r \in Replicas, guard'[r] = guard[r],
           own'[r] = own[r], forgotten'[r] = forgotten[r], noCount'[r] = noCount[r],
           totals'[r] = totals[r], settling'[r] = settling[r], holder'[r] = holder[r],
           UNCHANGED now, \A s : LoggedTotal(r, s)' = LoggedTotal(r, s)
    PROVE  CountsAt(r)' /\ SelectAt(r)'
<1>1. SameCounts(r) /\ SameSelect(r)
  BY SameMoneyReflexive DEF SameCounts, SameSelect
<1> QED
  BY <1>1, SameCountsKeeps, SameSelectKeeps, AccountsOfReplicas

LEMMA CompleteRefreshAccounts ==
    ASSUME TypeOK, TypeOK', HolderAsks, CountsOwnRows, SelectCounts, NEW q \in Requests,
           CompleteRefresh(q), NEW r \in Replicas
    PROVE  CountsAt(r)' /\ SelectAt(r)'
<1> USE DEF clock, ledger, lock, request, history
<1>1. /\ UNCHANGED <<own, now, noCount, amount, cost>>
      /\ stage' = [stage EXCEPT ![q] = stage'[q]]
      /\ stage'[q] \in {"exhausted", "retrieve", "pressure", "generate"}
      /\ stage[q] \in Asking
  BY DecideEffect, PopulationAssumption DEF CompleteRefresh, HolderAsks
<1>2. Moves(q, stage'[q]) /\ stage[q] # "logged" /\ stage'[q] # "logged"
  BY <1>1 DEF Moves, Asking
<1>3. \A s : LoggedTotal(r, s)' = LoggedTotal(r, s)
  BY <1>2, LoggedStays
<1>4. CASE r # Home[q]
  <2>1. /\ totals'[r] = totals[r] /\ settling'[r] = settling[r] /\ holder'[r] = holder[r]
        /\ forgotten'[r] = forgotten[r]
    BY <1>4 DEF CompleteRefresh, TypeOK
  <2> QED
    BY <1>1, <1>3, <1>4, <2>1, CompleteMoney, AccountsElsewhere
<1>5. CASE r = Home[q]
  <2>1. /\ guard'[r].dayTotal = totals[r].day /\ guard'[r].monthTotal = totals[r].month
        /\ guard'[r].delta = 0 /\ guard'[r].deltaMonthlyOnly = 0
        /\ guard'[r].cachedDay = now[q]
    BY <1>5, CompleteMoney
  <2>2. /\ totals[r] # NoTotals /\ holder[r] = q
        /\ totals'[r] = NoTotals /\ forgotten'[r] = settling[r]
    BY <1>5 DEF CompleteRefresh, TypeOK
  <2>3. SelectAt(r)
    BY AccountsOfReplicas
  <2>4. /\ own[r]["visitor"][now[q]]
              <= totals[r].day + LoggedTotal(r, "visitor") + (settling[r] + noCount[r])
        /\ OwnMonth(r, now[q])
              <= totals[r].month + LoggedTotal(r, "visitor") + LoggedTotal(r, "eval")
                   + (settling[r] + noCount[r])
    BY <2>2, <2>3 DEF SelectAt
  <2>5. totals[r].day \in Int /\ totals[r].month \in Int
    BY <2>2 DEF TypeOK
  <2>6. OwnMonth(r, guard[r].cachedDay)' = OwnMonth(r, now[q])
    BY <1>1, <2>1 DEF OwnMonth
  <2>7. /\ totals[r].day + 0 = totals[r].day
        /\ totals[r].month + 0 + 0 = totals[r].month
    BY <2>5
  <2>8. CountsAt(r)'
    BY <1>1, <1>3, <2>1, <2>2, <2>4, <2>6, <2>7 DEF CountsAt
  <2>9. SelectAt(r)'
    BY <2>2 DEF SelectAt
  <2> QED
    BY <2>8, <2>9
<1> QED
  BY <1>4, <1>5

LEMMA RestartAccounts ==
    ASSUME TypeOK, TypeOK', HolderAsks, CountsOwnRows, SelectCounts, NEW x \in Replicas,
           Restart(x), NEW r \in Replicas
    PROVE  CountsAt(r)' /\ SelectAt(r)'
<1> USE DEF clock, ledger, lock, request, history
<1>1. CASE r = x
  <2>1. guard'[r].cachedDay = NoDay /\ totals'[r] = NoTotals
    BY <1>1, RestartMoney DEF Restart, TypeOK
  <2> QED
    BY <2>1 DEF CountsAt, SelectAt
<1>2. CASE r # x
  <2>1. /\ totals'[r] = totals[r] /\ settling'[r] = settling[r] /\ holder'[r] = holder[r]
        /\ forgotten'[r] = forgotten[r] /\ noCount'[r] = noCount[r] /\ own'[r] = own[r]
        /\ UNCHANGED <<now, cost>>
    BY <1>2 DEF Restart, TypeOK
  <2>2. ASSUME NEW s PROVE LoggedTotal(r, s)' = LoggedTotal(r, s)
    <3>1. \A p \in Requests : Home[p] = r => stage'[p] = stage[p]
      BY <1>2 DEF Restart
    <3>2. Logged(r, s)' = Logged(r, s)
      BY <3>1 DEF Logged, HoldingAt
    <3> QED
      BY <2>1, <3>2 DEF LoggedTotal
  <2> QED
    BY <1>2, <2>1, <2>2, RestartMoney, AccountsElsewhere
<1> QED
  BY <1>1, <1>2

LEMMA ReadTotalsAccounts ==
    ASSUME TypeOK, TypeOK', HolderAsks, OwnRows, CountsOwnRows, SelectCounts, NEW q \in Requests,
           ReadTotals(q), NEW r \in Replicas
    PROVE  CountsAt(r)' /\ SelectAt(r)'
<1> USE DEF clock, ledger, lock, request, history
<1>1. UNCHANGED <<own, guard, holder, now, forgotten, noCount, stage, cost>>
  BY DEF ReadTotals
<1>2. \A s : LoggedTotal(r, s)' = LoggedTotal(r, s)
  BY <1>1, LoggedSame
<1>3. SameCounts(r)
  BY <1>1, <1>2, SameMoneyReflexive DEF SameCounts
<1>4. CountsAt(r)'
  BY <1>3, SameCountsKeeps, AccountsOfReplicas
<1>5. CASE r # Home[q]
  <2>1. totals'[r] = totals[r] /\ settling'[r] = settling[r]
    BY <1>5 DEF ReadTotals, TypeOK
  <2> QED
    BY <1>1, <1>2, <2>1, AccountsElsewhere
<1>6. CASE r = Home[q]
  <2> DEFINE d == now[q]
             e == MonthOf[d]
  <2>1. d \in Days /\ e \in Days
    BY AmountsAreNumbers
  <2>2. /\ totals'[r].day = spent["visitor"][d]
        /\ totals'[r].month = spent["visitor"][e] + spent["eval"][e]
        /\ settling'[r] = 0 /\ holder'[r] = q
    BY <1>6 DEF ReadTotals, TypeOK
  <2>3. /\ own[r]["visitor"][d] <= spent["visitor"][d]
        /\ own[r]["visitor"][e] <= spent["visitor"][e]
        /\ own[r]["eval"][e] <= spent["eval"][e]
    BY <2>1 DEF OwnRows, Sources
  <2>4. /\ own[r]["visitor"][d] \in Int /\ spent["visitor"][d] \in Int
        /\ own[r]["visitor"][e] \in Int /\ spent["visitor"][e] \in Int
        /\ own[r]["eval"][e] \in Int /\ spent["eval"][e] \in Int
        /\ LoggedTotal(r, "visitor")' \in Nat /\ LoggedTotal(r, "eval")' \in Nat
        /\ noCount[r] \in Nat
    BY <2>1, AmountsAreNumbers, AmountsAreNumbersNext
  <2>5. OwnMonth(r, now[holder[r]])' = own[r]["visitor"][e] + own[r]["eval"][e]
    BY <1>1, <2>2 DEF OwnMonth
  <2>6. now'[holder'[r]] = d /\ holder'[r] # Nobody
    BY <1>1, <2>2, PopulationAssumption
  <2> HIDE DEF d, e
  <2>7. own[r]["visitor"][d]
           <= spent["visitor"][d] + LoggedTotal(r, "visitor")' + (0 + noCount[r])
    BY <2>3, <2>4
  <2>8. own[r]["visitor"][e] + own[r]["eval"][e]
           <= spent["visitor"][e] + spent["eval"][e]
                + LoggedTotal(r, "visitor")' + LoggedTotal(r, "eval")' + (0 + noCount[r])
    BY <2>3, <2>4
  <2>9. SelectAt(r)'
    BY <1>1, <2>2, <2>5, <2>6, <2>7, <2>8 DEF SelectAt
  <2> QED
    BY <1>4, <2>9
<1> QED
  BY <1>5, <1>6

LEMMA AccountsStep ==
    TypeOK /\ HolderAsks /\ OwnRows /\ CountsOwnRows /\ SelectCounts /\ [Next]_vars
        => CountsOwnRows' /\ SelectCounts'
<1> SUFFICES ASSUME TypeOK, HolderAsks, OwnRows, CountsOwnRows, SelectCounts, [Next]_vars
             PROVE  CountsOwnRows' /\ SelectCounts'
  OBVIOUS
<1> USE DEF clock, ledger, lock, request, history
<1>t. TypeOK'
  BY TypeStep
<1>r. ASSUME \A r \in Replicas : CountsAt(r)' /\ SelectAt(r)'
      PROVE  CountsOwnRows' /\ SelectCounts'
  BY <1>r, AccountsOfReplicasNext
<1>a. ASSUME NEW q \in Requests, NEW asked \in Asking, NEW a, Ask(q, asked, a),
             stage[q] \notin Asking \cup Holding, Unmetered
      PROVE  CountsOwnRows' /\ SelectCounts'
  <2>1. /\ Moves(q, stage'[q]) /\ stage[q] # "logged" /\ stage'[q] # "logged"
    BY <1>a, AskEffect DEF Holding
  <2>2. /\ UNCHANGED <<own, totals, holder, forgotten, settling, noCount>>
        /\ \A p \in Requests : stage[p] \in Asking => now'[p] = now[p]
    BY <1>a DEF Ask, TypeOK
  <2> QED
    BY <1>a, <1>t, <2>1, <2>2, QuietAccounts
<1>b. ASSUME NEW q \in Requests, NEW v, stage' = [stage EXCEPT ![q] = v],
             stage[q] # "logged", v # "logged", Unmetered, UNCHANGED <<amount, now>>,
             cost' = [cost EXCEPT ![q] = cost'[q]],
             UNCHANGED <<own, totals, holder, forgotten, settling, noCount>>
      PROVE  CountsOwnRows' /\ SelectCounts'
  <2>1. Moves(q, v)
    BY <1>b, QuietMove
  <2> QED
    BY <1>b, <1>t, <2>1, QuietAccounts
<1>1. ASSUME NEW q \in Requests, Arrive(q) \/ Retrieved(q)
      PROVE  CountsOwnRows' /\ SelectCounts'
  BY <1>1, <1>a DEF Arrive, Retrieved, Asking, Holding, Unmetered
<1>2. ASSUME NEW q \in Requests, FollowRefresh(q) PROVE CountsOwnRows' /\ SelectCounts'
  <2>1. /\ stage' = [stage EXCEPT ![q] = stage'[q]] /\ stage'[q] # "logged" /\ stage[q] # "logged"
    BY <1>2, DecideEffect DEF FollowRefresh, Asking
  <2>2. /\ cost' = [cost EXCEPT ![q] = cost'[q]]
        /\ UNCHANGED <<amount, now, own, totals, holder, forgotten, settling, noCount>>
    BY <1>2 DEF FollowRefresh, TypeOK
  <2> QED
    BY <1>2, <1>b, <2>1, <2>2 DEF Unmetered
<1>3. ASSUME NEW q \in Requests,
             \/ RetrievalFails(q) \/ CallProvider(q) \/ ProviderBills(q) \/ ProviderFails(q)
             \/ AnswerLost(q)
      PROVE  CountsOwnRows' /\ SelectCounts'
  <2>1. /\ \E v \in {"failed", "calling", "billed"} : stage' = [stage EXCEPT ![q] = v]
        /\ stage[q] # "logged"
        /\ UNCHANGED <<amount, now, own, totals, holder, forgotten, settling, noCount>>
    BY <1>3 DEF RetrievalFails, CallProvider, ProviderBills, ProviderFails, AnswerLost, Fail
  <2>2. cost' = [cost EXCEPT ![q] = cost'[q]]
    <3>1. cost' = cost \/ \E c : cost' = [cost EXCEPT ![q] = c]
      BY <1>3 DEF RetrievalFails, CallProvider, ProviderBills, ProviderFails, AnswerLost, Fail
    <3> QED
      BY <3>1 DEF TypeOK
  <2> QED
    BY <1>3, <1>b, <2>1, <2>2 DEF Unmetered
<1>4. ASSUME UNCHANGED <<stage, cost, own, totals, forgotten, settling, noCount, now>>, Unmetered,
             \A r \in Replicas : totals[r] # NoTotals => holder'[r] = holder[r]
      PROVE  CountsOwnRows' /\ SelectCounts'
  <2>1. \A r, s : LoggedTotal(r, s)' = LoggedTotal(r, s)
    BY <1>4, LoggedSame
  <2>2. ASSUME NEW r \in Replicas PROVE SameCounts(r) /\ SameSelect(r)
    BY <1>4, <2>1, UnmeteredMoney DEF SameCounts, SameSelect
  <2> QED
    BY <1>r, <2>2, SameCountsKeeps, SameSelectKeeps, AccountsOfReplicas
<1>5. ASSUME NEW q \in Requests, BeginRefresh(q) PROVE CountsOwnRows' /\ SelectCounts'
  <2>1. \A r \in Replicas : totals[r] # NoTotals => holder'[r] = holder[r]
    BY <1>5 DEF BeginRefresh, SelectCounts, TypeOK
  <2> QED
    BY <1>4, <1>5, <2>1 DEF BeginRefresh, Unmetered
<1>6. ASSUME NEW q \in Requests, ReadTotals(q) PROVE CountsOwnRows' /\ SelectCounts'
  BY <1>6, <1>r, <1>t, ReadTotalsAccounts
<1>7. ASSUME NEW q \in Requests, CompleteRefresh(q) PROVE CountsOwnRows' /\ SelectCounts'
  BY <1>7, <1>r, <1>t, CompleteRefreshAccounts
<1>8. ASSUME NEW q \in Requests, RefreshFails(q) PROVE CountsOwnRows' /\ SelectCounts'
  <2>1. stage[q] \in Asking
    BY <1>8, PopulationAssumption DEF RefreshFails, HolderAsks
  <2>2. Moves(q, "failed") /\ stage[q] # "logged"
    BY <1>8, <2>1 DEF RefreshFails, Moves, Asking, Holding
  <2>3. \A r, s : LoggedTotal(r, s)' = LoggedTotal(r, s)
    BY <1>t, <2>2, LoggedStays
  <2>4. ASSUME NEW r \in Replicas PROVE CountsAt(r)' /\ SelectAt(r)'
    <3>1. SameCounts(r)
      BY <1>8, <2>3, SameMoneyReflexive DEF RefreshFails, SameCounts
    <3>2. CASE r = Home[q]
      BY <1>8, <3>1, <3>2, SameCountsKeeps, AccountsOfReplicas DEF RefreshFails, TypeOK, SelectAt
    <3>3. CASE r # Home[q]
      <4>1. SameSelect(r)
        BY <1>8, <2>3, <3>3 DEF RefreshFails, TypeOK, SameSelect
      <4> QED
        BY <3>1, <4>1, SameCountsKeeps, SameSelectKeeps, AccountsOfReplicas
    <3> QED
      BY <3>2, <3>3
  <2> QED
    BY <1>r, <2>4
<1>9. ASSUME NEW q \in Requests, LogRow(q) PROVE CountsOwnRows' /\ SelectCounts'
  BY <1>9, <1>r, <1>t, LogRowAccounts
<1>10. ASSUME NEW q \in Requests, CommitUnacknowledged(q) PROVE CountsOwnRows' /\ SelectCounts'
  BY <1>10, <1>r, <1>t, CommitUnacknowledgedAccounts
<1>11. ASSUME NEW q \in Requests, Settle(q) PROVE CountsOwnRows' /\ SelectCounts'
  BY <1>11, <1>r, <1>t, SettleAccounts
<1>12. ASSUME NEW x \in Replicas, Restart(x) PROVE CountsOwnRows' /\ SelectCounts'
  BY <1>12, <1>r, <1>t, RestartAccounts
<1>13. ASSUME NEW x \in Replicas, Expire(x) PROVE CountsOwnRows' /\ SelectCounts'
  BY <1>4, <1>13 DEF Expire, Unmetered
<1>14. ASSUME Midnight \/ UNCHANGED vars PROVE CountsOwnRows' /\ SelectCounts'
  BY <1>4, <1>14 DEF Midnight, vars, Unmetered
<1> QED
  BY <1>1, <1>2, <1>3, <1>5, <1>6, <1>7, <1>8, <1>9, <1>10, <1>11, <1>12, <1>13, <1>14
  DEF Next, Progress, Failure, Quiescent

(***************************************************************************)
(* The ceilings of one replica.                                            *)
(***************************************************************************)

MonthAt(r) ==
    OwnMonth(r, today) + OpenTotal(r, "visitor") + OpenTotal(r, "eval")
        < MonthlyLimit + MaxAmount + worst[r] + noCount[r]

DayAt(r) ==
    \E d \in 0..today :
        own[r]["visitor"][today] + OpenTotal(r, "visitor")
            < DailyLimitFor(d) + MaxAmount + worst[r] + noCount[r]

CeilingsAt(r) == (MonthlyLimit # NoLimit => MonthAt(r)) /\ (Enabled => DayAt(r))

LEMMA CeilingsOfReplicas ==
    MonthlyCeiling /\ DailyCeiling <=> \A r \in Replicas : CeilingsAt(r)
BY DEF MonthlyCeiling, DailyCeiling, CeilingsAt, MonthAt, DayAt, OpenTotal

LEMMA CeilingsOfReplicasNext ==
    (MonthlyCeiling /\ DailyCeiling)' <=> \A r \in Replicas : CeilingsAt(r)'
BY DEF MonthlyCeiling, DailyCeiling, CeilingsAt, MonthAt, DayAt, OpenTotal

LEMMA LimitsAreNumbers ==
    /\ MonthlyLimit # NoLimit => MonthlyLimit \in Nat \ {0}
    /\ Enabled => \A d \in Days : DailyLimitFor(d) \in Nat \ {0} /\ DailyLimitFor(d) # NoLimit
<1>1. MonthlyLimit # NoLimit => MonthlyLimit \in Nat \ {0}
  BY MoneyAssumption
<1>2. ASSUME MonthlyLimit # NoLimit, NEW d \in Days PROVE DerivedDailyLimit(d) \in Nat \ {0}
  <2>1. DaysIn[d] \in Nat \ {0} /\ Cent \in Nat \ {0}
    BY CalendarAssumption, MoneyAssumption
  <2>2. DaysIn[d] * Cent \in Nat \ {0}
    BY <2>1, SMT
  <2>3. MonthlyLimit \div (DaysIn[d] * Cent) \in Int
    BY <1>1, <1>2, <2>2
  <2>4. Cent * (MonthlyLimit \div (DaysIn[d] * Cent)) \in Int
    BY <2>1, <2>3
  <2> DEFINE x == Cent * (MonthlyLimit \div (DaysIn[d] * Cent))
  <2> HIDE DEF x
  <2>5. Max2(Cent, x) \in Nat \ {0}
    BY <2>1, <2>4 DEF Max2, x
  <2> QED
    BY <2>5 DEF DerivedDailyLimit, x
<1>3. ASSUME Enabled, NEW d \in Days PROVE DailyLimitFor(d) \in Nat \ {0}
  <2>1. DailyLimit # NoLimit => DailyLimit \in Nat \ {0}
    BY MoneyAssumption
  <2>2. CASE MonthlyLimit = NoLimit
    BY <1>3, <2>1, <2>2 DEF Enabled, DailyLimitFor
  <2>3. CASE MonthlyLimit # NoLimit /\ DailyLimit = NoLimit
    BY <1>2, <2>3 DEF DailyLimitFor
  <2>4. CASE MonthlyLimit # NoLimit /\ DailyLimit # NoLimit
    <3>1. DerivedDailyLimit(d) \in Nat \ {0} /\ DailyLimit \in Nat \ {0}
      BY <1>2, <2>1, <2>4
    <3>2. DailyLimitFor(d) = Min2(DailyLimit, 2 * DerivedDailyLimit(d))
      BY <2>4 DEF DailyLimitFor
    <3> QED
      BY <3>1, <3>2 DEF Min2
  <2> QED
    BY <2>2, <2>3, <2>4
<1> QED
  BY <1>1, <1>3, MoneyAssumption

(***************************************************************************)
(* The steps that add nothing.                                             *)
(***************************************************************************)

\* Rows and open claims together do not grow, source by source.
Eases(r) ==
    \A s \in Sources, d \in Days :
        own'[r][s][d] + OpenTotal(r, s)' <= own[r][s][d] + OpenTotal(r, s)

LEMMA CeilingsKept ==
    ASSUME TypeOK, TypeOK', OwnRows, NEW r \in Replicas, Eases(r),
           today <= today', worst[r] <= worst'[r], noCount[r] <= noCount'[r], CeilingsAt(r)
    PROVE  CeilingsAt(r)'
<1> DEFINE d == today
           e == today'
<1>1. d \in Days /\ e \in Days /\ MonthOf[d] \in Days /\ MonthOf[e] \in Days
  BY CalendarAssumption DEF TypeOK
<1>2. d \in Int /\ e \in Int /\ d <= e /\ MonthOf[d] <= MonthOf[e]
  BY <1>1, CalendarAssumption DEF Days
<1>3. /\ own[r]["visitor"][e] <= own[r]["visitor"][d]
      /\ own[r]["visitor"][MonthOf[e]] <= own[r]["visitor"][MonthOf[d]]
      /\ own[r]["eval"][MonthOf[e]] <= own[r]["eval"][MonthOf[d]]
  BY <1>1, <1>2 DEF OwnRows, Sources
<1>4. /\ own'[r]["visitor"][e] + OpenTotal(r, "visitor")'
           <= own[r]["visitor"][e] + OpenTotal(r, "visitor")
      /\ own'[r]["visitor"][MonthOf[e]] + OpenTotal(r, "visitor")'
           <= own[r]["visitor"][MonthOf[e]] + OpenTotal(r, "visitor")
      /\ own'[r]["eval"][MonthOf[e]] + OpenTotal(r, "eval")'
           <= own[r]["eval"][MonthOf[e]] + OpenTotal(r, "eval")
  BY <1>1 DEF Eases, Sources
<1>5. /\ \A s \in Sources, f \in Days : own[r][s][f] \in Int /\ own'[r][s][f] \in Int
      /\ OpenTotal(r, "visitor") \in Int /\ OpenTotal(r, "eval") \in Int
      /\ OpenTotal(r, "visitor")' \in Int /\ OpenTotal(r, "eval")' \in Int
      /\ worst[r] \in Int /\ worst'[r] \in Int /\ noCount[r] \in Int /\ noCount'[r] \in Int
      /\ MaxAmount \in Int
  BY AmountsAreNumbers, AmountsAreNumbersNext, MoneyAssumption
<1>6. /\ own[r]["visitor"][d] \in Int /\ own[r]["visitor"][e] \in Int
      /\ own'[r]["visitor"][e] \in Int
      /\ own[r]["visitor"][MonthOf[d]] \in Int /\ own[r]["visitor"][MonthOf[e]] \in Int
      /\ own'[r]["visitor"][MonthOf[e]] \in Int
      /\ own[r]["eval"][MonthOf[d]] \in Int /\ own[r]["eval"][MonthOf[e]] \in Int
      /\ own'[r]["eval"][MonthOf[e]] \in Int
  BY <1>1, <1>5 DEF Sources
<1>7. OwnMonth(r, today) = own[r]["visitor"][MonthOf[d]] + own[r]["eval"][MonthOf[d]]
  BY DEF OwnMonth
<1>8. OwnMonth(r, today)' = own'[r]["visitor"][MonthOf[e]] + own'[r]["eval"][MonthOf[e]]
  BY DEF OwnMonth
<1>9. ASSUME MonthlyLimit # NoLimit PROVE MonthAt(r)'
  <2>1. MonthlyLimit \in Int
    BY <1>9, LimitsAreNumbers
  <2>2. MonthAt(r)
    BY <1>9 DEF CeilingsAt
  <2>3. own[r]["visitor"][MonthOf[d]] + own[r]["eval"][MonthOf[d]]
           + OpenTotal(r, "visitor") + OpenTotal(r, "eval")
             < MonthlyLimit + MaxAmount + worst[r] + noCount[r]
    BY <1>7, <2>2 DEF MonthAt
  <2> HIDE DEF d, e
  <2>4. own'[r]["visitor"][MonthOf[e]] + own'[r]["eval"][MonthOf[e]]
           + OpenTotal(r, "visitor")' + OpenTotal(r, "eval")'
             < MonthlyLimit + MaxAmount + worst'[r] + noCount'[r]
    BY <1>3, <1>4, <1>5, <1>6, <2>1, <2>3
  <2> QED
    BY <1>8, <2>4 DEF MonthAt
<1>10. ASSUME Enabled PROVE DayAt(r)'
  <2>1. PICK f \in 0..d : own[r]["visitor"][d] + OpenTotal(r, "visitor")
                             < DailyLimitFor(f) + MaxAmount + worst[r] + noCount[r]
    BY <1>10 DEF CeilingsAt, DayAt
  <2>2. f \in Days /\ f \in 0..e
    <3>1. e <= LastDay /\ LastDay \in Int
      BY <1>1, CalendarAssumption DEF Days
    <3>2. f \in Int /\ 0 <= f /\ f <= d
      BY <1>2, <2>1
    <3> HIDE DEF d, e
    <3> QED
      BY <1>2, <3>1, <3>2 DEF Days
  <2>3. DailyLimitFor(f) \in Int
    BY <1>10, <2>2, LimitsAreNumbers
  <2> HIDE DEF d, e
  <2>4. own'[r]["visitor"][e] + OpenTotal(r, "visitor")'
           < DailyLimitFor(f) + MaxAmount + worst'[r] + noCount'[r]
    BY <1>3, <1>4, <1>5, <1>6, <2>1, <2>3
  <2> QED
    BY <2>2, <2>4 DEF DayAt, e
<1> QED
  BY <1>9, <1>10 DEF CeilingsAt, Enabled

Claiming == Holding \ {"logged"}

\* A request that does not enter a claiming stage: its claim, if it had one
\* and leaves, is gone from the sum.
LEMMA OpenFalls ==
    ASSUME TypeOK, TypeOK', NEW q \in Requests, NEW v, Moves(q, v),
           v \in Claiming => stage[q] \in Claiming, NEW r \in Replicas, NEW s
    PROVE  LET given == Part(Mine(q, r, s) /\ stage[q] \in Claiming /\ v \notin Claiming, amount[q])
           IN  OpenTotal(r, s)' = OpenTotal(r, s) - given
<1> DEFINE given == Part(Mine(q, r, s) /\ stage[q] \in Claiming /\ v \notin Claiming, amount[q])
<1>1. OpenTotal(r, s)' = OpenTotal(r, s)
         - Part(Mine(q, r, s) /\ stage[q] \in Claiming, amount[q])
         + Part(Mine(q, r, s) /\ v \in Claiming, amount'[q])
  BY SumsMove DEF Claiming
<1>2. OpenTotal(r, s) \in Int /\ amount[q] \in Int /\ OpenTotal(r, s)' \in Int
  BY AmountsAreNumbers, AmountsAreNumbersNext
<1>3. stage[q] \in Claiming => amount'[q] = amount[q]
  BY DEF Moves, Claiming
<1>4. CASE v \in Claiming
  BY <1>1, <1>2, <1>3, <1>4 DEF Part
<1>5. CASE v \notin Claiming
  <2>1. Part(Mine(q, r, s) /\ v \in Claiming, amount'[q]) = 0
    BY <1>5 DEF Part
  <2>2. given = Part(Mine(q, r, s) /\ stage[q] \in Claiming, amount[q])
    BY <1>5 DEF Part
  <2>3. Part(Mine(q, r, s) /\ stage[q] \in Claiming, amount[q]) \in Int
    BY <1>2 DEF Part
  <2> DEFINE b == Part(Mine(q, r, s) /\ stage[q] \in Claiming, amount[q])
             c == Part(Mine(q, r, s) /\ v \in Claiming, amount'[q])
  <2>4. OpenTotal(r, s)' = OpenTotal(r, s) - b + c
    BY <1>1
  <2>5. b \in Int /\ c = 0
    BY <2>1, <2>3
  <2>6. given = b
    BY <2>2
  <2> HIDE DEF b, c, given
  <2>7. OpenTotal(r, s)' = OpenTotal(r, s) - given
    BY <1>2, <2>4, <2>5, <2>6
  <2> QED
    BY <2>7 DEF given
<1> QED
  BY <1>4, <1>5

LEMMA QuietEases ==
    ASSUME TypeOK, TypeOK', NEW q \in Requests, NEW v, Moves(q, v),
           v \in Claiming => stage[q] \in Claiming, own' = own, NEW r \in Replicas
    PROVE  Eases(r)
<1> SUFFICES ASSUME NEW s \in Sources, NEW d \in Days
             PROVE  own[r][s][d] + OpenTotal(r, s)' <= own[r][s][d] + OpenTotal(r, s)
  BY DEF Eases
<1>1. OpenTotal(r, s)' = OpenTotal(r, s)
         - Part(Mine(q, r, s) /\ stage[q] \in Claiming /\ v \notin Claiming, amount[q])
  BY OpenFalls
<1>2. own[r][s][d] \in Int /\ OpenTotal(r, s) \in Int /\ amount[q] \in Nat
  BY AmountsAreNumbers
<1> QED
  BY <1>1, <1>2 DEF Part

\* A row costs no more than the claim it stands in for.
LEMMA InsertEases ==
    ASSUME TypeOK, TypeOK', CostWithinClaim, NEW q \in Requests, NEW v, Moves(q, v), Insert(q),
           stage[q] = "billed", v \notin Claiming, NEW r \in Replicas
    PROVE  Eases(r)
<1> SUFFICES ASSUME NEW s \in Sources, NEW d \in Days
             PROVE  own'[r][s][d] + OpenTotal(r, s)' <= own[r][s][d] + OpenTotal(r, s)
  BY DEF Eases
<1>1. OpenTotal(r, s)' = OpenTotal(r, s)
         - Part(Mine(q, r, s) /\ stage[q] \in Claiming /\ v \notin Claiming, amount[q])
  BY OpenFalls
<1>2. OpenTotal(r, s)' = OpenTotal(r, s) - Part(Mine(q, r, s), amount[q])
  <2>1. stage[q] \in Claiming
    BY DEF Claiming, Holding
  <2>2. Part(Mine(q, r, s) /\ stage[q] \in Claiming /\ v \notin Claiming, amount[q])
           = Part(Mine(q, r, s), amount[q])
    BY <2>1 DEF Part
  <2> QED
    BY <1>1, <2>2
<1>3. own'[r][s][d] = own[r][s][d] + Part(Mine(q, r, s) /\ d <= requestedAt[q], cost[q])
  BY InsertEffect
<1>4. /\ own[r][s][d] \in Int /\ OpenTotal(r, s) \in Int /\ amount[q] \in Nat /\ cost[q] \in Nat
      /\ cost[q] <= amount[q]
  BY AmountsAreNumbers DEF CostWithinClaim
<1>5. Part(Mine(q, r, s) /\ d <= requestedAt[q], cost[q]) <= Part(Mine(q, r, s), amount[q])
  BY <1>4 DEF Part
<1>6. /\ Part(Mine(q, r, s) /\ d <= requestedAt[q], cost[q]) \in Int
      /\ Part(Mine(q, r, s), amount[q]) \in Int
  BY <1>4 DEF Part
<1> QED
  BY <1>2, <1>3, <1>4, <1>5, <1>6

LEMMA RestartEases ==
    ASSUME TypeOK, TypeOK', NEW x \in Replicas, Restart(x), NEW r \in Replicas
    PROVE  Eases(r)
<1> USE DEF ledger
<1> SUFFICES ASSUME NEW s \in Sources, NEW d \in Days
             PROVE  own'[r][s][d] + OpenTotal(r, s)' <= own[r][s][d] + OpenTotal(r, s)
  BY DEF Eases
<1>1. own' = own /\ amount' = amount
  BY DEF Restart
<1>2. own[r][s][d] \in Int /\ OpenTotal(r, s) \in Nat
  BY AmountsAreNumbers
<1>3. OpenTotal(r, s)' = 0 \/ OpenTotal(r, s)' = OpenTotal(r, s)
  <2>1. stage' = [q \in Requests |-> IF Home[q] = x /\ stage[q] \notin {"idle"} \cup Ended
                                     THEN "failed" ELSE stage[q]]
    BY DEF Restart
  <2>2. CASE r = x
    <3>1. Open(r, s)' = {}
      BY <2>1, <2>2 DEF Open, HoldingAt, Holding, Ended
    <3> QED
      BY <3>1, TotalEmpty DEF OpenTotal
  <2>3. CASE r # x
    <3>1. Open(r, s)' = Open(r, s)
      BY <2>1, <2>3 DEF Open, HoldingAt
    <3> QED
      BY <1>1, <3>1 DEF OpenTotal
  <2> QED
    BY <2>2, <2>3
<1> QED
  BY <1>1, <1>2, <1>3

(***************************************************************************)
(* The steps that admit a request.                                         *)
(***************************************************************************)

LEMMA HeldCoversLogged ==
    ASSUME TypeOK', CostWithinClaim', NEW r \in Replicas, NEW s
    PROVE  OpenTotal(r, s)' + LoggedTotal(r, s)' <= HeldTotal(r, s)'
<1>1. /\ Open(r, s)' \in SUBSET Requests /\ Logged(r, s)' \in SUBSET Requests
      /\ Open(r, s)' \cap Logged(r, s)' = {}
      /\ HoldingAt(r, s)' = Open(r, s)' \cup Logged(r, s)'
  BY DEF Open, Logged, HoldingAt
<1>2. Total(HoldingAt(r, s)', amount') = Total(Open(r, s)', amount') + Total(Logged(r, s)', amount')
  BY <1>1, TotalUnion
<1>3. Total(Logged(r, s)', cost') <= Total(Logged(r, s)', amount')
  <2>1. cost' \in [Requests -> Nat] /\ amount' \in [Requests -> Nat]
    BY MoneyAssumption DEF TypeOK
  <2>2. \A q \in Logged(r, s)' : cost'[q] <= amount'[q]
    BY DEF CostWithinClaim, Logged, HoldingAt
  <2> QED
    BY <1>1, <2>1, <2>2, TotalMonotone
<1>4. /\ Total(Open(r, s)', amount') \in Int /\ Total(Logged(r, s)', amount') \in Int
      /\ Total(Logged(r, s)', cost') \in Int
  BY <1>1, UnitsFinite
<1> QED
  BY <1>2, <1>3, <1>4 DEF OpenTotal, LoggedTotal, HeldTotal

\* A guard whose money and claims, but for one claim of a, are below the
\* ceilings of the day it is cached for.
Admits(g, d, a) ==
    /\ MonthlyLimit # NoLimit =>
          g.monthTotal + g.delta + g.deltaMonthlyOnly + g.reserved + g.reservedMonthlyOnly
              < MonthlyLimit + a
    /\ Enabled => g.dayTotal + g.delta + g.reserved < DailyLimitFor(d) + a

LEMMA AdmittedWithin ==
    ASSUME TypeOK', ClaimsExact', CostWithinClaim', OwnRows', WorstIsLargest', PastDays',
           NEW r \in Replicas, CountsAt(r)',
           NEW d \in Days, Enabled => guard'[r].cachedDay = d,
           NEW a \in 0..MaxAmount, Admits(guard'[r], d, a)
    PROVE  CeilingsAt(r)'
<1> DEFINE e == today'
           g == guard'[r]
<1> SUFFICES ASSUME Enabled PROVE CeilingsAt(r)'
  BY DEF CeilingsAt, Enabled
<1>1. /\ e \in Days /\ d \in Int /\ e \in Int /\ d <= e
      /\ MonthOf[d] \in Days /\ MonthOf[e] \in Days /\ MonthOf[d] <= MonthOf[e]
      /\ g.cachedDay = d /\ g.cachedDay # NoDay
  <2>1. e \in Days /\ g.cachedDay = d /\ d # NoDay
    BY CalendarAssumption DEF TypeOK
  <2>2. d <= e
    BY <2>1 DEF PastDays
  <2>3. d \in Int /\ e \in Int
    BY <2>1, CalendarAssumption DEF Days
  <2> QED
    BY <2>1, <2>2, <2>3, CalendarAssumption
<1>2. /\ own'[r]["visitor"][e] <= own'[r]["visitor"][d]
      /\ own'[r]["visitor"][MonthOf[e]] <= own'[r]["visitor"][MonthOf[d]]
      /\ own'[r]["eval"][MonthOf[e]] <= own'[r]["eval"][MonthOf[d]]
  BY <1>1 DEF OwnRows, Sources
<1>3. /\ own'[r]["visitor"][d]
            <= g.dayTotal + g.delta + LoggedTotal(r, "visitor")' + (forgotten'[r] + noCount'[r])
      /\ own'[r]["visitor"][MonthOf[d]] + own'[r]["eval"][MonthOf[d]]
            <= g.monthTotal + g.delta + g.deltaMonthlyOnly
                 + LoggedTotal(r, "visitor")' + LoggedTotal(r, "eval")'
                 + (forgotten'[r] + noCount'[r])
  BY <1>1 DEF CountsAt, OwnMonth
<1>4. /\ g.reserved = HeldTotal(r, "visitor")' /\ g.reservedMonthlyOnly = HeldTotal(r, "eval")'
      /\ OpenTotal(r, "visitor")' + LoggedTotal(r, "visitor")' <= HeldTotal(r, "visitor")'
      /\ OpenTotal(r, "eval")' + LoggedTotal(r, "eval")' <= HeldTotal(r, "eval")'
  BY HeldCoversLogged DEF ClaimsExact, HeldTotal
<1>5. /\ forgotten'[r] <= worst'[r] /\ a <= MaxAmount
      /\ forgotten'[r] \in Int /\ worst'[r] \in Int /\ noCount'[r] \in Int
      /\ a \in Int /\ MaxAmount \in Int
  BY AmountsAreNumbersNext, MoneyAssumption DEF WorstIsLargest
<1>6. /\ own'[r]["visitor"][d] \in Int /\ own'[r]["visitor"][e] \in Int
      /\ own'[r]["visitor"][MonthOf[d]] \in Int /\ own'[r]["visitor"][MonthOf[e]] \in Int
      /\ own'[r]["eval"][MonthOf[d]] \in Int /\ own'[r]["eval"][MonthOf[e]] \in Int
  <2>1. \A s \in Sources, f \in Days : own'[r][s][f] \in Int
    BY AmountsAreNumbersNext
  <2> QED
    BY <1>1, <2>1 DEF Sources
<1>7. /\ g.dayTotal \in Int /\ g.monthTotal \in Int /\ g.delta \in Int /\ g.deltaMonthlyOnly \in Int
      /\ g.reserved \in Int /\ g.reservedMonthlyOnly \in Int
  BY AmountsAreNumbersNext
<1>8. /\ HeldTotal(r, "visitor")' \in Int /\ HeldTotal(r, "eval")' \in Int
      /\ OpenTotal(r, "visitor")' \in Int /\ OpenTotal(r, "eval")' \in Int
      /\ LoggedTotal(r, "visitor")' \in Int /\ LoggedTotal(r, "eval")' \in Int
  BY AmountsAreNumbersNext
<1>9. OwnMonth(r, today)' = own'[r]["visitor"][MonthOf[e]] + own'[r]["eval"][MonthOf[e]]
  BY DEF OwnMonth
<1>10. ASSUME MonthlyLimit # NoLimit PROVE MonthAt(r)'
  <2>1. /\ MonthlyLimit \in Int
        /\ g.monthTotal + g.delta + g.deltaMonthlyOnly + g.reserved + g.reservedMonthlyOnly
              < MonthlyLimit + a
    BY <1>10, LimitsAreNumbers DEF Admits
  <2> HIDE DEF e, g
  <2>2. own'[r]["visitor"][MonthOf[e]] + own'[r]["eval"][MonthOf[e]]
           + OpenTotal(r, "visitor")' + OpenTotal(r, "eval")'
           <= g.monthTotal + g.delta + g.deltaMonthlyOnly + g.reserved + g.reservedMonthlyOnly
                + (forgotten'[r] + noCount'[r])
    BY <1>2, <1>3, <1>4, <1>5, <1>6, <1>7, <1>8
  <2>3. own'[r]["visitor"][MonthOf[e]] + own'[r]["eval"][MonthOf[e]]
           + OpenTotal(r, "visitor")' + OpenTotal(r, "eval")'
           < MonthlyLimit + MaxAmount + worst'[r] + noCount'[r]
    BY <1>5, <1>6, <1>7, <1>8, <2>1, <2>2
  <2> QED
    BY <1>9, <2>3 DEF MonthAt
<1>11. DayAt(r)'
  <2>1. /\ DailyLimitFor(d) \in Int
        /\ g.dayTotal + g.delta + g.reserved < DailyLimitFor(d) + a
    BY LimitsAreNumbers DEF Admits
  <2>2. d \in 0..e
    BY <1>1 DEF Days
  <2> HIDE DEF e, g
  <2>3. own'[r]["visitor"][e] + OpenTotal(r, "visitor")'
           < DailyLimitFor(d) + MaxAmount + worst'[r] + noCount'[r]
    BY <1>2, <1>3, <1>4, <1>5, <1>6, <1>7, <1>8, <2>1
  <2> QED
    BY <2>2, <2>3 DEF DayAt, e
<1> QED
  BY <1>10, <1>11 DEF CeilingsAt

\* _admit: what the guard reserves with the new claim is below the ceilings
\* and that claim.
LEMMA AdmitsAfterClaim ==
    ASSUME NEW g \in GuardType, NEW d \in Days, NEW a \in Nat, NEW s \in Sources,
           ~Committed(g, d)
    PROVE  Admits(Claim(g, a, s), d, a)
<1> DEFINE h == Claim(g, a, s)
<1>1. /\ h.dayTotal = g.dayTotal /\ h.monthTotal = g.monthTotal
      /\ h.delta = g.delta /\ h.deltaMonthlyOnly = g.deltaMonthlyOnly
      /\ h.reserved + h.reservedMonthlyOnly = g.reserved + g.reservedMonthlyOnly + a
      /\ h.reserved <= g.reserved + a
      /\ h.reserved \in Int /\ h.reservedMonthlyOnly \in Int
  BY DEF Claim, GuardType, Sources
<1>2. /\ g.dayTotal \in Int /\ g.monthTotal \in Int /\ g.delta \in Int /\ g.deltaMonthlyOnly \in Int
      /\ g.reserved \in Int /\ g.reservedMonthlyOnly \in Int
  BY DEF GuardType
<1>3. ~MonthlyReached(g, g.reserved + g.reservedMonthlyOnly) /\ ~DailyReached(g, d, g.reserved)
  BY DEF Committed
<1> HIDE DEF h
<1>4. ASSUME MonthlyLimit # NoLimit
      PROVE  h.monthTotal + h.delta + h.deltaMonthlyOnly + h.reserved + h.reservedMonthlyOnly
                < MonthlyLimit + a
  <2>1. MonthlyLimit \in Int
    BY <1>4, LimitsAreNumbers
  <2>2. ~(g.monthTotal + g.delta + g.deltaMonthlyOnly + (g.reserved + g.reservedMonthlyOnly)
             >= MonthlyLimit)
    BY <1>3, <1>4 DEF MonthlyReached
  <2> QED
    BY <1>1, <1>2, <2>1, <2>2
<1>5. ASSUME Enabled PROVE h.dayTotal + h.delta + h.reserved < DailyLimitFor(d) + a
  <2>1. DailyLimitFor(d) \in Int /\ DailyLimitFor(d) # NoLimit
    BY <1>5, LimitsAreNumbers
  <2>2. ~(g.dayTotal + g.delta + g.reserved >= DailyLimitFor(d))
    BY <1>3, <2>1 DEF DailyReached
  <2> QED
    BY <1>1, <1>2, <2>1, <2>2
<1> QED
  BY <1>4, <1>5 DEF Admits, h

\* What the invariant says of the state after a step, without the ceilings.
Accounted ==
    TypeOK /\ ClaimsExact /\ CostWithinClaim /\ OwnRows /\ WorstIsLargest /\ PastDays /\ CountsOwnRows

LEMMA AdmissionKeeps ==
    ASSUME TypeOK, OwnRows, Accounted', \A r \in Replicas : CeilingsAt(r),
           NEW q \in Requests, Moves(q, stage'[q]),
           stage[q] \notin Holding, stage'[q] \notin Holding \ {"generate"},
           UNCHANGED <<own, today, noCount>>, \A r \in Replicas : worst[r] <= worst'[r],
           NEW g \in GuardType, NEW d \in Days,
           guard' = [guard EXCEPT ![Home[q]] = IF stage'[q] = "generate"
                       THEN Claim(g, amount'[q], SourceOf[q]) ELSE g],
           stage'[q] = "generate" => ~Committed(g, d) /\ (Enabled => g.cachedDay = d),
           NEW r \in Replicas
    PROVE  CeilingsAt(r)'
<1>t. TypeOK'
  BY DEF Accounted
<1>a. ASSUME Eases(r) PROVE CeilingsAt(r)'
  <2>1. today <= today' /\ noCount[r] <= noCount'[r] /\ worst[r] <= worst'[r]
    BY CalendarAssumption DEF TypeOK, Days
  <2> QED
    BY <1>a, <1>t, <2>1, CeilingsKept
<1>1. CASE stage'[q] # "generate"
  <2>1. stage'[q] \notin Claiming
    BY <1>1 DEF Claiming
  <2> QED
    BY <1>a, <1>t, <2>1, QuietEases
<1>2. CASE stage'[q] = "generate" /\ r # Home[q]
  <2>1. ASSUME NEW s \in Sources PROVE OpenTotal(r, s)' = OpenTotal(r, s)
    <3>1. OpenTotal(r, s)' = OpenTotal(r, s)
             - Part(Mine(q, r, s) /\ stage[q] \in Holding \ {"logged"}, amount[q])
             + Part(Mine(q, r, s) /\ stage'[q] \in Holding \ {"logged"}, amount'[q])
      BY <1>t, SumsMove
    <3>2. ~Mine(q, r, s)
      BY <1>2 DEF Mine
    <3>3. /\ Part(Mine(q, r, s) /\ stage[q] \in Holding \ {"logged"}, amount[q]) = 0
          /\ Part(Mine(q, r, s) /\ stage'[q] \in Holding \ {"logged"}, amount'[q]) = 0
      BY <3>2 DEF Part
    <3>4. OpenTotal(r, s) \in Int
      BY AmountsAreNumbers
    <3> QED
      BY <3>1, <3>3, <3>4
  <2>2. ASSUME NEW s \in Sources, NEW f \in Days
        PROVE  own[r][s][f] \in Int /\ OpenTotal(r, s) \in Int
    BY AmountsAreNumbers
  <2>3. Eases(r)
    BY <2>1, <2>2 DEF Eases
  <2> QED
    BY <1>a, <2>3
<1>3. CASE stage'[q] = "generate" /\ r = Home[q]
  <2> DEFINE a == amount'[q]
             h == Claim(g, a, SourceOf[q])
  <2>1. a \in 0..MaxAmount /\ a \in Nat /\ SourceOf[q] \in Sources
    BY <1>t, MoneyAssumption, PopulationAssumption DEF TypeOK
  <2>2. guard'[r] = h
    BY <1>3 DEF TypeOK
  <2>3. Enabled => h.cachedDay = d
    BY <1>3, ClaimKeepsMoney DEF SameMoney
  <2>4. Admits(h, d, a)
    BY <1>3, <2>1, AdmitsAfterClaim
  <2>5. CountsAt(r)'
    BY AccountsOfReplicasNext DEF Accounted
  <2> HIDE DEF a, h
  <2> QED
    BY <2>1, <2>2, <2>3, <2>4, <2>5, AdmittedWithin DEF Accounted
<1> QED
  BY <1>1, <1>2, <1>3

LEMMA CeilingsStep ==
    Accounted /\ HolderAsks /\ MonthlyCeiling /\ DailyCeiling /\ [Next]_vars /\ Accounted'
        => (MonthlyCeiling /\ DailyCeiling)'
<1> SUFFICES ASSUME Accounted, HolderAsks, MonthlyCeiling, DailyCeiling, [Next]_vars, Accounted',
                    NEW r \in Replicas
             PROVE  CeilingsAt(r)'
  BY CeilingsOfReplicasNext
<1> USE DEF clock, ledger, lock, request, history
<1>t. /\ TypeOK /\ TypeOK' /\ OwnRows /\ CostWithinClaim
      /\ \A x \in Replicas : CeilingsAt(x)
  BY CeilingsOfReplicas DEF Accounted
<1>n. /\ today \in Int /\ noCount[r] \in Int
      /\ \A x \in Replicas : worst[x] \in Int /\ settling[x] \in Int
  BY <1>t, AmountsAreNumbers, CalendarAssumption DEF TypeOK, Days
<1>a. ASSUME Eases(r), UNCHANGED <<today, worst, noCount>> PROVE CeilingsAt(r)'
  BY <1>a, <1>t, <1>n, CeilingsKept
<1>b. ASSUME NEW q \in Requests, NEW v, stage' = [stage EXCEPT ![q] = v],
             v \in Claiming => stage[q] \in Claiming,
             UNCHANGED <<amount, own, today, worst, noCount>>,
             cost' = [cost EXCEPT ![q] = cost'[q]], stage[q] = "logged" => cost'[q] = cost[q]
      PROVE  CeilingsAt(r)'
  <2>1. Moves(q, v)
    BY <1>b, <1>t, QuietMove
  <2> QED
    BY <1>a, <1>b, <1>t, <2>1, QuietEases
<1>c. ASSUME UNCHANGED <<stage, amount, own, worst, noCount>>, today <= today'
      PROVE  CeilingsAt(r)'
  <2>1. \A s : OpenTotal(r, s)' = OpenTotal(r, s)
    BY <1>c DEF OpenTotal, Open, HoldingAt
  <2>2. ASSUME NEW s \in Sources, NEW d \in Days
        PROVE  own[r][s][d] \in Int /\ OpenTotal(r, s) \in Int
    BY <1>t, AmountsAreNumbers
  <2>3. Eases(r)
    BY <1>c, <2>1, <2>2 DEF Eases
  <2> QED
    BY <1>c, <1>n, <1>t, <2>3, CeilingsKept
<1>1. ASSUME NEW q \in Requests, Arrive(q) \/ Retrieved(q) PROVE CeilingsAt(r)'
  <2>1. PICK asked, a : asked \in Asking /\ Ask(q, asked, a)
    BY <1>1 DEF Arrive, Retrieved, Asking
  <2>2. stage[q] \notin Holding
    BY <1>1 DEF Arrive, Retrieved, Holding
  <2>3. /\ Moves(q, stage'[q]) /\ amount'[q] = a /\ stage'[q] \notin Holding \ {"generate"}
        /\ guard' = [guard EXCEPT ![Home[q]] = IF stage'[q] = "generate"
                       THEN Claim(guard[Home[q]], a, SourceOf[q]) ELSE guard[Home[q]]]
        /\ stage'[q] = "generate" => /\ ~(Enabled /\ Stale(guard[Home[q]], today))
                                     /\ ~Committed(guard[Home[q]], today)
    BY <1>t, <2>1, <2>2, AskEffect
  <2>4. stage'[q] = "generate" => (Enabled => guard[Home[q]].cachedDay = today)
    BY <2>3 DEF Stale
  <2>5. guard[Home[q]] \in GuardType /\ today \in Days
    BY <1>t, PopulationAssumption DEF TypeOK
  <2>6. UNCHANGED <<own, today, noCount>> /\ \A x \in Replicas : worst[x] <= worst'[x]
    BY <1>n, <2>1 DEF Ask
  <2>7. guard' = [guard EXCEPT ![Home[q]] = IF stage'[q] = "generate"
                    THEN Claim(guard[Home[q]], amount'[q], SourceOf[q]) ELSE guard[Home[q]]]
    BY <2>3
  <2>8. /\ Moves(q, stage'[q]) /\ stage'[q] \notin Holding \ {"generate"}
        /\ stage'[q] = "generate" =>
              ~Committed(guard[Home[q]], today) /\ (Enabled => guard[Home[q]].cachedDay = today)
    BY <2>3, <2>4
  <2> QED
    BY <1>t, <2>2, <2>5, <2>6, <2>7, <2>8, AdmissionKeeps
<1>2. ASSUME NEW q \in Requests, NEW g \in GuardType, stage[q] \in Asking,
             Decide(q, stage[q], now[q], amount[q], g), g.cachedDay = now[q],
             UNCHANGED <<amount, cost, own, today, noCount>>,
             \A x \in Replicas : worst[x] <= worst'[x]
      PROVE  CeilingsAt(r)'
  <2>1. /\ stage' = [stage EXCEPT ![q] = stage'[q]]
        /\ stage'[q] \in {"exhausted", "retrieve", "pressure", "generate"}
        /\ guard' = [guard EXCEPT ![Home[q]] =
                        IF stage'[q] = "generate" THEN Claim(g, amount[q], SourceOf[q]) ELSE g]
        /\ stage'[q] = "generate" => ~Committed(g, now[q])
    BY <1>2, <1>t, DecideEffect
  <2>2. Moves(q, stage'[q])
    BY <1>2, <2>1 DEF Moves
  <2>3. stage[q] \notin Holding /\ stage'[q] \notin Holding \ {"generate"} /\ now[q] \in Days
    BY <1>2, <1>t, <2>1 DEF Asking, Holding, TypeOK
  <2> QED
    BY <1>2, <1>t, <2>1, <2>2, <2>3, AdmissionKeeps
<1>3. ASSUME NEW q \in Requests, FollowRefresh(q) PROVE CeilingsAt(r)'
  <2>1. guard[Home[q]] \in GuardType /\ guard[Home[q]].cachedDay = now[q]
    BY <1>3, <1>t, PopulationAssumption DEF FollowRefresh, Stale, TypeOK
  <2>2. \A x \in Replicas : worst[x] <= worst'[x]
    BY <1>3, <1>n DEF FollowRefresh
  <2> QED
    BY <1>2, <1>3, <2>1, <2>2 DEF FollowRefresh
<1>4. ASSUME NEW q \in Requests, CompleteRefresh(q) PROVE CeilingsAt(r)'
  <2> DEFINE g == Refreshed(guard[Home[q]], totals[Home[q]], now[q])
  <2>1. /\ Home[q] \in Replicas /\ guard[Home[q]] \in GuardType /\ now[q] \in Days
        /\ totals[Home[q]] \in [day : Nat, month : Nat] /\ stage[q] \in Asking
    BY <1>4, <1>t, PopulationAssumption DEF CompleteRefresh, TypeOK, HolderAsks
  <2>2. g \in GuardType
    BY <2>1, GuardOperations, 0 \in Nat, "visitor" \in Sources DEF Sources
  <2>3. g.cachedDay = now[q]
    BY <2>1 DEF Refreshed, GuardType
  <2>4. \A x \in Replicas : worst[x] <= worst'[x]
    <3>1. worst' = [worst EXCEPT ![Home[q]] = Max2(worst[Home[q]], settling[Home[q]])]
      BY <1>4 DEF CompleteRefresh
    <3>2. worst[Home[q]] <= Max2(worst[Home[q]], settling[Home[q]])
      BY <1>n, <2>1 DEF Max2
    <3> QED
      BY <1>n, <1>t, <3>1, <3>2 DEF TypeOK
  <2> HIDE DEF g
  <2>5. Decide(q, stage[q], now[q], amount[q], g) /\ UNCHANGED <<amount, cost, own, today, noCount>>
    BY <1>4 DEF CompleteRefresh, g
  <2> QED
    BY <1>2, <2>1, <2>2, <2>3, <2>4, <2>5
<1>5. ASSUME NEW q \in Requests,
             \/ RetrievalFails(q) \/ RefreshFails(q) \/ CallProvider(q) \/ Settle(q)
             \/ ProviderFails(q) \/ AnswerLost(q) \/ ProviderBills(q)
      PROVE  CeilingsAt(r)'
  <2>1. /\ \E v \in {"failed", "calling", "served", "billed"} :
              stage' = [stage EXCEPT ![q] = v] /\ (v \in Claiming => stage[q] \in Claiming)
        /\ UNCHANGED <<amount, own, today, worst, noCount>>
    BY <1>5 DEF RetrievalFails, RefreshFails, CallProvider, Settle, ProviderFails, AnswerLost,
                Fail, ProviderBills, Claiming, Holding
  <2>2. cost' = cost \/ (stage[q] # "logged" /\ \E c : cost' = [cost EXCEPT ![q] = c])
    BY <1>5 DEF RetrievalFails, RefreshFails, CallProvider, Settle, ProviderFails, AnswerLost,
                Fail, ProviderBills
  <2>3. /\ cost' = [cost EXCEPT ![q] = cost'[q]]
        /\ stage[q] = "logged" => cost'[q] = cost[q]
    BY <1>t, <2>2 DEF TypeOK
  <2> QED
    BY <1>b, <2>1, <2>3
<1>6. ASSUME NEW q \in Requests, LogRow(q) PROVE CeilingsAt(r)'
  <2>1. Moves(q, "logged") /\ Insert(q) /\ stage[q] = "billed" /\ "logged" \notin Claiming
    BY <1>6 DEF LogRow, Moves, Claiming
  <2> QED
    BY <1>6, <1>a, <1>t, <2>1, InsertEases DEF LogRow
<1>7. ASSUME NEW q \in Requests, CommitUnacknowledged(q) PROVE CeilingsAt(r)'
  <2>1. /\ Moves(q, "failed") /\ Insert(q) /\ stage[q] = "billed" /\ "failed" \notin Claiming
        /\ UNCHANGED <<today, worst>>
        /\ noCount' = [noCount EXCEPT ![Home[q]] = noCount[Home[q]] + cost[q]]
    BY <1>7 DEF CommitUnacknowledged, Fail, Moves, Claiming, Holding
  <2>2. cost[q] \in Nat
    BY <1>t, AmountsAreNumbers
  <2>3. noCount[r] <= noCount'[r]
    BY <1>n, <1>t, <2>1, <2>2 DEF TypeOK
  <2>4. today <= today' /\ worst[r] <= worst'[r]
    BY <1>n, <2>1
  <2>5. Eases(r)
    BY <1>t, <2>1, InsertEases
  <2> QED
    BY <1>t, <2>3, <2>4, <2>5, CeilingsKept
<1>8. ASSUME NEW x \in Replicas, Restart(x) PROVE CeilingsAt(r)'
  BY <1>8, <1>a, <1>t, RestartEases DEF Restart
<1>9. ASSUME NEW q \in Requests, BeginRefresh(q) \/ ReadTotals(q) PROVE CeilingsAt(r)'
  BY <1>9, <1>c, <1>n DEF BeginRefresh, ReadTotals
<1>10. ASSUME NEW x \in Replicas, Expire(x) PROVE CeilingsAt(r)'
  BY <1>10, <1>c, <1>n DEF Expire
<1>11. ASSUME Midnight \/ UNCHANGED vars PROVE CeilingsAt(r)'
  BY <1>11, <1>c, <1>n DEF Midnight, vars
<1> QED
  BY <1>1, <1>3, <1>4, <1>5, <1>6, <1>7, <1>8, <1>9, <1>10, <1>11
  DEF Next, Progress, Failure, Quiescent

(***************************************************************************)
(* The theorems.                                                           *)
(***************************************************************************)

LEMMA AccountsInit ==
    Init => Bookkeeping /\ CountsOwnRows /\ MonthlyCeiling /\ DailyCeiling
<1> SUFFICES ASSUME Init PROVE Bookkeeping /\ CountsOwnRows /\ MonthlyCeiling /\ DailyCeiling
  OBVIOUS
<1>t. TypeOK /\ 0 \in Days /\ \A d \in Days : MonthOf[d] \in Days
  BY InitType, CalendarAssumption DEF Days
<1>1. HolderAsks /\ PastDays /\ SelectCounts /\ CountsOwnRows
  BY CalendarAssumption DEF Init, HolderAsks, PastDays, SelectCounts, CountsOwnRows, NewGuard
<1>2. CostWithinClaim /\ WorstIsLargest
  BY DEF Init, CostWithinClaim, WorstIsLargest
<1>3. \A r \in Replicas, s \in Sources, d \in Days : own[r][s][d] = 0 /\ spent[s][d] = 0
  BY DEF Init
<1>4. OwnRows
  BY <1>3 DEF OwnRows
<1>5. ASSUME NEW r \in Replicas PROVE CeilingsAt(r)
  <2>1. OpenTotal(r, "visitor") = 0 /\ OpenTotal(r, "eval") = 0
    <3>1. Open(r, "visitor") = {} /\ Open(r, "eval") = {}
      BY DEF Init, Open, HoldingAt, Holding
    <3> QED
      BY <3>1, TotalEmpty DEF OpenTotal
  <2>2. /\ today = 0 /\ worst[r] = 0 /\ noCount[r] = 0 /\ MaxAmount \in Nat
    BY MoneyAssumption DEF Init
  <2>3. own[r]["visitor"][0] = 0 /\ OwnMonth(r, 0) = 0
    BY <1>t, <1>3 DEF OwnMonth, Sources
  <2>4. MonthlyLimit # NoLimit => MonthlyLimit \in Nat \ {0}
    BY MoneyAssumption
  <2>5. ASSUME Enabled PROVE DailyLimitFor(0) \in Nat \ {0}
    BY <1>t, <2>5, LimitsAreNumbers
  <2>6. 0 \in 0..today
    BY <2>2
  <2> QED
    BY <2>1, <2>2, <2>3, <2>4, <2>5, <2>6 DEF CeilingsAt, MonthAt, DayAt
<1> QED
  BY <1>1, <1>2, <1>4, <1>5, CeilingsOfReplicas DEF Bookkeeping

\* The invariant the step lemmas fit together into.
Books == TypeOK /\ ClaimsExact /\ Bookkeeping /\ CountsOwnRows

LEMMA BooksStep == Books /\ [Next]_vars => Books'
<1> SUFFICES ASSUME Books, [Next]_vars PROVE Books'
  OBVIOUS
<1>1. /\ TypeOK /\ ClaimsExact /\ HolderAsks /\ PastDays /\ CostWithinClaim /\ OwnRows
      /\ WorstIsLargest /\ SelectCounts /\ CountsOwnRows
  BY DEF Books, Bookkeeping
<1>2. TypeOK' /\ HolderAsks' /\ ClaimsExact'
  BY <1>1, TypeStep, HolderAsksStep, ClaimsStep
<1>3. PastDays' /\ CostWithinClaim' /\ OwnRows' /\ WorstIsLargest'
  BY <1>1, PastDaysStep, CostWithinClaimStep, OwnRowsStep, WorstIsLargestStep
<1>4. CountsOwnRows' /\ SelectCounts'
  BY <1>1, AccountsStep
<1> QED
  BY <1>2, <1>3, <1>4 DEF Books, Bookkeeping

\* The bookkeeping of a replica is sound in every reachable state: who holds the
\* refresh lock, which days a cache and a request carry, and what a SELECT that
\* is still under way can have missed of the replica's own rows.
THEOREM BookkeepingSound == Spec => []Bookkeeping
<1>1. Init => Books
  BY InitType, ClaimsInit, AccountsInit DEF Books
<1>2. Books => Bookkeeping
  BY DEF Books
<1> QED
  BY <1>1, <1>2, BooksStep, PTL DEF Spec

\* What the guard counts covers every row its replica wrote in the cached
\* windows, up to what is still to be settled, what the last refresh forgot
\* and what never settled.
THEOREM OwnRowsCounted == Spec => []CountsOwnRows
<1>1. Init => Books
  BY InitType, ClaimsInit, AccountsInit DEF Books
<1>2. Books => CountsOwnRows
  BY DEF Books
<1> QED
  BY <1>1, <1>2, BooksStep, PTL DEF Spec

LEMMA CeilingsAlways == Spec => [](MonthlyCeiling /\ DailyCeiling)
<1>1. Init => Books /\ MonthlyCeiling /\ DailyCeiling
  BY InitType, ClaimsInit, AccountsInit DEF Books
<1>2. Books => Accounted /\ HolderAsks
  BY DEF Books, Bookkeeping, Accounted
<1>3. Books /\ MonthlyCeiling /\ DailyCeiling /\ [Next]_vars
         => (Books /\ MonthlyCeiling /\ DailyCeiling)'
  BY <1>2, BooksStep, CeilingsStep DEF Books, Bookkeeping, Accounted
<1> QED
  BY <1>1, <1>3, PTL DEF Spec

\* One replica's rows of a month and its open claims stay below the monthly
\* ceiling plus one worst case, plus what its refreshes forgot and what never
\* settled, for any number of requests, replicas and days and any amounts.
THEOREM MonthlyCeilingHolds == Spec => []MonthlyCeiling
BY CeilingsAlways, PTL

\* The same for the visitors' rows of a day and the daily ceiling of that day or
\* of an earlier one.
THEOREM DailyCeilingHolds == Spec => []DailyCeiling
BY CeilingsAlways, PTL

-----------------------------------------------------------------------------
(***************************************************************************)
(* What a guard tells others is so.                                        *)
(*                                                                         *)
(* The headroom a scrape reads follows from the accounts (CountsOwnRows)   *)
(* and the calendar: a later window holds fewer rows.  That a refresh      *)
(* never replaces current totals needs to know that the cache stays stale  *)
(* for whoever is inside the lock.  That a refusal for "budget_pressure"   *)
(* points at a claim follows from ClaimsExact.  That only calls made are   *)
(* summed needs to follow what an outstanding SELECT has read (ReadIsSpent).*)
(***************************************************************************)

(***************************************************************************)
(* The headroom.                                                           *)
(***************************************************************************)

LEMMA HeadroomFollows == Books => HeadroomNeverOverstated
<1> SUFFICES ASSUME Books, NEW r \in Replicas, guard[r].cachedDay # NoDay
             PROVE  LET slack == forgotten[r] + noCount[r]
                                   + LoggedTotal(r, "visitor") + LoggedTotal(r, "eval")
                    IN  /\ DailyLimitFor(today) # NoLimit =>
                              DailyHeadroom(guard[r], today)
                                <= Max2(0, DailyLimitFor(today) - own[r]["visitor"][today] + slack)
                        /\ MonthlyLimit # NoLimit =>
                              MonthlyHeadroom(guard[r])
                                <= Max2(0, MonthlyLimit - OwnMonth(r, today) + slack)
  BY DEF HeadroomNeverOverstated, LoggedTotal
<1> DEFINE c == guard[r].cachedDay
           g == guard[r]
           v == LoggedTotal(r, "visitor")
           w == LoggedTotal(r, "eval")
<1>1. TypeOK /\ PastDays /\ OwnRows /\ CountsOwnRows
  BY DEF Books, Bookkeeping
<1>2. /\ g.dayTotal \in Nat /\ g.monthTotal \in Nat /\ g.delta \in Nat
      /\ g.deltaMonthlyOnly \in Nat /\ v \in Nat /\ w \in Nat
      /\ forgotten[r] \in Nat /\ noCount[r] \in Nat /\ c \in Days
      /\ \A s \in Sources, d \in Days : own[r][s][d] \in Nat
  BY <1>1, AmountsAreNumbers
<1>3. today \in Days /\ c <= today /\ MonthOf[c] <= MonthOf[today]
      /\ MonthOf[c] \in Days /\ MonthOf[today] \in Days
  BY <1>1, <1>2, CalendarAssumption DEF TypeOK, PastDays
<1>4. /\ own[r]["visitor"][c] <= g.dayTotal + g.delta + v + (forgotten[r] + noCount[r])
      /\ own[r]["visitor"][MonthOf[c]] + own[r]["eval"][MonthOf[c]]
            <= g.monthTotal + g.delta + g.deltaMonthlyOnly + v + w + (forgotten[r] + noCount[r])
  BY <1>1 DEF CountsOwnRows, OwnMonth, LoggedTotal
<1>5. /\ own[r]["visitor"][today] <= own[r]["visitor"][c]
      /\ own[r]["visitor"][MonthOf[today]] <= own[r]["visitor"][MonthOf[c]]
      /\ own[r]["eval"][MonthOf[today]] <= own[r]["eval"][MonthOf[c]]
  BY <1>1, <1>2, <1>3 DEF OwnRows, Sources
<1>6. /\ own[r]["visitor"][today] \in Int /\ own[r]["visitor"][c] \in Int
      /\ own[r]["visitor"][MonthOf[today]] \in Int /\ own[r]["visitor"][MonthOf[c]] \in Int
      /\ own[r]["eval"][MonthOf[today]] \in Int /\ own[r]["eval"][MonthOf[c]] \in Int
  BY <1>2, <1>3 DEF Sources
<1>7. /\ DailyHeadroom(g, today) = Max2(0, DailyLimitFor(today) - g.dayTotal - g.delta)
      /\ MonthlyHeadroom(g) = Max2(0, MonthlyLimit - g.monthTotal - g.delta - g.deltaMonthlyOnly)
      /\ OwnMonth(r, today) = own[r]["visitor"][MonthOf[today]] + own[r]["eval"][MonthOf[today]]
  BY DEF DailyHeadroom, MonthlyHeadroom, OwnMonth
<1> HIDE DEF c, g, v, w
<1>8. ASSUME DailyLimitFor(today) # NoLimit
      PROVE  DailyHeadroom(g, today)
               <= Max2(0, DailyLimitFor(today) - own[r]["visitor"][today]
                            + (forgotten[r] + noCount[r] + v + w))
  <2>1. Enabled
    BY <1>8 DEF DailyLimitFor, Enabled
  <2>2. DailyLimitFor(today) \in Int
    BY <1>3, <2>1, LimitsAreNumbers
  <2> QED
    BY <1>2, <1>4, <1>5, <1>6, <1>7, <2>2 DEF Max2
<1>9. ASSUME MonthlyLimit # NoLimit
      PROVE  MonthlyHeadroom(g)
               <= Max2(0, MonthlyLimit - OwnMonth(r, today) + (forgotten[r] + noCount[r] + v + w))
  <2>1. MonthlyLimit \in Int
    BY <1>9, LimitsAreNumbers
  <2> QED
    BY <1>2, <1>4, <1>5, <1>6, <1>7, <2>1 DEF Max2
<1> QED
  BY <1>8, <1>9 DEF g, v, w

LEMMA BooksAlways == Spec => []Books
<1>1. Init => Books
  BY InitType, ClaimsInit, AccountsInit DEF Books
<1> QED
  BY <1>1, BooksStep, PTL DEF Spec

\* What /metrics publishes never promises money the replica has spent, over any
\* number of midnights, refreshes, restarts and requests, up to what is still to
\* be settled, what the last refresh forgot and what never settled.
THEOREM HeadroomHonest == Spec => []HeadroomNeverOverstated
BY BooksAlways, HeadroomFollows, PTL

(***************************************************************************)
(* One refresh per window.                                                 *)
(***************************************************************************)

\* The cache is stale for the coroutine inside the lock, until it is done.
StaleForHolder ==
    \A r \in Replicas : holder[r] # Nobody => Stale(guard[r], now[holder[r]])

SameAge(g, h) == h.fresh = g.fresh /\ h.cachedDay = g.cachedDay

LEMMA OperationsKeepAge ==
    ASSUME NEW g \in GuardType, NEW a \in Nat, NEW s \in Sources
    PROVE  /\ SameAge(g, g) /\ SameAge(g, Claim(g, a, s)) /\ SameAge(g, Discharge(g, a, s))
           /\ \A c \in Nat : SameAge(g, Discharge(Record(g, c, s), a, s))
<1>1. SameAge(g, g) /\ SameAge(g, Claim(g, a, s)) /\ SameAge(g, Discharge(g, a, s))
  BY DEF SameAge, Claim, Discharge, GuardType
<1>2. ASSUME NEW c \in Nat PROVE SameAge(g, Discharge(Record(g, c, s), a, s))
  <2> DEFINE k == Record(g, c, s)
  <2>1. k \in GuardType /\ k.fresh = g.fresh /\ k.cachedDay = g.cachedDay
    <3>1. k \in GuardType
      BY GuardOperations
    <3>2. k.fresh = g.fresh /\ k.cachedDay = g.cachedDay
      BY DEF Record, GuardType
    <3> QED
      BY <3>1, <3>2
  <2> HIDE DEF k
  <2>2. SameAge(k, Discharge(k, a, s))
    BY <2>1 DEF SameAge, Discharge, GuardType
  <2> QED
    BY <2>1, <2>2 DEF SameAge, k
<1> QED
  BY <1>1, <1>2

\* No step but the end of a refresh makes a cache younger or moves its day.
Ages(r) == guard'[r].cachedDay = guard[r].cachedDay /\ (guard'[r].fresh => guard[r].fresh)

LEMMA SameAgeAges ==
    ASSUME NEW r \in Replicas, SameAge(guard[r], guard'[r])
    PROVE  Ages(r)
BY DEF SameAge, Ages

LEMMA DecideAges ==
    ASSUME TypeOK, NEW q \in Requests, NEW asked, NEW d, NEW a \in Nat,
           Decide(q, asked, d, a, guard[Home[q]])
    PROVE  \A r \in Replicas : Ages(r)
<1>1. Home[q] \in Replicas /\ SourceOf[q] \in Sources /\ guard[Home[q]] \in GuardType
  BY PopulationAssumption DEF TypeOK
<1>2. guard' = [guard EXCEPT ![Home[q]] = IF stage'[q] = "generate"
                  THEN Claim(guard[Home[q]], a, SourceOf[q]) ELSE guard[Home[q]]]
  BY DecideEffect
<1>3. \/ guard'[Home[q]] = guard[Home[q]]
      \/ guard'[Home[q]] = Claim(guard[Home[q]], a, SourceOf[q])
  BY <1>1, <1>2 DEF TypeOK
<1>4. SameAge(guard[Home[q]], guard'[Home[q]])
  BY <1>1, <1>3, OperationsKeepAge
<1>5. \A r \in Replicas : r # Home[q] => guard'[r] = guard[r]
  BY <1>2 DEF TypeOK
<1> QED
  BY <1>1, <1>4, <1>5, SameAgeAges DEF Ages

LEMMA UnmeteredAges == ASSUME TypeOK, Unmetered PROVE \A r \in Replicas : Ages(r)
<1>m. MaxAmount \in Nat /\ Amounts \subseteq 0..MaxAmount
  BY MoneyAssumption
<1>a. ASSUME NEW q \in Requests, NEW asked, NEW a \in Nat, Ask(q, asked, a)
      PROVE  \A r \in Replicas : Ages(r)
  <2>1. CASE Enabled /\ Stale(guard[Home[q]], today)
    BY <1>a, <2>1 DEF Ask, Ages
  <2>2. CASE ~(Enabled /\ Stale(guard[Home[q]], today))
    BY <1>a, <2>2, DecideAges DEF Ask
  <2> QED
    BY <2>1, <2>2
<1>1. ASSUME NEW q \in Requests, Arrive(q) PROVE \A r \in Replicas : Ages(r)
  BY <1>1, <1>a, 0 \in Nat DEF Arrive
<1>2. ASSUME NEW q \in Requests, Retrieved(q) PROVE \A r \in Replicas : Ages(r)
  <2>1. PICK a \in IF Enabled THEN Amounts ELSE {0} : Ask(q, "reserve", a)
    BY <1>2 DEF Retrieved
  <2>2. a \in Nat
    BY <1>m
  <2> QED
    BY <1>a, <2>1, <2>2
<1>3. ASSUME NEW q \in Requests, FollowRefresh(q) PROVE \A r \in Replicas : Ages(r)
  <2>1. amount[q] \in Nat
    BY <1>m DEF TypeOK
  <2> QED
    BY <1>3, <2>1, DecideAges DEF FollowRefresh
<1>4. ASSUME UNCHANGED guard PROVE \A r \in Replicas : Ages(r)
  BY <1>4 DEF Ages
<1>5. ASSUME NEW q \in Requests,
             \/ RetrievalFails(q) \/ BeginRefresh(q) \/ ReadTotals(q) \/ RefreshFails(q)
             \/ CallProvider(q) \/ ProviderBills(q) \/ LogRow(q)
      PROVE  UNCHANGED guard
  BY <1>5
  DEF RetrievalFails, BeginRefresh, ReadTotals, RefreshFails, CallProvider, ProviderBills, LogRow
<1>6. ASSUME NEW q \in Requests, ProviderFails(q) \/ AnswerLost(q) \/ CommitUnacknowledged(q)
      PROVE  \A r \in Replicas : Ages(r)
  <2>1. guard' = [guard EXCEPT ![Home[q]] = Released(guard[Home[q]], q)]
    BY <1>6 DEF ProviderFails, AnswerLost, CommitUnacknowledged, Fail
  <2>2. /\ Home[q] \in Replicas /\ SourceOf[q] \in Sources /\ guard[Home[q]] \in GuardType
        /\ amount[q] \in Nat
    BY <1>m, PopulationAssumption DEF TypeOK
  <2>3. SameAge(guard[Home[q]], guard'[Home[q]])
    BY <2>1, <2>2, OperationsKeepAge DEF Released, TypeOK
  <2>4. \A r \in Replicas : r # Home[q] => guard'[r] = guard[r]
    BY <2>1 DEF TypeOK
  <2> QED
    BY <2>2, <2>3, <2>4, SameAgeAges DEF Ages
<1>7. ASSUME NEW x \in Replicas, Expire(x) PROVE \A r \in Replicas : Ages(r)
  <2>1. \A r \in Replicas : guard[r] \in GuardType
    BY DEF TypeOK
  <2>2. \A r \in Replicas :
           guard'[r] = IF r = x THEN [guard[r] EXCEPT !.fresh = FALSE] ELSE guard[r]
    BY <1>7 DEF Expire, TypeOK
  <2> QED
    BY <2>1, <2>2 DEF Ages, GuardType
<1>8. ASSUME Midnight \/ UNCHANGED vars PROVE UNCHANGED guard
  BY <1>8 DEF Midnight, vars
<1> QED
  BY <1>1, <1>2, <1>3, <1>4, <1>5, <1>6, <1>7, <1>8 DEF Unmetered

LEMMA CacheAges ==
    ASSUME TypeOK, [Next]_vars, NEW r \in Replicas
    PROVE  \/ Ages(r)
           \/ \E q \in Requests : CompleteRefresh(q) /\ Home[q] = r
           \/ Restart(r)
<1>1. ASSUME NEW q \in Requests, CompleteRefresh(q), Home[q] # r PROVE Ages(r)
  BY <1>1, CompleteMoney DEF Ages
<1>2. ASSUME NEW q \in Requests, Settle(q) PROVE Ages(r)
  <2>1. /\ Home[q] \in Replicas /\ SourceOf[q] \in Sources /\ guard[Home[q]] \in GuardType
        /\ amount[q] \in Nat /\ cost[q] \in Nat
    BY PopulationAssumption, MoneyAssumption DEF TypeOK
  <2>2. SameAge(guard[Home[q]], guard'[Home[q]])
    BY <1>2, <2>1, SettleMoney, OperationsKeepAge DEF Settled
  <2> QED
    BY <1>2, <2>1, <2>2, SettleMoney, SameAgeAges DEF Ages
<1>3. ASSUME NEW x \in Replicas, Restart(x), x # r PROVE Ages(r)
  BY <1>3, RestartMoney DEF Ages
<1> QED
  BY <1>1, <1>2, <1>3, UnmeteredAges, NextCases

\* Who holds the lock keeps the instant it captured, or has just taken it.
LEMMA HolderKeepsInstant ==
    ASSUME TypeOK, HolderAsks, [Next]_vars, NEW r \in Replicas, holder'[r] # Nobody
    PROVE  \/ \E q \in Requests : BeginRefresh(q) /\ Home[q] = r /\ holder'[r] = q
           \/ holder'[r] = holder[r] /\ now'[holder[r]] = now[holder[r]]
<1> USE DEF clock, ledger, lock, request, history
<1>t. /\ holder \in [Replicas -> Requests \cup {Nobody}]
      /\ now \in [Requests -> Days]
      /\ holder[r] # Nobody => holder[r] \in Requests /\ stage[holder[r]] \in Asking
      /\ Home \in [Requests -> Replicas]
  BY PopulationAssumption DEF TypeOK, HolderAsks
<1>1. ASSUME NEW q \in Requests, Arrive(q) \/ Retrieved(q)
      PROVE  holder'[r] = holder[r] /\ now'[holder[r]] = now[holder[r]]
  <2>1. /\ holder' = holder /\ now' = [now EXCEPT ![q] = today]
        /\ stage[q] \notin Asking
    BY <1>1 DEF Arrive, Retrieved, Ask, Asking
  <2>2. holder[r] # Nobody
    BY <2>1
  <2>3. holder[r] # q /\ holder[r] \in Requests
    BY <1>t, <2>1, <2>2
  <2> QED
    BY <1>t, <2>1, <2>3
<1>2. ASSUME NEW q \in Requests, BeginRefresh(q)
      PROVE  \/ Home[q] = r /\ holder'[r] = q
             \/ holder'[r] = holder[r] /\ now' = now
  BY <1>2, <1>t DEF BeginRefresh
<1>3. ASSUME NEW q \in Requests, CompleteRefresh(q) \/ RefreshFails(q)
      PROVE  holder'[r] = holder[r] /\ now' = now
  <2>1. holder' = [holder EXCEPT ![Home[q]] = Nobody] /\ now' = now
    BY <1>3 DEF CompleteRefresh, RefreshFails
  <2> QED
    BY <1>t, <2>1
<1>4. ASSUME NEW x \in Replicas, Restart(x) PROVE holder'[r] = holder[r] /\ now' = now
  <2>1. holder' = [holder EXCEPT ![x] = Nobody] /\ now' = now
    BY <1>4 DEF Restart
  <2> QED
    BY <1>t, <2>1
<1>5. ASSUME NEW q \in Requests,
             \/ RetrievalFails(q) \/ FollowRefresh(q) \/ ReadTotals(q) \/ CallProvider(q)
             \/ ProviderBills(q) \/ LogRow(q) \/ Settle(q) \/ ProviderFails(q)
             \/ AnswerLost(q) \/ CommitUnacknowledged(q)
      PROVE  UNCHANGED <<holder, now>>
  BY <1>5 DEF RetrievalFails, FollowRefresh, ReadTotals, CallProvider, ProviderBills, LogRow,
              Settle, ProviderFails, AnswerLost, CommitUnacknowledged, Fail
<1>6. ASSUME NEW x \in Replicas, Expire(x) PROVE UNCHANGED <<holder, now>>
  BY <1>6 DEF Expire
<1>7. ASSUME Midnight \/ UNCHANGED vars PROVE UNCHANGED <<holder, now>>
  BY <1>7 DEF Midnight, vars
<1> QED
  BY <1>1, <1>2, <1>3, <1>4, <1>5, <1>6, <1>7 DEF Next, Progress, Failure, Quiescent

LEMMA StaleForHolderStep ==
    TypeOK /\ HolderAsks /\ StaleForHolder /\ [Next]_vars => StaleForHolder'
<1> SUFFICES ASSUME TypeOK, HolderAsks, StaleForHolder, [Next]_vars,
                    NEW r \in Replicas, holder'[r] # Nobody
             PROVE  Stale(guard'[r], now'[holder'[r]])
  BY DEF StaleForHolder
<1> USE DEF request
<1>1. ASSUME NEW q \in Requests, BeginRefresh(q), Home[q] = r, holder'[r] = q
      PROVE  Stale(guard'[r], now'[holder'[r]])
  BY <1>1 DEF BeginRefresh
<1>2. CASE holder'[r] = holder[r] /\ now'[holder[r]] = now[holder[r]]
  <2>1. Stale(guard[r], now[holder[r]])
    BY <1>2 DEF StaleForHolder
  <2>2. ~ \E q \in Requests : CompleteRefresh(q) /\ Home[q] = r
    BY DEF CompleteRefresh, TypeOK
  <2>3. ~Restart(r)
    BY DEF Restart, TypeOK
  <2>4. Ages(r)
    BY <2>2, <2>3, CacheAges
  <2> QED
    BY <1>2, <2>1, <2>4 DEF Ages, Stale
<1> QED
  BY <1>1, <1>2, HolderKeepsInstant

\* A refresh never replaces totals that are still current for the coroutine
\* that runs it, so the followers of a refresh issue no query of their own.
THEOREM OneRefreshPerWindow == Spec => OneQueryPerWindow
<1>1. Init => TypeOK /\ HolderAsks /\ StaleForHolder
  <2>1. Init => HolderAsks /\ StaleForHolder
    BY DEF Init, HolderAsks, StaleForHolder
  <2> QED
    BY <2>1, InitType
<1>2. TypeOK /\ HolderAsks /\ StaleForHolder /\ [Next]_vars
         => (TypeOK /\ HolderAsks /\ StaleForHolder)'
  BY TypeStep, HolderAsksStep, StaleForHolderStep
<1>3. StaleForHolder =>
         [\A r \in Replicas :
             holder[r] # Nobody /\ totals[r] # NoTotals /\ holder'[r] = Nobody /\ guard[r].fresh
                 => guard[r].cachedDay # now[holder[r]]]_vars
  BY DEF StaleForHolder, Stale
<1> QED
  BY <1>1, <1>2, <1>3, PTL DEF Spec, OneQueryPerWindow

(***************************************************************************)
(* A refusal for pressure points at a claim.                               *)
(***************************************************************************)

LEMMA TotalHasMember ==
    ASSUME NEW S \in SUBSET Requests, NEW f, Total(S, f) # 0,
           \A q \in S : f[q] \in Nat
    PROVE  \E q \in S : f[q] > 0
<1>1. Units(S, f) # {}
  BY FS_EmptySet DEF Total
<1>2. PICK u \in S \X (1..MaxAmount) : u[2] <= f[u[1]]
  BY <1>1 DEF Units
<1>3. u[1] \in S /\ u[2] \in Int /\ u[2] >= 1 /\ f[u[1]] \in Nat
  BY <1>2, MoneyAssumption
<1> QED
  BY <1>2, <1>3

\* Money that is left but claimed is claimed by somebody.
LEMMA PressureMeansClaims ==
    ASSUME NEW g \in GuardType, NEW d \in Days, Committed(g, d), ~Exhausted(g, d)
    PROVE  g.reserved # 0 \/ g.reservedMonthlyOnly # 0
<1> SUFFICES ASSUME g.reserved = 0, g.reservedMonthlyOnly = 0 PROVE FALSE
  OBVIOUS
<1>1. g.reserved + g.reservedMonthlyOnly = 0
  OBVIOUS
<1> QED
  BY <1>1 DEF Committed, Exhausted

\* What a coroutine that leaves _current with "pressure" has found.
LEMMA DecidePressure ==
    ASSUME TypeOK, ClaimsExact, NEW q \in Requests, NEW asked, NEW d \in Days, NEW a,
           NEW g \in GuardType,
           g.reserved = guard[Home[q]].reserved,
           g.reservedMonthlyOnly = guard[Home[q]].reservedMonthlyOnly,
           Decide(q, asked, d, a, g), stage'[q] = "pressure"
    PROVE  /\ ~Exhausted(guard'[Home[q]], d)
           /\ \E p \in Requests :
                 Home[p] = Home[q] /\ stage[p] \in Holding /\ amount[p] > 0
<1>r. Home[q] \in Replicas
  BY PopulationAssumption
<1>1. asked # "check"
  <2> SUFFICES ASSUME asked = "check" PROVE FALSE
    OBVIOUS
  <2>1. stage'[q] = Checked(g, d)
    BY DEF Decide, TypeOK
  <2> QED
    BY <2>1 DEF Checked
<1>2. stage'[q] = Admitted(g, d)
  BY <1>1 DEF Decide, TypeOK
<1>3. ~Exhausted(g, d) /\ Committed(g, d)
  BY <1>2 DEF Admitted
<1>4. guard'[Home[q]] = g
  BY <1>1, <1>2, <1>r DEF Decide, TypeOK
<1>5. \/ Total(HoldingAt(Home[q], "visitor"), amount) # 0
      \/ Total(HoldingAt(Home[q], "eval"), amount) # 0
  BY <1>3, <1>r, PressureMeansClaims DEF ClaimsExact
<1>6. PICK s \in Sources : Total(HoldingAt(Home[q], s), amount) # 0
  BY <1>5 DEF Sources
<1>7. \E p \in HoldingAt(Home[q], s) : amount[p] > 0
  <2>1. HoldingAt(Home[q], s) \in SUBSET Requests
    BY DEF HoldingAt
  <2>2. \A p \in Requests : amount[p] \in Nat
    BY MoneyAssumption DEF TypeOK
  <2> QED
    BY <1>6, <2>1, <2>2, TotalHasMember
<1> QED
  BY <1>3, <1>4, <1>7 DEF HoldingAt

LEMMA PressureStep ==
    ASSUME TypeOK, ClaimsExact, [Next]_vars, NEW q \in Requests,
           stage'[q] = "pressure", stage[q] # "pressure"
    PROVE  /\ ~Exhausted(guard'[Home[q]], now'[q])
           /\ \E p \in Requests :
                 Home[p] = Home[q] /\ stage[p] \in Holding /\ amount[p] > 0
<1> USE DEF clock, ledger, lock, request, history
<1> DEFINE Goal == /\ ~Exhausted(guard'[Home[q]], now'[q])
                   /\ \E p \in Requests :
                         Home[p] = Home[q] /\ stage[p] \in Holding /\ amount[p] > 0
<1>t. /\ guard[Home[q]] \in GuardType /\ today \in Days /\ now[q] \in Days
      /\ Home[q] \in Replicas
  BY PopulationAssumption DEF TypeOK
<1>a. ASSUME NEW p \in Requests, NEW asked \in Asking, NEW a, Ask(p, asked, a) PROVE Goal
  <2>1. CASE Enabled /\ Stale(guard[Home[p]], today)
    BY <1>a, <2>1 DEF Ask, TypeOK, Asking
  <2>2. CASE ~(Enabled /\ Stale(guard[Home[p]], today))
    <3>1. Decide(p, asked, today, a, guard[Home[p]]) /\ now' = [now EXCEPT ![p] = today]
      BY <1>a, <2>2 DEF Ask
    <3>2. p = q
      BY <3>1, DecideEffect DEF TypeOK
    <3>3. now'[q] = today
      BY <3>1, <3>2 DEF TypeOK
    <3> QED
      BY <1>t, <3>1, <3>2, <3>3, DecidePressure
  <2> QED
    BY <2>1, <2>2
<1>1. ASSUME NEW p \in Requests, Arrive(p) \/ Retrieved(p) PROVE Goal
  BY <1>1, <1>a DEF Arrive, Retrieved, Asking
<1>2. ASSUME NEW p \in Requests, FollowRefresh(p) PROVE Goal
  <2>1. Decide(p, stage[p], now[p], amount[p], guard[Home[p]]) /\ now' = now
    BY <1>2 DEF FollowRefresh
  <2>2. p = q
    BY <2>1, DecideEffect DEF TypeOK
  <2> QED
    BY <1>t, <2>1, <2>2, DecidePressure
<1>3. ASSUME NEW p \in Requests, CompleteRefresh(p) PROVE Goal
  <2> DEFINE g == Refreshed(guard[Home[p]], totals[Home[p]], now[p])
  <2>1. Decide(p, stage[p], now[p], amount[p], g) /\ now' = now /\ totals[Home[p]] # NoTotals
    BY <1>3 DEF CompleteRefresh
  <2>2. p = q
    BY <2>1, DecideEffect DEF TypeOK
  <2>3. totals[Home[q]] \in [day : Nat, month : Nat]
    BY <1>t, <2>1, <2>2 DEF TypeOK
  <2>4. g \in GuardType
    BY <1>t, <2>2, <2>3, GuardOperations, 0 \in Nat, "visitor" \in Sources DEF Sources
  <2>5. g.reserved = guard[Home[q]].reserved
        /\ g.reservedMonthlyOnly = guard[Home[q]].reservedMonthlyOnly
    BY <1>t, <2>2 DEF Refreshed, GuardType
  <2> HIDE DEF g
  <2> QED
    BY <1>t, <2>1, <2>2, <2>4, <2>5, DecidePressure
<1>4. ASSUME NEW p \in Requests,
             \/ RetrievalFails(p) \/ BeginRefresh(p) \/ ReadTotals(p) \/ RefreshFails(p)
             \/ CallProvider(p) \/ ProviderBills(p) \/ LogRow(p) \/ Settle(p)
             \/ ProviderFails(p) \/ AnswerLost(p) \/ CommitUnacknowledged(p)
      PROVE  FALSE
  <2>1. stage' = stage \/ \E v \in {"failed", "calling", "billed", "logged", "served"} :
                             stage' = [stage EXCEPT ![p] = v]
    BY <1>4 DEF RetrievalFails, BeginRefresh, ReadTotals, RefreshFails, CallProvider,
                ProviderBills, LogRow, Settle, ProviderFails, AnswerLost, CommitUnacknowledged,
                Fail
  <2> QED
    BY <2>1 DEF TypeOK
<1>5. ASSUME NEW x \in Replicas, Expire(x) \/ Restart(x) PROVE FALSE
  <2>1. stage'[q] = stage[q] \/ stage'[q] = "failed"
    BY <1>5 DEF Expire, Restart
  <2> QED
    BY <2>1
<1>6. ASSUME Midnight \/ UNCHANGED vars PROVE FALSE
  BY <1>6 DEF Midnight, vars
<1> QED
  BY <1>1, <1>2, <1>3, <1>4, <1>5, <1>6 DEF Next, Progress, Failure, Quiescent

\* A request turned away with "reset: shortly" leaves money that is not gone, and
\* somebody on its replica holds a claim on the rest.
THEOREM PressurePasses == Spec => PressureIsTransient
<1>1. Books => TypeOK /\ ClaimsExact
  BY DEF Books
<1>2. Books /\ [Next]_vars =>
         [\A q \in Requests :
             stage'[q] = "pressure" /\ stage[q] # "pressure" =>
                 /\ ~Exhausted(guard[Home[q]]', now'[q])
                 /\ \E p \in Requests :
                        Home[p] = Home[q] /\ stage[p] \in Holding /\ amount[p] > 0]_vars
  BY <1>1, PressureStep
<1> QED
  BY <1>2, BooksAlways, PTL DEF Spec, PressureIsTransient

(***************************************************************************)
(* The guard counts only real spend.                                       *)
(***************************************************************************)

AddedIsOwn(r) ==
    /\ guard[r].delta + LoggedTotal(r, "visitor") <= own[r]["visitor"][0]
    /\ guard[r].deltaMonthlyOnly + LoggedTotal(r, "eval") <= own[r]["eval"][0]

CachedIsSpent(r) ==
    guard[r].cachedDay # NoDay =>
        /\ guard[r].dayTotal <= spent["visitor"][guard[r].cachedDay]
        /\ guard[r].monthTotal <= spent["visitor"][MonthOf[guard[r].cachedDay]]
                                    + spent["eval"][MonthOf[guard[r].cachedDay]]

\* The same for a result that is on its way.
ReadIsSpent(r) ==
    totals[r] # NoTotals =>
        /\ holder[r] # Nobody
        /\ totals[r].day <= spent["visitor"][now[holder[r]]]
        /\ totals[r].month <= spent["visitor"][MonthOf[now[holder[r]]]]
                                + spent["eval"][MonthOf[now[holder[r]]]]

RealAt(r) == AddedIsOwn(r) /\ CachedIsSpent(r) /\ ReadIsSpent(r)

Real == TypeOK /\ HolderAsks /\ \A r \in Replicas : RealAt(r)

LEMMA RealIsReal == Real => SpendIsReal
BY DEF Real, RealAt, AddedIsOwn, CachedIsSpent, SpendIsReal, LoggedTotal

LEMMA RealInit == Init => Real
<1> SUFFICES ASSUME Init, NEW r \in Replicas PROVE RealAt(r)
  BY InitType DEF Real, Init, HolderAsks
<1>1. LoggedTotal(r, "visitor") = 0 /\ LoggedTotal(r, "eval") = 0
  <2>1. Logged(r, "visitor") = {} /\ Logged(r, "eval") = {}
    BY DEF Init, Logged, HoldingAt, Holding
  <2> QED
    BY <2>1, TotalEmpty DEF LoggedTotal
<1>2. guard[r].delta = 0 /\ guard[r].deltaMonthlyOnly = 0 /\ guard[r].cachedDay = NoDay
  BY DEF Init, NewGuard
<1>3. own[r]["visitor"][0] = 0 /\ own[r]["eval"][0] = 0
  BY CalendarAssumption DEF Init, Sources, Days
<1>4. totals[r] = NoTotals
  BY DEF Init
<1> QED
  BY <1>1, <1>2, <1>3, <1>4 DEF RealAt, AddedIsOwn, CachedIsSpent, ReadIsSpent

\* No row is ever taken back.
LEMMA RowsStay ==
    ASSUME TypeOK, [Next]_vars
    PROVE  \A s \in Sources, d \in Days :
              /\ spent[s][d] <= spent'[s][d]
              /\ \A r \in Replicas : own[r][s][d] <= own'[r][s][d]
<1> SUFFICES ASSUME NEW s \in Sources, NEW d \in Days
             PROVE  /\ spent[s][d] <= spent'[s][d]
                    /\ \A r \in Replicas : own[r][s][d] <= own'[r][s][d]
  OBVIOUS
<1>1. spent[s][d] \in Nat /\ \A r \in Replicas : own[r][s][d] \in Nat
  BY DEF TypeOK
<1>2. CASE UNCHANGED <<spent, own>>
  BY <1>1, <1>2
<1>3. ASSUME NEW q \in Requests, Insert(q)
      PROVE  /\ spent[s][d] <= spent'[s][d]
             /\ \A r \in Replicas : own[r][s][d] <= own'[r][s][d]
  <2>1. cost[q] \in Nat
    BY MoneyAssumption DEF TypeOK
  <2>2. spent'[s][d] = spent[s][d] + Part(SourceOf[q] = s /\ d <= requestedAt[q], cost[q])
    BY <1>3, InsertEffect, PopulationAssumption
  <2>3. ASSUME NEW r \in Replicas PROVE own[r][s][d] <= own'[r][s][d]
    <3>1. own'[r][s][d] = own[r][s][d] + Part(Mine(q, r, s) /\ d <= requestedAt[q], cost[q])
      BY <1>3, InsertEffect
    <3> QED
      BY <1>1, <2>1, <3>1 DEF Part
  <2> QED
    BY <1>1, <2>1, <2>2, <2>3 DEF Part
<1> QED
  BY <1>2, <1>3, LedgerCases

\* Only a row that commits, a settlement and a restart change what is logged.
LEMMA LoggedCases ==
    ASSUME TypeOK, TypeOK', HolderAsks, [Next]_vars
    PROVE  \/ \A r, s : LoggedTotal(r, s)' = LoggedTotal(r, s)
           \/ \E q \in Requests : LogRow(q) \/ Settle(q)
           \/ \E x \in Replicas : Restart(x)
<1> USE DEF clock, ledger, lock, request, history
<1> DEFINE Goal == \A r, s : LoggedTotal(r, s)' = LoggedTotal(r, s)
<1>b. ASSUME NEW q \in Requests, NEW v, stage' = [stage EXCEPT ![q] = v],
             stage[q] # "logged", v # "logged", UNCHANGED amount,
             cost' = [cost EXCEPT ![q] = cost'[q]]
      PROVE  Goal
  <2>1. Moves(q, v)
    BY <1>b, QuietMove
  <2> HIDE DEF Goal
  <2> QED
    BY <1>b, <2>1, LoggedStays DEF Goal
<1>1. ASSUME NEW q \in Requests, NEW asked \in Asking, NEW a, Ask(q, asked, a),
             stage[q] \notin Asking \cup Holding
      PROVE  Goal
  <2>1. Moves(q, stage'[q]) /\ stage[q] # "logged" /\ stage'[q] # "logged"
    BY <1>1, AskEffect DEF Holding
  <2> QED
    BY <2>1, LoggedStays
<1>2. ASSUME NEW q \in Requests, Arrive(q) \/ Retrieved(q) PROVE Goal
  BY <1>1, <1>2 DEF Arrive, Retrieved, Asking, Holding
<1>3. ASSUME NEW q \in Requests, FollowRefresh(q) \/ CompleteRefresh(q) PROVE Goal
  <2>1. stage[q] \in Asking
    BY <1>3, PopulationAssumption DEF FollowRefresh, CompleteRefresh, HolderAsks
  <2>2. /\ stage' = [stage EXCEPT ![q] = stage'[q]] /\ stage'[q] # "logged" /\ stage[q] # "logged"
    BY <1>3, <2>1, DecideEffect DEF FollowRefresh, CompleteRefresh, Asking
  <2>3. UNCHANGED amount /\ cost' = [cost EXCEPT ![q] = cost'[q]]
    BY <1>3 DEF FollowRefresh, CompleteRefresh, TypeOK
  <2> QED
    BY <1>b, <2>2, <2>3
<1>4. ASSUME NEW q \in Requests, RefreshFails(q) PROVE Goal
  <2>1. stage[q] \in Asking
    BY <1>4, PopulationAssumption DEF RefreshFails, HolderAsks
  <2>2. UNCHANGED amount /\ cost' = [cost EXCEPT ![q] = cost'[q]]
    BY <1>4 DEF RefreshFails, TypeOK
  <2> QED
    BY <1>4, <1>b, <2>1, <2>2 DEF RefreshFails, Asking
<1>5. ASSUME NEW q \in Requests,
             \/ RetrievalFails(q) \/ CallProvider(q) \/ ProviderBills(q) \/ ProviderFails(q)
             \/ AnswerLost(q) \/ CommitUnacknowledged(q)
      PROVE  Goal
  <2>1. /\ \E v \in {"failed", "calling", "billed"} : stage' = [stage EXCEPT ![q] = v]
        /\ stage[q] # "logged"
        /\ UNCHANGED amount
    BY <1>5 DEF RetrievalFails, CallProvider, ProviderBills, ProviderFails, AnswerLost,
                CommitUnacknowledged, Fail
  <2>2. cost' = [cost EXCEPT ![q] = cost'[q]]
    <3>1. cost' = cost \/ \E c : cost' = [cost EXCEPT ![q] = c]
      BY <1>5 DEF RetrievalFails, CallProvider, ProviderBills, ProviderFails, AnswerLost,
                  CommitUnacknowledged, Fail
    <3> QED
      BY <3>1 DEF TypeOK
  <2>3. PICK v \in {"failed", "calling", "billed"} : stage' = [stage EXCEPT ![q] = v]
    BY <2>1
  <2>4. v # "logged"
    OBVIOUS
  <2> HIDE DEF Goal
  <2> QED
    BY <1>b, <2>1, <2>2, <2>3, <2>4
<1>6. ASSUME UNCHANGED <<stage, cost>> PROVE Goal
  BY <1>6, LoggedSame
<1>7. ASSUME NEW q \in Requests, BeginRefresh(q) \/ ReadTotals(q)
      PROVE  UNCHANGED <<stage, cost>>
  BY <1>7 DEF BeginRefresh, ReadTotals
<1>8. ASSUME NEW x \in Replicas, Expire(x) PROVE UNCHANGED <<stage, cost>>
  BY <1>8 DEF Expire
<1>9. ASSUME Midnight \/ UNCHANGED vars PROVE UNCHANGED <<stage, cost>>
  BY <1>9 DEF Midnight, vars
<1> HIDE DEF Goal
<1>10. \/ Goal \/ (\E q \in Requests : LogRow(q) \/ Settle(q)) \/ \E x \in Replicas : Restart(x)
  BY <1>2, <1>3, <1>4, <1>5, <1>6, <1>7, <1>8, <1>9 DEF Next, Progress, Failure, Quiescent
<1> QED
  BY <1>10 DEF Goal

LEMMA AddedIsOwnStep ==
    ASSUME TypeOK, HolderAsks, [Next]_vars, NEW r \in Replicas, AddedIsOwn(r)
    PROVE  AddedIsOwn(r)'
<1> USE DEF clock, ledger, lock, request, history
<1>t. TypeOK' /\ 0 \in Days /\ "visitor" \in Sources /\ "eval" \in Sources
  BY TypeStep, CalendarAssumption DEF Days, Sources
<1>n. /\ LoggedTotal(r, "visitor") \in Nat /\ LoggedTotal(r, "eval") \in Nat
      /\ LoggedTotal(r, "visitor")' \in Nat /\ LoggedTotal(r, "eval")' \in Nat
      /\ own[r]["visitor"][0] \in Nat /\ own[r]["eval"][0] \in Nat
      /\ own'[r]["visitor"][0] \in Nat /\ own'[r]["eval"][0] \in Nat
      /\ guard[r].delta \in Nat /\ guard[r].deltaMonthlyOnly \in Nat
      /\ guard'[r].delta \in Nat /\ guard'[r].deltaMonthlyOnly \in Nat
      /\ guard[r] \in GuardType
  BY <1>t, AmountsAreNumbers, AmountsAreNumbersNext DEF TypeOK
<1>g. own[r]["visitor"][0] <= own'[r]["visitor"][0] /\ own[r]["eval"][0] <= own'[r]["eval"][0]
  BY <1>t, RowsStay
<1>a. ASSUME guard'[r].delta <= guard[r].delta,
             guard'[r].deltaMonthlyOnly <= guard[r].deltaMonthlyOnly,
             LoggedTotal(r, "visitor")' <= LoggedTotal(r, "visitor"),
             LoggedTotal(r, "eval")' <= LoggedTotal(r, "eval")
      PROVE  AddedIsOwn(r)'
  BY <1>a, <1>n, <1>g DEF AddedIsOwn
<1>1. ASSUME NEW q \in Requests, LogRow(q) PROVE AddedIsOwn(r)'
  <2> DEFINE x == Part(Mine(q, r, "visitor"), cost[q])
             y == Part(Mine(q, r, "eval"), cost[q])
  <2>1. cost[q] \in Nat /\ x \in Nat /\ y \in Nat
    BY AmountsAreNumbers DEF Part
  <2>2. guard' = guard
    BY <1>1 DEF LogRow
  <2>3. Moves(q, "logged") /\ stage[q] # "logged" /\ UNCHANGED cost
    BY <1>1 DEF LogRow, Moves, Holding
  <2>4. ASSUME NEW s \in Sources
        PROVE  LoggedTotal(r, s)' = LoggedTotal(r, s) + Part(Mine(q, r, s), cost[q])
    <3>1. LoggedTotal(r, s)' = LoggedTotal(r, s)
               - Part(Mine(q, r, s) /\ stage[q] = "logged", cost[q])
               + Part(Mine(q, r, s) /\ "logged" = "logged", cost'[q])
      BY <1>t, <2>3, SumsMove
    <3>2. LoggedTotal(r, s) \in Int
      BY AmountsAreNumbers
    <3> QED
      BY <2>3, <3>1, <3>2 DEF Part
  <2>5. ASSUME NEW s \in Sources
        PROVE  own'[r][s][0] = own[r][s][0] + Part(Mine(q, r, s), cost[q])
    <3>1. own'[r][s][0] = own[r][s][0] + Part(Mine(q, r, s) /\ 0 <= requestedAt[q], cost[q])
      BY <1>1, <1>t, InsertEffect DEF LogRow
    <3>2. requestedAt[q] \in Days
      BY DEF TypeOK
    <3>3. 0 <= requestedAt[q]
      BY <3>2, CalendarAssumption DEF Days
    <3>4. (Mine(q, r, s) /\ 0 <= requestedAt[q]) <=> Mine(q, r, s)
      BY <3>3
    <3> QED
      BY <3>1, <3>4 DEF Part
  <2>6. /\ LoggedTotal(r, "visitor")' = LoggedTotal(r, "visitor") + x
        /\ LoggedTotal(r, "eval")' = LoggedTotal(r, "eval") + y
        /\ own'[r]["visitor"][0] = own[r]["visitor"][0] + x
        /\ own'[r]["eval"][0] = own[r]["eval"][0] + y
    BY <1>t, <2>4, <2>5
  <2> HIDE DEF x, y
  <2> QED
    BY <1>n, <2>1, <2>2, <2>6 DEF AddedIsOwn
<1>2. ASSUME NEW q \in Requests, Settle(q) PROVE AddedIsOwn(r)'
  <2> DEFINE x == Part(Mine(q, r, "visitor"), cost[q])
             y == Part(Mine(q, r, "eval"), cost[q])
  <2>1. cost[q] \in Nat /\ x \in Nat /\ y \in Nat
    BY AmountsAreNumbers DEF Part
  <2>2. Moves(q, "served") /\ stage[q] = "logged"
    BY <1>2 DEF Settle, Moves
  <2>3. ASSUME NEW s \in Sources
        PROVE  LoggedTotal(r, s)' = LoggedTotal(r, s) - Part(Mine(q, r, s), cost[q])
    <3>1. LoggedTotal(r, s)' = LoggedTotal(r, s)
               - Part(Mine(q, r, s) /\ stage[q] = "logged", cost[q])
               + Part(Mine(q, r, s) /\ "served" = "logged", cost'[q])
      BY <1>t, <2>2, SumsMove
    <3>2. LoggedTotal(r, s) \in Int
      BY AmountsAreNumbers
    <3> QED
      BY <2>1, <2>2, <3>1, <3>2 DEF Part
  <2>4. /\ LoggedTotal(r, "visitor")' = LoggedTotal(r, "visitor") - x
        /\ LoggedTotal(r, "eval")' = LoggedTotal(r, "eval") - y
    BY <1>t, <2>3
  <2>5. guard'[r].delta = guard[r].delta + x
        /\ guard'[r].deltaMonthlyOnly = guard[r].deltaMonthlyOnly + y
    <3>1. CASE r = Home[q]
      <4>1. guard'[r] = Settled(guard[r], q)
        BY <1>2, <3>1, SettleMoney
      <4> QED
        BY <1>n, <2>1, <3>1, <4>1, SettledMoney DEF Mine
    <3>2. CASE r # Home[q]
      BY <1>2, <1>n, <3>2, SettleMoney DEF Mine, Part
    <3> QED
      BY <3>1, <3>2
  <2>6. own' = own
    BY <1>2 DEF Settle
  <2> HIDE DEF x, y
  <2> QED
    BY <1>n, <2>1, <2>4, <2>5, <2>6 DEF AddedIsOwn
<1>3. ASSUME NEW x \in Replicas, Restart(x) PROVE AddedIsOwn(r)'
  <2>1. /\ UNCHANGED cost
        /\ \A q \in Requests : stage'[q] = IF Home[q] = x /\ stage[q] \notin {"idle"} \cup Ended
                                           THEN "failed" ELSE stage[q]
    BY <1>3 DEF Restart
  <2>2. ASSUME NEW s PROVE LoggedTotal(r, s)' = 0 \/ LoggedTotal(r, s)' = LoggedTotal(r, s)
    <3>1. CASE r = x
      <4>1. Logged(r, s)' = {}
        BY <2>1, <3>1 DEF Logged, HoldingAt, Ended
      <4> QED
        BY <4>1, TotalEmpty DEF LoggedTotal
    <3>2. CASE r # x
      <4>1. Logged(r, s)' = Logged(r, s)
        BY <2>1, <3>2 DEF Logged, HoldingAt
      <4> QED
        BY <2>1, <4>1 DEF LoggedTotal
    <3> QED
      BY <3>1, <3>2
  <2>3. guard'[r] = guard[r] \/ (guard'[r].delta = 0 /\ guard'[r].deltaMonthlyOnly = 0)
    BY <1>3 DEF Restart, TypeOK, NewGuard
  <2>4. guard'[r].delta <= guard[r].delta /\ guard'[r].deltaMonthlyOnly <= guard[r].deltaMonthlyOnly
    BY <1>n, <2>3
  <2>5. /\ LoggedTotal(r, "visitor")' <= LoggedTotal(r, "visitor")
        /\ LoggedTotal(r, "eval")' <= LoggedTotal(r, "eval")
    BY <1>n, <2>2
  <2> QED
    BY <1>a, <2>4, <2>5
<1>4. ASSUME \A s : LoggedTotal(r, s)' = LoggedTotal(r, s),
             \/ Unmetered
             \/ \E q \in Requests : CompleteRefresh(q)
      PROVE  AddedIsOwn(r)'
  <2>1. guard'[r].delta <= guard[r].delta /\ guard'[r].deltaMonthlyOnly <= guard[r].deltaMonthlyOnly
    <3>1. CASE Unmetered
      BY <1>n, <3>1, UnmeteredMoney DEF SameMoney
    <3>2. ASSUME NEW q \in Requests, CompleteRefresh(q)
          PROVE  /\ guard'[r].delta <= guard[r].delta
                 /\ guard'[r].deltaMonthlyOnly <= guard[r].deltaMonthlyOnly
      BY <1>n, <3>2, CompleteMoney
    <3> QED
      BY <1>4, <3>1, <3>2
  <2>2. /\ LoggedTotal(r, "visitor")' <= LoggedTotal(r, "visitor")
        /\ LoggedTotal(r, "eval")' <= LoggedTotal(r, "eval")
    BY <1>4, <1>n
  <2> QED
    BY <1>a, <2>1, <2>2
<1> QED
  BY <1>t, <1>1, <1>2, <1>3, <1>4, LoggedCases, NextCases

LEMMA CachedIsSpentStep ==
    ASSUME TypeOK, [Next]_vars, NEW r \in Replicas, CachedIsSpent(r), ReadIsSpent(r)
    PROVE  CachedIsSpent(r)'
<1> USE DEF ledger
<1>t. /\ TypeOK'
      /\ \A d \in Days : MonthOf[d] \in Days
      /\ "visitor" \in Sources /\ "eval" \in Sources
      /\ guard'[r].cachedDay \in Days \cup {NoDay}
      /\ guard'[r].dayTotal \in Nat /\ guard'[r].monthTotal \in Nat
      /\ \A s \in Sources, d \in Days : spent[s][d] \in Nat /\ spent'[s][d] \in Nat
  <2>1. TypeOK'
    BY TypeStep
  <2> QED
    BY <2>1, AmountsAreNumbersNext, CalendarAssumption DEF TypeOK, Sources
<1> SUFFICES ASSUME guard'[r].cachedDay # NoDay
             PROVE  LET d == guard'[r].cachedDay
                    IN  /\ guard'[r].dayTotal <= spent'["visitor"][d]
                        /\ guard'[r].monthTotal
                              <= spent'["visitor"][MonthOf[d]] + spent'["eval"][MonthOf[d]]
  BY DEF CachedIsSpent
<1> DEFINE d == guard'[r].cachedDay
           e == MonthOf[d]
<1>d. d \in Days /\ e \in Days
  BY <1>t
<1>g. /\ spent["visitor"][d] <= spent'["visitor"][d]
      /\ spent["visitor"][e] <= spent'["visitor"][e]
      /\ spent["eval"][e] <= spent'["eval"][e]
      /\ spent["visitor"][d] \in Nat /\ spent'["visitor"][d] \in Nat
      /\ spent["visitor"][e] \in Nat /\ spent'["visitor"][e] \in Nat
      /\ spent["eval"][e] \in Nat /\ spent'["eval"][e] \in Nat
  BY <1>t, <1>d, RowsStay
<1>1. ASSUME guard'[r].dayTotal <= spent["visitor"][d],
             guard'[r].monthTotal <= spent["visitor"][e] + spent["eval"][e]
      PROVE  /\ guard'[r].dayTotal <= spent'["visitor"][d]
             /\ guard'[r].monthTotal <= spent'["visitor"][e] + spent'["eval"][e]
  <2> HIDE DEF d, e
  <2> QED
    BY <1>1, <1>g, <1>t
<1>2. ASSUME guard'[r].cachedDay = guard[r].cachedDay,
             guard'[r].dayTotal = guard[r].dayTotal, guard'[r].monthTotal = guard[r].monthTotal
      PROVE  /\ guard'[r].dayTotal <= spent["visitor"][d]
             /\ guard'[r].monthTotal <= spent["visitor"][e] + spent["eval"][e]
  BY <1>2 DEF CachedIsSpent
<1>3. ASSUME NEW q \in Requests, CompleteRefresh(q), Home[q] = r
      PROVE  /\ guard'[r].dayTotal <= spent["visitor"][d]
             /\ guard'[r].monthTotal <= spent["visitor"][e] + spent["eval"][e]
  <2>1. /\ guard'[r].dayTotal = totals[r].day /\ guard'[r].monthTotal = totals[r].month
        /\ guard'[r].cachedDay = now[q] /\ holder[r] = q /\ totals[r] # NoTotals
    BY <1>3, CompleteMoney DEF CompleteRefresh
  <2> QED
    BY <2>1 DEF ReadIsSpent
<1>4. ASSUME NEW q \in Requests, CompleteRefresh(q), Home[q] # r
      PROVE  guard'[r] = guard[r]
  BY <1>4, CompleteMoney
<1>5. ASSUME NEW q \in Requests, Settle(q)
      PROVE  /\ guard'[r].cachedDay = guard[r].cachedDay
             /\ guard'[r].dayTotal = guard[r].dayTotal
             /\ guard'[r].monthTotal = guard[r].monthTotal
  <2>1. cost[q] \in Nat /\ guard[r] \in GuardType
    BY MoneyAssumption DEF TypeOK
  <2> QED
    BY <1>5, <2>1, SettleMoney, SettledMoney
<1>6. ASSUME Unmetered
      PROVE  /\ guard'[r].cachedDay = guard[r].cachedDay
             /\ guard'[r].dayTotal = guard[r].dayTotal
             /\ guard'[r].monthTotal = guard[r].monthTotal
  BY <1>6, UnmeteredMoney DEF SameMoney
<1>7. ASSUME NEW x \in Replicas, Restart(x) PROVE guard'[r] = guard[r]
  BY <1>7, RestartMoney
<1> HIDE DEF d, e
<1>8. /\ guard'[r].dayTotal <= spent["visitor"][d]
      /\ guard'[r].monthTotal <= spent["visitor"][e] + spent["eval"][e]
  BY <1>2, <1>3, <1>4, <1>5, <1>6, <1>7, NextCases
<1> QED
  BY <1>1, <1>8 DEF d, e

\* Only a SELECT that is evaluated puts a result on its way, and the lock stays
\* with whoever waits for it.
LEMMA ResultCases ==
    ASSUME TypeOK, HolderAsks, [Next]_vars, NEW r \in Replicas, totals'[r] # NoTotals
    PROVE  \/ \E q \in Requests : ReadTotals(q) /\ Home[q] = r
           \/ /\ totals'[r] = totals[r]
              /\ holder[r] # Nobody => holder'[r] = holder[r] /\ now'[holder[r]] = now[holder[r]]
<1> USE DEF clock, ledger, lock, request, history
<1> DEFINE Kept == /\ totals'[r] = totals[r]
                   /\ holder[r] # Nobody =>
                        holder'[r] = holder[r] /\ now'[holder[r]] = now[holder[r]]
<1>t. /\ holder \in [Replicas -> Requests \cup {Nobody}]
      /\ DOMAIN totals = Replicas
      /\ now \in [Requests -> Days]
      /\ holder[r] # Nobody => holder[r] \in Requests /\ stage[holder[r]] \in Asking
  BY DEF TypeOK, HolderAsks
<1>1. ASSUME NEW q \in Requests, Arrive(q) \/ Retrieved(q) PROVE Kept
  <2>1. /\ UNCHANGED <<totals, holder>> /\ now' = [now EXCEPT ![q] = today]
        /\ stage[q] \notin Asking
    BY <1>1 DEF Arrive, Retrieved, Ask, Asking
  <2> QED
    BY <1>t, <2>1
<1>2. ASSUME NEW q \in Requests, BeginRefresh(q) PROVE Kept
  <2>1. UNCHANGED <<totals, now>> /\ holder[Home[q]] = Nobody
        /\ holder' = [holder EXCEPT ![Home[q]] = q]
    BY <1>2 DEF BeginRefresh
  <2> QED
    BY <1>t, <2>1
<1>3. ASSUME NEW q \in Requests, ReadTotals(q), Home[q] # r PROVE Kept
  BY <1>3, <1>t DEF ReadTotals
<1>4. ASSUME NEW q \in Requests, CompleteRefresh(q) \/ RefreshFails(q) PROVE Kept
  <2>1. /\ holder' = [holder EXCEPT ![Home[q]] = Nobody] /\ now' = now
        /\ totals' = [totals EXCEPT ![Home[q]] = NoTotals]
    BY <1>4 DEF CompleteRefresh, RefreshFails
  <2> QED
    BY <1>t, <2>1
<1>5. ASSUME NEW x \in Replicas, Restart(x) PROVE Kept
  <2>1. /\ holder' = [holder EXCEPT ![x] = Nobody] /\ now' = now
        /\ totals' = [totals EXCEPT ![x] = NoTotals]
    BY <1>5 DEF Restart
  <2> QED
    BY <1>t, <2>1
<1>6. ASSUME NEW q \in Requests,
             \/ RetrievalFails(q) \/ FollowRefresh(q) \/ CallProvider(q)
             \/ ProviderBills(q) \/ LogRow(q) \/ Settle(q) \/ ProviderFails(q)
             \/ AnswerLost(q) \/ CommitUnacknowledged(q)
      PROVE  Kept
  BY <1>6 DEF RetrievalFails, FollowRefresh, CallProvider, ProviderBills, LogRow,
              Settle, ProviderFails, AnswerLost, CommitUnacknowledged, Fail
<1>7. ASSUME NEW x \in Replicas, Expire(x) PROVE Kept
  BY <1>7 DEF Expire
<1>8. ASSUME Midnight \/ UNCHANGED vars PROVE Kept
  BY <1>8 DEF Midnight, vars
<1> HIDE DEF Kept
<1>9. Kept \/ \E q \in Requests : ReadTotals(q) /\ Home[q] = r
  BY <1>1, <1>2, <1>3, <1>4, <1>5, <1>6, <1>7, <1>8 DEF Next, Progress, Failure, Quiescent
<1> QED
  BY <1>9 DEF Kept

LEMMA ReadIsSpentStep ==
    ASSUME TypeOK, HolderAsks, [Next]_vars, NEW r \in Replicas, ReadIsSpent(r)
    PROVE  ReadIsSpent(r)'
<1> USE DEF ledger, request
<1> SUFFICES ASSUME totals'[r] # NoTotals
             PROVE  LET d == now'[holder'[r]]
                    IN  /\ holder'[r] # Nobody
                        /\ totals'[r].day <= spent'["visitor"][d]
                        /\ totals'[r].month
                              <= spent'["visitor"][MonthOf[d]] + spent'["eval"][MonthOf[d]]
  BY DEF ReadIsSpent
<1>t. /\ \A d \in Days : MonthOf[d] \in Days
      /\ "visitor" \in Sources /\ "eval" \in Sources
      /\ \A s \in Sources, d \in Days : spent[s][d] \in Nat
      /\ totals[r] # NoTotals => totals[r] \in [day : Nat, month : Nat]
  BY CalendarAssumption DEF TypeOK, Sources
<1>s. \A s \in Sources, d \in Days : spent'[s][d] \in Nat
  BY TypeStep DEF TypeOK
<1>1. ASSUME NEW q \in Requests, ReadTotals(q), Home[q] = r
      PROVE  /\ holder'[r] = q /\ q # Nobody /\ now' = now /\ spent' = spent
             /\ totals'[r].day = spent["visitor"][now[q]]
             /\ totals'[r].month = spent["visitor"][MonthOf[now[q]]]
                                     + spent["eval"][MonthOf[now[q]]]
  BY <1>1, PopulationAssumption DEF ReadTotals, TypeOK
<1>2. CASE \E q \in Requests : ReadTotals(q) /\ Home[q] = r
  <2>1. PICK q \in Requests : ReadTotals(q) /\ Home[q] = r
    BY <1>2
  <2> DEFINE d == now[q]
             e == MonthOf[d]
  <2>2. d \in Days /\ e \in Days
    BY <1>t DEF TypeOK
  <2>3. spent["visitor"][d] \in Int /\ spent["visitor"][e] \in Int /\ spent["eval"][e] \in Int
    BY <1>t, <2>2
  <2>4. /\ holder'[r] # Nobody /\ now'[holder'[r]] = d /\ spent' = spent
        /\ totals'[r].day = spent["visitor"][d]
        /\ totals'[r].month = spent["visitor"][e] + spent["eval"][e]
    BY <1>1, <2>1
  <2> HIDE DEF d
  <2> QED
    BY <2>3, <2>4
<1>3. CASE /\ totals'[r] = totals[r]
           /\ holder[r] # Nobody => holder'[r] = holder[r] /\ now'[holder[r]] = now[holder[r]]
  <2> DEFINE d == now[holder[r]]
             e == MonthOf[d]
  <2>1. /\ holder[r] # Nobody /\ holder'[r] = holder[r] /\ now'[holder'[r]] = d
        /\ totals'[r] = totals[r]
        /\ totals[r].day <= spent["visitor"][d]
        /\ totals[r].month <= spent["visitor"][e] + spent["eval"][e]
    BY <1>3 DEF ReadIsSpent
  <2>2. d \in Days /\ e \in Days
    BY <1>t, <2>1 DEF TypeOK
  <2>3. /\ spent["visitor"][d] <= spent'["visitor"][d]
        /\ spent["visitor"][e] <= spent'["visitor"][e]
        /\ spent["eval"][e] <= spent'["eval"][e]
    BY <1>t, <2>2, RowsStay
  <2>4. /\ spent["visitor"][d] \in Int /\ spent'["visitor"][d] \in Int
        /\ spent["visitor"][e] \in Int /\ spent'["visitor"][e] \in Int
        /\ spent["eval"][e] \in Int /\ spent'["eval"][e] \in Int
        /\ totals[r].day \in Int /\ totals[r].month \in Int
    BY <1>3, <1>t, <1>s, <2>2
  <2> HIDE DEF d
  <2> QED
    BY <2>1, <2>3, <2>4
<1> QED
  BY <1>2, <1>3, ResultCases

LEMMA RealStep == Real /\ [Next]_vars => Real'
<1> SUFFICES ASSUME Real, [Next]_vars PROVE Real'
  OBVIOUS
<1>1. TypeOK /\ HolderAsks
  BY DEF Real
<1>2. TypeOK' /\ HolderAsks'
  BY <1>1, TypeStep, HolderAsksStep
<1>3. ASSUME NEW r \in Replicas PROVE RealAt(r)'
  <2>1. AddedIsOwn(r) /\ CachedIsSpent(r) /\ ReadIsSpent(r)
    BY DEF Real, RealAt
  <2> QED
    BY <1>1, <2>1, AddedIsOwnStep, CachedIsSpentStep, ReadIsSpentStep DEF RealAt
<1> QED
  BY <1>2, <1>3 DEF Real

\* A guard counts only money that was spent: what it adds to the cached totals is
\* covered, source by source, by rows its replica wrote, and the cached totals by
\* the query_log rows of their windows.
THEOREM OnlyRealSpendCounts == Spec => []SpendIsReal
BY RealInit, RealStep, RealIsReal, PTL DEF Spec
================================================================================
