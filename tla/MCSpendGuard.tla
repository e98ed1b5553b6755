---------------------------- MODULE MCSpendGuard ----------------------------
(***************************************************************************)
(* Instances of SpendGuard for TLC.                                        *)
(***************************************************************************)
EXTENDS SpendGuard, TLC

CONSTANTS r1, r2, q1, q2, q3

\* Every request on the first replica, or the last one on a second replica.
OneHome  == [q \in Requests |-> r1]
TwoHomes == [q \in Requests |-> IF q = q3 THEN r2 ELSE r1]

\* Visitors only, or an evaluation beside them on the first replica.
AllVisitor == [q \in Requests |-> "visitor"]
OneEval    == [q \in Requests |-> IF q = q1 THEN "eval" ELSE "visitor"]

\* Two days of one month of two days.
SameMonth == [d \in Days |-> 0]
TwoDays   == [d \in Days |-> 2]

\* Visitors of one replica are interchangeable.
Visitors == Permutations({q \in Requests : SourceOf[q] = "visitor"})
=============================================================================
