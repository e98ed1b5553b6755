------------------------------ MODULE BoundedUse ------------------------------
(***************************************************************************)
(* What a pool, a semaphore or a lock promises: a set of uses that is      *)
(* never larger than its capacity, into which a use comes one at a time    *)
(* and out of which it goes when it is over.                               *)
(***************************************************************************)
EXTENDS Naturals, FiniteSets

CONSTANTS
    Uses,      \* everything that may ever be in use
    Capacity

VARIABLE inUse

Init == inUse = {}

Acquire ==
    \E u \in Uses \ inUse :
        /\ Cardinality(inUse) < Capacity
        /\ inUse' = inUse \cup {u}

Release == \E over \in SUBSET inUse : inUse' = inUse \ over

Next == Acquire \/ Release

Spec == Init /\ [][Next]_inUse
=============================================================================
