--------------------------- MODULE MCRequestOutcome ---------------------------
(***************************************************************************)
(* Environments for RequestOutcome: a working one, and every one that      *)
(* differs from it in keys, switches, budgets or what create_app is given. *)
(***************************************************************************)
EXTENDS RequestOutcome, TLC

Symmetry == Permutations(Requests)

Base == [anonymous |-> "", unlimited |-> "", readKey |-> "r", adminKey |-> "a",
         monthly |-> 100, daily |-> None, database |-> "db", providerKeys |-> TRUE,
         provided |-> FALSE, factory |-> FALSE]

Keys == {[Base EXCEPT !.anonymous = f, !.readKey = k, !.adminKey = a] :
            f \in {"", "1", "off", "maybe"}, k \in {"", "r"}, a \in {"", "a"}}

Budgets == {[Base EXCEPT !.unlimited = f, !.monthly = m, !.daily = d] :
               f \in {"", "1", "off"}, m \in {None, 0, 100, Unreadable}, d \in {None, 0, 5, 200}}

Given == {[Base EXCEPT !.database = u, !.providerKeys = k, !.provided = p, !.factory = s,
                       !.monthly = m, !.unlimited = IF m = None THEN "1" ELSE ""] :
             u \in {"", "db"}, k \in BOOLEAN, p \in BOOLEAN, s \in BOOLEAN, m \in {None, 100}}

AllEnvironments == Keys \cup Budgets \cup Given
=============================================================================
