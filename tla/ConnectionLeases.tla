-------------------------- MODULE ConnectionLeases --------------------------
(***************************************************************************)
(* What PostgresDb promises its callers: at most MaxPool of them hold a    *)
(* database connection at the same time.  How a caller waits, and which    *)
(* connection it gets, is not part of the promise.                         *)
(***************************************************************************)
EXTENDS Integers, FiniteSets

CONSTANTS Threads, MaxPool

VARIABLE holders   \* the threads that hold a connection

Lease(t) ==
    /\ t \notin holders
    /\ Cardinality(holders) < MaxPool
    /\ holders' = holders \cup {t}

Return(t) ==
    /\ t \in holders
    /\ holders' = holders \ {t}

Init == holders = {}
Next == \E t \in Threads : Lease(t) \/ Return(t)
Spec == Init /\ [][Next]_holders
=============================================================================
