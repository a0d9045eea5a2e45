--------------------------- MODULE ContentClients ---------------------------
(***************************************************************************)
(* What the todos, the documents and the store that they implement have in *)
(* common: the clients, and the form of an answer.                         *)
(***************************************************************************)
EXTENDS Integers, FiniteSets

CONSTANTS Clients,
          Absent,    \* no record
          Keep       \* the value of a field that a change leaves alone

Reply(status, body) == [status |-> status, body |-> body]

NoTx == [op |-> "none"]

\* ORDER BY: the members of a finite set, in an order that no two share.
InOrder(S, Before(_, _)) ==
    CHOOSE s \in [1..Cardinality(S) -> S] : \A m, n \in DOMAIN s : m < n => Before(s[m], s[n])

Ext == INSTANCE SequencesExt
=============================================================================
