----------------------------- MODULE MCContent -----------------------------
(***************************************************************************)
(* The todos and the documents share no state: a behaviour uses one of     *)
(* them, and the other stays as it was.                                    *)
(***************************************************************************)
EXTENDS Todos, Documents, TLC

VARIABLE focus

Init == focus \in {"todos", "documents"} /\ TodosInit /\ DocumentsInit

Next == \/ focus = "todos"     /\ TodosNext     /\ UNCHANGED <<focus, docVars>>
        \/ focus = "documents" /\ DocumentsNext /\ UNCHANGED <<focus, todoVars>>

Spec == Init /\ [][Next]_<<focus, todoVars, docVars>>

Symmetry == Permutations(Clients) \cup Permutations(Titles)
              \cup Permutations(Collections) \cup Permutations(Uuids)
=============================================================================
