----------------------------- MODULE MCKeyRing -----------------------------
(* An instance of KeyRing for TLC.                                         *)
EXTENDS KeyRing, TLC

Symmetry == Permutations(Nodes) \cup Permutations(Workers)
=============================================================================
