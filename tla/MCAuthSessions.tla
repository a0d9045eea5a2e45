--------------------------- MODULE MCAuthSessions ---------------------------
(* Instances of AuthSessions for TLC.                                      *)
EXTENDS AuthSessions, TLC

\* Sessions and workers are only compared with each other.
Symmetry == Permutations(Sessions) \cup Permutations(Workers)
=============================================================================
