--------------------------- MODULE MCMessageQueue ---------------------------
(* Instances of MessageQueue for TLC.                                      *)
EXTENDS MessageQueue, TLC

\* Clients of one kind, and topics, are only compared with each other.
Symmetry == Permutations(Producers) \cup Permutations(Consumers) \cup Permutations(Topics)
=============================================================================
