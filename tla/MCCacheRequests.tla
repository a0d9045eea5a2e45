--------------------------- MODULE MCCacheRequests ---------------------------
(* An instance of CacheRequests for TLC.                                   *)
EXTENDS CacheRequests, TLC

MCKeys   == States \cup ApiKeys
MCValues == Verifiers \cup ApiValues

\* Everything that is a model value is only compared.
Symmetry == Permutations(Workers) \cup Permutations(States) \cup Permutations(ApiValues)
=============================================================================
