-------------------------- MODULE MCConnectionPool --------------------------
(* Instances of ConnectionPool for TLC.                                    *)
EXTENDS ConnectionPool, TLC

\* Threads are only compared with each other.
Symmetry == Permutations(Threads)
=============================================================================
