----------------------------- MODULE MCAccounts -----------------------------
(* Instances of Accounts for TLC.                                          *)
EXTENDS Accounts, TLC

CONSTANTS gAlice, gBob, alice, Alice, bob

\* Two people, one of whom spells the email in two ways.
LowerCase == [e \in Emails |-> IF e = Alice THEN alice ELSE e]

\* Google vouches for an email that an account has now, had or was given.
Vouched == [google : GoogleIds, email : {alice, bob}]

\* Nobody signs in with Google.
Nobody == {}

Symmetry == Permutations(Workers) \cup Permutations(UserIds) \cup Permutations(Passwords)
=============================================================================
