----------------------------- MODULE CacheStore -----------------------------
(***************************************************************************)
(* The table cache_store and the transactions of PostgresCacheRepository   *)
(* on it.  Each is one statement, with the database's clock.               *)
(***************************************************************************)
EXTENDS Integers

CONSTANTS Keys,     \* cache_key
          Values,   \* cache_value
          None,     \* no value
          MaxTtl,   \* bound: the longest ttl that is used
          MaxTime   \* bound: how far the clock runs

ASSUME CacheAssumption ==
    /\ None \notin Values
    /\ MaxTtl \in Nat \ {0}
    /\ MaxTime \in Nat

VARIABLES cache,    \* the row of each key
          now       \* clock_timestamp()

Row   == [value : Values \cup {None}, expires : 0..(MaxTime + MaxTtl)]
NoRow == [value |-> None, expires |-> 0]

CacheTypeOK ==
    /\ cache \in [Keys -> Row]
    /\ now \in 0..MaxTime

Exists(k) == cache[k].value # None

\* Mutant: the WHERE clause forgets the expiry.
MutLive(k) == Exists(k)

\* WHERE cache_key = $1 AND expires_at > clock_timestamp()
Live(k) == Exists(k) /\ cache[k].expires > now

Get(k) == IF Live(k) THEN cache[k].value ELSE None

\* Mutant: a conflict does nothing.
MutSet(k, v, ttl) ==
    cache' = [cache EXCEPT ![k] = IF Exists(k) THEN @ ELSE [value |-> v, expires |-> now + ttl]]

\* INSERT ... ON CONFLICT DO UPDATE: the new value and a new expiry.
Set(k, v, ttl) == cache' = [cache EXCEPT ![k] = [value |-> v, expires |-> now + ttl]]

\* Mutant: the DELETE is forgotten.
MutRemove(k) == UNCHANGED cache

\* DELETE ... WHERE cache_key = $1, expired or not.
Remove(k) == cache' = [cache EXCEPT ![k] = NoRow]

\* Mutant: the cleanup compares with the end of the second that has begun.
MutCleanupExpired ==
    cache' = [k \in Keys |-> IF cache[k].expires <= now + 1 THEN NoRow ELSE cache[k]]

\* DELETE ... WHERE expires_at <= clock_timestamp()
CleanupExpired ==
    cache' = [k \in Keys |-> IF cache[k].expires <= now THEN NoRow ELSE cache[k]]
=============================================================================
