------------------------------ MODULE KeyRing ------------------------------
(***************************************************************************)
(* The signing keys of RsaKeyManager and the access tokens of JwtService.  *)
(*                                                                         *)
(* Every node of the server has a key manager of its own, in memory only:  *)
(* the active key, the previous ones that still verify, and the JWKS text  *)
(* built from them.  rotateKey holds the lock exclusively from its first   *)
(* line to its last, so it is one step.  createAccessToken holds it only   *)
(* while it copies the active key: taking the key and signing are two      *)
(* steps, and the key may be rotated away in between.                      *)
(*                                                                         *)
(* A key pair is a number, 0 the empty strings that generateRsaKeypair     *)
(* returns when it fails.  A kid is the configured one, a name given to    *)
(* rotateKey, or the second in which rotateKey was called without one.     *)
(***************************************************************************)
EXTENDS Integers, Sequences, FiniteSets

CONSTANTS Nodes,
          Workers,       \* the logins and refreshes that sign at a time
          ConfiguredKid, \* JWT_KEY_ID, the same on each node
          Names,         \* kids that rotateKey may be given
          MaxPrevious,   \* 5 in rotateKey
          AccessTtl,
          MaxTime,       \* bound on the clock
          MaxPairs,      \* bound on key generations
          MaxTokens      \* bound on the tokens clients hold

Kids == {ConfiguredKid} \cup Names \cup (0..MaxTime)

ASSUME KeyRingAssumption ==
    /\ MaxPrevious \in Nat /\ MaxTime \in Nat /\ MaxTokens \in Nat
    /\ IsFiniteSet(Nodes) /\ MaxPairs \in Nat /\ Cardinality(Nodes) <= MaxPairs
    /\ AccessTtl \in Nat \ {0}
    /\ ConfiguredKid \notin Names \cup (0..MaxTime)

VARIABLES ring,      \* m_activeKey and m_previousKeys of each node
          jwks,      \* m_cachedJwksJson of each node
          signing,   \* what each worker has taken to sign with
          tokens,    \* the access tokens that clients hold
          now,       \* the clock, in seconds
          lastPair,  \* how often a key pair was generated
          made       \* history: the keys each node has had since it started

vars == <<ring, jwks, signing, tokens, now, lastPair, made>>

Pairs == 0..MaxPairs
Key   == [kid : Kids, pair : Pairs]
Token == [kid : Kids, pair : Pairs, nbf : 0..MaxTime, exp : 0..(MaxTime + AccessTtl)]

Unsigned == [node : Nodes, key : Key]
Nothing  == [node |-> "none"]

TypeOK ==
    /\ ring \in [Nodes -> [active : Key, previous : Seq(Key)]]
    /\ \A n \in Nodes : Len(ring[n].previous) <= MaxPrevious
    /\ jwks \in [Nodes -> Seq(Key)]
    /\ made \in [Nodes -> Seq(Key)]
    /\ signing \in [Workers -> Unsigned \cup {Nothing}]
    /\ tokens \subseteq Token
    /\ now \in 0..MaxTime
    /\ lastPair \in Pairs

-----------------------------------------------------------------------------
\* createKeyRecord.  The modulus and exponent of its jwk are the pair's.
KeyRecord(kid, pair) == [kid |-> kid, pair |-> pair]

\* The keys of a ring in the order in which a kid is looked up, and in which
\* rebuildJwksJsonLocked writes them: the active one, then from the oldest.
KeysOf(r) == <<r.active>> \o r.previous

\* The key pair a kid stands for in a list of keys; -1 when it has none.
PairOf(keys, kid) ==
    LET found == {i \in 1..Len(keys) : keys[i].kid = kid} IN
    IF found = {} THEN -1
    ELSE keys[CHOOSE i \in found : \A j \in found : i <= j].pair

\* generateRsaKeypair
Generate(p) ==
    /\ lastPair < MaxPairs
    /\ lastPair' = lastPair + 1
    /\ p \in {0, lastPair + 1}

\* The state a node's key manager starts in.
FirstRing(p) == [active |-> KeyRecord(ConfiguredKid, p), previous |-> <<>>]

\* Every node begins with a key pair of its own.
Init ==
    \E number \in [Nodes -> 1..Cardinality(Nodes)] :
        /\ \A m, n \in Nodes : m # n => number[m] # number[n]
        /\ ring = [n \in Nodes |-> FirstRing(number[n])]
        /\ jwks = [n \in Nodes |-> KeysOf(FirstRing(number[n]))]
        /\ made = [n \in Nodes |-> KeysOf(FirstRing(number[n]))]
        /\ signing = [w \in Workers |-> Nothing]
        /\ tokens = {}
        /\ now = 0
        /\ lastPair = Cardinality(Nodes)

\* A node starts again: its keys are gone, and so are the requests it served.
Restart(n) ==
    /\ \E p \in Pairs :
          /\ Generate(p)
          /\ ring' = [ring EXCEPT ![n] = FirstRing(p)]
          /\ jwks' = [jwks EXCEPT ![n] = KeysOf(FirstRing(p))]
          /\ made' = [made EXCEPT ![n] = KeysOf(FirstRing(p))]
    /\ signing' = [w \in Workers |-> IF signing[w].node = n THEN Nothing ELSE signing[w]]
    /\ UNCHANGED <<tokens, now>>

\* Mutant: the cap erases the newest of the previous keys.
MutCapped(keys) == IF Len(keys) > MaxPrevious THEN SubSeq(keys, 1, Len(keys) - 1) ELSE keys

\* Mutant: the cap is off by one.
MutCappedLate(keys) == IF Len(keys) > MaxPrevious + 1 THEN Tail(keys) ELSE keys

\* The previous keys, of which the oldest is erased beyond the cap.
Capped(keys) == IF Len(keys) > MaxPrevious THEN Tail(keys) ELSE keys

Rotated(r, key) == [active |-> key, previous |-> Capped(Append(r.previous, r.active))]

\* Mutant: the JWKS text is built before the new key becomes active.
MutRotateKey(n, kid) ==
    \E p \in Pairs :
        /\ Generate(p)
        /\ ring' = [ring EXCEPT ![n] = Rotated(ring[n], KeyRecord(kid, p))]
        /\ jwks' = [jwks EXCEPT ![n] = KeysOf(ring[n])]
        /\ made' = [made EXCEPT ![n] = Append(@, KeyRecord(kid, p))]
        /\ UNCHANGED <<signing, tokens, now>>

\* rotateKey, with a name or with the current second for a kid.
RotateKey(n, kid) ==
    \E p \in Pairs :
        /\ Generate(p)
        /\ ring' = [ring EXCEPT ![n] = Rotated(ring[n], KeyRecord(kid, p))]
        /\ jwks' = [jwks EXCEPT ![n] = KeysOf(Rotated(ring[n], KeyRecord(kid, p)))]
        /\ made' = [made EXCEPT ![n] = Append(@, KeyRecord(kid, p))]
        /\ UNCHANGED <<signing, tokens, now>>

\* getActiveSigningKey, the first line of createAccessToken.
TakeKey(w, n) ==
    /\ signing[w] = Nothing
    /\ signing' = [signing EXCEPT ![w] = [node |-> n, key |-> ring[n].active]]
    /\ UNCHANGED <<ring, jwks, tokens, now, lastPair, made>>

TokenOf(u) ==
    [kid |-> u.key.kid, pair |-> u.key.pair, nbf |-> now, exp |-> now + AccessTtl]

\* The rest of createAccessToken.  With an empty private key signRs256 has no
\* signature to give and the token is the empty string, that opens nothing.
Sign(w) ==
    /\ signing[w] # Nothing
    /\ \/ signing[w].key.pair = 0 /\ UNCHANGED tokens
       \/ /\ signing[w].key.pair # 0
          /\ Cardinality(tokens) < MaxTokens
          /\ tokens' = tokens \cup {TokenOf(signing[w])}
    /\ signing' = [signing EXCEPT ![w] = Nothing]
    /\ UNCHANGED <<ring, jwks, now, lastPair, made>>

\* A client drops a token.
Discard(t) ==
    /\ t \in tokens
    /\ tokens' = tokens \ {t}
    /\ UNCHANGED <<ring, jwks, signing, now, lastPair, made>>

Tick ==
    /\ now < MaxTime
    /\ now' = now + 1
    /\ UNCHANGED <<ring, jwks, signing, tokens, lastPair, made>>

Next ==
    \/ \E n \in Nodes : Restart(n)
    \/ \E n \in Nodes, kid \in Names \cup {now} : RotateKey(n, kid)
    \/ \E w \in Workers, n \in Nodes : TakeKey(w, n)
    \/ \E w \in Workers : Sign(w)
    \/ \E t \in tokens : Discard(t)
    \/ Tick

Spec == Init /\ [][Next]_vars

-----------------------------------------------------------------------------
(* Properties.                                                             *)

\* verifyRs256: a signature verifies with the public key of its own pair only.
Verifies(pair, t) == pair > 0 /\ pair = t.pair

\* getJwks: the keys that a node tells others of.
Jwks(n) == jwks[n]

\* validateAccessToken: the key of the kid, the signature, the times.
Accepts(n, t) ==
    /\ Verifies(PairOf(KeysOf(ring[n]), t.kid), t)
    /\ now < t.exp
    /\ t.nbf <= now

\* The indices of a node's keys that its rotations have not pushed out.
Retained(n) == {i \in 1..Len(made[n]) : Len(made[n]) - i <= MaxPrevious}

\* A token is good until it expires, however often the keys are rotated and
\* whenever its key was taken, on the node that signed it: unless the node has
\* started again, more than MaxPrevious rotations came after its key, or two
\* keys that are kept have the token's kid.
VerifiesUntilRetired ==
    \A n \in Nodes, t \in tokens : \A i \in Retained(n) :
        /\ made[n][i].pair = t.pair
        /\ \A j \in Retained(n) : j # i => made[n][j].kid # made[n][i].kid
        /\ now < t.exp
        => Accepts(n, t)

\* No node accepts a token that another node, or it itself before its last
\* start or with a key pushed out since, has signed: though all of them use
\* the configured kid, no key of one is taken for a key of another.
AcceptsOnlyOwn ==
    \A n \in Nodes, t \in tokens :
        Accepts(n, t) => \E i \in Retained(n) : made[n][i] = KeyRecord(t.kid, t.pair)

\* Who holds a node's JWKS tells the same tokens from forgeries as the node,
\* also when two of its keys share a kid.
JwksAgrees ==
    \A n \in Nodes, t \in tokens :
        Verifies(PairOf(Jwks(n), t.kid), t) <=> Verifies(PairOf(KeysOf(ring[n]), t.kid), t)
=============================================================================
