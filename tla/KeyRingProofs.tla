--------------------------- MODULE KeyRingProofs ---------------------------
(***************************************************************************)
(* Theorems about KeyRing, for every number of nodes and requests, every   *)
(* number of previous keys, and every way to name keys.                    *)
(***************************************************************************)
EXTENDS KeyRing, FiniteSetTheorems, SequenceTheorems, WellFoundedInduction, TLAPS

Ring == [active : Key, previous : Seq(Key)]

\* A ring r is the end of the sequence m of the keys a node has made: its
\* active key is the last of them, the previous ones come right before it,
\* and as many of them are kept as there may be.
EndsWith(r, m) ==
    LET k == Len(r.previous) IN
    /\ k <= MaxPrevious
    /\ k < Len(m)
    /\ k = MaxPrevious \/ k = Len(m) - 1
    /\ r.active = m[Len(m)]
    /\ \A i \in 1..k : r.previous[i] = m[Len(m) - 1 - k + i]

\* The keys that are somewhere: made by a node, taken to sign, in a token.
Known == {q \in Key :
            \/ \E n \in Nodes : \E i \in 1..Len(made[n]) : q = made[n][i]
            \/ \E w \in Workers : signing[w] # Nothing /\ q = signing[w].key
            \/ \E t \in tokens : q = KeyRecord(t.kid, t.pair)}

\* A key pair has one kid only, and none is known before it was generated.
OneKid == \A p, q \in Known : p.pair = q.pair /\ p.pair > 0 => p.kid = q.kid
Generated == \A q \in Known : q.pair <= lastPair

RingInv == \A n \in Nodes : EndsWith(ring[n], made[n]) /\ jwks[n] = KeysOf(ring[n])
TokenInv == \A t \in tokens : t.pair > 0 /\ t.nbf <= now

\* The inductive invariant.
Inv == TypeOK /\ RingInv /\ OneKid /\ Generated /\ TokenInv

-----------------------------------------------------------------------------
\* A set of natural numbers that is not empty has a least member.
LEMMA LeastExists ==
    ASSUME NEW T, T \subseteq Nat, T # {}
    PROVE  \E x \in T : \A y \in T : x <= y
<1> DEFINE R == {p \in Nat \X Nat : p[1] < p[2]}
<1>1. IsWellFoundedOn(R, Nat)
  BY NatLessThanWellFounded DEF OpToRel
<1>2. PICK x \in T : \A y \in T : ~ (<<y, x>> \in R)
  <2> HIDE DEF R
  <2> QED
    BY <1>1, WFMin, Zenon
<1>3. ASSUME NEW y \in T
      PROVE  x <= y
  <2>1. x \in Nat /\ y \in Nat
    OBVIOUS
  <2>2. ~ (<<y, x>> \in R)
    BY <1>2
  <2>3. ~ (y < x)
    BY <2>1, <2>2
  <2> QED
    BY <2>1, <2>3
<1> QED
  BY <1>3

\* The lookup of a kid finds a key that has the kid, when there is one.
LEMMA LookupFinds ==
    ASSUME NEW keys \in Seq(Key), NEW kid
    PROVE  \/ /\ PairOf(keys, kid) = -1
              /\ \A i \in 1..Len(keys) : keys[i].kid # kid
           \/ \E i \in 1..Len(keys) : /\ keys[i].kid = kid
                                      /\ PairOf(keys, kid) = keys[i].pair
<1> DEFINE found == {i \in 1..Len(keys) : keys[i].kid = kid}
           Least(i) == \A j \in found : i <= j
<1>1. CASE found = {}
  BY <1>1 DEF PairOf
<1>2. CASE found # {}
  <2>1. Len(keys) \in Nat
    BY LenProperties
  <2>2. found \subseteq Nat
    BY <2>1
  <2>3. \E i \in found : Least(i)
    <3> HIDE DEF found
    <3> QED
      BY <1>2, <2>2, LeastExists
  <2>4. (CHOOSE i \in found : Least(i)) \in found
    <3> HIDE DEF found, Least
    <3> QED
      BY <2>3
  <2>5. PairOf(keys, kid) = keys[CHOOSE i \in found : Least(i)].pair
    BY <1>2 DEF PairOf
  <2> QED
    BY <2>4, <2>5
<1> QED
  BY <1>1, <1>2

\* The keys of a ring are its active one and the previous ones.
LEMMA KeysOfRing ==
    ASSUME NEW r \in Ring
    PROVE  /\ KeysOf(r) \in Seq(Key)
           /\ Len(KeysOf(r)) = Len(r.previous) + 1
           /\ Len(r.previous) \in Nat
           /\ KeysOf(r)[1] = r.active
           /\ \A i \in 1..Len(r.previous) : KeysOf(r)[i + 1] = r.previous[i]
<1>1. r.active \in Key /\ r.previous \in Seq(Key)
  BY DEF Ring
<1> QED
  BY <1>1 DEF KeysOf

\* The active key is the last one made.
LEMMA ActiveIsLast ==
    ASSUME NEW r \in Ring, NEW m \in Seq(Key), EndsWith(r, m)
    PROVE  r.active = m[Len(m)] /\ Len(m) \in 1..Len(m)
<1>1. Len(m) \in Nat /\ Len(r.previous) \in Nat
  BY LenProperties DEF Ring
<1> QED
  BY <1>1 DEF EndsWith

\* A new ring is the end of the one key that was made.
LEMMA FirstRingKeeps ==
    ASSUME KeyRingAssumption, NEW p \in Pairs
    PROVE  /\ FirstRing(p) \in Ring
           /\ KeysOf(FirstRing(p)) \in Seq(Key)
           /\ Len(KeysOf(FirstRing(p))) = 1
           /\ KeysOf(FirstRing(p))[1] = KeyRecord(ConfiguredKid, p)
           /\ KeyRecord(ConfiguredKid, p) \in Key
           /\ EndsWith(FirstRing(p), KeysOf(FirstRing(p)))
           /\ Len(FirstRing(p).previous) <= MaxPrevious
<1>1. KeyRecord(ConfiguredKid, p) \in Key
  BY DEF KeyRecord, Key, Kids
<1>2. FirstRing(p) \in Ring /\ FirstRing(p).previous = <<>>
      /\ FirstRing(p).active = KeyRecord(ConfiguredKid, p)
  BY <1>1 DEF FirstRing, Ring
<1>3. Len(FirstRing(p).previous) = 0
  BY <1>2
<1>4. /\ KeysOf(FirstRing(p)) \in Seq(Key)
      /\ Len(KeysOf(FirstRing(p))) = 1
      /\ KeysOf(FirstRing(p))[1] = KeyRecord(ConfiguredKid, p)
  <2> DEFINE r == FirstRing(p)
  <2>1. r \in Ring /\ Len(r.previous) = 0 /\ r.active = KeyRecord(ConfiguredKid, p)
    BY <1>2, <1>3
  <2> HIDE DEF r
  <2>2. /\ KeysOf(r) \in Seq(Key)
        /\ Len(KeysOf(r)) = Len(r.previous) + 1
        /\ KeysOf(r)[1] = r.active
    BY <2>1, KeysOfRing, Zenon
  <2> QED
    BY <2>1, <2>2 DEF r
<1>5. EndsWith(FirstRing(p), KeysOf(FirstRing(p)))
  BY <1>2, <1>3, <1>4 DEF EndsWith, KeyRingAssumption
<1> QED
  BY <1>1, <1>2, <1>3, <1>4, <1>5 DEF KeyRingAssumption

\* A rotation leaves the ring at the end of the keys made.
LEMMA RotationKeeps ==
    ASSUME KeyRingAssumption, NEW r \in Ring, NEW m \in Seq(Key), EndsWith(r, m),
           NEW key \in Key
    PROVE  /\ Rotated(r, key) \in Ring
           /\ EndsWith(Rotated(r, key), Append(m, key))
           /\ Len(Rotated(r, key).previous) <= MaxPrevious
<1> DEFINE k    == Len(r.previous)
           long == Append(r.previous, r.active)
           M    == Append(m, key)
           q    == Rotated(r, key)
<1>1. /\ r.active \in Key /\ r.previous \in Seq(Key)
      /\ k \in Nat /\ Len(m) \in Nat /\ MaxPrevious \in Nat
      /\ k < Len(m) /\ k <= MaxPrevious /\ (k = MaxPrevious \/ k = Len(m) - 1)
      /\ r.active = m[Len(m)]
      /\ \A i \in 1..k : r.previous[i] = m[Len(m) - 1 - k + i]
  <2>1. r.active \in Key /\ r.previous \in Seq(Key)
    BY DEF Ring
  <2>2. k \in Nat /\ Len(m) \in Nat /\ MaxPrevious \in Nat
    BY <2>1, LenProperties DEF KeyRingAssumption
  <2> QED
    BY <2>1, <2>2 DEF EndsWith
<1>2. /\ long \in Seq(Key) /\ Len(long) = k + 1
      /\ \A i \in 1..k : long[i] = r.previous[i]
      /\ long[k + 1] = r.active /\ long # <<>>
  BY <1>1, AppendProperties
<1>3. /\ M \in Seq(Key) /\ Len(M) = Len(m) + 1
      /\ \A i \in 1..Len(m) : M[i] = m[i]
      /\ M[Len(m) + 1] = key
  BY <1>1, AppendProperties
<1>5. q.active = key /\ q.previous = Capped(long) /\ q = [active |-> key, previous |-> Capped(long)]
  BY DEF Rotated
<1> HIDE DEF k, long, M, q
<1>4. ASSUME NEW i \in 1..(k + 1)
      PROVE  long[i] = M[Len(M) - 2 - k + i]
  <2>1. CASE i = k + 1
    <3>1. Len(M) - 2 - k + i = Len(m) /\ Len(m) \in 1..Len(m)
      BY <1>1, <1>3, <2>1
    <3> QED
      BY <1>1, <1>2, <1>3, <2>1, <3>1
  <2>2. CASE i \in 1..k
    <3>1. Len(m) - 1 - k + i \in 1..Len(m) /\ Len(M) - 2 - k + i = Len(m) - 1 - k + i
      BY <1>1, <1>3, <2>2
    <3> QED
      BY <1>1, <1>2, <1>3, <2>2, <3>1
  <2> QED
    BY <1>1, <2>1, <2>2
<1>6. CASE k + 1 > MaxPrevious
  <2>1. Capped(long) = Tail(long)
    BY <1>2, <1>6 DEF Capped
  <2>2. /\ Tail(long) \in Seq(Key) /\ Len(Tail(long)) = k
        /\ \A i \in 1..k : Tail(long)[i] = long[i + 1]
    BY <1>1, <1>2, HeadTailProperties
  <2>3. k = MaxPrevious
    BY <1>1, <1>6
  <2>4. ASSUME NEW i \in 1..k
        PROVE  q.previous[i] = M[Len(M) - 1 - k + i]
    <3>1. i + 1 \in 1..(k + 1) /\ Len(M) - 2 - k + (i + 1) = Len(M) - 1 - k + i
      BY <1>1, <1>3
    <3>2. q.previous[i] = long[i + 1]
      BY <1>5, <2>1, <2>2
    <3> QED
      BY <1>4, <3>1, <3>2
  <2>5. Len(q.previous) = k
    BY <1>5, <2>1, <2>2
  <2>6. \A i \in 1..Len(q.previous) :
           q.previous[i] = M[Len(M) - 1 - Len(q.previous) + i]
    BY <2>4, <2>5
  <2>7. q.active = M[Len(M)]
    BY <1>3, <1>5
  <2>8. /\ Len(q.previous) <= MaxPrevious /\ Len(q.previous) < Len(M)
        /\ Len(q.previous) = MaxPrevious
    BY <1>1, <1>3, <2>3, <2>5
  <2>9. EndsWith(q, M)
    BY <2>6, <2>7, <2>8, Zenon DEF EndsWith
  <2> QED
    BY <1>1, <1>5, <2>1, <2>2, <2>3, <2>5, <2>9 DEF Ring, q, M
<1>7. CASE k + 1 <= MaxPrevious
  <2>1. Capped(long) = long
    BY <1>1, <1>2, <1>7 DEF Capped
  <2>2. k = Len(m) - 1
    BY <1>1, <1>7
  <2>3. ASSUME NEW i \in 1..(k + 1)
        PROVE  q.previous[i] = M[Len(M) - 1 - (k + 1) + i]
    <3>1. Len(M) - 2 - k + i = Len(M) - 1 - (k + 1) + i
      BY <1>1, <1>3
    <3> QED
      BY <1>4, <1>5, <2>1, <3>1
  <2>4. Len(q.previous) = k + 1
    BY <1>2, <1>5, <2>1
  <2>5. \A i \in 1..Len(q.previous) :
           q.previous[i] = M[Len(M) - 1 - Len(q.previous) + i]
    BY <2>3, <2>4
  <2>6. q.active = M[Len(M)]
    BY <1>3, <1>5
  <2>7. /\ Len(q.previous) <= MaxPrevious /\ Len(q.previous) < Len(M)
        /\ Len(q.previous) = Len(M) - 1
    BY <1>1, <1>3, <1>7, <2>2, <2>4
  <2>8. EndsWith(q, M)
    BY <2>5, <2>6, <2>7, Zenon DEF EndsWith
  <2> QED
    BY <1>1, <1>2, <1>5, <1>7, <2>1, <2>4, <2>8 DEF Ring, q, M
<1> QED
  BY <1>1, <1>6, <1>7

\* The keys of a ring are the last that were made, as many as it may hold.
LEMMA RingHoldsTheLast ==
    ASSUME KeyRingAssumption, NEW r \in Ring, NEW m \in Seq(Key), EndsWith(r, m)
    PROVE  /\ \A x \in 1..Len(KeysOf(r)) :
                 \E i \in 1..Len(m) : Len(m) - i <= MaxPrevious /\ KeysOf(r)[x] = m[i]
           /\ \A i \in 1..Len(m) : Len(m) - i <= MaxPrevious =>
                 \E x \in 1..Len(KeysOf(r)) : KeysOf(r)[x] = m[i]
<1> DEFINE k == Len(r.previous)
           K == KeysOf(r)
<1>1. /\ Len(K) = k + 1 /\ k \in Nat
      /\ K[1] = r.active
      /\ \A i \in 1..k : K[i + 1] = r.previous[i]
  BY KeysOfRing, Zenon
<1>2. /\ Len(m) \in Nat /\ MaxPrevious \in Nat
      /\ k < Len(m) /\ k <= MaxPrevious /\ (k = MaxPrevious \/ k = Len(m) - 1)
      /\ r.active = m[Len(m)]
      /\ \A i \in 1..k : r.previous[i] = m[Len(m) - 1 - k + i]
  BY LenProperties DEF KeyRingAssumption, EndsWith
<1> HIDE DEF k, K
<1>3. ASSUME NEW x \in 1..Len(K)
      PROVE  \E i \in 1..Len(m) : Len(m) - i <= MaxPrevious /\ K[x] = m[i]
  <2>1. CASE x = 1
    BY <1>1, <1>2, <2>1
  <2>2. CASE x # 1
    <3>1. x - 1 \in 1..k /\ x = (x - 1) + 1
      BY <1>1, <2>2
    <3>2. K[x] = m[Len(m) - 1 - k + (x - 1)]
      BY <1>1, <1>2, <3>1
    <3>3. /\ Len(m) - 1 - k + (x - 1) \in 1..Len(m)
          /\ Len(m) - (Len(m) - 1 - k + (x - 1)) <= MaxPrevious
      BY <1>1, <1>2, <3>1
    <3> QED
      BY <3>2, <3>3
  <2> QED
    BY <2>1, <2>2
<1>4. ASSUME NEW i \in 1..Len(m), Len(m) - i <= MaxPrevious
      PROVE  \E x \in 1..Len(K) : K[x] = m[i]
  <2>1. CASE i = Len(m)
    <3>1. 1 \in 1..Len(K) /\ K[1] = m[i]
      BY <1>1, <1>2, <2>1
    <3> QED
      BY <3>1
  <2>2. CASE i # Len(m)
    <3> DEFINE x == i - Len(m) + 1 + k
    <3>1. x \in 1..k /\ Len(m) - 1 - k + x = i /\ x + 1 \in 1..Len(K)
      BY <1>1, <1>2, <1>4, <2>2
    <3> HIDE DEF x
    <3>2. K[x + 1] = m[i]
      BY <1>1, <1>2, <3>1
    <3> QED
      BY <3>1, <3>2
  <2> QED
    BY <2>1, <2>2
<1> QED
  BY <1>3, <1>4 DEF K

-----------------------------------------------------------------------------
\* A key of a pair that was just generated contradicts no other key.
LEMMA FreshKeyKeeps ==
    ASSUME OneKid, Generated, lastPair \in Pairs, NEW p, Generate(p),
           NEW key \in Key, key.pair = p, Known' \subseteq Known \cup {key}
    PROVE  OneKid' /\ Generated'
<1>1. lastPair' = lastPair + 1 /\ p \in {0, lastPair + 1} /\ lastPair \in Int
  BY DEF Generate, Pairs
<1>2. \A q \in Known : q.pair \in Int /\ q.pair <= lastPair
  BY DEF Known, Key, Pairs, Generated
<1>3. Generated'
  BY <1>1, <1>2 DEF Generated, Pairs
<1>4. OneKid'
  BY <1>1, <1>2 DEF OneKid
<1> QED
  BY <1>3, <1>4

\* Nor does a step after which no new key is known.
LEMMA NoNewKeyKeeps ==
    ASSUME OneKid, Generated, Known' \subseteq Known, lastPair' = lastPair
    PROVE  OneKid' /\ Generated'
BY DEF OneKid, Generated

LEMMA InitHolds ==
    ASSUME KeyRingAssumption, Init
    PROVE  Inv
<1>1. PICK number \in [Nodes -> 1..Cardinality(Nodes)] :
        /\ ring = [n \in Nodes |-> FirstRing(number[n])]
        /\ jwks = [n \in Nodes |-> KeysOf(FirstRing(number[n]))]
        /\ made = [n \in Nodes |-> KeysOf(FirstRing(number[n]))]
        /\ signing = [w \in Workers |-> Nothing]
        /\ tokens = {}
        /\ now = 0
        /\ lastPair = Cardinality(Nodes)
  BY DEF Init
<1>2. Cardinality(Nodes) \in Pairs
  BY FS_CardinalityType DEF KeyRingAssumption, Pairs
<1>3. \A n \in Nodes : number[n] \in Pairs /\ number[n] <= lastPair
  BY <1>1, <1>2 DEF Pairs
<1>4. \A n \in Nodes :
        /\ ring[n] \in Ring /\ EndsWith(ring[n], made[n])
        /\ Len(ring[n].previous) <= MaxPrevious
        /\ made[n] \in Seq(Key) /\ jwks[n] = made[n]
        /\ jwks[n] = KeysOf(ring[n])
        /\ Len(made[n]) = 1 /\ made[n][1] = KeyRecord(ConfiguredKid, number[n])
  BY <1>1, <1>3, FirstRingKeeps, Zenon
<1>5. TypeOK
  BY <1>1, <1>2, <1>4 DEF TypeOK, Ring, KeyRingAssumption
<1>6. RingInv /\ TokenInv
  BY <1>1, <1>4 DEF RingInv, TokenInv
<1>7. ASSUME NEW q \in Known
      PROVE  q.kid = ConfiguredKid /\ q.pair <= lastPair
  <2>1. PICK n \in Nodes : \E i \in 1..Len(made[n]) : q = made[n][i]
    BY <1>1 DEF Known
  <2>2. q = made[n][1]
    BY <1>4, <2>1
  <2>3. q = KeyRecord(ConfiguredKid, number[n]) /\ number[n] <= lastPair
    BY <1>3, <1>4, <2>1, <2>2
  <2> QED
    BY <2>3 DEF KeyRecord
<1> QED
  BY <1>5, <1>6, <1>7 DEF Inv, OneKid, Generated

LEMMA NextKeeps ==
    ASSUME KeyRingAssumption, Inv, Next
    PROVE  Inv'
<1> USE DEF Inv
<1>0. /\ \A n \in Nodes : /\ ring[n] \in Ring /\ EndsWith(ring[n], made[n])
                          /\ made[n] \in Seq(Key)
      /\ ring \in [Nodes -> Ring] /\ lastPair \in Pairs
  BY DEF TypeOK, RingInv, Ring
<1>1. ASSUME NEW n \in Nodes, Restart(n)
      PROVE  Inv'
  <2>1. PICK p \in Pairs :
          /\ Generate(p)
          /\ ring' = [ring EXCEPT ![n] = FirstRing(p)]
          /\ jwks' = [jwks EXCEPT ![n] = KeysOf(FirstRing(p))]
          /\ made' = [made EXCEPT ![n] = KeysOf(FirstRing(p))]
    BY <1>1 DEF Restart
  <2>2. /\ signing' = [w \in Workers |->
                         IF signing[w].node = n THEN Nothing ELSE signing[w]]
        /\ tokens' = tokens /\ now' = now
    BY <1>1 DEF Restart
  <2> DEFINE key == KeyRecord(ConfiguredKid, p)
             r == FirstRing(p)
             m == KeysOf(FirstRing(p))
  <2>3. /\ r \in Ring /\ m \in Seq(Key) /\ Len(m) = 1 /\ m[1] = key
        /\ key \in Key /\ EndsWith(r, m) /\ Len(r.previous) <= MaxPrevious
    BY FirstRingKeeps, Zenon
  <2>4. lastPair' \in Pairs
    BY <1>0, <2>1 DEF Generate, Pairs, KeyRingAssumption
  <2>5. TypeOK'
    <3> HIDE DEF r, m
    <3>1. ring' = [ring EXCEPT ![n] = r] /\ jwks' = [jwks EXCEPT ![n] = m]
          /\ made' = [made EXCEPT ![n] = m]
      BY <2>1 DEF r, m
    <3> QED
      BY <2>2, <2>3, <2>4, <3>1 DEF TypeOK, Ring
  <2>6. RingInv'
    <3> HIDE DEF r, m
    <3>1. ring' = [ring EXCEPT ![n] = r] /\ jwks' = [jwks EXCEPT ![n] = m]
          /\ made' = [made EXCEPT ![n] = m] /\ m = KeysOf(r)
      BY <2>1 DEF r, m
    <3> QED
      BY <2>3, <3>1 DEF TypeOK, RingInv
  <2>7. ASSUME NEW q \in Known'
        PROVE  q \in Known \cup {key}
    <3> HIDE DEF key, m
    <3>0. made' = [made EXCEPT ![n] = m]
      BY <2>1 DEF m
    <3>1. ASSUME NEW o \in Nodes, NEW i \in 1..Len(made'[o]), q = made'[o][i]
          PROVE  q \in Known \cup {key}
      <4>1. CASE o = n
        <5>1. made'[o] = m
          BY <3>0, <4>1 DEF TypeOK
        <5>2. Len(m) = 1 /\ m[1] = key
          BY <2>3, Zenon
        <5>3. i \in 1..1
          BY <5>1, <5>2, Zenon
        <5>4. q = made'[o][1]
          BY <3>1, <5>3
        <5> QED
          BY <5>1, <5>2, <5>4
      <4>2. CASE o # n
        BY <2>7, <3>0, <3>1, <4>2 DEF TypeOK, Known
      <4> QED
        BY <4>1, <4>2
    <3>2. ASSUME NEW w \in Workers, signing'[w] # Nothing, q = signing'[w].key
          PROVE  q \in Known
      BY <2>2, <2>7, <3>2 DEF TypeOK, Known
    <3>3. ASSUME NEW t \in tokens', q = KeyRecord(t.kid, t.pair)
          PROVE  q \in Known
      BY <2>2, <2>7, <3>3 DEF Known
    <3> QED
      BY <2>7, <3>1, <3>2, <3>3 DEF Known
  <2>8. OneKid' /\ Generated'
    <3>1. key.pair = p
      BY DEF KeyRecord
    <3> HIDE DEF key
    <3>2. Known' \subseteq Known \cup {key}
      BY <2>7
    <3> QED
      BY <1>0, <2>1, <2>3, <3>1, <3>2, FreshKeyKeeps
  <2>9. TokenInv'
    BY <2>2 DEF TokenInv
  <2> QED
    BY <2>5, <2>6, <2>8, <2>9
<1>2. ASSUME NEW n \in Nodes, NEW kid \in Names \cup {now}, RotateKey(n, kid)
      PROVE  Inv'
  <2>1. PICK p \in Pairs :
          /\ Generate(p)
          /\ ring' = [ring EXCEPT ![n] = Rotated(ring[n], KeyRecord(kid, p))]
          /\ jwks' = [jwks EXCEPT ![n] = KeysOf(Rotated(ring[n], KeyRecord(kid, p)))]
          /\ made' = [made EXCEPT ![n] = Append(made[n], KeyRecord(kid, p))]
          /\ UNCHANGED <<signing, tokens, now>>
    BY <1>2 DEF RotateKey
  <2> DEFINE key == KeyRecord(kid, p)
             r == Rotated(ring[n], key)
             m == Append(made[n], key)
  <2>2. key \in Key /\ key.pair = p
    BY DEF KeyRecord, Key, Kids, TypeOK
  <2>3. r \in Ring /\ EndsWith(r, m) /\ Len(r.previous) <= MaxPrevious
    <3> HIDE DEF key
    <3> QED
      BY <1>0, <2>2, RotationKeeps, Zenon
  <2>4. /\ m \in Seq(Key) /\ Len(m) = Len(made[n]) + 1
        /\ \A i \in 1..Len(made[n]) : m[i] = made[n][i]
        /\ m[Len(made[n]) + 1] = key
        /\ Len(made[n]) \in Nat
    BY <1>0, <2>2, AppendProperties, LenProperties
  <2>5. KeysOf(r) \in Seq(Key)
    BY <2>3, KeysOfRing, Zenon
  <2>6. lastPair' \in Pairs
    BY <1>0, <2>1 DEF Generate, Pairs, KeyRingAssumption
  <2>7. /\ ring' = [ring EXCEPT ![n] = r] /\ jwks' = [jwks EXCEPT ![n] = KeysOf(r)]
        /\ made' = [made EXCEPT ![n] = m]
    BY <2>1
  <2> HIDE DEF key, r, m
  <2>8. TypeOK'
    BY <2>1, <2>3, <2>4, <2>5, <2>6, <2>7 DEF TypeOK, Ring
  <2>9. RingInv'
    BY <2>3, <2>7 DEF TypeOK, RingInv
  <2>10. ASSUME NEW q \in Known'
         PROVE  q \in Known \cup {key}
    <3>1. ASSUME NEW o \in Nodes, NEW i \in 1..Len(made'[o]), q = made'[o][i]
          PROVE  q \in Known \cup {key}
      <4>1. CASE o = n
        <5>1. made'[o] = m
          BY <2>7, <4>1 DEF TypeOK
        <5>2. CASE i = Len(made[n]) + 1
          BY <2>4, <3>1, <5>1, <5>2
        <5>3. CASE i \in 1..Len(made[n])
          BY <2>4, <2>10, <3>1, <5>1, <5>3 DEF Known
        <5> QED
          BY <2>4, <5>1, <5>2, <5>3
      <4>2. CASE o # n
        BY <2>7, <2>10, <3>1, <4>2 DEF TypeOK, Known
      <4> QED
        BY <4>1, <4>2
    <3>2. ASSUME NEW w \in Workers, signing'[w] # Nothing, q = signing'[w].key
          PROVE  q \in Known
      BY <2>1, <2>10, <3>2 DEF Known
    <3>3. ASSUME NEW t \in tokens', q = KeyRecord(t.kid, t.pair)
          PROVE  q \in Known
      BY <2>1, <2>10, <3>3 DEF Known
    <3> QED
      BY <2>10, <3>1, <3>2, <3>3 DEF Known
  <2>11. OneKid' /\ Generated'
    <3>1. Known' \subseteq Known \cup {key}
      BY <2>10
    <3> QED
      BY <1>0, <2>1, <2>2, <3>1, FreshKeyKeeps
  <2>12. TokenInv'
    BY <2>1 DEF TokenInv
  <2> QED
    BY <2>8, <2>9, <2>11, <2>12
<1>3. ASSUME NEW w \in Workers, NEW n \in Nodes, TakeKey(w, n)
      PROVE  Inv'
  <2>1. /\ signing' = [signing EXCEPT ![w] = [node |-> n, key |-> ring[n].active]]
        /\ UNCHANGED <<ring, jwks, tokens, now, lastPair, made>>
    BY <1>3 DEF TakeKey
  <2>2. ring[n].active \in Key
    BY DEF TypeOK
  <2>3. ring[n].active = made[n][Len(made[n])] /\ Len(made[n]) \in 1..Len(made[n])
    BY <1>0, ActiveIsLast, Zenon
  <2>4. TypeOK'
    BY <2>1, <2>2 DEF TypeOK, Unsigned
  <2>5. RingInv' /\ TokenInv'
    BY <2>1 DEF RingInv, TokenInv
  <2>6. Known' \subseteq Known
    BY <2>1, <2>2, <2>3 DEF TypeOK, Known
  <2> QED
    BY <2>1, <2>4, <2>5, <2>6, NoNewKeyKeeps
<1>4. ASSUME NEW w \in Workers, Sign(w)
      PROVE  Inv'
  <2> DEFINE u == signing[w]
  <2>1. /\ u \in Unsigned
        /\ signing' = [signing EXCEPT ![w] = Nothing]
        /\ UNCHANGED <<ring, jwks, now, lastPair, made>>
        /\ tokens' = tokens \/ (u.key.pair # 0 /\ tokens' = tokens \cup {TokenOf(u)})
    BY <1>4 DEF Sign, TypeOK
  <2>2. /\ TokenOf(u) \in Token /\ TokenOf(u).nbf = now
        /\ TokenOf(u).pair = u.key.pair
        /\ KeyRecord(TokenOf(u).kid, TokenOf(u).pair) = u.key
    BY <2>1 DEF TokenOf, Token, Unsigned, Key, TypeOK, KeyRingAssumption, KeyRecord
  <2>3. u.key \in Known
    BY <1>4, <2>1 DEF Sign, Known, Unsigned
  <2>4. u.key.pair \in Nat
    BY <2>1 DEF Unsigned, Key, Pairs
  <2> HIDE DEF u
  <2>5. TypeOK'
    BY <2>1, <2>2 DEF TypeOK
  <2>6. RingInv'
    BY <2>1 DEF RingInv
  <2>7. TokenInv'
    BY <2>1, <2>2, <2>4 DEF TokenInv, TypeOK
  <2>8. Known' \subseteq Known
    BY <2>1, <2>2, <2>3 DEF TypeOK, Known
  <2> QED
    BY <2>1, <2>5, <2>6, <2>7, <2>8, NoNewKeyKeeps
<1>5. ASSUME NEW t \in tokens, Discard(t)
      PROVE  Inv'
  <2>1. tokens' \subseteq tokens /\ UNCHANGED <<ring, jwks, signing, now, lastPair, made>>
    BY <1>5 DEF Discard
  <2>2. TypeOK' /\ RingInv' /\ TokenInv'
    BY <2>1 DEF TypeOK, RingInv, TokenInv
  <2>3. Known' \subseteq Known
    BY <2>1 DEF Known
  <2> QED
    BY <2>1, <2>2, <2>3, NoNewKeyKeeps
<1>6. ASSUME Tick
      PROVE  Inv'
  <2>1. TypeOK' /\ RingInv' /\ TokenInv'
    BY <1>6 DEF Tick, TypeOK, RingInv, TokenInv, Token, KeyRingAssumption
  <2>2. Known' \subseteq Known /\ lastPair' = lastPair
    BY <1>6 DEF Tick, Known
  <2> QED
    BY <2>1, <2>2, NoNewKeyKeeps
<1> QED
  BY <1>1, <1>2, <1>3, <1>4, <1>5, <1>6 DEF Next

LEMMA Stutter ==
    ASSUME Inv, UNCHANGED vars
    PROVE  Inv'
<1>1. /\ ring' = ring /\ jwks' = jwks /\ signing' = signing /\ tokens' = tokens
      /\ now' = now /\ lastPair' = lastPair /\ made' = made
  BY DEF vars
<1>2. TypeOK'
  BY <1>1 DEF Inv, TypeOK
<1>3. RingInv'
  BY <1>1 DEF Inv, RingInv
<1>4. TokenInv'
  BY <1>1 DEF Inv, TokenInv
<1>5. Known' = Known
  BY <1>1 DEF Known
<1>6. OneKid' /\ Generated'
  BY <1>1, <1>5, NoNewKeyKeeps DEF Inv
<1> QED
  BY <1>2, <1>3, <1>4, <1>6 DEF Inv

LEMMA Invariance == Spec => []Inv
<1>1. Init => Inv
  BY InitHolds, KeyRingAssumption
<1>2. Inv /\ [Next]_vars => Inv'
  BY NextKeeps, Stutter, KeyRingAssumption
<1> QED
  BY <1>1, <1>2, PTL DEF Spec

-----------------------------------------------------------------------------
\* The rings, the JWKS texts, the requests and the tokens have their types,
\* and no ring holds more previous keys than rotateKey lets it.
THEOREM KeysTyped == Spec => []TypeOK
<1>1. Inv => TypeOK
  BY DEF Inv
<1> QED
  BY <1>1, Invariance, PTL

\* getJwks: who checks tokens with a node's JWKS accepts those the node does.
THEOREM JwksIsTrue == Spec => []JwksAgrees
<1>1. Inv => JwksAgrees
  BY DEF Inv, RingInv, JwksAgrees, Jwks
<1> QED
  BY <1>1, Invariance, PTL

\* validateAccessToken accepts only tokens of the node's own retained keys.
LEMMA OwnKeysOnly ==
    ASSUME KeyRingAssumption, Inv
    PROVE  AcceptsOnlyOwn
<1>1. SUFFICES ASSUME NEW n \in Nodes, NEW t \in tokens, Accepts(n, t)
               PROVE  \E i \in Retained(n) : made[n][i] = KeyRecord(t.kid, t.pair)
  BY DEF AcceptsOnlyOwn
<1> DEFINE K == KeysOf(ring[n])
<1>2. ring[n] \in Ring /\ made[n] \in Seq(Key) /\ EndsWith(ring[n], made[n])
  BY DEF Inv, TypeOK, RingInv, Ring
<1>3. K \in Seq(Key)
  BY <1>2, KeysOfRing, Zenon
<1>4. PairOf(K, t.kid) > 0 /\ PairOf(K, t.kid) = t.pair
  BY <1>1 DEF Accepts, Verifies
<1>5. \A x \in 1..Len(K) :
         \E i \in 1..Len(made[n]) : Len(made[n]) - i <= MaxPrevious /\ K[x] = made[n][i]
  BY <1>2, RingHoldsTheLast
<1> HIDE DEF K
<1>6. PairOf(K, t.kid) # -1
  BY <1>4
<1>7. PICK x \in 1..Len(K) : K[x].kid = t.kid /\ PairOf(K, t.kid) = K[x].pair
  <2>1. \/ PairOf(K, t.kid) = -1
        \/ \E x \in 1..Len(K) : K[x].kid = t.kid /\ PairOf(K, t.kid) = K[x].pair
    BY <1>3, LookupFinds
  <2> QED
    BY <1>6, <2>1
<1>8. PICK i \in 1..Len(made[n]) : Len(made[n]) - i <= MaxPrevious /\ K[x] = made[n][i]
  BY <1>5
<1>9. made[n][i] \in Key /\ made[n][i].kid = t.kid /\ made[n][i].pair = t.pair
  BY <1>2, <1>4, <1>7, <1>8, ElementOfSeq
<1>10. made[n][i] = KeyRecord(t.kid, t.pair)
  BY <1>9 DEF Key, KeyRecord
<1> QED
  BY <1>8, <1>10 DEF Retained

\* No node accepts a token of another node, or of an earlier life of its own,
\* though all of them use the configured kid.
THEOREM OnlyOwnAccepted == Spec => []AcceptsOnlyOwn
<1>1. Inv => AcceptsOnlyOwn
  BY OwnKeysOnly, KeyRingAssumption
<1> QED
  BY <1>1, Invariance, PTL

\* A token of a retained key whose kid is its alone is accepted.
LEMMA RetainedVerifies ==
    ASSUME KeyRingAssumption, Inv
    PROVE  VerifiesUntilRetired
<1>1. SUFFICES ASSUME NEW n \in Nodes, NEW t \in tokens, NEW i \in Retained(n),
                      made[n][i].pair = t.pair,
                      \A j \in Retained(n) : j # i => made[n][j].kid # made[n][i].kid,
                      now < t.exp
               PROVE  Accepts(n, t)
  BY DEF VerifiesUntilRetired
<1> DEFINE K == KeysOf(ring[n])
<1>2. ring[n] \in Ring /\ made[n] \in Seq(Key) /\ EndsWith(ring[n], made[n])
  BY DEF Inv, TypeOK, RingInv, Ring
<1>3. K \in Seq(Key)
  BY <1>2, KeysOfRing, Zenon
<1>4. i \in 1..Len(made[n]) /\ Len(made[n]) - i <= MaxPrevious
  BY DEF Retained
<1>5. t.pair > 0 /\ t.nbf <= now /\ t \in Token
  BY DEF Inv, TokenInv, TypeOK
<1>6. t.kid = made[n][i].kid
  <2>1. made[n][i] \in Known
    BY <1>2, <1>4, ElementOfSeq DEF Known
  <2>2. KeyRecord(t.kid, t.pair) \in Known
    BY <1>5 DEF Known, KeyRecord, Key, Token
  <2> QED
    BY <1>1, <1>5, <2>1, <2>2 DEF Inv, OneKid, KeyRecord
<1>7. /\ \A x \in 1..Len(K) :
            \E j \in 1..Len(made[n]) : Len(made[n]) - j <= MaxPrevious /\ K[x] = made[n][j]
      /\ \A j \in 1..Len(made[n]) : Len(made[n]) - j <= MaxPrevious =>
            \E x \in 1..Len(K) : K[x] = made[n][j]
  BY <1>2, RingHoldsTheLast
<1>8. \E x \in 1..Len(K) : K[x] = made[n][i]
  <2> HIDE DEF K
  <2> QED
    BY <1>4, <1>7
<1> HIDE DEF K
<1>9. PICK x \in 1..Len(K) : K[x].kid = t.kid /\ PairOf(K, t.kid) = K[x].pair
  <2>1. \E x \in 1..Len(K) : K[x].kid = t.kid
    BY <1>6, <1>8
  <2>2. \/ \A x \in 1..Len(K) : K[x].kid # t.kid
        \/ \E x \in 1..Len(K) : K[x].kid = t.kid /\ PairOf(K, t.kid) = K[x].pair
    BY <1>3, LookupFinds
  <2> QED
    BY <2>1, <2>2
<1>10. PICK j \in 1..Len(made[n]) : Len(made[n]) - j <= MaxPrevious /\ K[x] = made[n][j]
  BY <1>7
<1>11. j = i
  BY <1>1, <1>6, <1>9, <1>10 DEF Retained
<1>12. PairOf(K, t.kid) = t.pair
  BY <1>1, <1>9, <1>10, <1>11
<1> QED
  BY <1>1, <1>5, <1>12 DEF Accepts, Verifies, K

\* A token is good on its node until it expires, through MaxPrevious
\* rotations, whatever happens between taking the key and signing.
THEOREM TokensVerify == Spec => []VerifiesUntilRetired
<1>1. Inv => VerifiesUntilRetired
  BY RetainedVerifies, KeyRingAssumption
<1> QED
  BY <1>1, Invariance, PTL
=============================================================================
