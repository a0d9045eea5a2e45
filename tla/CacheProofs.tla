---------------------------- MODULE CacheProofs ----------------------------
(***************************************************************************)
(* Theorems about CacheRequests, for every number of requests, keys,       *)
(* values and authorization URLs, and every time to live.                  *)
(***************************************************************************)
EXTENDS CacheRequests, TLAPS

(***************************************************************************)
(* What a request in progress knows: a sign-in has a state of the cache    *)
(* and the code of a URL that was made; the verifier it has read belongs   *)
(* to the URL of its state.                                                *)
(***************************************************************************)
RequestSound(w) ==
    /\ req[w].at \in {"get", "remove"} => req[w].key \in States
    /\ req[w].at \in {"get", "remove", "exchange"} => req[w].code # 0
    /\ req[w].code # 0 => Made(req[w].code)
    /\ req[w].at \in {"remove", "exchange"} => req[w].got \in Verifiers /\ Made(req[w].got)
    /\ req[w].at = "remove" => urls[req[w].got].state = req[w].key
    /\ req[w].at = "readback" => req[w].key \in ApiKeys
    /\ req[w].got # None => Keys # {}

RequestInv == \A w \in Workers : RequestSound(w)

\* A state's row has no other verifier than one that was made for this state.
StateRowsInv ==
    \A s \in States : cache[s].value # None => /\ cache[s].value \in Verifiers
                                               /\ urls[cache[s].value].state = s

\* A verifier that is exchanged after a successful remove is in no row.
SpentInv ==
    /\ \A v \in spent : Made(v)
    /\ SpentVerifiersGone
    /\ \A w \in Workers, s \in States :
          req[w].at = "exchange" /\ ~req[w].kept => cache[s].value # req[w].got

\* What a set will read back was written since its own write.
ReadBackSound(w) ==
    /\ req[w].at = "readback" /\ req[w].puts # {}
          => cache[req[w].key].value \in req[w].puts \cup {None}
    /\ Idle(w) /\ req[w].got # None /\ req[w].puts # {} => req[w].got \in req[w].puts

ReadBackInv == \A w \in Workers : ReadBackSound(w)

Inv == TypeOK /\ RequestInv /\ StateRowsInv /\ SpentInv /\ ReadBackInv

(***************************************************************************)
(* A URL that is not spoilt: no other one was made for its state, its code *)
(* was not redeemed yet unless its only callback has ended, and until that *)
(* callback has read the verifier, the cache has it, or it is late.        *)
(***************************************************************************)
SignsIn(w, v) == req[w].at \in {"get", "remove", "exchange"} /\ req[w].code = v

Kept(v) ==
    \/ cache[urls[v].state] = [value |-> v, expires |-> urls[v].at + StateTtl]
    \/ now >= urls[v].at + StateTtl

Honest(v) ==
    /\ \A u \in Verifiers : urls[u].state = urls[v].state => u = v
    /\ urls[v].mark = "fresh" => /\ v \notin redeemed
                                 /\ Kept(v)
                                 /\ \A w \in Workers : ~SignsIn(w, v)
    /\ \A w \in Workers : SignsIn(w, v) =>
          /\ v \notin redeemed
          /\ req[w].at = "get" => req[w].key = urls[v].state /\ Kept(v)
          /\ req[w].at # "get" => req[w].got = v
          /\ \A x \in Workers : SignsIn(x, v) => x = w
    /\ \A w \in Workers : req[w].at = "remove" /\ req[w].key = urls[v].state
                             => req[w].code = v

HonestInv ==
    /\ redeemed \subseteq {v \in Verifiers : Made(v)}
    /\ \A v \in Verifiers : Made(v) /\ urls[v].mark # "spoilt" => Honest(v)
    /\ HonestSignInWorks

-----------------------------------------------------------------------------
(***************************************************************************)
(* Types, and what each action does to the fields of the records.          *)
(***************************************************************************)
Assumptions == CacheAssumption /\ RequestsAssumption

LEMMA Constants ==
    ASSUME Assumptions
    PROVE  /\ None \notin Values /\ None \notin States /\ None \notin Verifiers
           /\ States \subseteq Keys /\ ApiKeys \subseteq Keys /\ States \cap ApiKeys = {}
           /\ Verifiers \subseteq Values /\ ApiValues \subseteq Values
           /\ Verifiers \subseteq Nat /\ 0 \notin Verifiers
           /\ MaxTime \in Nat /\ MaxTtl \in Nat \ {0}
           /\ StateTtl \in 1..MaxTtl /\ DefaultTtl \in 1..MaxTtl
BY DEF Assumptions, CacheAssumption, RequestsAssumption, Verifiers

LEMMA NoRequestTyped ==
    ASSUME Assumptions
    PROVE  /\ NoRequest \in Request
           /\ NoRequest.at = "idle" /\ NoRequest.key = None /\ NoRequest.code = 0
           /\ NoRequest.got = None /\ NoRequest.reply = "none"
           /\ NoRequest.kept = FALSE /\ NoRequest.puts = {}
BY DEF NoRequest, Request

\* A write of a row that its time to live allows.
LEMMA SetTyped ==
    ASSUME Assumptions, CacheTypeOK, NEW k \in Keys, NEW v \in Values,
           NEW ttl \in 1..MaxTtl, Set(k, v, ttl)
    PROVE  /\ cache' \in [Keys -> Row]
           /\ cache'[k] = [value |-> v, expires |-> now + ttl]
           /\ \A j \in Keys : j # k => cache'[j] = cache[j]
<1>1. [value |-> v, expires |-> now + ttl] \in Row
  BY Constants DEF Row, CacheTypeOK
<1> QED
  BY <1>1 DEF Set, CacheTypeOK

LEMMA RemoveTyped ==
    ASSUME Assumptions, CacheTypeOK, NEW k \in Keys, Remove(k)
    PROVE  /\ cache' \in [Keys -> Row]
           /\ cache'[k] = NoRow
           /\ \A j \in Keys : j # k => cache'[j] = cache[j]
<1>1. NoRow \in Row
  BY Constants DEF NoRow, Row
<1> QED
  BY <1>1 DEF Remove, CacheTypeOK

\* What a lookup answers is a value of the row, or nothing.
LEMMA GetTyped ==
    ASSUME TypeOK, NEW k \in Keys
    PROVE  /\ Get(k) \in Values \cup {None}
           /\ Get(k) # None => /\ Get(k) = cache[k].value
                               /\ cache[k].expires > now
           /\ cache[k].value # None /\ cache[k].expires > now => Get(k) = cache[k].value
BY DEF Get, Live, Exists, TypeOK, CacheTypeOK, Row

\* To spoil URLs changes their marks only.
LEMMA SpoilTyped ==
    ASSUME TypeOK, NEW S
    PROVE  /\ Spoil(S) \in [Verifiers -> Url]
           /\ \A v \in Verifiers :
                 /\ Spoil(S)[v].state = urls[v].state
                 /\ Spoil(S)[v].at = urls[v].at
                 /\ Spoil(S)[v].mark \in {urls[v].mark, "spoilt"}
                 /\ v \in S => Spoil(S)[v].mark = "spoilt"
                 /\ v \notin S => Spoil(S)[v] = urls[v]
BY DEF Spoil, TypeOK, Url

\* An ID token is accepted or it is not.
LEMMA IdTokenRepliesTyped == IdTokenReplies \subseteq {"ok", "failed"}
BY DEF IdTokenReplies

(***************************************************************************)
(* A step on the requests and the URLs that may spoil some of these.       *)
(***************************************************************************)
OnlyReq(w) == \A u \in Workers : u # w => req'[u] = req[u]

Spoils ==
    /\ urls' \in [Verifiers -> Url]
    /\ \A v \in Verifiers : /\ urls'[v].state = urls[v].state
                            /\ urls'[v].at = urls[v].at

\* A URL is made for state s, with verifier v.
Makes(s, v) ==
    /\ ~Made(v)
    /\ urls'[v].state = s /\ urls'[v].at = now
    /\ \A u \in Verifiers : u # v =>
          /\ urls'[u].state = urls[u].state
          /\ urls'[u].at = urls[u].at
          /\ urls'[u].mark \in {urls[u].mark, "spoilt"}
          /\ urls[u].state = s => urls'[u].mark = "spoilt"
    /\ \A k \in Keys : k # s => cache'[k] = cache[k]
    /\ cache'[s] \in {cache[s], [value |-> v, expires |-> now + StateTtl]}
    /\ urls'[v].mark # "spoilt" =>
          /\ cache'[s] = [value |-> v, expires |-> now + StateTtl]
          /\ \A u \in Verifiers : urls[u].state # s

LEMMA AuthUrlEffect ==
    ASSUME Assumptions, TypeOK, NEW s \in States, AuthUrl(s)
    PROVE  /\ TypeOK'
           /\ UNCHANGED <<now, req, redeemed, spent>>
           /\ \E v \in Verifiers : Makes(s, v)
<1> DEFINE Earlier == {v \in Verifiers : urls[v].state = s}
<1>1. PICK v \in Verifiers, failed \in BOOLEAN :
        /\ ~Made(v)
        /\ urls' = [Spoil(Earlier) EXCEPT
               ![v] = [state |-> s, at |-> now,
                       mark |-> IF failed \/ Earlier # {} THEN "spoilt" ELSE "fresh"]]
        /\ IF failed THEN UNCHANGED cache ELSE Set(s, v, StateTtl)
        /\ UNCHANGED <<now, req, redeemed, spent>>
  BY DEF AuthUrl
<1> DEFINE url == [state |-> s, at |-> now,
                   mark |-> IF failed \/ Earlier # {} THEN "spoilt" ELSE "fresh"]
<1>2. /\ url \in Url /\ url.state = s /\ url.at = now
      /\ url.mark # "spoilt" => ~failed /\ Earlier = {}
  BY DEF Url, TypeOK, CacheTypeOK
<1>3. urls' = [Spoil(Earlier) EXCEPT ![v] = url]
  BY <1>1
<1> HIDE DEF url
<1>4. /\ urls' \in [Verifiers -> Url] /\ urls'[v] = url
      /\ \A u \in Verifiers : u # v => urls'[u] = Spoil(Earlier)[u]
  BY <1>2, <1>3, SpoilTyped
<1>5. \A u \in Verifiers : u # v =>
                       /\ urls'[u].state = urls[u].state
                       /\ urls'[u].at = urls[u].at
                       /\ urls'[u].mark \in {urls[u].mark, "spoilt"}
                       /\ urls[u].state = s => urls'[u].mark = "spoilt"
  <2>1. \A u \in Verifiers : /\ Spoil(Earlier)[u].state = urls[u].state
                             /\ Spoil(Earlier)[u].at = urls[u].at
                             /\ Spoil(Earlier)[u].mark \in {urls[u].mark, "spoilt"}
                             /\ u \in Earlier => Spoil(Earlier)[u].mark = "spoilt"
    <3> HIDE DEF Earlier
    <3> QED
      BY SpoilTyped
  <2>2. \A u \in Verifiers : urls[u].state = s => u \in Earlier
    OBVIOUS
  <2> HIDE DEF Earlier
  <2> QED
    BY <1>4, <2>1, <2>2
<1>6. /\ s \in Keys /\ v \in Values /\ StateTtl \in 1..MaxTtl /\ CacheTypeOK
  BY Constants DEF TypeOK
<1>7. CASE failed
  <2>1. cache' = cache
    BY <1>1, <1>7
  <2>2. TypeOK'
    BY <1>1, <1>4, <2>1 DEF TypeOK, CacheTypeOK
  <2> QED
    BY <1>1, <1>2, <1>4, <1>5, <1>7, <2>1, <2>2 DEF Makes
<1>8. CASE ~failed
  <2>1. /\ cache' \in [Keys -> Row]
        /\ cache'[s] = [value |-> v, expires |-> now + StateTtl]
        /\ \A j \in Keys : j # s => cache'[j] = cache[j]
    BY <1>1, <1>6, <1>8, SetTyped
  <2>2. TypeOK'
    BY <1>1, <1>4, <2>1 DEF TypeOK, CacheTypeOK
  <2> QED
    BY <1>1, <1>2, <1>4, <1>5, <2>1, <2>2 DEF Makes
<1> QED
  BY <1>7, <1>8

LEMMA CallbackEffect ==
    ASSUME Assumptions, TypeOK, NEW w \in Workers, NEW s \in States, NEW v \in Verifiers,
           Callback(w, s, v)
    PROVE  /\ TypeOK'
           /\ UNCHANGED <<cache, now, redeemed, spent>>
           /\ OnlyReq(w) /\ Spoils
           /\ req'[w].at = "get" /\ req'[w].key = s /\ req'[w].code = v
           /\ req'[w].got = None /\ req'[w].puts = {}
           /\ \A u \in Verifiers : u # v => urls'[u] = urls[u]
           /\ urls'[v].mark \in {"used", "spoilt"}
           /\ urls'[v].mark = "used" => urls[v].mark = "fresh" /\ urls[v].state = s
<1> DEFINE r == [NoRequest EXCEPT !.at = "get", !.key = s, !.code = v]
           m == IF urls[v].mark = "fresh" /\ urls[v].state = s THEN "used" ELSE "spoilt"
<1>1. s \in Keys
  BY Constants
<1>2. /\ r \in Request /\ r.at = "get" /\ r.key = s /\ r.code = v
      /\ r.got = None /\ r.puts = {}
  BY <1>1, NoRequestTyped DEF Request
<1>3. req' = [req EXCEPT ![w] = r] /\ urls' = [urls EXCEPT ![v].mark = m]
      /\ UNCHANGED <<cache, now, redeemed, spent>>
  BY DEF Callback
<1>4. m \in {"used", "spoilt"} /\ (m = "used" => urls[v].mark = "fresh" /\ urls[v].state = s)
  OBVIOUS
<1> HIDE DEF r, m
<1>5. req' \in [Workers -> Request] /\ req'[w] = r /\ OnlyReq(w)
  BY <1>2, <1>3 DEF TypeOK, OnlyReq
<1>6. /\ Spoils /\ urls'[v].mark = m
      /\ \A u \in Verifiers : u # v => urls'[u] = urls[u]
  BY <1>3, <1>4 DEF TypeOK, Url, Spoils
<1>7. TypeOK'
  BY <1>3, <1>5, <1>6 DEF TypeOK, CacheTypeOK, Spoils
<1> QED
  BY <1>2, <1>3, <1>4, <1>5, <1>6, <1>7

LEMMA ReadVerifierEffect ==
    ASSUME Assumptions, TypeOK, RequestInv, NEW w \in Workers, ReadVerifier(w)
    PROVE  /\ TypeOK'
           /\ UNCHANGED <<cache, now, redeemed, spent>>
           /\ OnlyReq(w) /\ Spoils
           /\ req[w].at = "get" /\ req[w].key \in States /\ req[w].code \in Verifiers
           /\ \A u \in Verifiers : urls'[u].mark \in {urls[u].mark, "spoilt"}
           /\ \/ /\ req'[w].at = "idle" /\ req'[w].got = None /\ req'[w].puts = {}
                 /\ req'[w].reply = "refused" /\ req'[w].code = req[w].code
                 /\ \/ urls'[req[w].code].mark = "spoilt"
                    \/ Get(req[w].key) = None /\ now < urls[req[w].code].at + StateTtl
              \/ LET found == Get(req[w].key) IN
                 /\ found # None
                 /\ req'[w].at = "remove" /\ req'[w].got = found
                 /\ req'[w].key = req[w].key /\ req'[w].code = req[w].code
                 /\ req'[w].puts = req[w].puts /\ req'[w].reply = req[w].reply
                 /\ found \in Verifiers \ {req[w].code} => urls'[found].mark = "spoilt"
                 /\ \/ urls'[req[w].code].mark = "spoilt"
                    \/ now < urls[req[w].code].at + StateTtl
<1> DEFINE code == req[w].code
           late == now - urls[code].at >= StateTtl
           refusal == [NoRequest EXCEPT !.reply = "refused", !.code = code]
           found == Get(req[w].key)
           next == [req[w] EXCEPT !.at = "remove", !.got = found]
           rotten == (IF late THEN {code} ELSE {}) \cup ({found} \cap (Verifiers \ {code}))
<1>1. /\ req[w] \in Request /\ req[w].at = "get"
      /\ code \in Verifiers /\ req[w].key \in States /\ req[w].key \in Keys
  BY Constants DEF ReadVerifier, RequestInv, RequestSound, TypeOK, Request
<1>2. /\ urls[code].at \in Nat /\ now \in Nat /\ StateTtl \in Nat
      /\ found \in Values \cup {None}
  BY <1>1, Constants, GetTyped DEF TypeOK, Url, CacheTypeOK
<1>3. /\ refusal \in Request /\ refusal.at = "idle" /\ refusal.got = None
      /\ refusal.puts = {} /\ refusal.reply = "refused" /\ refusal.code = code
  BY <1>1, NoRequestTyped DEF Request
<1>4. /\ next \in Request /\ next.at = "remove" /\ next.got = found
      /\ next.key = req[w].key /\ next.code = code
      /\ next.puts = req[w].puts /\ next.reply = req[w].reply
  <2> HIDE DEF found
  <2> QED
    BY <1>1, <1>2 DEF Request
<1>5. /\ \/ /\ req' = [req EXCEPT ![w] = IF found = None THEN refusal ELSE next]
            /\ urls' = Spoil(rotten)
         \/ /\ req' = [req EXCEPT ![w] = refusal]
            /\ urls' = Spoil({code})
      /\ UNCHANGED <<cache, now, redeemed, spent>>
  BY DEF ReadVerifier
<1>6. /\ \E S : urls' = Spoil(S)
      /\ \E r \in {refusal, next} : req' = [req EXCEPT ![w] = r]
  BY <1>5
<1> HIDE DEF refusal, next, found
<1>7. /\ Spoils
      /\ \A u \in Verifiers : urls'[u].mark \in {urls[u].mark, "spoilt"}
  <2>1. PICK S : urls' = Spoil(S)
    BY <1>6
  <2> QED
    BY <2>1, SpoilTyped DEF Spoils
<1>8. OnlyReq(w) /\ req' \in [Workers -> Request]
  BY <1>3, <1>4, <1>6 DEF TypeOK, OnlyReq
<1>9. TypeOK'
  BY <1>5, <1>7, <1>8 DEF TypeOK, CacheTypeOK, Spoils
<1>10. CASE /\ req' = [req EXCEPT ![w] = IF found = None THEN refusal ELSE next]
            /\ urls' = Spoil(rotten)
  <2>1. /\ late => urls'[code].mark = "spoilt"
        /\ found \in Verifiers \ {code} => urls'[found].mark = "spoilt"
    <3>1. /\ late => code \in rotten
          /\ found \in Verifiers \ {code} => found \in rotten
      OBVIOUS
    <3> HIDE DEF rotten
    <3> QED
      BY <1>1, <1>10, <3>1, SpoilTyped
  <2>2. late \/ now < urls[code].at + StateTtl
    BY <1>2
  <2> HIDE DEF late
  <2>3. CASE found = None
    <3>1. req'[w] = refusal
      BY <1>10, <2>3 DEF TypeOK
    <3> QED
      BY <1>1, <1>3, <1>5, <1>7, <1>8, <1>9, <2>1, <2>2, <2>3, <3>1 DEF found
  <2>4. CASE found # None
    <3>1. req'[w] = next
      BY <1>10, <2>4 DEF TypeOK
    <3> QED
      BY <1>1, <1>4, <1>5, <1>7, <1>8, <1>9, <2>1, <2>2, <2>4, <3>1 DEF found
  <2> QED
    BY <2>3, <2>4
<1>11. CASE req' = [req EXCEPT ![w] = refusal] /\ urls' = Spoil({code})
  <2>1. req'[w] = refusal /\ urls'[code].mark = "spoilt"
    BY <1>1, <1>11, SpoilTyped DEF TypeOK
  <2> QED
    BY <1>1, <1>3, <1>5, <1>7, <1>8, <1>9, <2>1
<1> QED
  BY <1>5, <1>10, <1>11

LEMMA PurgeEffect ==
    ASSUME Assumptions, TypeOK, RequestInv, NEW w \in Workers, Purge(w)
    PROVE  /\ TypeOK'
           /\ UNCHANGED <<now, redeemed, urls, spent>>
           /\ OnlyReq(w)
           /\ req[w].at = "remove" /\ req[w].key \in States
           /\ req'[w].at = "exchange" /\ req'[w].got = req[w].got
           /\ req'[w].code = req[w].code /\ req'[w].reply = req[w].reply
           /\ \A k \in Keys : k # req[w].key => cache'[k] = cache[k]
           /\ \/ req'[w].kept /\ cache' = cache
              \/ cache'[req[w].key] = NoRow
<1>1. PICK failed \in BOOLEAN :
        /\ IF failed THEN UNCHANGED cache ELSE Remove(req[w].key)
        /\ req' = [req EXCEPT ![w].at = "exchange", ![w].key = None, ![w].kept = failed]
  BY DEF Purge
<1>2. /\ req[w] \in Request /\ req[w].at = "remove"
      /\ req[w].key \in States /\ req[w].key \in Keys
      /\ UNCHANGED <<now, redeemed, urls, spent>>
  BY Constants DEF Purge, RequestInv, RequestSound, TypeOK
<1>3. /\ req' \in [Workers -> Request] /\ OnlyReq(w)
      /\ req'[w].at = "exchange" /\ req'[w].got = req[w].got
      /\ req'[w].code = req[w].code /\ req'[w].reply = req[w].reply
      /\ req'[w].kept = failed
  BY <1>1, <1>2 DEF TypeOK, Request, OnlyReq
<1>4. CASE failed
  BY <1>1, <1>2, <1>3, <1>4 DEF TypeOK, CacheTypeOK
<1>5. CASE ~failed
  <2>1. /\ cache' \in [Keys -> Row]
        /\ cache'[req[w].key] = NoRow
        /\ \A j \in Keys : j # req[w].key => cache'[j] = cache[j]
    BY <1>1, <1>2, <1>5, RemoveTyped DEF TypeOK
  <2> QED
    BY <1>2, <1>3, <2>1 DEF TypeOK, CacheTypeOK
<1> QED
  BY <1>4, <1>5

LEMMA ExchangeEffect ==
    ASSUME Assumptions, TypeOK, RequestInv, NEW w \in Workers, Exchange(w)
    PROVE  /\ TypeOK'
           /\ UNCHANGED <<cache, now, urls>>
           /\ OnlyReq(w)
           /\ req[w].at = "exchange" /\ req[w].code \in Verifiers /\ req[w].got \in Verifiers
           /\ req'[w].at = "idle" /\ req'[w].got = None /\ req'[w].puts = {}
           /\ req'[w].code \in {0, req[w].code}
           /\ req'[w].reply # "refused"
           /\ req'[w].reply = "rejected" => ~Redeems(req[w].code, req[w].got)
           /\ redeemed' \in {redeemed, redeemed \cup {req[w].code}}
           /\ spent' = IF req[w].kept THEN spent ELSE spent \cup {req[w].got}
<1>1. /\ req[w] \in Request /\ req[w].at = "exchange"
      /\ req[w].code \in Verifiers /\ req[w].got \in Verifiers
      /\ UNCHANGED <<cache, now, urls>>
      /\ spent' = IF req[w].kept THEN spent ELSE spent \cup {req[w].got}
  BY DEF Exchange, RequestInv, RequestSound, TypeOK, Request
<1>2. PICK r \in {"ok", "rejected", "failed"} :
        /\ Finish(w, r)
        /\ r = "rejected" => ~Redeems(req[w].code, req[w].got)
        /\ redeemed' \in {redeemed, redeemed \cup {req[w].code}}
  BY IdTokenRepliesTyped DEF Exchange
<1> DEFINE end == [NoRequest EXCEPT !.reply = r,
                                    !.code = IF r = "rejected" THEN req[w].code ELSE 0]
<1>3. /\ end \in Request /\ end.at = "idle" /\ end.got = None /\ end.puts = {}
      /\ end.code \in {0, req[w].code} /\ end.reply = r
  BY <1>1, NoRequestTyped DEF Request
<1>4. req' = [req EXCEPT ![w] = end]
  BY <1>2 DEF Finish
<1> HIDE DEF end
<1>5. req' \in [Workers -> Request] /\ OnlyReq(w) /\ req'[w] = end
  BY <1>3, <1>4 DEF TypeOK, OnlyReq
<1>6. TypeOK'
  BY <1>1, <1>2, <1>5 DEF TypeOK, CacheTypeOK
<1> QED
  BY <1>1, <1>2, <1>3, <1>5, <1>6

LEMMA DirectLoginEffect ==
    ASSUME Assumptions, TypeOK, NEW w \in Workers, DirectLogin(w)
    PROVE  /\ TypeOK'
           /\ UNCHANGED <<cache, now, redeemed, urls, spent>>
           /\ OnlyReq(w) /\ Idle(w)
           /\ req'[w].at = "idle" /\ req'[w].got = None
           /\ req'[w].code = 0 /\ req'[w].puts = {}
<1>1. PICK r \in {"ok", "rejected", "failed"} : req' = [req EXCEPT ![w] = [NoRequest EXCEPT !.reply = r]]
  BY IdTokenRepliesTyped DEF DirectLogin
<1> DEFINE end == [NoRequest EXCEPT !.reply = r]
<1>2. /\ end \in Request /\ end.at = "idle" /\ end.got = None /\ end.puts = {} /\ end.code = 0
  BY NoRequestTyped DEF Request
<1>3. req' = [req EXCEPT ![w] = end] /\ Idle(w) /\ UNCHANGED <<cache, now, redeemed, urls, spent>>
  BY <1>1 DEF DirectLogin
<1> HIDE DEF end
<1>4. req' \in [Workers -> Request] /\ OnlyReq(w) /\ req'[w] = end
  BY <1>2, <1>3 DEF TypeOK, OnlyReq
<1> QED
  BY <1>2, <1>3, <1>4 DEF TypeOK, CacheTypeOK

\* Worker w begins to set key k, and its write of x is committed or not.
Begins(w, k) ==
    /\ Idle(w)
    /\ req'[w].at = "readback" /\ req'[w].key = k
    /\ req'[w].got = None /\ req'[w].code = 0
    /\ \A j \in Keys : j # k => cache'[j] = cache[j]
    /\ \A u \in Workers : u # w =>
          /\ req'[u].at = req[u].at /\ req'[u].key = req[u].key
          /\ req'[u].code = req[u].code /\ req'[u].got = req[u].got
          /\ req'[u].reply = req[u].reply /\ req'[u].kept = req[u].kept

Writes(w, k, x) ==
    /\ req'[w].puts = {x}
    /\ \E ttl \in 1..MaxTtl : cache'[k] = [value |-> x, expires |-> now + ttl]
    /\ \A u \in Workers : u # w =>
          IF req[u].at = "readback" /\ req[u].key = k /\ req[u].puts # {}
            THEN req'[u].puts = req[u].puts \cup {x}
            ELSE req'[u].puts = req[u].puts

LEMMA SetEntryEffect ==
    ASSUME Assumptions, TypeOK, NEW w \in Workers, NEW k \in ApiKeys,
           NEW x \in ApiValues, NEW t \in ApiTtls, SetEntry(w, k, x, t)
    PROVE  /\ TypeOK'
           /\ UNCHANGED <<now, redeemed, urls, spent>>
           /\ Begins(w, k)
           /\ \/ Writes(w, k, x)
              \/ cache' = cache /\ req'[w].puts = {} /\ OnlyReq(w)
<1> DEFINE mine == [NoRequest EXCEPT !.at = "readback", !.key = k]
           wrote == [mine EXCEPT !.puts = {x}]
           seen(u) == [req[u] EXCEPT !.puts = @ \cup {x}]
           Reads(u) == req[u].at = "readback" /\ req[u].key = k /\ req[u].puts # {}
<1>1. /\ k \in Keys /\ x \in Values /\ EffectiveTtl(t) \in 1..MaxTtl
      /\ req \in [Workers -> Request]
  BY Constants DEF EffectiveTtl, Assumptions, RequestsAssumption, TypeOK
<1>2. /\ mine \in Request /\ mine.at = "readback" /\ mine.key = k
      /\ mine.got = None /\ mine.code = 0 /\ mine.puts = {}
  BY <1>1, NoRequestTyped DEF Request
<1>3. /\ wrote \in Request /\ wrote.at = "readback" /\ wrote.key = k
      /\ wrote.got = None /\ wrote.code = 0 /\ wrote.puts = {x}
  <2> HIDE DEF mine
  <2> QED
    BY <1>2 DEF Request
<1>4. \A u \in Workers :
          /\ seen(u) \in Request
          /\ seen(u).at = req[u].at /\ seen(u).key = req[u].key
          /\ seen(u).code = req[u].code /\ seen(u).got = req[u].got
          /\ seen(u).reply = req[u].reply /\ seen(u).kept = req[u].kept
          /\ seen(u).puts = req[u].puts \cup {x}
  <2> TAKE u \in Workers
  <2>1. req[u] \in Request
    BY <1>1
  <2> QED
    BY <2>1 DEF Request
<1>5. /\ Idle(w) /\ UNCHANGED <<now, redeemed, urls, spent>>
      /\ \/ /\ Set(k, x, EffectiveTtl(t))
            /\ req' = [u \in Workers |-> CASE u = w -> wrote
                                           [] u # w -> IF Reads(u) THEN seen(u) ELSE req[u]]
         \/ /\ req' = [req EXCEPT ![w] = mine]
            /\ UNCHANGED cache
  BY DEF SetEntry
<1> HIDE DEF mine, wrote, seen
<1>6. CASE /\ Set(k, x, EffectiveTtl(t))
           /\ req' = [u \in Workers |-> CASE u = w -> wrote
                                          [] u # w -> IF Reads(u) THEN seen(u) ELSE req[u]]
  <2>1. /\ cache' \in [Keys -> Row]
        /\ cache'[k] = [value |-> x, expires |-> now + EffectiveTtl(t)]
        /\ \A j \in Keys : j # k => cache'[j] = cache[j]
    BY <1>1, <1>6, SetTyped DEF TypeOK
  <2>2. /\ req'[w] = wrote
        /\ \A u \in Workers : u # w => req'[u] = IF Reads(u) THEN seen(u) ELSE req[u]
    BY <1>6
  <2>3. req' \in [Workers -> Request]
    <3>1. \A u \in Workers : (CASE u = w -> wrote
                                [] u # w -> IF Reads(u) THEN seen(u) ELSE req[u]) \in Request
      BY <1>1, <1>3, <1>4
    <3> QED
      BY <1>6, <3>1
  <2>4. TypeOK'
    BY <1>5, <2>1, <2>3 DEF TypeOK, CacheTypeOK
  <2>5. \A u \in Workers : u # w =>
                 /\ req'[u].at = req[u].at /\ req'[u].key = req[u].key
                 /\ req'[u].code = req[u].code /\ req'[u].got = req[u].got
                 /\ req'[u].reply = req[u].reply /\ req'[u].kept = req[u].kept
    BY <1>4, <2>2
  <2>6. \A u \in Workers : u # w => IF Reads(u) THEN req'[u].puts = req[u].puts \cup {x}
                                               ELSE req'[u].puts = req[u].puts
    BY <1>4, <2>2
  <2> QED
    BY <1>1, <1>3, <1>5, <2>1, <2>2, <2>4, <2>5, <2>6 DEF Begins, Writes
<1>7. CASE req' = [req EXCEPT ![w] = mine] /\ UNCHANGED cache
  <2>1. /\ req' \in [Workers -> Request] /\ req'[w] = mine
        /\ \A u \in Workers : u # w => req'[u] = req[u]
    BY <1>1, <1>2, <1>7
  <2>2. TypeOK'
    BY <1>5, <1>7, <2>1 DEF TypeOK, CacheTypeOK
  <2> QED
    BY <1>2, <1>5, <1>7, <2>1, <2>2 DEF Begins, OnlyReq
<1> QED
  BY <1>5, <1>6, <1>7

LEMMA ReadBackEffect ==
    ASSUME Assumptions, TypeOK, RequestInv, NEW w \in Workers, ReadBack(w)
    PROVE  /\ TypeOK'
           /\ UNCHANGED <<cache, now, redeemed, urls, spent>>
           /\ OnlyReq(w)
           /\ req[w].at = "readback" /\ req[w].key \in ApiKeys
           /\ req'[w].at = "idle" /\ req'[w].code = 0
           /\ req'[w].got \in {Get(req[w].key), None}
           /\ req'[w].got # None => req'[w].puts = req[w].puts
<1>1. /\ req[w] \in Request /\ req[w].at = "readback"
      /\ req[w].key \in ApiKeys /\ req[w].key \in Keys
      /\ UNCHANGED <<cache, now, redeemed, urls, spent>>
  BY Constants DEF ReadBack, RequestInv, RequestSound, TypeOK
<1>2. PICK x \in {Get(req[w].key), None} :
          req' = [req EXCEPT ![w] = [NoRequest EXCEPT
                     !.got = x, !.puts = IF x = None THEN {} ELSE req[w].puts]]
  BY DEF ReadBack
<1> DEFINE end == [NoRequest EXCEPT !.got = x, !.puts = IF x = None THEN {} ELSE req[w].puts]
<1>3. x \in Values \cup {None}
  BY <1>1, <1>2, GetTyped
<1>4. /\ end \in Request /\ end.at = "idle" /\ end.got = x /\ end.code = 0
      /\ x # None => end.puts = req[w].puts
  <2>1. req[w].puts \in SUBSET ApiValues
    BY <1>1 DEF Request
  <2> QED
    BY <1>3, <2>1, NoRequestTyped DEF Request
<1>5. req' = [req EXCEPT ![w] = end]
  BY <1>2
<1> HIDE DEF end
<1>6. req' \in [Workers -> Request] /\ OnlyReq(w) /\ req'[w] = end
  BY <1>4, <1>5 DEF TypeOK, OnlyReq
<1> QED
  BY <1>1, <1>2, <1>4, <1>6 DEF TypeOK, CacheTypeOK

LEMMA GetEntryEffect ==
    ASSUME Assumptions, TypeOK, NEW w \in Workers, NEW k \in ApiKeys, GetEntry(w, k)
    PROVE  /\ TypeOK'
           /\ UNCHANGED <<cache, now, redeemed, urls, spent>>
           /\ OnlyReq(w) /\ Idle(w)
           /\ req'[w].at = "idle" /\ req'[w].code = 0 /\ req'[w].puts = {}
           /\ req'[w].got \in {Get(k), None}
<1>1. PICK x \in {Get(k), None} : req' = [req EXCEPT ![w] = [NoRequest EXCEPT !.got = x]]
  BY DEF GetEntry
<1>2. x \in Values \cup {None}
  BY <1>1, Constants, GetTyped
<1> DEFINE end == [NoRequest EXCEPT !.got = x]
<1>3. end \in Request /\ end.at = "idle" /\ end.got = x /\ end.code = 0 /\ end.puts = {}
  BY <1>2, NoRequestTyped DEF Request
<1>4. req' = [req EXCEPT ![w] = end]
  BY <1>1
<1>5. Idle(w) /\ UNCHANGED <<cache, now, redeemed, urls, spent>>
  BY DEF GetEntry
<1> HIDE DEF end
<1>6. req' \in [Workers -> Request] /\ OnlyReq(w) /\ req'[w] = end
  BY <1>3, <1>4 DEF TypeOK, OnlyReq
<1> QED
  BY <1>1, <1>3, <1>5, <1>6 DEF TypeOK, CacheTypeOK

\* The steps that no request takes.
LEMMA DeleteEntryEffect ==
    ASSUME Assumptions, TypeOK, NEW k \in ApiKeys, DeleteEntry(k)
    PROVE  /\ TypeOK'
           /\ UNCHANGED <<now, req, redeemed, urls, spent>>
           /\ cache'[k] = NoRow
           /\ \A j \in Keys : j # k => cache'[j] = cache[j]
<1>1. k \in Keys /\ Remove(k) /\ UNCHANGED <<now, req, redeemed, urls, spent>>
  BY Constants DEF DeleteEntry
<1>2. /\ cache' \in [Keys -> Row]
      /\ cache'[k] = NoRow
      /\ \A j \in Keys : j # k => cache'[j] = cache[j]
  BY <1>1, RemoveTyped DEF TypeOK
<1> QED
  BY <1>1, <1>2 DEF TypeOK, CacheTypeOK

LEMMA CleanupEffect ==
    ASSUME Assumptions, TypeOK, Cleanup
    PROVE  /\ TypeOK'
           /\ UNCHANGED <<now, req, redeemed, urls, spent>>
           /\ \A k \in Keys : \/ cache'[k] = cache[k]
                              \/ cache'[k] = NoRow /\ cache[k].expires <= now
<1>1. NoRow \in Row
  BY Constants DEF NoRow, Row
<1>2. /\ cache' = [k \in Keys |-> IF cache[k].expires <= now THEN NoRow ELSE cache[k]]
      /\ UNCHANGED <<now, req, redeemed, urls, spent>>
  BY DEF Cleanup, CleanupExpired
<1> QED
  BY <1>1, <1>2 DEF TypeOK, CacheTypeOK

LEMMA TickEffect ==
    ASSUME Assumptions, TypeOK, Tick
    PROVE  /\ TypeOK'
           /\ UNCHANGED <<cache, req, redeemed, urls, spent>>
           /\ now' = now + 1
BY Constants DEF Tick, TypeOK, CacheTypeOK

-----------------------------------------------------------------------------
(***************************************************************************)
(* Every action preserves the invariant.                                   *)
(***************************************************************************)
\* The initial state.
LEMMA InitInv ==
    ASSUME Assumptions, Init
    PROVE  Inv /\ HonestInv
<1>1. /\ \A k \in Keys : cache[k] = NoRow /\ cache[k].value = None
      /\ \A w \in Workers : req[w] = NoRequest
      /\ \A v \in Verifiers : urls[v].state = None /\ ~Made(v)
      /\ redeemed = {} /\ spent = {}
  BY DEF Init, NoRow, Made
<1>2. TypeOK
  <2>1. /\ NoRow \in Row /\ NoRequest \in Request
        /\ [state |-> None, at |-> 0, mark |-> "fresh"] \in Url
    BY Constants, NoRequestTyped DEF NoRow, Row, Url
  <2> QED
    BY <2>1, Constants DEF Init, TypeOK, CacheTypeOK
<1>3. RequestInv
  BY <1>1, NoRequestTyped DEF RequestInv, RequestSound
<1>4. StateRowsInv /\ SpentInv
  BY <1>1, NoRequestTyped, Constants DEF StateRowsInv, SpentInv, SpentVerifiersGone
<1>5. ReadBackInv
  BY <1>1, NoRequestTyped DEF ReadBackInv, ReadBackSound
<1>6. HonestInv
  BY <1>1, NoRequestTyped DEF HonestInv, HonestSignInWorks
<1> QED
  BY <1>2, <1>3, <1>4, <1>5, <1>6 DEF Inv

\* A request that a step does not touch stays sound.
LEMMA OthersSound ==
    ASSUME NEW w \in Workers, RequestSound(w), TypeOK,
           req'[w].at = req[w].at, req'[w].key = req[w].key,
           req'[w].code = req[w].code, req'[w].got = req[w].got,
           \A v \in Verifiers : Made(v) => urls'[v].state = urls[v].state
    PROVE  RequestSound(w)'
<1>1. req[w].code # 0 => req[w].code \in Verifiers
  BY DEF TypeOK, Request
<1> QED
  BY <1>1 DEF RequestSound, Made

LEMMA AuthUrlKeepsInv ==
    ASSUME Assumptions, Inv, NEW s \in States, AuthUrl(s)
    PROVE  Inv'
<1>1. /\ TypeOK /\ RequestInv /\ StateRowsInv /\ SpentInv /\ ReadBackInv
      /\ States \subseteq Keys /\ None \notin States /\ States \cap ApiKeys = {}
      /\ None \notin Verifiers /\ ApiKeys \subseteq Keys
  BY Constants DEF Inv
<1>2. TypeOK' /\ UNCHANGED <<now, req, redeemed, spent>>
  BY <1>1, AuthUrlEffect
<1>3. PICK v \in Verifiers : Makes(s, v)
  BY <1>1, AuthUrlEffect
<1>10. /\ ~Made(v)
       /\ urls'[v].state = s
       /\ \A u \in Verifiers : u # v => urls'[u].state = urls[u].state
       /\ \A k \in Keys : k # s => cache'[k] = cache[k]
       /\ cache'[s] \in {cache[s], [value |-> v, expires |-> now + StateTtl]}
  BY <1>3 DEF Makes
<1>4. \A u \in Verifiers : Made(u) => urls'[u].state = urls[u].state
  BY <1>10 DEF Made
<1>5. RequestInv'
  BY <1>1, <1>2, <1>4, OthersSound DEF RequestInv
<1>6. \A q \in States : cache'[q].value = cache[q].value \/ (q = s /\ cache'[q].value = v)
  BY <1>1, <1>10
<1>7. StateRowsInv'
  <2> SUFFICES ASSUME NEW q \in States, cache'[q].value # None
               PROVE  cache'[q].value \in Verifiers /\ urls'[cache'[q].value].state = q
    BY DEF StateRowsInv
  <2>1. CASE cache'[q].value = cache[q].value
    BY <1>1, <1>10, <2>1 DEF StateRowsInv, Made
  <2>2. CASE q = s /\ cache'[q].value = v
    BY <1>10, <2>2
  <2> QED
    BY <1>6, <2>1, <2>2
<1>8. SpentInv'
  <2>1. \A u \in spent : u \in Verifiers /\ Made(u) /\ u # v
    BY <1>1, <1>10 DEF SpentInv, TypeOK
  <2>2. \A u \in spent' : Made(u)'
    BY <1>1, <1>2, <1>4, <2>1 DEF Made
  <2>3. SpentVerifiersGone'
    BY <1>1, <1>2, <1>6, <2>1 DEF SpentInv, SpentVerifiersGone
  <2>4. ASSUME NEW w \in Workers, NEW q \in States, req[w].at = "exchange" /\ ~req[w].kept
        PROVE  cache'[q].value # req[w].got
    BY <1>1, <1>10, <1>6, <2>4 DEF SpentInv, RequestInv, RequestSound
  <2> QED
    BY <1>2, <2>2, <2>3, <2>4 DEF SpentInv
<1>9. ReadBackInv'
  <2> SUFFICES ASSUME NEW w \in Workers
               PROVE  ReadBackSound(w)'
    BY DEF ReadBackInv
  <2>1. ReadBackSound(w) /\ RequestSound(w)
    BY <1>1 DEF ReadBackInv, RequestInv
  <2> QED
    BY <1>1, <1>2, <1>10, <2>1 DEF ReadBackSound, RequestSound, Idle
<1> QED
  BY <1>2, <1>5, <1>7, <1>8, <1>9 DEF Inv

(***************************************************************************)
(* A step that writes no new row: rows stay or go, and the requests that   *)
(* it changes are sound.                                                   *)
(***************************************************************************)
RequestKeeps(w) ==
    \/ req'[w] = req[w]
    \/ /\ RequestSound(w)'
       /\ ReadBackSound(w)'
       /\ req'[w].at = "exchange" /\ ~req'[w].kept
             => \A s \in States : cache'[s].value # req'[w].got

WritesNothing ==
    /\ TypeOK'
    /\ \A v \in Verifiers : urls'[v].state = urls[v].state
    /\ \A k \in Keys : cache'[k] = cache[k] \/ cache'[k] = NoRow
    /\ \A w \in Workers : RequestKeeps(w)
    /\ \A v \in spent' : Made(v) /\ \A s \in States : cache'[s].value # v

LEMMA WritesNothingKeepsInv ==
    ASSUME Assumptions, Inv, WritesNothing
    PROVE  Inv'
<1>1. /\ TypeOK /\ RequestInv /\ StateRowsInv /\ SpentInv /\ ReadBackInv
      /\ States \subseteq Keys /\ ApiKeys \subseteq Keys
      /\ None \notin Verifiers
  BY Constants DEF Inv
<1>2. /\ TypeOK' /\ \A w \in Workers : RequestKeeps(w)
      /\ \A v \in Verifiers : urls'[v].state = urls[v].state
      /\ \A k \in Keys : cache'[k] = cache[k] \/ cache'[k].value = None
  BY DEF WritesNothing, NoRow
<1>3. RequestInv'
  <2> SUFFICES ASSUME NEW w \in Workers
               PROVE  RequestSound(w)'
    BY DEF RequestInv
  <2> QED
    BY <1>1, <1>2, OthersSound DEF RequestInv, RequestKeeps
<1>4. StateRowsInv'
  BY <1>1, <1>2 DEF StateRowsInv
<1>5. SpentInv'
  <2>1. \A v \in spent' : Made(v)'
    BY <1>2 DEF Made, TypeOK, WritesNothing
  <2>2. SpentVerifiersGone'
    BY DEF SpentVerifiersGone, WritesNothing
  <2>3. ASSUME NEW w \in Workers, NEW s \in States,
               req'[w].at = "exchange" /\ ~req'[w].kept
        PROVE  cache'[s].value # req'[w].got
    <3>1. CASE req'[w] = req[w]
      BY <1>1, <1>2, <2>3, <3>1 DEF SpentInv, RequestInv, RequestSound
    <3> QED
      BY <1>2, <2>3, <3>1 DEF RequestKeeps
  <2> QED
    BY <2>1, <2>2, <2>3 DEF SpentInv
<1>6. ReadBackInv'
  <2> SUFFICES ASSUME NEW w \in Workers, req'[w] = req[w]
               PROVE  ReadBackSound(w)'
    BY <1>2 DEF ReadBackInv, RequestKeeps
  <2>1. ReadBackSound(w) /\ RequestSound(w)
    BY <1>1 DEF ReadBackInv, RequestInv
  <2> QED
    BY <1>1, <1>2, <2>1 DEF ReadBackSound, RequestSound, Idle
<1> QED
  BY <1>2, <1>3, <1>4, <1>5, <1>6 DEF Inv

LEMMA CallbackKeepsInv ==
    ASSUME Assumptions, Inv, NEW w \in Workers, NEW s \in States, NEW v \in Verifiers,
           Callback(w, s, v)
    PROVE  Inv'
<1>1. TypeOK /\ Made(v) /\ v # 0 /\ s \in Keys
  BY Constants DEF Inv, Callback
<1>2. /\ TypeOK' /\ UNCHANGED <<cache, now, redeemed, spent>>
      /\ OnlyReq(w) /\ Spoils
      /\ req'[w].at = "get" /\ req'[w].key = s /\ req'[w].code = v
      /\ req'[w].got = None /\ req'[w].puts = {}
  BY <1>1, CallbackEffect
<1>3. RequestSound(w)' /\ ReadBackSound(w)'
  BY <1>1, <1>2 DEF RequestSound, ReadBackSound, Idle, Spoils, Made
<1>4. WritesNothing
  BY <1>2, <1>3 DEF WritesNothing, RequestKeeps, OnlyReq, Spoils, Inv, SpentInv, SpentVerifiersGone
<1> QED
  BY <1>4, WritesNothingKeepsInv

LEMMA ReadVerifierKeepsInv ==
    ASSUME Assumptions, Inv, NEW w \in Workers, ReadVerifier(w)
    PROVE  Inv'
<1>1. TypeOK /\ RequestInv /\ RequestSound(w) /\ ReadBackSound(w)
  BY DEF Inv, RequestInv, ReadBackInv
<1>2. /\ TypeOK' /\ UNCHANGED <<cache, now, redeemed, spent>>
      /\ OnlyReq(w) /\ Spoils
      /\ req[w].at = "get" /\ req[w].key \in States /\ req[w].code \in Verifiers
      /\ \/ /\ req'[w].at = "idle" /\ req'[w].got = None /\ req'[w].puts = {}
            /\ req'[w].code = req[w].code
         \/ /\ Get(req[w].key) # None
            /\ req'[w].at = "remove" /\ req'[w].got = Get(req[w].key)
            /\ req'[w].key = req[w].key /\ req'[w].code = req[w].code
  BY <1>1, ReadVerifierEffect
<1>3. Get(req[w].key) # None =>
         /\ Get(req[w].key) \in Verifiers
         /\ urls[Get(req[w].key)].state = req[w].key
  BY <1>1, <1>2, Constants, GetTyped DEF Inv, StateRowsInv
<1>4. RequestSound(w)'
  BY <1>1, <1>2, <1>3, Constants DEF RequestSound, Spoils, Made
<1>5. ReadBackSound(w)'
  BY <1>2 DEF ReadBackSound, Idle
<1>6. WritesNothing
  BY <1>2, <1>4, <1>5 DEF WritesNothing, RequestKeeps, OnlyReq, Spoils, Inv, SpentInv,
                          SpentVerifiersGone
<1> QED
  BY <1>6, WritesNothingKeepsInv

LEMMA PurgeKeepsInv ==
    ASSUME Assumptions, Inv, NEW w \in Workers, Purge(w)
    PROVE  Inv'
<1>1. TypeOK /\ RequestInv /\ RequestSound(w) /\ StateRowsInv /\ SpentInv
  BY DEF Inv, RequestInv
<1>2. /\ TypeOK' /\ UNCHANGED <<now, redeemed, urls, spent>>
      /\ OnlyReq(w)
      /\ req[w].at = "remove" /\ req[w].key \in States
      /\ req'[w].at = "exchange" /\ req'[w].got = req[w].got /\ req'[w].code = req[w].code
      /\ \A k \in Keys : k # req[w].key => cache'[k] = cache[k]
      /\ \/ req'[w].kept /\ cache' = cache
         \/ cache'[req[w].key] = NoRow
  BY <1>1, PurgeEffect
<1>3. /\ req[w].got \in Verifiers /\ urls[req[w].got].state = req[w].key
      /\ None \notin Verifiers /\ States \subseteq Keys
  BY <1>1, <1>2, Constants DEF RequestSound
<1>4. \A k \in Keys : cache'[k] = cache[k] \/ cache'[k] = NoRow
  BY <1>2
<1>5. ~req'[w].kept => \A s \in States : cache'[s].value # req'[w].got
  BY <1>1, <1>2, <1>3 DEF StateRowsInv, NoRow
<1>6. RequestSound(w)' /\ ReadBackSound(w)'
  BY <1>1, <1>2 DEF RequestSound, ReadBackSound, Idle, Made
<1>7. \A v \in spent' : Made(v) /\ \A s \in States : cache'[s].value # v
  BY <1>1, <1>2, <1>3, <1>4 DEF SpentInv, SpentVerifiersGone, NoRow, TypeOK
<1>8. WritesNothing
  BY <1>2, <1>4, <1>5, <1>6, <1>7 DEF WritesNothing, RequestKeeps, OnlyReq
<1> QED
  BY <1>8, WritesNothingKeepsInv

LEMMA ExchangeKeepsInv ==
    ASSUME Assumptions, Inv, NEW w \in Workers, Exchange(w)
    PROVE  Inv'
<1>1. TypeOK /\ RequestInv /\ RequestSound(w) /\ SpentInv
  BY DEF Inv, RequestInv
<1>2. /\ TypeOK' /\ UNCHANGED <<cache, now, urls>>
      /\ OnlyReq(w)
      /\ req[w].at = "exchange"
      /\ req'[w].at = "idle" /\ req'[w].got = None /\ req'[w].puts = {}
      /\ req'[w].code \in {0, req[w].code}
      /\ spent' = IF req[w].kept THEN spent ELSE spent \cup {req[w].got}
  BY <1>1, ExchangeEffect
<1>3. RequestSound(w)' /\ ReadBackSound(w)'
  BY <1>1, <1>2 DEF RequestSound, ReadBackSound, Idle, Made
<1>4. \A v \in spent' : Made(v) /\ \A s \in States : cache'[s].value # v
  BY <1>1, <1>2 DEF SpentInv, SpentVerifiersGone, RequestSound
<1>5. WritesNothing
  BY <1>2, <1>3, <1>4 DEF WritesNothing, RequestKeeps, OnlyReq
<1> QED
  BY <1>5, WritesNothingKeepsInv

\* A request that is answered at once, or by what it reads back.
LEMMA LookupKeepsInv ==
    ASSUME Assumptions, Inv, NEW w \in Workers,
           \/ DirectLogin(w)
           \/ ReadBack(w)
           \/ \E k \in ApiKeys : GetEntry(w, k)
    PROVE  Inv'
<1>1. /\ TypeOK /\ RequestInv /\ SpentInv /\ RequestSound(w) /\ ReadBackSound(w)
      /\ ApiKeys \subseteq Keys
  BY Constants DEF Inv, RequestInv, ReadBackInv
<1>2. /\ TypeOK' /\ UNCHANGED <<cache, now, redeemed, urls, spent>>
      /\ OnlyReq(w)
      /\ req'[w].at = "idle" /\ req'[w].code = 0
      /\ req'[w].got # None => /\ Keys # {}
                               /\ \/ req'[w].puts = {}
                                  \/ req'[w].got \in req'[w].puts
  <2>1. CASE DirectLogin(w)
    BY <1>1, <2>1, DirectLoginEffect
  <2>2. CASE ReadBack(w)
    <3>1. /\ TypeOK' /\ UNCHANGED <<cache, now, redeemed, urls, spent>>
          /\ OnlyReq(w)
          /\ req[w].at = "readback" /\ req[w].key \in ApiKeys
          /\ req'[w].at = "idle" /\ req'[w].code = 0
          /\ req'[w].got \in {Get(req[w].key), None}
          /\ req'[w].got # None => req'[w].puts = req[w].puts
      BY <1>1, <2>2, ReadBackEffect
    <3>2. req'[w].got # None => req'[w].got = cache[req[w].key].value
      BY <1>1, <3>1, GetTyped
    <3> QED
      BY <1>1, <3>1, <3>2 DEF ReadBackSound
  <2>3. CASE \E k \in ApiKeys : GetEntry(w, k)
    BY <1>1, <2>3, GetEntryEffect
  <2> QED
    BY <2>1, <2>2, <2>3
<1>3. RequestSound(w)' /\ ReadBackSound(w)'
  BY <1>2 DEF RequestSound, ReadBackSound
<1>4. WritesNothing
  BY <1>1, <1>2, <1>3 DEF WritesNothing, RequestKeeps, OnlyReq, SpentInv, SpentVerifiersGone
<1> QED
  BY <1>4, WritesNothingKeepsInv

\* A step that no request takes.
LEMMA RemovalKeepsInv ==
    ASSUME Assumptions, Inv, (\E k \in ApiKeys : DeleteEntry(k)) \/ Cleanup \/ Tick
    PROVE  Inv'
<1>1. /\ TypeOK /\ SpentInv /\ States \subseteq Keys /\ None \notin Verifiers
  BY Constants DEF Inv
<1>2. /\ TypeOK' /\ UNCHANGED <<req, redeemed, urls, spent>>
      /\ \A k \in Keys : cache'[k] = cache[k] \/ cache'[k] = NoRow
  BY <1>1, DeleteEntryEffect, CleanupEffect, TickEffect
<1>3. \A v \in spent' : Made(v) /\ \A s \in States : cache'[s].value # v
  BY <1>1, <1>2 DEF SpentInv, SpentVerifiersGone, NoRow, TypeOK
<1>4. WritesNothing
  BY <1>2, <1>3 DEF WritesNothing, RequestKeeps
<1> QED
  BY <1>4, WritesNothingKeepsInv

LEMMA SetEntryKeepsInv ==
    ASSUME Assumptions, Inv, NEW w \in Workers, NEW k \in ApiKeys,
           NEW x \in ApiValues, NEW t \in ApiTtls, SetEntry(w, k, x, t)
    PROVE  Inv'
<1>1. /\ TypeOK /\ RequestInv /\ StateRowsInv /\ SpentInv /\ ReadBackInv
      /\ States \subseteq Keys /\ ApiKeys \subseteq Keys /\ States \cap ApiKeys = {}
  BY Constants DEF Inv
<1>20. /\ TypeOK' /\ UNCHANGED <<now, redeemed, urls, spent>>
       /\ Begins(w, k)
       /\ \/ Writes(w, k, x)
          \/ cache' = cache /\ req'[w].puts = {} /\ OnlyReq(w)
  BY <1>1, SetEntryEffect
<1>2. /\ TypeOK' /\ UNCHANGED <<now, redeemed, urls, spent>>
      /\ req'[w].at = "readback" /\ req'[w].key = k
      /\ req'[w].got = None /\ req'[w].code = 0
      /\ \A j \in Keys : j # k => cache'[j] = cache[j]
      /\ \A u \in Workers : u # w =>
            /\ req'[u].at = req[u].at /\ req'[u].key = req[u].key
            /\ req'[u].code = req[u].code /\ req'[u].got = req[u].got
            /\ req'[u].kept = req[u].kept
  BY <1>20 DEF Begins
<1>3. \A s \in States : cache'[s] = cache[s]
  BY <1>1, <1>2
<1>4. RequestInv'
  <2>1. RequestSound(w)'
    BY <1>2 DEF RequestSound
  <2>2. ASSUME NEW u \in Workers, u # w
        PROVE  RequestSound(u)'
    BY <1>1, <1>2, <2>2, OthersSound DEF RequestInv
  <2> QED
    BY <2>1, <2>2 DEF RequestInv
<1>5. StateRowsInv'
  BY <1>1, <1>2, <1>3 DEF StateRowsInv
<1>6. SpentInv'
  <2>1. \A v \in spent' : Made(v)'
    BY <1>1, <1>2 DEF SpentInv, Made
  <2>2. SpentVerifiersGone'
    BY <1>1, <1>2, <1>3 DEF SpentInv, SpentVerifiersGone
  <2>3. ASSUME NEW u \in Workers, NEW s \in States,
               req'[u].at = "exchange" /\ ~req'[u].kept
        PROVE  cache'[s].value # req'[u].got
    BY <1>1, <1>2, <1>3, <2>3 DEF SpentInv
  <2> QED
    BY <2>1, <2>2, <2>3 DEF SpentInv
<1>7. ReadBackInv'
  <2>1. CASE Writes(w, k, x)
    <3>1. ReadBackSound(w)'
      BY <1>2, <2>1 DEF ReadBackSound, Writes, Idle
    <3>2. ASSUME NEW u \in Workers, u # w
          PROVE  ReadBackSound(u)'
      <4>1. ReadBackSound(u) /\ RequestSound(u)
        BY <1>1 DEF ReadBackInv, RequestInv
      <4>2. cache'[k].value = x
        BY <2>1 DEF Writes
      <4>3. IF req[u].at = "readback" /\ req[u].key = k /\ req[u].puts # {}
              THEN req'[u].puts = req[u].puts \cup {x}
              ELSE req'[u].puts = req[u].puts
        BY <2>1, <3>2 DEF Writes
      <4> QED
        BY <1>1, <1>2, <3>2, <4>1, <4>2, <4>3 DEF ReadBackSound, RequestSound, Idle
    <3> QED
      BY <3>1, <3>2 DEF ReadBackInv
  <2>2. CASE cache' = cache /\ req'[w].puts = {} /\ OnlyReq(w)
    <3>1. ReadBackSound(w)'
      BY <1>2, <2>2 DEF ReadBackSound, Idle
    <3>2. ASSUME NEW u \in Workers, u # w
          PROVE  ReadBackSound(u)'
      BY <1>1, <2>2, <3>2 DEF ReadBackInv, ReadBackSound, OnlyReq, Idle
    <3> QED
      BY <3>1, <3>2 DEF ReadBackInv
  <2> QED
    BY <1>20, <2>1, <2>2
<1> QED
  BY <1>2, <1>4, <1>5, <1>6, <1>7 DEF Inv

LEMMA InvStep ==
    ASSUME Assumptions, Inv, [Next]_vars
    PROVE  Inv'
<1>1. CASE UNCHANGED vars
  BY <1>1 DEF vars, Inv, TypeOK, CacheTypeOK, RequestInv, RequestSound, StateRowsInv, SpentInv,
              SpentVerifiersGone, ReadBackInv, ReadBackSound, Made, Idle
<1>2. CASE Next
  BY <1>2, AuthUrlKeepsInv, CallbackKeepsInv, ReadVerifierKeepsInv, PurgeKeepsInv,
     ExchangeKeepsInv, LookupKeepsInv, SetEntryKeepsInv, RemovalKeepsInv DEF Next
<1> QED
  BY <1>1, <1>2

\* Inv holds in every state of every behaviour.
LEMMA Invariance == Spec => []Inv
<1>1. Assumptions
  BY CacheAssumption, RequestsAssumption DEF Assumptions
<1>2. Init => Inv
  BY <1>1, InitInv
<1>3. Inv /\ [Next]_vars => Inv'
  BY <1>1, InvStep
<1> QED
  BY <1>2, <1>3, PTL DEF Spec

\* The cache's rows, the requests and the URLs stay in their types.
THEOREM CacheTyped == Spec => []TypeOK
<1>1. Inv => TypeOK
  BY DEF Inv
<1> QED
  BY <1>1, Invariance, PTL

\* SpentVerifiersGone: once a callback has ended whose remove did not fail, no
\* row of the cache has its verifier any more, whatever other requests do.
THEOREM SpentStayGone == Spec => []SpentVerifiersGone
<1>1. Inv => SpentVerifiersGone
  BY DEF Inv, SpentInv
<1> QED
  BY <1>1, Invariance, PTL

\* SetAnswerNotStale: what a set reads back is its own value, or one written
\* after it.
THEOREM SetReadsItsOwn == Spec => []SetAnswerNotStale
<1>1. Inv => SetAnswerNotStale
  BY DEF Inv, ReadBackInv, ReadBackSound, SetAnswerNotStale
<1> QED
  BY <1>1, Invariance, PTL

-----------------------------------------------------------------------------
(***************************************************************************)
(* The honest sign-in.  A URL that a step does not concern stays honest.   *)
(***************************************************************************)
Aside(w, v) ==
    \/ /\ req'[w].at = req[w].at /\ req'[w].key = req[w].key
       /\ req'[w].code = req[w].code /\ req'[w].got = req[w].got
    \/ ~SignsIn(w, v)' /\ req'[w].at # "remove"

LEMMA HonestKept ==
    ASSUME NEW v \in Verifiers, Honest(v), TypeOK,
           urls'[v] = urls[v],
           \A u \in Verifiers : urls'[u].state = urls[v].state => u = v,
           v \in redeemed' => v \in redeemed,
           Kept(v) => Kept(v)',
           \A w \in Workers : Aside(w, v)
    PROVE  Honest(v)'
<1>1. \A u \in Verifiers : urls'[u].state = urls'[v].state => u = v
  OBVIOUS
<1>2. urls'[v].mark = "fresh" => /\ v \notin redeemed'
                                 /\ Kept(v)'
                                 /\ \A w \in Workers : ~SignsIn(w, v)'
  BY DEF Honest, Aside, SignsIn
<1>3. ASSUME NEW w \in Workers, SignsIn(w, v)'
      PROVE  /\ v \notin redeemed'
             /\ req'[w].at = "get" => req'[w].key = urls'[v].state /\ Kept(v)'
             /\ req'[w].at # "get" => req'[w].got = v
             /\ \A x \in Workers : SignsIn(x, v)' => x = w
  <2>1. \A x \in Workers : SignsIn(x, v)' =>
           /\ SignsIn(x, v)
           /\ req'[x].at = req[x].at /\ req'[x].key = req[x].key /\ req'[x].got = req[x].got
    BY DEF Aside, SignsIn
  <2> QED
    BY <1>3, <2>1 DEF Honest
<1>4. \A w \in Workers : req'[w].at = "remove" /\ req'[w].key = urls'[v].state
                             => req'[w].code = v
  BY DEF Honest, Aside
<1> QED
  BY <1>1, <1>2, <1>3, <1>4 DEF Honest

\* A verifier that was kept and is not late is what a lookup finds.
LEMMA KeptIsFound ==
    ASSUME Assumptions, TypeOK, NEW v \in Verifiers, urls[v].state \in States, Kept(v),
           now < urls[v].at + StateTtl
    PROVE  Get(urls[v].state) = v
<1>1. /\ urls[v].at \in Int /\ now \in Int /\ StateTtl \in Int
      /\ urls[v].state \in Keys /\ v # None
  BY Constants DEF TypeOK, Url, CacheTypeOK
<1>2. cache[urls[v].state].value = v /\ cache[urls[v].state].expires = urls[v].at + StateTtl
  BY <1>1 DEF Kept
<1> QED
  BY <1>1, <1>2, GetTyped

LEMMA AuthUrlKeepsHonest ==
    ASSUME Assumptions, Inv, HonestInv, NEW s \in States, AuthUrl(s)
    PROVE  HonestInv'
<1>1. TypeOK /\ RequestInv /\ s \in Keys /\ None \notin States
  BY Constants DEF Inv
<1>2. UNCHANGED <<now, req, redeemed, spent>>
  BY <1>1, AuthUrlEffect
<1>3. PICK n \in Verifiers : Makes(s, n)
  BY <1>1, AuthUrlEffect
<1>4. redeemed' \subseteq {v \in Verifiers : Made(v)}'
  BY <1>2, <1>3 DEF HonestInv, Makes, Made
<1>5. ASSUME NEW v \in Verifiers, Made(v)', urls'[v].mark # "spoilt", v # n
      PROVE  Honest(v)'
  <2>1. /\ urls'[v].state = urls[v].state /\ urls'[v].at = urls[v].at
        /\ urls'[v].mark = urls[v].mark /\ urls[v].state # s
    BY <1>3, <1>5 DEF Makes
  <2>2. Honest(v)
    BY <1>5, <2>1 DEF HonestInv, Made
  <2>3. urls'[v] = urls[v]
    <3>1. urls'[v] \in Url /\ urls[v] \in Url
      BY <1>1, AuthUrlEffect DEF TypeOK
    <3> QED
      BY <2>1, <3>1 DEF Url
  <2>4. \A u \in Verifiers : urls'[u].state = urls[v].state => u = v
    BY <1>3, <2>1, <2>2 DEF Makes, Honest
  <2>5. Kept(v) => Kept(v)'
    <3>1. urls[v].state \in Keys
      BY <1>1, <1>5, <2>1, Constants DEF Made, TypeOK, Url
    <3>2. cache'[urls[v].state] = cache[urls[v].state]
      BY <1>3, <2>1, <3>1 DEF Makes
    <3> QED
      BY <1>2, <2>3, <3>2 DEF Kept
  <2>6. \A w \in Workers : Aside(w, v)
    BY <1>2 DEF Aside
  <2> QED
    BY <1>1, <1>2, <2>2, <2>3, <2>4, <2>5, <2>6, HonestKept
<1>6. ASSUME Made(n)', urls'[n].mark # "spoilt"
      PROVE  Honest(n)'
  <2>1. /\ ~Made(n) /\ urls'[n].state = s /\ urls'[n].at = now
        /\ cache'[s] = [value |-> n, expires |-> now + StateTtl]
        /\ \A u \in Verifiers : urls[u].state # s
        /\ \A u \in Verifiers : u # n => urls'[u].state = urls[u].state
    BY <1>3, <1>6 DEF Makes
  <2>2. n \notin redeemed'
    BY <1>2, <2>1 DEF HonestInv
  <2>3. \A w \in Workers : ~SignsIn(w, n)'
    BY <1>1, <1>2, <2>1, Constants DEF SignsIn, RequestInv, RequestSound
  <2>4. Kept(n)'
    BY <2>1 DEF Kept
  <2>5. \A w \in Workers : ~(req'[w].at = "remove" /\ req'[w].key = urls'[n].state)
    BY <1>1, <1>2, <2>1 DEF RequestInv, RequestSound
  <2> QED
    BY <2>1, <2>2, <2>3, <2>4, <2>5 DEF Honest
<1>7. HonestSignInWorks'
  <2> SUFFICES ASSUME NEW w \in Workers, Idle(w)',
                      req'[w].reply \in {"refused", "rejected"}, req'[w].code # 0
               PROVE  urls'[req'[w].code].mark = "spoilt"
    BY DEF HonestSignInWorks
  <2>1. /\ Made(req[w].code) /\ urls[req[w].code].mark = "spoilt"
        /\ req[w].code \in Verifiers /\ req'[w] = req[w]
    BY <1>1, <1>2 DEF HonestInv, HonestSignInWorks, RequestInv, RequestSound, TypeOK, Request, Idle
  <2> QED
    BY <1>3, <2>1 DEF Makes
<1> QED
  BY <1>4, <1>5, <1>6, <1>7 DEF HonestInv

LEMMA CallbackKeepsHonest ==
    ASSUME Assumptions, Inv, HonestInv,
           NEW w \in Workers, NEW s \in States, NEW v \in Verifiers, Callback(w, s, v)
    PROVE  HonestInv'
<1>1. TypeOK /\ RequestInv /\ Made(v) /\ Idle(w)
  BY DEF Inv, Callback
<1>2. /\ UNCHANGED <<cache, now, redeemed, spent>>
      /\ OnlyReq(w) /\ Spoils
      /\ req'[w].at = "get" /\ req'[w].key = s /\ req'[w].code = v
      /\ \A u \in Verifiers : u # v => urls'[u] = urls[u]
      /\ urls'[v].mark \in {"used", "spoilt"}
      /\ urls'[v].mark = "used" => urls[v].mark = "fresh" /\ urls[v].state = s
  BY <1>1, CallbackEffect
<1>3. redeemed' \subseteq {u \in Verifiers : Made(u)}'
  BY <1>2 DEF HonestInv, Made, Spoils
<1>4. ASSUME NEW u \in Verifiers, Made(u)', urls'[u].mark # "spoilt", u # v
      PROVE  Honest(u)'
  <2>1. urls'[u] = urls[u] /\ Honest(u)
    BY <1>2, <1>4 DEF HonestInv, Made
  <2>2. \A x \in Verifiers : urls'[x].state = urls[u].state => x = u
    BY <1>2, <2>1 DEF Honest, Spoils
  <2>3. Kept(u) => Kept(u)'
    BY <1>2, <2>1 DEF Kept
  <2>4. \A x \in Workers : Aside(x, u)
    BY <1>2, <1>4 DEF Aside, OnlyReq, SignsIn
  <2> QED
    BY <1>1, <1>2, <2>1, <2>2, <2>3, <2>4, HonestKept
<1>5. ASSUME urls'[v].mark # "spoilt"
      PROVE  Honest(v)'
  <2>1. /\ urls[v].mark = "fresh" /\ urls[v].state = s /\ urls'[v].mark = "used"
        /\ urls'[v].state = s /\ urls'[v].at = urls[v].at
    BY <1>2, <1>5 DEF Spoils
  <2>2. Honest(v)
    BY <1>1, <2>1 DEF HonestInv
  <2>3. /\ v \notin redeemed /\ Kept(v) /\ \A x \in Workers : ~SignsIn(x, v)
    BY <2>1, <2>2 DEF Honest
  <2>4. Kept(v)'
    BY <1>2, <2>1, <2>3 DEF Kept
  <2>5. \A x \in Workers : SignsIn(x, v)' => x = w
    BY <1>2, <2>3 DEF SignsIn, OnlyReq
  <2>6. \A u \in Verifiers : urls'[u].state = urls'[v].state => u = v
    BY <1>2, <2>2 DEF Honest, Spoils
  <2>7. \A x \in Workers : req'[x].at = "remove" /\ req'[x].key = urls'[v].state
                              => req'[x].code = v
    BY <1>2, <2>1, <2>2 DEF Honest, OnlyReq
  <2> QED
    BY <1>2, <2>1, <2>3, <2>4, <2>5, <2>6, <2>7 DEF Honest
<1>6. HonestSignInWorks'
  <2> SUFFICES ASSUME NEW x \in Workers, Idle(x)',
                      req'[x].reply \in {"refused", "rejected"}, req'[x].code # 0
               PROVE  urls'[req'[x].code].mark = "spoilt"
    BY DEF HonestSignInWorks
  <2>1. req'[x] = req[x] /\ Idle(x)
    BY <1>2 DEF OnlyReq, Idle
  <2>2. urls[req[x].code].mark = "spoilt" /\ req[x].code \in Verifiers
    BY <1>1, <2>1 DEF HonestInv, HonestSignInWorks, TypeOK, Request
  <2> QED
    BY <1>2, <2>1, <2>2
<1> QED
  BY <1>3, <1>4, <1>5, <1>6 DEF HonestInv

LEMMA ReadVerifierKeepsHonest ==
    ASSUME Assumptions, Inv, HonestInv, NEW w \in Workers, ReadVerifier(w)
    PROVE  HonestInv'
<1> DEFINE c == req[w].code
           key == req[w].key
           found == Get(req[w].key)
<1>1. TypeOK /\ RequestInv /\ StateRowsInv /\ key \in Keys
  BY ReadVerifierEffect, Constants DEF Inv
<1>2. /\ UNCHANGED <<cache, now, redeemed, spent>>
      /\ OnlyReq(w) /\ Spoils
      /\ req[w].at = "get" /\ key \in States /\ c \in Verifiers
      /\ \A u \in Verifiers : urls'[u].mark \in {urls[u].mark, "spoilt"}
  BY <1>1, ReadVerifierEffect
<1>3. \/ /\ req'[w].at = "idle" /\ req'[w].code = c
         /\ \/ urls'[c].mark = "spoilt"
            \/ found = None /\ now < urls[c].at + StateTtl
      \/ /\ found # None
         /\ req'[w].at = "remove" /\ req'[w].got = found
         /\ req'[w].key = key /\ req'[w].code = c
         /\ found \in Verifiers \ {c} => urls'[found].mark = "spoilt"
         /\ urls'[c].mark = "spoilt" \/ now < urls[c].at + StateTtl
  BY <1>1, ReadVerifierEffect
<1>4. /\ SignsIn(w, c) /\ Made(c)
      /\ \A v \in Verifiers : Made(v) => urls[v].state \in States
  <2>1. \A v \in Verifiers : urls[v].state \in States \cup {None}
    BY <1>1 DEF TypeOK, Url
  <2> QED
    BY <1>1, <1>2, <2>1, Constants DEF SignsIn, RequestInv, RequestSound, Made
<1>5. found # None => found \in Verifiers /\ urls[found].state = key
  BY <1>1, <1>2, GetTyped DEF StateRowsInv
<1> HIDE DEF c, key, found
<1>6. ASSUME NEW v \in Verifiers, Made(v)', urls'[v].mark # "spoilt"
      PROVE  urls'[v] = urls[v] /\ Honest(v)
  <2>1. urls'[v].mark = urls[v].mark /\ Made(v)
    BY <1>2, <1>6 DEF Made, Spoils
  <2>2. urls'[v] \in Url /\ urls[v] \in Url
    BY <1>1, <1>2 DEF TypeOK, Spoils
  <2>3. urls'[v] = urls[v]
    BY <1>2, <2>1, <2>2 DEF Url, Spoils
  <2> QED
    BY <1>6, <2>1, <2>3 DEF HonestInv
<1>7. urls'[c].mark # "spoilt" =>
         /\ key = urls[c].state
         /\ now < urls[c].at + StateTtl => found = c
  <2> SUFFICES ASSUME urls'[c].mark # "spoilt"
               PROVE  /\ key = urls[c].state
                      /\ now < urls[c].at + StateTtl => found = c
    OBVIOUS
  <2>1. Honest(c)
    BY <1>2, <1>4, <1>6 DEF Made, Spoils
  <2>2. key = urls[c].state /\ Kept(c)
    BY <1>2, <1>4, <2>1 DEF Honest, key
  <2> QED
    BY <1>1, <1>2, <1>4, <2>2, KeptIsFound DEF found, key
<1>8. redeemed' \subseteq {u \in Verifiers : Made(u)}'
  BY <1>2 DEF HonestInv, Made, Spoils
<1>9. ASSUME NEW v \in Verifiers, Made(v)', urls'[v].mark # "spoilt"
      PROVE  Honest(v)'
  <2>1. urls'[v] = urls[v] /\ Honest(v) /\ Made(v)
    BY <1>2, <1>6, <1>9 DEF Made, Spoils
  <2>2. \A u \in Verifiers : urls'[u].state = urls[v].state => u = v
    BY <1>2, <2>1 DEF Honest, Spoils
  <2>3. Kept(v) => Kept(v)'
    BY <1>2, <2>1 DEF Kept
  <2>4. CASE req'[w].at = "idle"
    <3>1. \A x \in Workers : Aside(x, v)
      BY <1>2, <2>4 DEF Aside, OnlyReq, SignsIn
    <3> QED
      BY <1>1, <1>2, <2>1, <2>2, <2>3, <3>1, HonestKept
  <2>5. CASE req'[w].at = "remove"
    <3>1. /\ found # None /\ req'[w].got = found
          /\ req'[w].key = key /\ req'[w].code = c
          /\ found \in Verifiers \ {c} => urls'[found].mark = "spoilt"
          /\ urls'[c].mark = "spoilt" \/ now < urls[c].at + StateTtl
      BY <1>3, <2>5
    <3>2. key = urls[v].state => c = v
      BY <1>5, <1>9, <2>1, <3>1 DEF Honest
    <3>3. c = v => found = v
      BY <1>7, <1>9, <3>1
    <3>4. \A x \in Workers : SignsIn(x, v)' <=> SignsIn(x, v)
      BY <1>2, <1>4, <2>5, <3>1 DEF SignsIn, OnlyReq, c
    <3>5. urls'[v].mark = "fresh" => /\ v \notin redeemed' /\ Kept(v)'
                                     /\ \A x \in Workers : ~SignsIn(x, v)'
      BY <1>2, <2>1, <2>3, <3>4 DEF Honest
    <3>6. ASSUME NEW x \in Workers, SignsIn(x, v)'
          PROVE  /\ v \notin redeemed'
                 /\ req'[x].at = "get" => req'[x].key = urls'[v].state /\ Kept(v)'
                 /\ req'[x].at # "get" => req'[x].got = v
                 /\ \A y \in Workers : SignsIn(y, v)' => y = x
      <4>1. SignsIn(x, v)
        BY <3>4, <3>6
      <4>2. v \notin redeemed' /\ \A y \in Workers : SignsIn(y, v)' => y = x
        BY <1>2, <2>1, <3>4, <4>1 DEF Honest
      <4>3. CASE x = w
        <5>1. c = v
          BY <4>1, <4>3 DEF SignsIn, c
        <5> QED
          BY <2>5, <3>1, <3>3, <4>2, <4>3, <5>1
      <4>4. CASE x # w
        <5>1. req'[x] = req[x]
          BY <1>2, <4>4 DEF OnlyReq
        <5> QED
          BY <2>1, <2>3, <4>1, <4>2, <5>1 DEF Honest
      <4> QED
        BY <4>3, <4>4
    <3>7. \A x \in Workers : req'[x].at = "remove" /\ req'[x].key = urls'[v].state
                                => req'[x].code = v
      BY <1>2, <2>1, <3>1, <3>2 DEF Honest, OnlyReq
    <3> QED
      BY <2>1, <2>2, <3>5, <3>6, <3>7 DEF Honest
  <2> QED
    BY <1>3, <2>4, <2>5
<1>10. HonestSignInWorks'
  <2> SUFFICES ASSUME NEW x \in Workers, Idle(x)',
                      req'[x].reply \in {"refused", "rejected"}, req'[x].code # 0
               PROVE  urls'[req'[x].code].mark = "spoilt"
    BY DEF HonestSignInWorks
  <2>1. CASE x = w
    <3>1. req'[w].code = c /\ (urls'[c].mark = "spoilt" \/ (found = None /\ now < urls[c].at + StateTtl))
      BY <1>3, <2>1 DEF Idle
    <3>2. found = None => found # c
      BY <1>2, Constants
    <3> QED
      BY <1>7, <2>1, <3>1, <3>2
  <2>2. CASE x # w
    <3>1. req'[x] = req[x] /\ Idle(x)
      BY <1>2, <2>2 DEF OnlyReq, Idle
    <3>2. urls[req[x].code].mark = "spoilt" /\ req[x].code \in Verifiers
      BY <1>1, <3>1 DEF HonestInv, HonestSignInWorks, TypeOK, Request
    <3> QED
      BY <1>2, <3>1, <3>2
  <2> QED
    BY <2>1, <2>2
<1> QED
  BY <1>8, <1>9, <1>10 DEF HonestInv

LEMMA PurgeKeepsHonest ==
    ASSUME Assumptions, Inv, HonestInv, NEW w \in Workers, Purge(w)
    PROVE  HonestInv'
<1>1. TypeOK /\ RequestInv /\ SignsIn(w, req[w].code)
  BY DEF Inv, Purge, SignsIn
<1>2. /\ UNCHANGED <<now, redeemed, urls, spent>>
      /\ OnlyReq(w)
      /\ req[w].at = "remove"
      /\ req'[w].at = "exchange" /\ req'[w].got = req[w].got /\ req'[w].code = req[w].code
      /\ \A k \in Keys : k # req[w].key => cache'[k] = cache[k]
  BY <1>1, PurgeEffect
<1>3. redeemed' \subseteq {u \in Verifiers : Made(u)}'
  BY <1>2 DEF HonestInv, Made
<1>4. ASSUME NEW v \in Verifiers, Made(v)', urls'[v].mark # "spoilt"
      PROVE  Honest(v)'
  <2>1. Honest(v) /\ urls[v].state \in Keys /\ urls'[v] = urls[v]
    BY <1>1, <1>2, <1>4, Constants DEF HonestInv, Made, TypeOK, Url
  <2>2. CASE req[w].code # v
    <3>1. req[w].key # urls[v].state
      BY <1>2, <2>1, <2>2 DEF Honest
    <3>2. Kept(v) => Kept(v)'
      BY <1>2, <2>1, <3>1 DEF Kept
    <3>3. \A x \in Workers : Aside(x, v)
      BY <1>2, <2>2 DEF Aside, OnlyReq, SignsIn
    <3>4. \A u \in Verifiers : urls'[u].state = urls[v].state => u = v
      BY <1>2, <2>1 DEF Honest
    <3> QED
      BY <1>1, <1>2, <2>1, <3>2, <3>3, <3>4, HonestKept
  <2>3. CASE req[w].code = v
    <3>1. /\ SignsIn(w, v) /\ urls[v].mark # "fresh" /\ v \notin redeemed
          /\ req[w].got = v /\ \A x \in Workers : SignsIn(x, v) => x = w
      BY <1>1, <1>2, <2>1, <2>3 DEF Honest
    <3>2. \A x \in Workers : SignsIn(x, v)' => x = w
      BY <1>2, <3>1 DEF SignsIn, OnlyReq
    <3>3. \A x \in Workers : req'[x].at = "remove" /\ req'[x].key = urls'[v].state
                                => req'[x].code = v
      BY <1>2, <2>1 DEF Honest, OnlyReq
    <3> QED
      BY <1>2, <2>1, <3>1, <3>2, <3>3 DEF Honest
  <2> QED
    BY <2>2, <2>3
<1>5. HonestSignInWorks'
  BY <1>2 DEF HonestInv, HonestSignInWorks, OnlyReq, Idle
<1> QED
  BY <1>3, <1>4, <1>5 DEF HonestInv

LEMMA ExchangeKeepsHonest ==
    ASSUME Assumptions, Inv, HonestInv, NEW w \in Workers, Exchange(w)
    PROVE  HonestInv'
<1>1. TypeOK /\ RequestInv
  BY DEF Inv
<1>2. /\ UNCHANGED <<cache, now, urls>>
      /\ OnlyReq(w)
      /\ req[w].at = "exchange" /\ req[w].code \in Verifiers
      /\ req'[w].at = "idle"
      /\ req'[w].code \in {0, req[w].code}
      /\ req'[w].reply # "refused"
      /\ req'[w].reply = "rejected" => ~Redeems(req[w].code, req[w].got)
      /\ redeemed' \in {redeemed, redeemed \cup {req[w].code}}
  BY <1>1, ExchangeEffect
<1>3. Made(req[w].code) /\ SignsIn(w, req[w].code)
  BY <1>1, <1>2, Constants DEF RequestInv, RequestSound, SignsIn
<1>4. redeemed' \subseteq {u \in Verifiers : Made(u)}'
  BY <1>2, <1>3 DEF HonestInv, Made
<1>5. ASSUME NEW v \in Verifiers, Made(v)', urls'[v].mark # "spoilt"
      PROVE  Honest(v)'
  <2>1. Honest(v) /\ urls'[v] = urls[v]
    BY <1>2, <1>5 DEF HonestInv, Made
  <2>2. \A u \in Verifiers : urls'[u].state = urls[v].state => u = v
    BY <1>2, <2>1 DEF Honest
  <2>3. Kept(v) => Kept(v)'
    BY <1>2 DEF Kept
  <2>4. CASE req[w].code # v
    <3>1. \A x \in Workers : Aside(x, v)
      BY <1>2, <2>4 DEF Aside, OnlyReq, SignsIn
    <3> QED
      BY <1>1, <1>2, <2>1, <2>2, <2>3, <2>4, <3>1, HonestKept
  <2>5. CASE req[w].code = v
    <3>1. urls[v].mark # "fresh" /\ \A x \in Workers : SignsIn(x, v) => x = w
      BY <1>3, <2>1, <2>5 DEF Honest
    <3>2. \A x \in Workers : ~SignsIn(x, v)'
      BY <1>2, <3>1 DEF SignsIn, OnlyReq
    <3>3. \A x \in Workers : req'[x].at = "remove" /\ req'[x].key = urls'[v].state
                                => req'[x].code = v
      BY <1>2, <2>1 DEF Honest, OnlyReq
    <3> QED
      BY <2>1, <2>2, <3>1, <3>2, <3>3 DEF Honest
  <2> QED
    BY <2>4, <2>5
<1>6. HonestSignInWorks'
  <2> SUFFICES ASSUME NEW x \in Workers, Idle(x)',
                      req'[x].reply \in {"refused", "rejected"}, req'[x].code # 0
               PROVE  urls'[req'[x].code].mark = "spoilt"
    BY DEF HonestSignInWorks
  <2>1. CASE x = w
    <3>1. req'[w].code = req[w].code /\ ~Redeems(req[w].code, req[w].got)
      BY <1>2, <2>1
    <3>2. ASSUME urls[req[w].code].mark # "spoilt"
          PROVE  Redeems(req[w].code, req[w].got)
      BY <1>2, <1>3, <3>2 DEF HonestInv, Honest, Redeems
    <3> QED
      BY <1>2, <2>1, <3>1, <3>2
  <2>2. CASE x # w
    BY <1>2, <2>2 DEF HonestInv, HonestSignInWorks, OnlyReq, Idle
  <2> QED
    BY <2>1, <2>2
<1> QED
  BY <1>4, <1>5, <1>6 DEF HonestInv

\* The steps of the other requests, and of the clock: they leave the rows of
\* the states alone, unless these are late.
LEMMA OthersKeepHonest ==
    ASSUME Assumptions, Inv, HonestInv,
           \/ \E w \in Workers : DirectLogin(w) \/ ReadBack(w)
           \/ \E w \in Workers, k \in ApiKeys : GetEntry(w, k)
           \/ \E w \in Workers, k \in ApiKeys, x \in ApiValues, t \in ApiTtls : SetEntry(w, k, x, t)
           \/ \E k \in ApiKeys : DeleteEntry(k)
           \/ Cleanup
           \/ Tick
    PROVE  HonestInv'
<1> DEFINE Same(w) == /\ req'[w].at = req[w].at /\ req'[w].key = req[w].key
                      /\ req'[w].code = req[w].code /\ req'[w].got = req[w].got
                      /\ req'[w].reply = req[w].reply
           Rows == \A s \in States : \/ cache'[s] = cache[s]
                                     \/ cache[s].expires <= now
           Quiet == /\ UNCHANGED <<urls, redeemed>>
                    /\ now' \in {now, now + 1}
                    /\ Rows
                    /\ \A w \in Workers : \/ Same(w)
                                          \/ req'[w].at = "readback"
                                          \/ req'[w].at = "idle" /\ req'[w].code = 0
<1>1. /\ TypeOK /\ RequestInv
      /\ States \subseteq Keys /\ ApiKeys \subseteq Keys /\ States \cap ApiKeys = {}
  BY Constants DEF Inv
<1>2. Quiet
  <2>1. ASSUME NEW w \in Workers, DirectLogin(w) \/ ReadBack(w) \/ \E k \in ApiKeys : GetEntry(w, k)
        PROVE  Quiet
    <3>1. /\ UNCHANGED <<cache, now, redeemed, urls>> /\ OnlyReq(w)
          /\ req'[w].at = "idle" /\ req'[w].code = 0
      BY <1>1, <2>1, DirectLoginEffect, ReadBackEffect, GetEntryEffect
    <3> QED
      BY <3>1 DEF OnlyReq
  <2>2. ASSUME NEW w \in Workers, NEW k \in ApiKeys, NEW x \in ApiValues, NEW t \in ApiTtls,
               SetEntry(w, k, x, t)
        PROVE  Quiet
    <3>1. UNCHANGED <<now, redeemed, urls>> /\ Begins(w, k)
      BY <1>1, <2>2, SetEntryEffect
    <3> QED
      BY <1>1, <3>1 DEF Begins
  <2>3. ASSUME NEW k \in ApiKeys, DeleteEntry(k)
        PROVE  Quiet
    BY <1>1, <2>3, DeleteEntryEffect
  <2>4. CASE Cleanup
    BY <1>1, <2>4, CleanupEffect
  <2>5. CASE Tick
    BY <1>1, <2>5, TickEffect
  <2> QED
    BY <2>1, <2>2, <2>3, <2>4, <2>5
<1>3. ASSUME NEW v \in Verifiers, Made(v)', urls'[v].mark # "spoilt"
      PROVE  Honest(v)'
  <2>1. Honest(v) /\ urls'[v] = urls[v] /\ urls[v].state \in States
    BY <1>1, <1>2, <1>3 DEF HonestInv, Made, TypeOK, Url
  <2>2. \A u \in Verifiers : urls'[u].state = urls[v].state => u = v
    BY <1>2, <2>1 DEF Honest
  <2>3. Kept(v) => Kept(v)'
    <3>1. /\ urls[v].at \in Int /\ now \in Int /\ StateTtl \in Int
      BY <1>1, Constants DEF TypeOK, Url, CacheTypeOK
    <3> QED
      BY <1>2, <2>1, <3>1 DEF Kept
  <2>4. \A x \in Workers : Aside(x, v)
    BY <1>2 DEF Aside, SignsIn
  <2> QED
    BY <1>1, <1>2, <2>1, <2>2, <2>3, <2>4, HonestKept
<1>4. redeemed' \subseteq {u \in Verifiers : Made(u)}'
  BY <1>2 DEF HonestInv, Made
<1>5. HonestSignInWorks'
  BY <1>2 DEF HonestInv, HonestSignInWorks, Idle
<1> QED
  BY <1>3, <1>4, <1>5 DEF HonestInv

LEMMA HonestStep ==
    ASSUME Assumptions, Inv, HonestInv, [Next]_vars
    PROVE  HonestInv'
<1>1. CASE UNCHANGED vars
  BY <1>1 DEF vars, HonestInv, Honest, HonestSignInWorks, Kept, SignsIn, Made, Idle
<1>2. CASE Next
  BY <1>2, AuthUrlKeepsHonest, CallbackKeepsHonest, ReadVerifierKeepsHonest, PurgeKeepsHonest,
     ExchangeKeepsHonest, OthersKeepHonest DEF Next
<1> QED
  BY <1>1, <1>2

\* HonestSignInWorks: a first callback in time is not told that its state is
\* invalid or its code wrong, however many sign-ins and other uses of the
\* cache run at once, unless one of the named things spoilt its URL.
THEOREM HonestIsServed == Spec => []HonestSignInWorks
<1>1. Assumptions
  BY CacheAssumption, RequestsAssumption DEF Assumptions
<1>2. Init => HonestInv
  BY <1>1, InitInv
<1>3. Inv /\ HonestInv /\ [Next]_vars => HonestInv'
  BY <1>1, HonestStep
<1>4. HonestInv => HonestSignInWorks
  BY DEF HonestInv
<1> QED
  BY <1>2, <1>3, <1>4, Invariance, PTL DEF Spec

-----------------------------------------------------------------------------
(***************************************************************************)
(* The cache implements an expiring map.                                   *)
(***************************************************************************)
Got == [w \in Workers |-> req[w].got]

\* What the table shows of one row.
Shown(k) == IF Live(k) THEN [value |-> cache[k].value, left |-> cache[k].expires - now]
                       ELSE [value |-> None, left |-> 0]

LEMMA VisibleIs ==
    ASSUME TypeOK
    PROVE  /\ Visible = [k \in Keys |-> Shown(k)]
           /\ \A k \in Keys : Visible[k] = Shown(k) /\ Visible[k].value = Get(k)
BY DEF Visible, Shown, Get

\* Rows that are shown alike before and after a step.
LEMMA VisibleKept ==
    ASSUME TypeOK, TypeOK', \A k \in Keys : Shown(k)' = Shown(k)
    PROVE  Visible' = Visible
BY DEF Visible, Shown, Live, Exists

LEMMA VisibleSet ==
    ASSUME TypeOK, TypeOK', NEW k \in Keys, NEW e, Shown(k)' = e,
           \A j \in Keys : j # k => Shown(j)' = Shown(j)
    PROVE  Visible' = [Visible EXCEPT ![k] = e]
BY DEF Visible, Shown, Live, Exists

\* A row that is not touched shows what it did.
LEMMA ShownSame ==
    ASSUME NEW k, cache'[k] = cache[k], now' = now
    PROVE  Shown(k)' = Shown(k)
BY DEF Shown, Live, Exists

LEMMA ShownSet ==
    ASSUME Assumptions, TypeOK, NEW k \in Keys, NEW v \in Values, NEW t \in 1..MaxTtl,
           cache'[k] = [value |-> v, expires |-> now + t], now' = now
    PROVE  Shown(k)' = [value |-> v, left |-> t]
<1>1. v # None /\ now \in Int /\ t \in Int /\ t > 0
  BY Constants DEF TypeOK, CacheTypeOK
<1>2. Live(k)' /\ now + t - now = t
  BY <1>1 DEF Live, Exists
<1> QED
  BY <1>1, <1>2 DEF Shown

LEMMA ShownGone ==
    ASSUME NEW k, cache'[k] = NoRow
    PROVE  Shown(k)' = Map!Absent
BY DEF Shown, Live, Exists, NoRow, Map!Absent

\* The results of lookups after a step that changes one worker's.
LEMMA GotSet ==
    ASSUME TypeOK, TypeOK', NEW w \in Workers, OnlyReq(w)
    PROVE  Got' = [Got EXCEPT ![w] = req'[w].got]
BY DEF Got, OnlyReq, TypeOK

MapStep == Map!Next \/ UNCHANGED <<Visible, Got>>

LEMMA LookupImplements ==
    ASSUME TypeOK, TypeOK', NEW w \in Workers, NEW k \in Keys, OnlyReq(w),
           UNCHANGED <<cache, now>>, req'[w].got \in {Get(k), None}
    PROVE  MapStep
<1>1. Visible' = Visible
  BY ShownSame, VisibleKept
<1>2. Got' = [Got EXCEPT ![w] = req'[w].got]
  BY GotSet
<1>3. req'[w].got \in {Visible[k].value, None}
  BY VisibleIs
<1>4. Map!Lookup(w, k)
  BY <1>1, <1>2, <1>3 DEF Map!Lookup, Got
<1> QED
  BY <1>4 DEF MapStep, Map!Next

\* A request that gives up what its last lookup gave.
LEMMA DropImplements ==
    ASSUME TypeOK, TypeOK', RequestInv, NEW w \in Workers, OnlyReq(w),
           UNCHANGED <<cache, now>>, req'[w].got = None
    PROVE  MapStep
<1>1. CASE Keys = {}
  <2>1. Got' = Got
    BY <1>1 DEF Got, OnlyReq, RequestInv, RequestSound
  <2>2. Visible' = Visible
    BY ShownSame, VisibleKept
  <2> QED
    BY <2>1, <2>2 DEF MapStep
<1>2. CASE Keys # {}
  <2>1. PICK k \in Keys : TRUE
    BY <1>2
  <2> QED
    BY LookupImplements
<1> QED
  BY <1>1, <1>2

LEMMA AuthUrlImplements ==
    ASSUME Assumptions, Inv, NEW s \in States, AuthUrl(s)
    PROVE  MapStep
<1>1. /\ TypeOK /\ TypeOK' /\ UNCHANGED <<now, req>>
      /\ s \in Keys /\ StateTtl \in 1..MaxTtl
  BY AuthUrlEffect, Constants DEF Inv
<1>2. PICK v \in Verifiers : Makes(s, v)
  BY AuthUrlEffect DEF Inv
<1>3. /\ v \in Values
      /\ \A k \in Keys : k # s => cache'[k] = cache[k]
      /\ cache'[s] \in {cache[s], [value |-> v, expires |-> now + StateTtl]}
  BY <1>2, Constants DEF Makes
<1>4. \A k \in Keys : k # s => Shown(k)' = Shown(k)
  BY <1>1, <1>3, ShownSame
<1>5. Got' = Got
  BY <1>1 DEF Got
<1>6. CASE cache'[s] = cache[s]
  <2>1. Visible' = Visible
    BY <1>1, <1>4, <1>6, ShownSame, VisibleKept
  <2> QED
    BY <1>5, <2>1 DEF MapStep
<1>7. CASE cache'[s] = [value |-> v, expires |-> now + StateTtl]
  <2>1. Shown(s)' = [value |-> v, left |-> StateTtl]
    BY <1>1, <1>3, <1>7, ShownSet
  <2>2. Visible' = [Visible EXCEPT ![s] = [value |-> v, left |-> StateTtl]]
    BY <1>1, <1>4, <2>1, VisibleSet
  <2>3. Map!Put(s, v)
    BY <1>1, <1>5, <2>2 DEF Map!Put, Map!Drop, Got
  <2> QED
    BY <1>1, <1>3, <2>3 DEF MapStep, Map!Next
<1> QED
  BY <1>3, <1>6, <1>7

LEMMA PurgeImplements ==
    ASSUME Assumptions, Inv, NEW w \in Workers, Purge(w)
    PROVE  MapStep
<1>1. TypeOK /\ RequestInv
  BY DEF Inv
<1>2. /\ TypeOK' /\ now' = now /\ OnlyReq(w)
      /\ req[w].key \in States /\ req'[w].got = req[w].got
      /\ \A k \in Keys : k # req[w].key => cache'[k] = cache[k]
      /\ cache' = cache \/ cache'[req[w].key] = NoRow
  BY <1>1, PurgeEffect
<1>3. req[w].key \in Keys
  BY <1>2, Constants
<1>4. Got' = Got
  BY <1>2 DEF Got, OnlyReq
<1>5. \A k \in Keys : k # req[w].key => Shown(k)' = Shown(k)
  BY <1>2, ShownSame
<1>6. CASE cache' = cache
  <2>1. Visible' = Visible
    BY <1>1, <1>2, <1>6, ShownSame, VisibleKept
  <2> QED
    BY <1>4, <2>1 DEF MapStep
<1>7. CASE cache'[req[w].key] = NoRow
  <2>1. Visible' = [Visible EXCEPT ![req[w].key] = Map!Absent]
    BY <1>1, <1>2, <1>3, <1>5, <1>7, ShownGone, VisibleSet
  <2>2. Map!Delete(req[w].key)
    BY <1>4, <2>1 DEF Map!Delete, Got
  <2> QED
    BY <1>3, <2>2 DEF MapStep, Map!Next
<1> QED
  BY <1>2, <1>6, <1>7

LEMMA SetEntryImplements ==
    ASSUME Assumptions, Inv, NEW w \in Workers, NEW k \in ApiKeys,
           NEW x \in ApiValues, NEW t \in ApiTtls, SetEntry(w, k, x, t)
    PROVE  MapStep
<1>1. TypeOK /\ RequestInv /\ k \in Keys /\ x \in Values
  BY Constants DEF Inv
<1>2. /\ TypeOK' /\ now' = now
      /\ Begins(w, k)
      /\ \/ Writes(w, k, x)
         \/ cache' = cache /\ OnlyReq(w)
  BY <1>1, SetEntryEffect
<1>3. /\ req'[w].got = None
      /\ \A j \in Keys : j # k => cache'[j] = cache[j]
      /\ \A u \in Workers : u # w => req'[u].got = req[u].got
  BY <1>2 DEF Begins
<1>4. CASE cache' = cache /\ OnlyReq(w)
  BY <1>1, <1>2, <1>3, <1>4, DropImplements
<1>5. CASE Writes(w, k, x)
  <2>1. PICK ttl \in 1..MaxTtl : cache'[k] = [value |-> x, expires |-> now + ttl]
    BY <1>5 DEF Writes
  <2>2. Shown(k)' = [value |-> x, left |-> ttl]
    BY <1>1, <1>2, <2>1, ShownSet
  <2>3. \A j \in Keys : j # k => Shown(j)' = Shown(j)
    BY <1>2, <1>3, ShownSame
  <2>4. Visible' = [Visible EXCEPT ![k] = [value |-> x, left |-> ttl]]
    BY <1>1, <1>2, <2>2, <2>3, VisibleSet
  <2>5. Got' = [Got EXCEPT ![w] = None]
    BY <1>3 DEF Got
  <2>6. Map!Put(k, x)
    BY <2>4, <2>5 DEF Map!Put, Map!Drop, Got
  <2> QED
    BY <1>1, <2>6 DEF MapStep, Map!Next
<1> QED
  BY <1>2, <1>4, <1>5

\* Expired rows are not shown, so their removal is not seen.
LEMMA CleanupImplements ==
    ASSUME Assumptions, Inv, Cleanup
    PROVE  MapStep
<1>1. /\ TypeOK /\ TypeOK' /\ UNCHANGED <<now, req>>
      /\ \A k \in Keys : \/ cache'[k] = cache[k]
                         \/ cache'[k] = NoRow /\ cache[k].expires <= now
  BY CleanupEffect DEF Inv
<1>2. ASSUME NEW k \in Keys
      PROVE  Shown(k)' = Shown(k)
  <2>1. CASE cache'[k] = cache[k]
    BY <1>1, <2>1, ShownSame
  <2>2. CASE cache'[k] = NoRow /\ cache[k].expires <= now
    <3>1. cache[k].expires \in Int /\ now \in Int
      BY <1>1, Constants DEF TypeOK, CacheTypeOK, Row
    <3>2. ~Live(k) /\ ~Live(k)'
      BY <2>2, <3>1 DEF Live, Exists, NoRow
    <3> QED
      BY <3>2 DEF Shown
  <2> QED
    BY <1>1, <2>1, <2>2
<1>3. Visible' = Visible /\ Got' = Got
  BY <1>1, <1>2, VisibleKept DEF Got
<1> QED
  BY <1>3 DEF MapStep

LEMMA DeleteEntryImplements ==
    ASSUME Assumptions, Inv, NEW k \in ApiKeys, DeleteEntry(k)
    PROVE  MapStep
<1>1. /\ TypeOK /\ TypeOK' /\ UNCHANGED <<now, req>>
      /\ cache'[k] = NoRow /\ k \in Keys
      /\ \A j \in Keys : j # k => cache'[j] = cache[j]
  BY DeleteEntryEffect, Constants DEF Inv
<1>2. Visible' = [Visible EXCEPT ![k] = Map!Absent]
  BY <1>1, ShownSame, ShownGone, VisibleSet
<1>3. Map!Delete(k)
  BY <1>1, <1>2 DEF Map!Delete, Got
<1> QED
  BY <1>1, <1>3 DEF MapStep, Map!Next

\* When time passes, what is shown gets older.
LEMMA TickImplements ==
    ASSUME Assumptions, Inv, Tick
    PROVE  MapStep
<1>1. TypeOK /\ TypeOK' /\ UNCHANGED <<cache, req>> /\ now' = now + 1
  BY TickEffect DEF Inv
<1>2. ASSUME NEW k \in Keys
      PROVE  Shown(k)' = Map!Older(Visible[k])
  <2>1. /\ cache[k].expires \in Int /\ now \in Int
        /\ Visible[k] = Shown(k)
    BY <1>1, Constants, VisibleIs DEF TypeOK, CacheTypeOK, Row
  <2>2. Live(k)' <=> Exists(k) /\ cache[k].expires > now + 1
    BY <1>1 DEF Live, Exists
  <2>3. CASE Exists(k) /\ cache[k].expires > now + 1
    <3>1. Live(k) /\ cache[k].expires - now > 1
      BY <2>1, <2>3 DEF Live
    <3>2. Visible[k] = [value |-> cache[k].value, left |-> cache[k].expires - now]
      BY <2>1, <3>1 DEF Shown
    <3>3. Map!Older(Visible[k]) = [value |-> cache[k].value, left |-> cache[k].expires - now - 1]
      BY <3>1, <3>2 DEF Map!Older
    <3>4. Shown(k)' = [value |-> cache[k].value, left |-> cache[k].expires - (now + 1)]
      BY <1>1, <2>2, <2>3 DEF Shown
    <3>5. cache[k].expires - now - 1 = cache[k].expires - (now + 1)
      BY <2>1
    <3> QED
      BY <3>3, <3>4, <3>5
  <2>4. CASE ~(Exists(k) /\ cache[k].expires > now + 1)
    <3>1. Shown(k)' = Map!Absent
      BY <2>2, <2>4 DEF Shown, Map!Absent
    <3>2. ~(Visible[k].left > 1)
      <4>1. CASE Live(k)
        <5>1. Visible[k].left = cache[k].expires - now
          BY <2>1, <4>1 DEF Shown
        <5> QED
          BY <2>1, <2>4, <4>1, <5>1 DEF Live
      <4>2. CASE ~Live(k)
        BY <2>1, <4>2 DEF Shown
      <4> QED
        BY <4>1, <4>2
    <3> QED
      BY <3>1, <3>2 DEF Map!Older
  <2> QED
    BY <2>3, <2>4
<1>3. Visible' = [k \in Keys |-> Map!Older(Visible[k])]
  BY <1>1, <1>2 DEF Visible, Shown, Live, Exists
<1>4. Map!Tick
  BY <1>1, <1>3 DEF Map!Tick
<1> QED
  BY <1>4 DEF MapStep, Map!Next

LEMMA StepImplements ==
    ASSUME Assumptions, Inv, [Next]_vars
    PROVE  MapStep
<1>1. TypeOK /\ TypeOK' /\ RequestInv /\ States \subseteq Keys /\ ApiKeys \subseteq Keys
  BY InvStep, Constants DEF Inv
<1>2. CASE UNCHANGED vars
  <2>1. Visible' = Visible /\ Got' = Got
    BY <1>2 DEF vars, Visible, Got, Live, Exists
  <2> QED
    BY <2>1 DEF MapStep
<1>3. ASSUME NEW w \in Workers, NEW s \in States, NEW v \in Verifiers, Callback(w, s, v)
      PROVE  MapStep
  BY <1>1, <1>3, CallbackEffect, DropImplements
<1>4. ASSUME NEW w \in Workers, ReadVerifier(w)
      PROVE  MapStep
  <2>1. /\ OnlyReq(w) /\ UNCHANGED <<cache, now>> /\ req[w].key \in States
        /\ req'[w].got \in {Get(req[w].key), None}
    BY <1>1, <1>4, ReadVerifierEffect
  <2> QED
    BY <1>1, <2>1, LookupImplements
<1>5. ASSUME NEW w \in Workers, Exchange(w) \/ DirectLogin(w)
      PROVE  MapStep
  BY <1>1, <1>5, ExchangeEffect, DirectLoginEffect, DropImplements
<1>6. ASSUME NEW w \in Workers, ReadBack(w)
      PROVE  MapStep
  <2>1. /\ OnlyReq(w) /\ UNCHANGED <<cache, now>> /\ req[w].key \in ApiKeys
        /\ req'[w].got \in {Get(req[w].key), None}
    BY <1>1, <1>6, ReadBackEffect
  <2> QED
    BY <1>1, <2>1, LookupImplements
<1>7. ASSUME NEW w \in Workers, NEW k \in ApiKeys, GetEntry(w, k)
      PROVE  MapStep
  BY <1>1, <1>7, GetEntryEffect, LookupImplements
<1>8. CASE Next
  BY <1>3, <1>4, <1>5, <1>6, <1>7, <1>8, AuthUrlImplements, PurgeImplements,
     SetEntryImplements, DeleteEntryImplements, CleanupImplements, TickImplements DEF Next
<1> QED
  BY <1>2, <1>8

\* CacheImplementsMap: the table with its expired rows and its cleanup, and
\* the requests of both users, implement the map whose entries expire.
THEOREM CacheIsAMap == Spec => CacheImplementsMap
<1>1. Assumptions
  BY CacheAssumption, RequestsAssumption DEF Assumptions
<1>2. Init => Map!Init
  <2> SUFFICES ASSUME Init
               PROVE  Map!Init
    OBVIOUS
  <2>1. Visible = [k \in Keys |-> Map!Absent]
    BY DEF Init, Visible, Live, Exists, NoRow, Map!Absent
  <2>2. [w \in Workers |-> req[w].got] = [w \in Workers |-> None]
    BY DEF Init, NoRequest
  <2> QED
    BY <2>1, <2>2 DEF Map!Init
<1>3. Inv /\ [Next]_vars => [Map!Next]_<<Visible, [w \in Workers |-> req[w].got]>>
  BY <1>1, StepImplements DEF MapStep, Got
<1> QED
  BY <1>2, <1>3, Invariance, PTL DEF Spec, CacheImplementsMap, Map!Spec
=============================================================================
