--------------------------- MODULE CacheRequests ---------------------------
(***************************************************************************)
(* The two users of the cache: the cache's own endpoints (CacheUseCases)   *)
(* and the sign-in with Google (AuthUseCases), that keeps the PKCE         *)
(* verifier of an authorization URL under its state until the callback.    *)
(*                                                                         *)
(* A verifier is a number, and the authorization code that Google hands    *)
(* to whoever follows a URL is known by the URL's verifier.  A request     *)
(* runs as a sequence of steps, one for each call of the repository or of  *)
(* Google, and the steps of different requests interleave.  A step whose   *)
(* call may fail has a disjunct for that: the repository swallows the      *)
(* exception, and get answers nothing, set and remove have done nothing.   *)
(* What follows a verified identity is the subject of Accounts.            *)
(***************************************************************************)
EXTENDS CacheStore, FiniteSets

CONSTANTS Workers,        \* the requests that may be in progress at once
          States,         \* the keys "pkce:state:..."
          ApiKeys,        \* the keys of the cache's endpoints
          ApiValues,
          MaxUrls,        \* bound: how many authorization URLs are made
          StateTtl,       \* 600 seconds
          DefaultTtl,     \* 3600 seconds
          ApiTtls,        \* the ttlSeconds that clients ask for
          AudienceChecked \* the client id is set, and is not a test's

Verifiers == 1..MaxUrls

ASSUME RequestsAssumption ==
    /\ MaxUrls \in Nat
    /\ StateTtl \in 1..MaxTtl
    /\ DefaultTtl \in 1..MaxTtl
    /\ ApiTtls \subseteq Int
    /\ \A t \in ApiTtls : t <= MaxTtl
    /\ States \cap ApiKeys = {}
    /\ Keys = States \cup ApiKeys
    /\ Values = Verifiers \cup ApiValues
    /\ None \notin States
    /\ AudienceChecked \in BOOLEAN

VARIABLES req,       \* the request of each worker
          redeemed,  \* external: the codes that Google has exchanged
          urls,      \* history: the authorization URL of each verifier
          spent      \* history: verifiers whose callback has ended, with no
                     \* failure of its remove

vars == <<cache, now, req, redeemed, urls, spent>>

\* A reply is 200, 401 for the state, 401 for the code, or any other.
\* kept and puts are history: the remove failed; the values written to the key
\* since the request's own write, if that was committed.
Request == [at    : {"idle", "get", "remove", "exchange", "readback"},
            key   : Keys \cup {None},
            code  : Verifiers \cup {0},
            got   : Values \cup {None},
            reply : {"none", "ok", "refused", "rejected", "failed"},
            kept  : BOOLEAN,
            puts  : SUBSET ApiValues]

NoRequest == [at |-> "idle", key |-> None, code |-> 0, got |-> None, reply |-> "none",
              kept |-> FALSE, puts |-> {}]

\* A URL is "used" when a callback has come with its code, and "spoilt" when its
\* user has a reason to fail, see HonestSignInWorks.
Url == [state : States \cup {None}, at : 0..MaxTime, mark : {"fresh", "used", "spoilt"}]

TypeOK ==
    /\ CacheTypeOK
    /\ req \in [Workers -> Request]
    /\ redeemed \subseteq Verifiers
    /\ urls \in [Verifiers -> Url]
    /\ spent \subseteq Verifiers

Init ==
    /\ cache = [k \in Keys |-> NoRow]
    /\ now = 0
    /\ req = [w \in Workers |-> NoRequest]
    /\ redeemed = {}
    /\ urls = [v \in Verifiers |-> [state |-> None, at |-> 0, mark |-> "fresh"]]
    /\ spent = {}

-----------------------------------------------------------------------------
Idle(w)  == req[w].at = "idle"
Made(v)  == urls[v].state # None

\* The end of a sign-in; its code is remembered when the reply is about it.
Finish(w, r) ==
    req' = [req EXCEPT ![w] = [NoRequest EXCEPT !.reply = r,
                                                !.code = IF r = "rejected" THEN req[w].code ELSE 0]]

Spoil(S) == [v \in Verifiers |-> IF v \in S THEN [urls[v] EXCEPT !.mark = "spoilt"] ELSE urls[v]]

(***************************************************************************)
(* getGoogleAuthUrl: the next verifier is generated and kept for StateTtl; *)
(* the answer carries the URL whether or not the cache has it.             *)
(***************************************************************************)
AuthUrl(s) ==
    LET Earlier == {v \in Verifiers : urls[v].state = s} IN
    \E v \in Verifiers, failed \in BOOLEAN :
        /\ ~Made(v) /\ \A u \in 1..(v - 1) : Made(u)
        /\ urls' = [Spoil(Earlier) EXCEPT
               ![v] = [state |-> s, at |-> now,
                       mark |-> IF failed \/ Earlier # {} THEN "spoilt" ELSE "fresh"]]
        /\ IF failed THEN UNCHANGED cache ELSE Set(s, v, StateTtl)
        /\ UNCHANGED <<now, req, redeemed, spent>>

(***************************************************************************)
(* loginWithGoogle with a code and a state, from the callback's redirect   *)
(* or the body of a POST that has no verifier of its own.  A client may    *)
(* bring any state with its code, and bring both again.                    *)
(***************************************************************************)
Callback(w, s, v) ==
    /\ Idle(w)
    /\ Made(v)
    /\ urls' = [urls EXCEPT ![v].mark = IF @ = "fresh" /\ urls[v].state = s THEN "used" ELSE "spoilt"]
    /\ req' = [req EXCEPT ![w] = [NoRequest EXCEPT !.at = "get", !.key = s, !.code = v]]
    /\ UNCHANGED <<cache, now, redeemed, spent>>

\* m_cacheRepo->get; nothing found, or an error, ends the request with 401.
ReadVerifier(w) ==
    LET code == req[w].code
        late == now - urls[code].at >= StateTtl
        after(v) == IF v = None THEN [NoRequest EXCEPT !.reply = "refused", !.code = code]
                                ELSE [req[w] EXCEPT !.at = "remove", !.got = v]
        found == Get(req[w].key)
    IN
    /\ req[w].at = "get"
    /\ \/ /\ req' = [req EXCEPT ![w] = after(found)]
          /\ urls' = Spoil((IF late THEN {code} ELSE {}) \cup ({found} \cap (Verifiers \ {code})))
       \/ /\ req' = [req EXCEPT ![w] = after(None)]
          /\ urls' = Spoil({code})
    /\ UNCHANGED <<cache, now, redeemed, spent>>

\* m_cacheRepo->remove, by the key; its result is not looked at.
Purge(w) ==
    /\ req[w].at = "remove"
    /\ \E failed \in BOOLEAN :
          /\ IF failed THEN UNCHANGED cache ELSE Remove(req[w].key)
          /\ req' = [req EXCEPT ![w].at = "exchange", ![w].key = None, ![w].kept = failed]
    /\ UNCHANGED <<now, redeemed, urls, spent>>

(***************************************************************************)
(* The claims of an ID token, as parseAndValidateTokenClaims tells them    *)
(* apart.  exp is compared in seconds: a token is good in its last one.    *)
(***************************************************************************)
Claims == [iss      : {"google", "other", "absent"},
           aud      : {"own", "other", "absent"},
           exp      : {"past", "present", "future", "absent"},
           profile  : BOOLEAN,                    \* it has sub and email
           verified : {"yes", "no", "absent"}]

ClaimsStatus(c) ==
    CASE c.iss = "other" \/ (AudienceChecked /\ c.aud = "other") \/ c.exp = "past" -> 401
      [] OTHER -> IF ~c.profile THEN 400 ELSE IF c.verified = "no" THEN 403 ELSE 200

\* verifyIdToken: a token of Google's is looked up by tokeninfo, and when
\* that has no profile to tell, the token's own payload is decoded.
IdTokenStatus(wellFormed, payload, info) ==
    IF info.profile THEN ClaimsStatus(info)
    ELSE IF wellFormed THEN ClaimsStatus(payload) ELSE 400

IdTokenReplies ==
    {IF IdTokenStatus(f, p, i) = 200 THEN "ok" ELSE "failed" :
        f \in BOOLEAN, p \in Claims, i \in [iss : {"google"}, aud : {"own", "other"},
              exp : {"future"}, profile : BOOLEAN, verified : {"yes", "no"}]}

\* External: Google's token endpoint takes a code once, with the verifier of
\* its challenge; the answer may be lost on either way.
Redeems(code, verifier) == code = verifier /\ code \notin redeemed

\* exchangeAuthCode, and verifyIdToken on what comes back.
Exchange(w) ==
    LET code == req[w].code IN
    /\ req[w].at = "exchange"
    /\ \/ /\ Redeems(code, req[w].got)
          /\ redeemed' = redeemed \cup {code}
          /\ \E r \in IdTokenReplies : Finish(w, r)
       \/ /\ ~Redeems(code, req[w].got)
          /\ Finish(w, "rejected")
          /\ UNCHANGED redeemed
       \/ /\ Finish(w, "failed")
          /\ UNCHANGED redeemed
    /\ spent' = IF req[w].kept THEN spent ELSE spent \cup {req[w].got}
    /\ UNCHANGED <<cache, now, urls>>

\* A POST with an ID token, or with a code and a verifier of the client's
\* own: the cache is not asked.
DirectLogin(w) ==
    /\ Idle(w)
    /\ \E r \in IdTokenReplies \cup {"rejected"} :
          req' = [req EXCEPT ![w] = [NoRequest EXCEPT !.reply = r]]
    /\ UNCHANGED <<cache, now, redeemed, urls, spent>>

-----------------------------------------------------------------------------
\* Mutant: the default is given in milliseconds.
MutEffectiveTtl(t) == IF t <= 0 THEN 1000 * DefaultTtl ELSE t

\* CacheUseCases::set: a ttl that is not positive becomes the default.
EffectiveTtl(t) == IF t <= 0 THEN DefaultTtl ELSE t

\* The write of CacheUseCases::set, and the requests that will read after it.
SetEntry(w, k, x, t) ==
    LET mine == [NoRequest EXCEPT !.at = "readback", !.key = k] IN
    /\ Idle(w)
    /\ \/ /\ Set(k, x, EffectiveTtl(t))
          /\ req' = [u \in Workers |->
                CASE u = w -> [mine EXCEPT !.puts = {x}]
                  [] u # w -> IF req[u].at = "readback" /\ req[u].key = k /\ req[u].puts # {}
                                THEN [req[u] EXCEPT !.puts = @ \cup {x}] ELSE req[u]]
       \/ /\ req' = [req EXCEPT ![w] = mine]
          /\ UNCHANGED cache
    /\ UNCHANGED <<now, redeemed, urls, spent>>

\* The lookup of CacheUseCases::set; what it finds is the answer.
ReadBack(w) ==
    /\ req[w].at = "readback"
    /\ \E x \in {Get(req[w].key), None} :
          req' = [req EXCEPT ![w] = [NoRequest EXCEPT
                     !.got = x, !.puts = IF x = None THEN {} ELSE req[w].puts]]
    /\ UNCHANGED <<cache, now, redeemed, urls, spent>>

GetEntry(w, k) ==
    /\ Idle(w)
    /\ \E x \in {Get(k), None} :
          req' = [req EXCEPT ![w] = [NoRequest EXCEPT !.got = x]]
    /\ UNCHANGED <<cache, now, redeemed, urls, spent>>

DeleteEntry(k) ==
    /\ Remove(k)
    /\ UNCHANGED <<now, req, redeemed, urls, spent>>

Cleanup ==
    /\ CleanupExpired
    /\ UNCHANGED <<now, req, redeemed, urls, spent>>

Tick ==
    /\ now < MaxTime
    /\ now' = now + 1
    /\ UNCHANGED <<cache, req, redeemed, urls, spent>>

Next ==
    \/ \E s \in States : AuthUrl(s)
    \/ \E w \in Workers : ReadVerifier(w) \/ Purge(w) \/ Exchange(w) \/ DirectLogin(w) \/ ReadBack(w)
    \/ \E w \in Workers, s \in States, v \in Verifiers : Callback(w, s, v)
    \/ \E w \in Workers, k \in ApiKeys :
          GetEntry(w, k) \/ \E x \in ApiValues, t \in ApiTtls : SetEntry(w, k, x, t)
    \/ \E k \in ApiKeys : DeleteEntry(k)
    \/ Cleanup
    \/ Tick

Spec == Init /\ [][Next]_vars

-----------------------------------------------------------------------------
(* Properties.                                                             *)

\* The entries that are still good, with the time they have left.
Visible == [k \in Keys |-> IF Live(k) THEN [value |-> cache[k].value, left |-> cache[k].expires - now]
                                      ELSE [value |-> None, left |-> 0]]

Map == INSTANCE ExpiringMap WITH
           map <- Visible, got <- [w \in Workers |-> req[w].got], Clients <- Workers

\* The table with its expired rows and its cleanup, and the requests of both
\* users on it, implement a map whose entries expire by themselves: no lookup
\* answers what is overwritten, removed or expired, and nothing goes early.
CacheImplementsMap == Map!Spec

\* The value that set answers with is not older than the request's own write:
\* it is that value, or one that somebody wrote between the two transactions.
SetAnswerNotStale ==
    \A w \in Workers :
        Idle(w) /\ req[w].got # None /\ req[w].puts # {} => req[w].got \in req[w].puts

\* A verifier whose callback has ended is out of the cache for good, so a
\* replayed callback finds nothing: two exchanges with one verifier need
\* callbacks that overlap, or a remove that failed.
SpentVerifiersGone ==
    \A s \in States : cache[s].value \notin spent

\* Who follows a URL within StateTtl, and is its first callback, is not told
\* that the state is invalid or the code wrong; unless another URL was made
\* for the state, a call of the repository failed for it, or a callback came
\* with this state and another code.
HonestSignInWorks ==
    \A w \in Workers :
        Idle(w) /\ req[w].reply \in {"refused", "rejected"} /\ req[w].code # 0
            => urls[req[w].code].mark = "spoilt"
=============================================================================
