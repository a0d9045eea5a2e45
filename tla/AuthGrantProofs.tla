-------------------------- MODULE AuthGrantProofs ---------------------------
(***************************************************************************)
(* What extractAuthenticatedUser guarantees the handlers behind it, and    *)
(* what the tokens and the revocations guarantee the users: that a token   *)
(* is spent for good, that nobody ends the sessions of others, that an end *)
(* that is confirmed has happened, that the fast table of revocations      *)
(* misses no token, and that honest clients are not taken for thieves.     *)
(***************************************************************************)
EXTENDS AuthSessionsProofs

(***************************************************************************)
(* GrantedOnlyIfUsable is not inductive.  A request that has been granted  *)
(* is not dead because findById found its session live, and a session that *)
(* was not live when the request began cannot be found live later: the     *)
(* tokens in circulation name sessions that exist (or never will), and the *)
(* row of such a session only goes from live to revoked.                   *)
(***************************************************************************)
GrantOK(r, st, ac) ==
    r.op \in AuthOps =>
        /\ st[r.sid].status # "absent"
        /\ r.dead => st[r.sid].status # "live"
        /\ r.suspended => ~ac[r.user]
        /\ r.call \in {"account"} \cup GrantedCalls => ~r.dead
        /\ r.call \in GrantedCalls => ~r.suspended

TokensNameSessions == \A a \in issued : sessions[a.sid].status # "absent"

GrantInv ==
    /\ TokensNameSessions
    /\ \A w \in Workers : GrantOK(req[w], sessions, active)

-----------------------------------------------------------------------------
\* A request in progress stays as it should be when rows change as they may.
LEMMA GrantKept ==
    ASSUME NEW r, NEW st, NEW st2, NEW ac, GrantOK(r, st, ac),
           \/ st2[r.sid] = st[r.sid]
           \/ st[r.sid].status = "absent"
           \/ st[r.sid].status = "live" /\ st2[r.sid].status \in {"live", "revoked"}
    PROVE  GrantOK(r, st2, ac)
BY DEF GrantOK

\* The tokens in circulation keep naming sessions: no row is ever removed, and
\* a token response is only sent for a row that was inserted or updated.
LEMMA TokensStep ==
    ASSUME StoreAssumption, AuthAssumption, TypeInv, TokensNameSessions, [Next]_vars
    PROVE  TokensNameSessions'
<1>1. /\ \A a \in issued : a.sid \in Sessions
      /\ \A s \in Sessions : RowStep(s)
      /\ sessions \in [Sessions -> Row]
  BY StepRows DEF TypeInv, TypeOK, StoreTypeOK, TokenResponse
<1>2. ASSUME NEW a \in issued
      PROVE  sessions'[a.sid].status # "absent"
  BY <1>1 DEF RowStep, TokensNameSessions
<1>3. CASE UNCHANGED issued
  BY <1>2, <1>3 DEF TokensNameSessions
<1>4. ASSUME NEW s \in Sessions, NEW u, NEW f, Issue(s, u, f),
             sessions'[s].status # "absent"
      PROVE  TokensNameSessions'
  BY <1>2, <1>4 DEF Issue, TokensNameSessions
<1>5. ASSUME NEW w \in Workers, LoginCreate(w)
      PROVE  TokensNameSessions'
  <2>1. CASE UNCHANGED <<storeVars, issued>>
    BY <1>3, <2>1
  <2>2. ASSUME NEW s \in Sessions, NEW exp,
               CreateSession(s, req[w].user, exp) \/ CreateSessionUncommitted(s)
        PROVE  sessions'[s].status # "absent"
    BY <1>1, <2>2 DEF CreateSession, CreateSessionUncommitted, Row
  <2> QED
    BY <1>4, <1>5, <2>1, <2>2 DEF LoginCreate
<1>6. ASSUME NEW w \in Workers, RefreshRotate(w)
      PROVE  TokensNameSessions'
  <2>1. CASE UNCHANGED issued
    BY <1>3, <2>1
  <2>2. CASE /\ UpdateRefreshToken(req[w].sid, req[w].t + RefreshTtl)
             /\ Issue(req[w].sid, req[w].user, req[w].cred)
    <3>1. req[w].sid \in Sessions
      BY <1>6 DEF RefreshRotate, At, TypeInv, RequestsOK, RequestOK
    <3>2. sessions'[req[w].sid].status = "live"
      BY <1>1, <2>2, <3>1 DEF UpdateRefreshToken, Live, Row
    <3> QED
      BY <1>4, <2>2, <3>1, <3>2
  <2> QED
    BY <1>6, <2>1, <2>2 DEF RefreshRotate
<1>7. ASSUME ~(\E w \in Workers : LoginCreate(w) \/ RefreshRotate(w))
      PROVE  UNCHANGED issued
  BY <1>7, Zenon DEF Next, Step, vars, LoginLookup, RefreshLookup, RefreshUser,
              Authenticate, CheckSession, CheckAccount, ListSessions, CheckAdmin,
              FindTarget, Kill, KillAll, SetActive, Tick, Cleanup
<1> QED
  BY <1>3, <1>5, <1>6, <1>7

-----------------------------------------------------------------------------
\* The request of a worker that takes a step, afterwards.
LEMMA GrantStepWorker ==
    ASSUME TypeInv, GrantInv, NEW w \in Workers, Step(w)
    PROVE  \E r : /\ req' = [req EXCEPT ![w] = r]
                  /\ GrantOK(r, sessions', active)
<1>1. req[w] \in Request /\ RequestOK(req[w]) /\ GrantOK(req[w], sessions, active)
  BY DEF TypeInv, TypeOK, RequestsOK, GrantInv
<1>2. ASSUME NEW x \in {"ok", "refused"}, Answer(w, x)
      PROVE  \E r : req' = [req EXCEPT ![w] = r] /\ GrantOK(r, sessions', active)
  <2>1. GrantOK(Idle(x), sessions', active)
    BY DEF GrantOK, Idle, AuthOps
  <2> QED
    BY <1>2, <2>1 DEF Answer
<1>3. ASSUME NEW u, LoginLookup(w, u), ~Answer(w, "refused")
      PROVE  \E r : req' = [req EXCEPT ![w] = r] /\ GrantOK(r, sessions', active)
  <2> DEFINE r == [Idle("none") EXCEPT !.op = "login", !.call = "create",
                                       !.user = u, !.t = now]
  <2>1. GrantOK(r, sessions', active)
    BY DEF GrantOK, Idle, AuthOps
  <2>2. req' = [req EXCEPT ![w] = r]
    BY <1>3 DEF LoginLookup
  <2> QED
    BY <2>1, <2>2
<1>4. ASSUME NEW g, RefreshLookup(w, g), ~Answer(w, "refused")
      PROVE  \E r : req' = [req EXCEPT ![w] = r] /\ GrantOK(r, sessions', active)
  <2>1. PICK s \in Sessions, c \in {"user", "killAll"} : BeginRefresh(w, g, c, s)
    BY <1>4 DEF RefreshLookup, HoldersOf, FormerHoldersOf
  <2> DEFINE r == [Idle("none") EXCEPT !.op = "refresh", !.call = c,
                     !.user = sessions[s].user, !.sid = s, !.cred = g,
                     !.target = IF c = "killAll" THEN sessions[s].user ELSE NoId,
                     !.t = now]
  <2>2. GrantOK(r, sessions', active)
    BY DEF GrantOK, Idle, AuthOps
  <2>3. req' = [req EXCEPT ![w] = r]
    BY <2>1 DEF BeginRefresh
  <2> QED
    BY <2>2, <2>3
<1>5. ASSUME NEW op \in AuthOps, NEW a \in issued, Authenticate(w, op, a),
             ~Answer(w, "refused")
      PROVE  \E r : req' = [req EXCEPT ![w] = r] /\ GrantOK(r, sessions', active)
  <2> DEFINE d == ~Live(a.sid)
             x == ~active[a.user]
             r == [Idle("none") EXCEPT !.op = op, !.call = "session",
                     !.user = a.user, !.sid = a.sid, !.t = now,
                     !.dead = d, !.suspended = x]
  <2>1. req' = [req EXCEPT ![w] = r] /\ UNCHANGED sessions
    BY <1>5 DEF Authenticate, storeVars
  <2>2. sessions[a.sid].status # "absent"
    BY DEF GrantInv, TokensNameSessions
  <2>3. d => sessions[a.sid].status # "live"
    BY DEF Live
  <2> HIDE DEF d
  <2>4. GrantOK(r, sessions, active)
    BY <2>2, <2>3 DEF GrantOK, Idle, GrantedCalls
  <2> HIDE DEF r
  <2> QED
    BY <2>1, <2>4
<1>6. ASSUME NEW c, Goto(w, c), UNCHANGED sessions,
             \/ req[w].op \notin AuthOps
             \/ c = "account" /\ Live(req[w].sid)
             \/ c \in GrantedCalls /\ req[w].call = "account" /\ active[req[w].user]
             \/ c \in GrantedCalls /\ req[w].call \in GrantedCalls
      PROVE  \E r : req' = [req EXCEPT ![w] = r] /\ GrantOK(r, sessions', active)
  <2> DEFINE r == [req[w] EXCEPT !.call = c]
  <2>1. GrantOK(r, sessions, active)
    BY <1>1, <1>6 DEF GrantOK, Request, Live, GrantedCalls
  <2>2. req' = [req EXCEPT ![w] = r]
    BY <1>6 DEF Goto
  <2> HIDE DEF r
  <2> QED
    BY <1>6, <2>1, <2>2
<1>7. ASSUME NEW c \in GrantedCalls, NEW x, GotoWith(w, c, x), UNCHANGED sessions,
             \/ req[w].call = "account" /\ active[req[w].user]
             \/ req[w].call \in GrantedCalls
      PROVE  \E r : req' = [req EXCEPT ![w] = r] /\ GrantOK(r, sessions', active)
  <2> DEFINE r == [req[w] EXCEPT !.call = c, !.target = x]
  <2>1. GrantOK(r, sessions, active)
    BY <1>1, <1>7 DEF GrantOK, Request, GrantedCalls
  <2>2. req' = [req EXCEPT ![w] = r]
    BY <1>7 DEF GotoWith
  <2> HIDE DEF r
  <2> QED
    BY <1>7, <2>1, <2>2
<1>8. CASE LoginCreate(w) \/ RefreshRotate(w) \/ ListSessions(w) \/ Kill(w) \/ KillAll(w)
  BY <1>2, <1>8 DEF LoginCreate, RefreshRotate, ListSessions, Kill, KillAll, Unrevoked
<1>9. CASE RefreshUser(w)
  <2>1. req[w].op \notin AuthOps
    BY <1>1, <1>9 DEF RefreshUser, At, RequestOK, AuthOps
  <2> QED
    BY <1>2, <1>6, <1>9, <2>1 DEF RefreshUser, storeVars
<1>10. CASE CheckSession(w)
  BY <1>2, <1>6, <1>10 DEF CheckSession, Usable, storeVars
<1>11. CASE CheckAccount(w)
  <2>1. CASE Answer(w, "refused")
    BY <1>2, <2>1
  <2>2. CASE ~Answer(w, "refused")
    <3>1. /\ active[req[w].user] /\ req[w].call = "account" /\ UNCHANGED sessions
          /\ \/ \E c \in {"list", "find", "admin"} : Goto(w, c)
             \/ \E c \in {"kill", "killAll"}, x \in {req[w].sid, req[w].user} : GotoWith(w, c, x)
      BY <1>11, <2>2 DEF CheckAccount, LogoutRoutes, SessionRoutes, AdminRoutes,
                         At, storeVars
    <3> QED
      BY <1>6, <1>7, <3>1 DEF GrantedCalls
  <2> QED
    BY <2>1, <2>2
<1>12. CASE CheckAdmin(w)
  <2>1. /\ req[w].call = "admin" /\ UNCHANGED sessions
        /\ \/ Answer(w, "refused") \/ Goto(w, "find")
           \/ \E u \in Users : GotoWith(w, "killAll", u)
    BY <1>12 DEF CheckAdmin, At, storeVars
  <2> QED
    BY <1>2, <1>6, <1>7, <2>1 DEF GrantedCalls
<1>13. CASE FindTarget(w)
  <2>1. /\ req[w].call = "find" /\ UNCHANGED sessions
        /\ \/ Answer(w, "refused") \/ Answer(w, "ok")
           \/ \E s \in Sessions : GotoWith(w, "kill", s)
    BY <1>13 DEF FindTarget, FindById, At, storeVars
  <2> QED
    BY <1>2, <1>7, <2>1 DEF GrantedCalls
<1> QED
  BY <1>2, <1>3, <1>4, <1>5, <1>8, <1>9, <1>10, <1>11, <1>12, <1>13 DEF Step

\* Every step of every request, and of the environment, preserves GrantInv.
LEMMA GrantInvStep ==
    ASSUME StoreAssumption, AuthAssumption, TypeInv, GrantInv, [Next]_vars
    PROVE  GrantInv'
<1>1. TokensNameSessions'
  BY TokensStep DEF GrantInv
<1>2. /\ req \in [Workers -> Request]
      /\ \A w \in Workers : RequestOK(req[w]) /\ GrantOK(req[w], sessions, active)
  BY DEF TypeInv, TypeOK, RequestsOK, GrantInv
<1>3. ASSUME NEW w \in Workers
      PROVE  GrantOK(req[w], sessions', active)
  <2>1. CASE req[w].op \notin AuthOps
    BY <2>1 DEF GrantOK
  <2>2. CASE req[w].op \in AuthOps
    <3>1. RowStep(req[w].sid)
      BY <1>2, <2>2, StepRows DEF RequestOK
    <3> QED
      BY <1>2, <3>1, GrantKept DEF RowStep, Live
  <2> QED
    BY <2>1, <2>2
<1>4. ASSUME NEW w \in Workers, Step(w)
      PROVE  GrantInv'
  <2>1. UNCHANGED active
    BY <1>4, Zenon DEF Step, LoginLookup, LoginCreate, RefreshLookup, RefreshUser,
                RefreshRotate, Authenticate, CheckSession, CheckAccount,
                ListSessions, CheckAdmin, FindTarget, Kill, KillAll
  <2>2. PICK r : req' = [req EXCEPT ![w] = r] /\ GrantOK(r, sessions', active)
    BY <1>4, GrantStepWorker
  <2>3. \A v \in Workers : GrantOK(req'[v], sessions', active)
    BY <1>2, <1>3, <2>2
  <2> QED
    BY <1>1, <2>1, <2>3 DEF GrantInv
<1>5. ASSUME NEW u \in Suspendable, SetActive(u)
      PROVE  GrantInv'
  <2>1. UNCHANGED sessions /\ active \in [Users -> BOOLEAN]
    BY <1>5 DEF SetActive, storeVars, TypeInv, TypeOK
  <2>2. ASSUME NEW w \in Workers
        PROVE  GrantOK(req'[w], sessions, active')
    <3>1. CASE req[w].user = u
      <4> DEFINE b == req[w].suspended /\ active[u]
                 r == [req[w] EXCEPT !.suspended = b]
      <4>1. req'[w] = r
        BY <1>5, <3>1 DEF SetActive
      <4>2. req[w].op \in AuthOps => ~b
        BY <1>2, <3>1 DEF GrantOK
      <4> HIDE DEF b
      <4>3. GrantOK(r, sessions, active')
        BY <1>2, <4>2 DEF GrantOK, Request
      <4> QED
        BY <4>1, <4>3
    <3>2. CASE req[w].user # u
      <4>1. req'[w] = req[w]
        BY <1>5, <3>2 DEF SetActive
      <4>2. req[w].op \in AuthOps => active'[req[w].user] = active[req[w].user]
        BY <1>2, <1>5, <2>1, <3>2 DEF SetActive, RequestOK
      <4> QED
        BY <1>2, <4>1, <4>2 DEF GrantOK
    <3> QED
      BY <3>1, <3>2
  <2> QED
    BY <1>1, <2>1, <2>2 DEF GrantInv
<1>6. CASE Tick \/ Cleanup
  BY <1>1, <1>3, <1>6 DEF Tick, Cleanup, GrantInv
<1>7. CASE UNCHANGED vars
  BY <1>1, <1>3, <1>7 DEF vars, GrantInv
<1> QED
  BY <1>4, <1>5, <1>6, <1>7 DEF Next

\* No request gets past extractAuthenticatedUser unless its session was live
\* and its account active at some instant since it began: whatever token it
\* presents, however the repository calls of the requests interleave, and also
\* when the blacklist cannot be read.
THEOREM GrantsAreSound == Spec => []GrantedOnlyIfUsable
<1>1. Init => GrantInv
  BY DEF Init, GrantInv, TokensNameSessions, GrantOK, Idle, AuthOps
<1>2. TypeInv /\ GrantInv /\ [Next]_vars => GrantInv'
  BY GrantInvStep, StoreAssumption, AuthAssumption
<1>3. GrantInv => GrantedOnlyIfUsable
  BY DEF GrantInv, GrantOK, GrantedOnlyIfUsable
<1> QED
  BY <1>1, <1>2, <1>3, TypeInvariant, PTL DEF Spec

-----------------------------------------------------------------------------
(* The tables and the tokens, between any two steps.                       *)

\* A credential is generated once: it is on one row at most.
CredInv ==
    /\ \A s \in Sessions : HasRow(s) => sessions[s].cred <= lastCred
    /\ \A s, t \in Sessions :
          (HasRow(s) /\ HasRow(t) /\ s # t) => sessions[s].cred # sessions[t].cred
    /\ \A a \in issued : a.cred <= lastCred /\ a.from <= lastCred
    /\ \A r \in revocations : r.jti <= lastCred

\* A token that was exchanged is on no row, a token names the user of its
\* session, and the newest token of a session ends before the session.
TokenInv ==
    \A a \in issued :
        /\ \A s \in Sessions : HasRow(s) => sessions[s].cred # a.from
        /\ HasRow(a.sid) => sessions[a.sid].user = a.user
        /\ (HasRow(a.sid) /\ sessions[a.sid].cred = a.cred) => a.exp <= sessions[a.sid].expires

\* The jti of a session is in the fast table when the session is revoked, for
\* as long as the session would have lasted, and never before.
JtiInv ==
    \A s \in Sessions :
        /\ Live(s) => sessions[s].cred \notin RevokedJtis
        /\ (Revoked(s) /\ now < sessions[s].expires) =>
              \E r \in revocations : /\ r.jti = sessions[s].cred
                                     /\ r.expires = sessions[s].expires

\* A request in progress: st are the rows, lc the last credential, n the time.
RowIn(st, s) == st[s].status \in {"live", "revoked"}

ReqGood(r, st, lc, n) ==
    /\ r.op # "none" => /\ r.t <= n /\ n <= r.t + MaxDelay
                        /\ r.reply = "none"
    /\ r.call \in {"user", "rotate"} =>
          /\ RowIn(st, r.sid) /\ st[r.sid].user = r.user
          /\ r.cred <= lc
          /\ \A t \in Sessions : (RowIn(st, t) /\ st[t].cred = r.cred) => t = r.sid
    /\ (r.op \in AuthOps /\ RowIn(st, r.sid)) => st[r.sid].user = r.user
    /\ r.call = "find" => r.op = "revoke" \/ (r.op = "adminRevoke" /\ r.user \in Admins)
    /\ r.call = "kill" => /\ st[r.target].status # "absent"
                          /\ \/ r.op = "adminRevoke" /\ r.user \in Admins
                             \/ RowIn(st, r.target) => st[r.target].user = r.user
    /\ r.call = "killAll" => \/ r.op = "adminRevokeAll" /\ r.user \in Admins
                             \/ r.target = r.user

ReqsGood == \A w \in Workers : ReqGood(req[w], sessions, lastCred, now)

AuthInv == TypeInv /\ GrantInv /\ CredInv /\ TokenInv /\ JtiInv /\ ReqsGood

\* As long as no token is presented twice: the token of a refresh is the one
\* its session has, no two refreshes have the same, and a token that a
\* rotation replaced was presented.
Refreshing(w) == req[w].call \in {"user", "rotate"}

HonestTokens ==
    ~replayed =>
        /\ \A w \in Workers : Refreshing(w) =>
              req[w].cred \in presented /\ sessions[req[w].sid].cred = req[w].cred
        /\ \A v, w \in Workers :
              (v # w /\ Refreshing(v) /\ Refreshing(w)) => req[v].cred # req[w].cred
        /\ \A s \in Sessions :
              (HasRow(s) /\ sessions[s].prev # NoCred) => sessions[s].prev \in presented

-----------------------------------------------------------------------------
(* What a step of a worker makes of its request.                           *)

\* The request is over.
Over(r) == r.op = "none" /\ r.call = "idle"

\* The request begins: a login, an authenticated route, or a refresh whose
\* token the lookup found on the row of a session.
Enters(w, r) ==
    /\ req[w].op = "none"
    /\ r.t = now /\ r.reply = "none"
    /\ \/ r.op = "login" /\ r.call = "create"
       \/ \E a \in issued : /\ r.op \in AuthOps /\ r.call = "session"
                            /\ r.sid = a.sid /\ r.user = a.user
       \/ /\ r.op = "refresh" /\ r.sid \in Sessions /\ HasRow(r.sid)
          /\ r.user = sessions[r.sid].user
          /\ RefreshLookup(w, r.cred)
          /\ \/ r.call = "user" /\ sessions[r.sid].cred = r.cred
             \/ /\ r.call = "killAll" /\ r.target = r.user
                /\ Revoked(r.sid) \/ sessions[r.sid].prev = r.cred

\* The request goes on to its next repository call.
Goes(w, r) ==
    LET q == req[w] IN
    /\ r.op = q.op /\ r.user = q.user /\ r.sid = q.sid /\ r.cred = q.cred
    /\ r.t = q.t /\ r.reply = q.reply
    /\ \/ q.call = "user" /\ r.call = "rotate"
       \/ r.call \in {"account", "list", "admin"} /\ q.op \in AuthOps
       \/ r.call = "find" /\ \/ r.op = "revoke"
                             \/ r.op = "adminRevoke" /\ r.user \in Admins
       \/ r.call = "killAll" /\ \/ r.target = r.user
                                \/ r.op = "adminRevokeAll" /\ r.user \in Admins
       \/ /\ r.call = "kill"
          /\ \/ r.target = r.sid /\ r.op \in AuthOps
             \/ /\ q.call = "find" /\ HasRow(r.target)
                /\ r.op = "adminRevoke" \/ sessions[r.target].user = r.user

Becomes(w, r) ==
    \/ Over(r)
    \/ UNCHANGED <<sessions, lastCred, now, issued>> /\ (Enters(w, r) \/ Goes(w, r))

\* Every step of a worker is one of these.
LEMMA WorkerStep ==
    ASSUME TypeInv, NEW w \in Workers, Step(w)
    PROVE  \E r : req' = [req EXCEPT ![w] = r] /\ Becomes(w, r)
<1>1. req[w] \in Request /\ RequestOK(req[w])
  BY DEF TypeInv, TypeOK, RequestsOK
<1>2. ASSUME NEW x, Answer(w, x)
      PROVE  \E r : req' = [req EXCEPT ![w] = r] /\ Becomes(w, r)
  <2>1. Over(Idle(x))
    BY DEF Over, Idle
  <2> QED
    BY <1>2, <2>1 DEF Answer, Becomes
<1>3. ASSUME NEW u, LoginLookup(w, u), ~Answer(w, "refused")
      PROVE  \E r : req' = [req EXCEPT ![w] = r] /\ Becomes(w, r)
  <2> DEFINE r == [Idle("none") EXCEPT !.op = "login", !.call = "create",
                                       !.user = u, !.t = now]
  <2>1. r.op = "login" /\ r.call = "create" /\ r.t = now /\ r.reply = "none"
    BY DEF Idle
  <2>2. req' = [req EXCEPT ![w] = r] /\ UNCHANGED <<storeVars, issued>> /\ req[w].op = "none"
    BY <1>3 DEF LoginLookup, Begins
  <2> HIDE DEF r
  <2> QED
    BY <2>1, <2>2 DEF Becomes, Enters, storeVars
<1>4. ASSUME NEW g \in Creds, RefreshLookup(w, g), ~Answer(w, "refused")
      PROVE  \E r : req' = [req EXCEPT ![w] = r] /\ Becomes(w, r)
  <2>1. PICK s \in Sessions, c \in {"user", "killAll"} :
           /\ HasRow(s) /\ BeginRefresh(w, g, c, s)
           /\ \/ c = "user" /\ sessions[s].cred = g
              \/ c = "killAll" /\ (Revoked(s) \/ sessions[s].prev = g)
    BY <1>4 DEF RefreshLookup, HoldersOf, FormerHoldersOf
  <2> DEFINE r == [Idle("none") EXCEPT !.op = "refresh", !.call = c,
                     !.user = sessions[s].user, !.sid = s, !.cred = g,
                     !.target = IF c = "killAll" THEN sessions[s].user ELSE NoId,
                     !.t = now]
  <2>2. /\ r.op = "refresh" /\ r.call = c /\ r.t = now /\ r.reply = "none"
        /\ r.sid = s /\ r.user = sessions[s].user /\ r.cred = g
        /\ c = "killAll" => r.target = r.user
    BY DEF Idle
  <2>3. req' = [req EXCEPT ![w] = r]
    BY <2>1 DEF BeginRefresh
  <2> HIDE DEF r
  <2>4. UNCHANGED <<storeVars, issued>> /\ req[w].op = "none"
    BY <1>4 DEF RefreshLookup, Begins
  <2>5. Enters(w, r)
    BY <1>4, <2>1, <2>2, <2>4 DEF Enters
  <2> QED
    BY <2>3, <2>4, <2>5 DEF Becomes, storeVars
<1>5. ASSUME NEW op \in AuthOps, NEW a \in issued, Authenticate(w, op, a),
             ~Answer(w, "refused")
      PROVE  \E r : req' = [req EXCEPT ![w] = r] /\ Becomes(w, r)
  <2> DEFINE d == ~Live(a.sid)
             x == ~active[a.user]
             r == [Idle("none") EXCEPT !.op = op, !.call = "session",
                     !.user = a.user, !.sid = a.sid, !.t = now,
                     !.dead = d, !.suspended = x]
  <2>1. /\ req' = [req EXCEPT ![w] = r] /\ UNCHANGED <<storeVars, issued>>
        /\ req[w].op = "none"
    BY <1>5 DEF Authenticate, Begins
  <2> HIDE DEF d, x
  <2>2. /\ r.op = op /\ r.call = "session" /\ r.t = now /\ r.reply = "none"
        /\ r.sid = a.sid /\ r.user = a.user
    BY DEF Idle
  <2> HIDE DEF r
  <2>3. Enters(w, r)
    BY <2>1, <2>2 DEF Enters
  <2> QED
    BY <2>1, <2>3 DEF Becomes, storeVars
<1>6. ASSUME NEW c, Goto(w, c), UNCHANGED <<storeVars, issued>>,
             \/ req[w].call = "user" /\ c = "rotate"
             \/ c \in {"account", "list", "admin"} /\ req[w].op \in AuthOps
             \/ c = "find" /\ \/ req[w].op = "revoke"
                              \/ req[w].op = "adminRevoke" /\ req[w].user \in Admins
      PROVE  \E r : req' = [req EXCEPT ![w] = r] /\ Becomes(w, r)
  <2> DEFINE r == [req[w] EXCEPT !.call = c]
  <2>1. /\ r.op = req[w].op /\ r.user = req[w].user /\ r.sid = req[w].sid
        /\ r.cred = req[w].cred /\ r.t = req[w].t /\ r.reply = req[w].reply /\ r.call = c
    BY <1>1 DEF Request
  <2>2. req' = [req EXCEPT ![w] = r]
    BY <1>6 DEF Goto
  <2> HIDE DEF r
  <2>3. Goes(w, r)
    BY <1>6, <2>1 DEF Goes
  <2> QED
    BY <1>6, <2>2, <2>3 DEF Becomes, storeVars
<1>7. ASSUME NEW c, NEW x, GotoWith(w, c, x), UNCHANGED <<storeVars, issued>>,
             \/ /\ c = "killAll"
                /\ x = req[w].user \/ (req[w].op = "adminRevokeAll" /\ req[w].user \in Admins)
             \/ c = "kill" /\ x = req[w].sid /\ req[w].op \in AuthOps
             \/ /\ c = "kill" /\ req[w].call = "find" /\ HasRow(x)
                /\ req[w].op = "adminRevoke" \/ sessions[x].user = req[w].user
      PROVE  \E r : req' = [req EXCEPT ![w] = r] /\ Becomes(w, r)
  <2> DEFINE r == [req[w] EXCEPT !.call = c, !.target = x]
  <2>1. /\ r.op = req[w].op /\ r.user = req[w].user /\ r.sid = req[w].sid
        /\ r.cred = req[w].cred /\ r.t = req[w].t /\ r.reply = req[w].reply
        /\ r.call = c /\ r.target = x
    BY <1>1 DEF Request
  <2>2. req' = [req EXCEPT ![w] = r]
    BY <1>7 DEF GotoWith
  <2> HIDE DEF r
  <2>3. Goes(w, r)
    BY <1>7, <2>1 DEF Goes
  <2> QED
    BY <1>7, <2>2, <2>3 DEF Becomes, storeVars
<1>8. CASE LoginCreate(w) \/ RefreshRotate(w) \/ ListSessions(w) \/ Kill(w) \/ KillAll(w)
  BY <1>2, <1>8 DEF LoginCreate, RefreshRotate, ListSessions, Kill, KillAll
<1>9. CASE RefreshUser(w)
  BY <1>2, <1>6, <1>9 DEF RefreshUser, At
<1>10. CASE CheckSession(w)
  BY <1>1, <1>2, <1>6, <1>10 DEF CheckSession, At, RequestOK
<1>11. CASE CheckAccount(w)
  <2>1. req[w].op \in AuthOps /\ UNCHANGED <<storeVars, issued>>
    BY <1>1, <1>11 DEF CheckAccount, At, RequestOK
  <2>2. \/ Answer(w, "refused") \/ Goto(w, "list") \/ Goto(w, "admin")
        \/ req[w].op = "revoke" /\ Goto(w, "find")
        \/ GotoWith(w, "kill", req[w].sid) \/ GotoWith(w, "killAll", req[w].user)
    BY <1>11 DEF CheckAccount, LogoutRoutes, SessionRoutes, AdminRoutes
  <2> QED
    BY <1>2, <1>6, <1>7, <2>1, <2>2
<1>12. CASE CheckAdmin(w)
  <2>1. /\ UNCHANGED <<storeVars, issued>>
        /\ \/ Answer(w, "refused")
           \/ /\ req[w].user \in Admins
              /\ \/ req[w].op = "adminRevoke" /\ Goto(w, "find")
                 \/ req[w].op = "adminRevokeAll" /\ \E u \in Users : GotoWith(w, "killAll", u)
    BY <1>12 DEF CheckAdmin, HasPermission
  <2> QED
    BY <1>2, <1>6, <1>7, <2>1
<1>13. CASE FindTarget(w)
  <2>1. /\ UNCHANGED <<storeVars, issued>> /\ req[w].call = "find"
        /\ \/ Answer(w, "refused") \/ Answer(w, "ok")
           \/ \E s \in Sessions :
                 /\ HasRow(s) /\ GotoWith(w, "kill", s)
                 /\ req[w].op = "adminRevoke" \/ sessions[s].user = req[w].user
    BY <1>13 DEF FindTarget, FindById, At
  <2> QED
    BY <1>2, <1>7, <2>1
<1> QED
  BY <1>2, <1>3, <1>4, <1>5, <1>8, <1>9, <1>10, <1>11, <1>12, <1>13 DEF Step

-----------------------------------------------------------------------------
(* What a step makes of the tables and of the tokens in circulation.       *)

Rests == UNCHANGED <<sessions, revocations, lastCred, now, issued>>

Creates(w, s) ==
    /\ At(w, "create") /\ s \in Sessions
    /\ CreateSession(s, req[w].user, req[w].t + RefreshTtl)
    /\ Issue(s, req[w].user, NoCred)

CreatesInVain(w, s) ==
    /\ At(w, "create") /\ s \in Sessions
    /\ CreateSessionUncommitted(s)
    /\ Issue(s, req[w].user, NoCred)

Rotates(w) ==
    /\ At(w, "rotate")
    /\ UpdateRefreshToken(req[w].sid, req[w].t + RefreshTtl)
    /\ Issue(req[w].sid, req[w].user, req[w].cred) \/ UNCHANGED issued
    /\ \E x : Answer(w, x)

Ends(w, S) ==
    /\ S \subseteq Sessions /\ \A s \in S : Live(s)
    /\ \/ At(w, "kill") /\ S \subseteq {req[w].target}
       \/ At(w, "killAll") /\ \A s \in S : sessions[s].user = req[w].target
    /\ RevokeRows(S)
    /\ \E x : Answer(w, x)
    /\ UNCHANGED issued

TablesStep ==
    \/ Rests
    \/ Tick
    \/ Cleanup
    \/ \E w \in Workers : \/ \E s \in Sessions : Creates(w, s) \/ CreatesInVain(w, s)
                          \/ Rotates(w)
                          \/ \E S \in SUBSET Sessions : Ends(w, S)

\* Every step is one of these.
LEMMA TablesSteps ==
    ASSUME TypeInv, [Next]_vars
    PROVE  TablesStep
<1>1. ASSUME NEW w \in Workers, LoginCreate(w)
      PROVE  TablesStep
  <2>1. CASE UNCHANGED <<storeVars, issued>>
    BY <2>1 DEF TablesStep, Rests, storeVars
  <2>2. CASE ~UNCHANGED <<storeVars, issued>>
    <3>1. PICK s \in Sessions : Creates(w, s) \/ CreatesInVain(w, s)
      BY <1>1, <2>2 DEF LoginCreate, Creates, CreatesInVain
    <3> QED
      BY <3>1 DEF TablesStep
  <2> QED
    BY <2>1, <2>2
<1>2. ASSUME NEW w \in Workers, RefreshRotate(w)
      PROVE  TablesStep
  <2>1. CASE UNCHANGED <<storeVars, issued>>
    BY <2>1 DEF TablesStep, Rests, storeVars
  <2>2. CASE ~UNCHANGED <<storeVars, issued>>
    <3>1. Rotates(w)
      BY <1>2, <2>2 DEF RefreshRotate, Rotates
    <3> QED
      BY <3>1 DEF TablesStep
  <2> QED
    BY <2>1, <2>2
<1>3. ASSUME NEW w \in Workers, Kill(w)
      PROVE  TablesStep
  <2>1. CASE UNCHANGED <<storeVars, issued>>
    BY <2>1 DEF TablesStep, Rests, storeVars
  <2>2. CASE ~UNCHANGED <<storeVars, issued>>
    <3> DEFINE S == {t \in {req[w].target} : Live(t)}
    <3>1. req[w].target \in Sessions
      BY <1>3 DEF Kill, At, TypeInv, RequestsOK, RequestOK
    <3>2. RevokeRows(S)
      BY <1>3, <2>2 DEF Kill, RevokeSession
    <3>3. S \in SUBSET Sessions /\ S \subseteq {req[w].target} /\ \A s \in S : Live(s)
      BY <3>1
    <3> HIDE DEF S
    <3>4. Ends(w, S)
      BY <1>3, <3>2, <3>3 DEF Kill, Ends
    <3> QED
      BY <3>3, <3>4 DEF TablesStep
  <2> QED
    BY <2>1, <2>2
<1>4. ASSUME NEW w \in Workers, KillAll(w)
      PROVE  TablesStep
  <2>1. CASE UNCHANGED <<storeVars, issued>>
    BY <2>1 DEF TablesStep, Rests, storeVars
  <2>2. CASE ~UNCHANGED <<storeVars, issued>>
    <3> DEFINE S == LiveSessionsOf(req[w].target)
    <3>1. RevokeRows(S)
      BY <1>4, <2>2 DEF KillAll, RevokeAllUserSessions
    <3>2. S \in SUBSET Sessions /\ \A s \in S : Live(s) /\ sessions[s].user = req[w].target
      BY DEF LiveSessionsOf
    <3> HIDE DEF S
    <3>3. Ends(w, S)
      BY <1>4, <3>1, <3>2 DEF KillAll, Ends
    <3> QED
      BY <3>2, <3>3 DEF TablesStep
  <2> QED
    BY <2>1, <2>2
<1>5. CASE Tick \/ Cleanup
  BY <1>5 DEF TablesStep
<1>6. ASSUME ~(\E w \in Workers :
                  LoginCreate(w) \/ RefreshRotate(w) \/ Kill(w) \/ KillAll(w)),
             ~Tick, ~Cleanup
      PROVE  TablesStep
  <2>1. ASSUME NEW w \in Workers, Step(w)
        PROVE  UNCHANGED <<storeVars, issued>>
    <3>1. ASSUME NEW u \in Users, LoginLookup(w, u)
          PROVE  UNCHANGED <<storeVars, issued>>
      BY <3>1 DEF LoginLookup
    <3>2. ASSUME NEW g \in Creds, RefreshLookup(w, g)
          PROVE  UNCHANGED <<storeVars, issued>>
      BY <3>2 DEF RefreshLookup
    <3>3. ASSUME NEW op, NEW a, Authenticate(w, op, a)
          PROVE  UNCHANGED <<storeVars, issued>>
      BY <3>3 DEF Authenticate
    <3>4. CASE RefreshUser(w) \/ CheckSession(w) \/ CheckAccount(w) \/ ListSessions(w)
               \/ CheckAdmin(w) \/ FindTarget(w)
      BY <3>4 DEF RefreshUser, CheckSession, CheckAccount, ListSessions, CheckAdmin, FindTarget
    <3> QED
      BY <1>6, <2>1, <3>1, <3>2, <3>3, <3>4 DEF Step
  <2>2. UNCHANGED <<storeVars, issued>>
    BY <1>6, <2>1 DEF Next, vars, SetActive
  <2> QED
    BY <2>2 DEF TablesStep, Rests, storeVars
<1> QED
  BY <1>1, <1>2, <1>3, <1>4, <1>5, <1>6

\* A creation inserts one row with a fresh credential.
LEMMA CreatesRows ==
    ASSUME TypeInv, NEW w \in Workers, NEW s \in Sessions, Creates(w, s)
    PROVE  /\ sessions[s].status = "absent" /\ sessions'[s].status = "live"
           /\ sessions'[s].user = req[w].user
           /\ sessions'[s].cred = Fresh /\ sessions'[s].prev = NoCred
           /\ sessions'[s].expires = req[w].t + RefreshTtl
           /\ \A x \in Sessions : x # s => sessions'[x] = sessions[x]
           /\ lastCred' = Fresh /\ UNCHANGED <<revocations, now>>
BY DEF TypeInv, TypeOK, StoreTypeOK, Creates, CreateSession

\* A creation whose commit is lost uses up an id and a credential.
LEMMA CreatesInVainRows ==
    ASSUME TypeInv, NEW w \in Workers, NEW s \in Sessions, CreatesInVain(w, s)
    PROVE  /\ sessions[s].status = "absent" /\ sessions'[s].status = "void"
           /\ \A x \in Sessions : x # s => sessions'[x] = sessions[x]
           /\ lastCred' = Fresh /\ UNCHANGED <<revocations, now>>
BY DEF TypeInv, TypeOK, StoreTypeOK, CreatesInVain, CreateSessionUncommitted, Row

\* A rotation gives a live row a fresh credential and keeps one old one.
LEMMA RotatesRows ==
    ASSUME TypeInv, NEW w \in Workers, Rotates(w)
    PROVE  LET s == req[w].sid IN
           /\ s \in Sessions /\ Live(s) /\ sessions'[s].status = "live"
           /\ sessions'[s].user = sessions[s].user
           /\ sessions'[s].cred = Fresh /\ sessions'[s].prev = sessions[s].cred
           /\ sessions'[s].expires = req[w].t + RefreshTtl
           /\ \A x \in Sessions : x # s => sessions'[x] = sessions[x]
           /\ lastCred' = Fresh /\ UNCHANGED <<revocations, now>>
<1> DEFINE s == req[w].sid
           e == req[w].t + RefreshTtl
           r == [sessions[s] EXCEPT !.cred = Fresh, !.prev = sessions[s].cred, !.expires = e]
<1>1. s \in Sessions
  BY DEF TypeInv, RequestsOK, RequestOK, Rotates, At
<1>2. sessions[s] \in Row /\ sessions \in [Sessions -> Row]
  BY <1>1 DEF TypeInv, TypeOK, StoreTypeOK
<1>3. /\ sessions' = [sessions EXCEPT ![s] = r] /\ Live(s)
      /\ lastCred' = Fresh /\ UNCHANGED <<revocations, now>>
  BY DEF Rotates, UpdateRefreshToken
<1>4. /\ r.status = "live" /\ r.user = sessions[s].user /\ r.cred = Fresh
      /\ r.prev = sessions[s].cred /\ r.expires = e
  BY <1>2, <1>3 DEF Row, Live
<1> HIDE DEF r, e
<1>5. sessions'[s] = r /\ \A x \in Sessions : x # s => sessions'[x] = sessions[x]
  BY <1>1, <1>2, <1>3
<1> QED
  BY <1>1, <1>3, <1>4, <1>5 DEF e

\* A revocation changes the status of live rows and nothing else.
LEMMA EndsRows ==
    ASSUME TypeInv, NEW w \in Workers, NEW S \in SUBSET Sessions, Ends(w, S)
    PROVE  /\ \A x \in Sessions :
                 /\ sessions'[x].user = sessions[x].user
                 /\ sessions'[x].cred = sessions[x].cred
                 /\ sessions'[x].prev = sessions[x].prev
                 /\ sessions'[x].expires = sessions[x].expires
                 /\ x \in S => sessions[x].status = "live" /\ sessions'[x].status = "revoked"
                 /\ x \notin S => sessions'[x].status = sessions[x].status
           /\ UNCHANGED <<now, lastCred>>
BY DEF TypeInv, TypeOK, StoreTypeOK, Ends, RevokeRows, Row, Live

\* The token that goes with a new credential.
LEMMA IssuedTokens ==
    ASSUME NEW s, NEW u, NEW f, Issue(s, u, f), NEW a \in issued', a \notin issued
    PROVE  a.sid = s /\ a.user = u /\ a.cred = Fresh /\ a.exp = now + AccessTtl /\ a.from = f
BY DEF Issue

\* The numbers the proofs below compare are numbers.
LEMMA Numbers ==
    ASSUME StoreAssumption, AuthAssumption, TypeInv
    PROVE  /\ lastCred \in Nat /\ Fresh = lastCred + 1 /\ NoCred = 0 /\ now \in Nat
           /\ \A s \in Sessions : /\ sessions[s].cred \in Nat /\ sessions[s].expires \in Nat
                                  /\ sessions[s].prev \in Nat
                                  /\ HasRow(s) => sessions[s].cred # NoCred
           /\ \A a \in issued : /\ a.cred \in Nat /\ a.from \in Nat /\ a.exp \in Nat
                                /\ a.sid \in Sessions /\ a.cred # NoCred
           /\ \A r \in revocations : r.jti \in Nat /\ r.expires \in Nat
           /\ \A w \in Workers : req[w].t \in Nat /\ req[w].cred \in Nat
           /\ AccessTtl \in Nat /\ RefreshTtl \in Nat /\ MaxDelay \in Nat
           /\ AccessTtl + MaxDelay <= RefreshTtl
<1>1. Creds \subseteq Nat /\ NoCred \in Nat /\ NoCred \notin Creds
  BY DEF Creds, NoCred, StoreAssumption
<1>2. /\ sessions \in [Sessions -> Row] /\ RowsOK /\ req \in [Workers -> Request]
      /\ issued \subseteq TokenResponse /\ revocations \subseteq Revocation
  BY DEF TypeInv, TypeOK, StoreTypeOK
<1>3. \A s \in Sessions : /\ sessions[s].cred \in Nat /\ sessions[s].expires \in Nat
                          /\ sessions[s].prev \in Nat
                          /\ HasRow(s) => sessions[s].cred # NoCred
  <2> TAKE s \in Sessions
  <2>1. sessions[s] \in Row
    BY <1>2
  <2>2. sessions[s].cred \in Nat /\ sessions[s].expires \in Nat /\ sessions[s].prev \in Nat
    BY <1>1, <2>1 DEF Row
  <2>3. HasRow(s) => sessions[s].cred # NoCred
    BY <1>1, <1>2 DEF RowsOK
  <2> QED
    BY <2>2, <2>3
<1>4. \A a \in issued : /\ a.cred \in Nat /\ a.from \in Nat /\ a.exp \in Nat
                        /\ a.sid \in Sessions /\ a.cred # NoCred
  BY <1>1, <1>2 DEF TokenResponse
<1>5. \A r \in revocations : r.jti \in Nat /\ r.expires \in Nat
  BY <1>1, <1>2 DEF Revocation
<1>6. \A w \in Workers : req[w].t \in Nat /\ req[w].cred \in Nat
  BY <1>1, <1>2 DEF Request
<1>7. lastCred \in Nat /\ Fresh = lastCred + 1 /\ NoCred = 0 /\ now \in Nat
  BY DEF TypeInv, TypeOK, StoreTypeOK, Fresh, NoCred, StoreAssumption
<1>8. /\ AccessTtl \in Nat /\ RefreshTtl \in Nat /\ MaxDelay \in Nat
      /\ AccessTtl + MaxDelay <= RefreshTtl
  BY DEF AuthAssumption
<1> QED
  BY <1>3, <1>4, <1>5, <1>6, <1>7, <1>8

-----------------------------------------------------------------------------
(* The tables and the tokens stay as they should be.                       *)

\* A fresh credential is on no row and in no token.
LEMMA CredStep ==
    ASSUME TypeInv, CredInv, ReqsGood, TablesStep
    PROVE  CredInv'
<1> USE StoreAssumption, AuthAssumption
<1>1. lastCred \in Nat /\ Fresh = lastCred + 1 /\ NoCred = 0
  BY Numbers
<1>2. /\ \A s \in Sessions : sessions[s].cred \in Nat
      /\ \A a \in issued : a.cred \in Nat /\ a.from \in Nat
      /\ \A r \in revocations : r.jti \in Nat
  BY Numbers
<1>3. CASE Rests \/ Tick
  BY <1>3 DEF Rests, Tick, CredInv, HasRow
<1>4. CASE Cleanup
  BY <1>4 DEF Cleanup, CleanupExpiredRevocations, CredInv, HasRow
<1>5. ASSUME lastCred' = Fresh, NEW s, NEW u, NEW f, f \in Nat, f <= lastCred,
             Issue(s, u, f) \/ UNCHANGED issued
      PROVE  \A a \in issued' : a.cred <= lastCred' /\ a.from <= lastCred'
  <2> TAKE a \in issued'
  <2>1. CASE a \in issued
    BY <1>1, <1>2, <1>5, <2>1 DEF CredInv
  <2>2. CASE a \notin issued
    <3>1. a.cred = Fresh /\ a.from = f
      BY <1>5, <2>2, IssuedTokens
    <3> QED
      BY <1>1, <1>5, <3>1
  <2> QED
    BY <2>1, <2>2
<1>6. ASSUME lastCred' = Fresh, UNCHANGED revocations,
             NEW s \in Sessions, sessions'[s].status # "live" \/ sessions'[s].cred = Fresh,
             sessions'[s].status # "revoked",
             \A x \in Sessions : x # s => sessions'[x] = sessions[x],
             \A a \in issued' : a.cred <= lastCred' /\ a.from <= lastCred'
      PROVE  CredInv'
  <2>1. \A x \in Sessions : x # s => (HasRow(x)' <=> HasRow(x))
    BY <1>6 DEF HasRow
  <2>2. \A x \in Sessions : HasRow(x)' => sessions'[x].cred <= lastCred'
    BY <1>1, <1>2, <1>6, <2>1 DEF CredInv, HasRow
  <2>3. \A x \in Sessions : (x # s /\ HasRow(x)') => sessions'[x].cred <= lastCred
    BY <1>6, <2>1 DEF CredInv
  <2>4. HasRow(s)' => sessions'[s].cred = lastCred + 1
    BY <1>1, <1>6 DEF HasRow
  <2>5. \A x, y \in Sessions :
           (HasRow(x)' /\ HasRow(y)' /\ x # y) => sessions'[x].cred # sessions'[y].cred
    <3> TAKE x, y \in Sessions
    <3>1. CASE x # s /\ y # s
      BY <1>6, <2>1, <3>1 DEF CredInv
    <3>2. CASE x = s \/ y = s
      <4>1. ASSUME NEW z \in Sessions, z # s, HasRow(z)', HasRow(s)'
            PROVE  sessions'[z].cred # sessions'[s].cred
        BY <1>1, <2>3, <2>4, <4>1
      <4> QED
        BY <3>2, <4>1
    <3> QED
      BY <3>1, <3>2
  <2>6. \A r \in revocations' : r.jti <= lastCred'
    BY <1>1, <1>2, <1>6 DEF CredInv
  <2> QED
    BY <1>6, <2>2, <2>5, <2>6 DEF CredInv
<1>7. ASSUME NEW w \in Workers, NEW s \in Sessions, Creates(w, s)
      PROVE  CredInv'
  <2>1. Issue(s, req[w].user, NoCred)
    BY <1>7 DEF Creates
  <2>2. \A a \in issued' : a.cred <= lastCred' /\ a.from <= lastCred'
    BY <1>1, <1>5, <1>7, <2>1, CreatesRows
  <2> QED
    BY <1>6, <1>7, <2>2, CreatesRows
<1>8. ASSUME NEW w \in Workers, NEW s \in Sessions, CreatesInVain(w, s)
      PROVE  CredInv'
  <2>1. Issue(s, req[w].user, NoCred)
    BY <1>8 DEF CreatesInVain
  <2>2. \A a \in issued' : a.cred <= lastCred' /\ a.from <= lastCred'
    BY <1>1, <1>5, <1>8, <2>1, CreatesInVainRows
  <2> QED
    BY <1>6, <1>8, <2>2, CreatesInVainRows
<1>9. ASSUME NEW w \in Workers, Rotates(w)
      PROVE  CredInv'
  <2>1. Issue(req[w].sid, req[w].user, req[w].cred) \/ UNCHANGED issued
    BY <1>9 DEF Rotates
  <2>2. req[w].cred \in Nat /\ req[w].cred <= lastCred
    BY <1>9, Numbers DEF Rotates, At, ReqsGood, ReqGood
  <2>3. \A a \in issued' : a.cred <= lastCred' /\ a.from <= lastCred'
    BY <1>5, <1>9, <2>1, <2>2, RotatesRows
  <2> QED
    BY <1>6, <1>9, <2>3, RotatesRows
<1>10. ASSUME NEW w \in Workers, NEW S \in SUBSET Sessions, Ends(w, S)
       PROVE  CredInv'
  <2>1. /\ UNCHANGED <<issued, lastCred>>
        /\ \A x \in Sessions : /\ HasRow(x)' <=> HasRow(x)
                               /\ sessions'[x].cred = sessions[x].cred
    BY <1>10, EndsRows DEF Ends, HasRow
  <2>2. S \subseteq Sessions /\ \A x \in S : HasRow(x)
    BY <1>10 DEF Ends, Live, HasRow
  <2>3. \A r \in revocations' : r.jti <= lastCred
    BY <1>10, <2>2 DEF Ends, RevokeRows, NewRevocations, CredInv
  <2> QED
    BY <2>1, <2>3 DEF CredInv
<1> QED
  BY <1>3, <1>4, <1>7, <1>8, <1>9, <1>10 DEF TablesStep

\* An exchanged token is on no row, tokens name the user of their session, and
\* a session outlives its newest token.
LEMMA TokenStep ==
    ASSUME TypeInv, TypeInv', GrantInv, CredInv, TokenInv, ReqsGood, TablesStep
    PROVE  TokenInv'
<1> USE StoreAssumption, AuthAssumption
<1>1. /\ lastCred \in Nat /\ Fresh = lastCred + 1 /\ NoCred = 0 /\ now \in Nat
      /\ \A a \in issued : a.sid \in Sessions /\ a.cred \in Nat /\ a.from \in Nat
      /\ \A s \in Sessions : sessions[s].cred \in Nat
      /\ AccessTtl \in Nat /\ RefreshTtl \in Nat /\ MaxDelay \in Nat
      /\ AccessTtl + MaxDelay <= RefreshTtl
  BY Numbers
<1>2. \A a \in issued : a.cred <= lastCred /\ a.from <= lastCred
  BY DEF CredInv
<1>3. \A s \in Sessions : HasRow(s)' => sessions'[s].cred # NoCred
  BY DEF TypeInv, RowsOK, Creds, NoCred
<1>4. ASSUME UNCHANGED issued,
             \A s \in Sessions : /\ HasRow(s)' <=> HasRow(s)
                                 /\ sessions'[s].cred = sessions[s].cred
                                 /\ sessions'[s].user = sessions[s].user
                                 /\ sessions'[s].expires = sessions[s].expires
      PROVE  TokenInv'
  BY <1>1, <1>4 DEF TokenInv
<1>5. CASE Rests \/ Tick \/ Cleanup
  BY <1>4, <1>5 DEF Rests, Tick, Cleanup, CleanupExpiredRevocations, HasRow
<1>6. ASSUME NEW w \in Workers, req[w].op # "none"
      PROVE  now + AccessTtl <= req[w].t + RefreshTtl
  <2>1. now <= req[w].t + MaxDelay /\ req[w].t \in Nat
    BY <1>6, Numbers DEF ReqsGood, ReqGood
  <2> QED
    BY <1>1, <2>1
\* The step writes the row s with a fresh credential, and the token that goes
\* with it is in exchange for f, that is on no other row.
<1>7. ASSUME NEW s \in Sessions, NEW u, NEW f, Issue(s, u, f) \/ UNCHANGED issued,
             \A x \in Sessions : x # s => sessions'[x] = sessions[x],
             HasRow(s)' => /\ sessions'[s].cred = Fresh
                           /\ sessions'[s].user = u
                           /\ now + AccessTtl <= sessions'[s].expires,
             (HasRow(s)' /\ HasRow(s)) => sessions[s].user = u,
             HasRow(s)' => HasRow(s) \/ sessions[s].status = "absent",
             f <= lastCred, f \in Nat,
             \A x \in Sessions : (HasRow(x) /\ x # s) => sessions[x].cred # f
      PROVE  TokenInv'
  <2>1. \A x \in Sessions : x # s => (HasRow(x)' <=> HasRow(x))
    BY <1>7 DEF HasRow
  <2> SUFFICES ASSUME NEW a \in issued'
               PROVE  /\ \A x \in Sessions : HasRow(x)' => sessions'[x].cred # a.from
                      /\ HasRow(a.sid)' => sessions'[a.sid].user = a.user
                      /\ (HasRow(a.sid)' /\ sessions'[a.sid].cred = a.cred)
                             => a.exp <= sessions'[a.sid].expires
    BY DEF TokenInv
  <2>2. CASE a \in issued
    <3>1. /\ a.sid \in Sessions /\ a.cred # Fresh /\ a.from # Fresh
      BY <1>1, <1>2, <2>2
    <3>2. \A x \in Sessions : HasRow(x)' => sessions'[x].cred # a.from
      BY <1>7, <2>1, <2>2, <3>1 DEF TokenInv
    <3>3. CASE a.sid # s
      BY <1>7, <2>1, <2>2, <3>1, <3>2, <3>3 DEF TokenInv
    <3>4. CASE a.sid = s
      <4>1. sessions[s].status # "absent"
        BY <2>2, <3>4 DEF GrantInv, TokensNameSessions
      <4>2. HasRow(s)' => HasRow(s) /\ sessions'[s].cred # a.cred
        BY <1>7, <3>1, <4>1
      <4>3. HasRow(s)' => sessions'[s].user = a.user
        BY <1>7, <2>2, <3>4, <4>2 DEF TokenInv
      <4> QED
        BY <3>2, <3>4, <4>2, <4>3
    <3> QED
      BY <3>3, <3>4
  <2>3. CASE a \notin issued
    <3>1. Issue(s, u, f)
      BY <1>7, <2>3
    <3>2. a.sid = s /\ a.user = u /\ a.cred = Fresh /\ a.exp = now + AccessTtl /\ a.from = f
      BY <2>3, <3>1, IssuedTokens
    <3>3. \A x \in Sessions : HasRow(x)' => sessions'[x].cred # f
      BY <1>1, <1>7, <2>1
    <3> QED
      BY <1>7, <3>2, <3>3
  <2> QED
    BY <2>2, <2>3
<1>8. ASSUME NEW w \in Workers, NEW s \in Sessions, Creates(w, s) \/ CreatesInVain(w, s)
      PROVE  TokenInv'
  <2>1. /\ req[w].op # "none" /\ Issue(s, req[w].user, NoCred)
        /\ \A x \in Sessions : x # s => sessions'[x] = sessions[x]
        /\ sessions[s].status = "absent"
    BY <1>8, CreatesRows, CreatesInVainRows
       DEF Creates, CreatesInVain, At, TypeInv, RequestsOK, RequestOK
  <2>2. HasRow(s)' => /\ sessions'[s].cred = Fresh
                      /\ sessions'[s].user = req[w].user
                      /\ now + AccessTtl <= sessions'[s].expires
    BY <1>6, <1>8, <2>1, CreatesRows, CreatesInVainRows DEF HasRow
  <2>3. \A x \in Sessions : HasRow(x) => sessions[x].cred # NoCred
    BY Numbers
  <2>4. ~HasRow(s) /\ NoCred <= lastCred /\ NoCred \in Nat
    BY <1>1, <2>1 DEF HasRow
  <2> QED
    BY <1>7, <2>1, <2>2, <2>3, <2>4
<1>9. ASSUME NEW w \in Workers, Rotates(w)
      PROVE  TokenInv'
  <2> DEFINE s == req[w].sid
  <2>1. /\ s \in Sessions /\ HasRow(s) /\ sessions'[s].cred = Fresh
        /\ sessions'[s].user = sessions[s].user
        /\ sessions'[s].expires = req[w].t + RefreshTtl
        /\ \A x \in Sessions : x # s => sessions'[x] = sessions[x]
    BY <1>9, RotatesRows DEF HasRow, Live
  <2>2. /\ req[w].op # "none"
        /\ Issue(s, req[w].user, req[w].cred) \/ UNCHANGED issued
        /\ sessions[s].user = req[w].user /\ req[w].cred <= lastCred
        /\ \A x \in Sessions : (HasRow(x) /\ sessions[x].cred = req[w].cred) => x = s
    BY <1>9 DEF Rotates, At, TypeInv, RequestsOK, RequestOK, ReqsGood, ReqGood, HasRow, RowIn
  <2>3. now + AccessTtl <= sessions'[s].expires
    BY <1>6, <2>1, <2>2
  <2>4. req[w].cred \in Nat
    BY Numbers
  <2> QED
    BY <1>7, <2>1, <2>2, <2>3, <2>4
<1>10. ASSUME NEW w \in Workers, NEW S \in SUBSET Sessions, Ends(w, S)
       PROVE  TokenInv'
  <2>1. UNCHANGED issued /\ \A s \in Sessions : HasRow(s)' <=> HasRow(s)
    BY <1>10, EndsRows DEF Ends, HasRow
  <2> QED
    BY <1>4, <1>10, <2>1, EndsRows
<1> QED
  BY <1>5, <1>8, <1>9, <1>10 DEF TablesStep

\* The fast table has the jtis of the revoked sessions, and only those.
LEMMA JtiStep ==
    ASSUME TypeInv, CredInv, JtiInv, TablesStep
    PROVE  JtiInv'
<1> USE StoreAssumption, AuthAssumption
<1>1. /\ lastCred \in Nat /\ Fresh = lastCred + 1 /\ now \in Nat
      /\ \A r \in revocations : r.jti \in Nat /\ r.expires \in Nat
      /\ \A s \in Sessions : sessions[s].cred \in Nat /\ sessions[s].expires \in Nat
  BY Numbers
<1>2. Fresh \notin RevokedJtis
  BY <1>1 DEF RevokedJtis, CredInv
<1>3. CASE Rests
  BY <1>3 DEF Rests, JtiInv, Live, Revoked, RevokedJtis
<1>4. CASE Tick
  <2>1. UNCHANGED <<sessions, revocations>> /\ now' = now + 1
    BY <1>4 DEF Tick
  <2>2. RevokedJtis' = RevokedJtis
    BY <2>1 DEF RevokedJtis
  <2>3. \A s \in Sessions : now' < sessions[s].expires => now < sessions[s].expires
    BY <1>1, <2>1
  <2> QED
    BY <2>1, <2>2, <2>3 DEF JtiInv, Live, Revoked
<1>5. CASE Cleanup
  <2>1. /\ UNCHANGED <<sessions, now>>
        /\ revocations' = {r \in revocations : r.expires > now}
    BY <1>5 DEF Cleanup, CleanupExpiredRevocations
  <2>2. RevokedJtis' \subseteq RevokedJtis
    BY <2>1 DEF RevokedJtis
  <2>3. ASSUME NEW s \in Sessions, Revoked(s), now < sessions[s].expires
        PROVE  \E r \in revocations' : /\ r.jti = sessions[s].cred
                                       /\ r.expires = sessions[s].expires
    <3>1. PICK r \in revocations : /\ r.jti = sessions[s].cred
                                   /\ r.expires = sessions[s].expires
      BY <2>3 DEF JtiInv
    <3> QED
      BY <1>1, <2>1, <2>3, <3>1
  <2> QED
    BY <2>1, <2>2, <2>3 DEF JtiInv, Live, Revoked
<1>6. ASSUME UNCHANGED <<revocations, now>>, NEW s \in Sessions,
             \/ sessions'[s].status = "live" /\ sessions'[s].cred = Fresh
             \/ sessions'[s].status = "void",
             \A x \in Sessions : x # s => sessions'[x] = sessions[x]
      PROVE  JtiInv'
  <2>1. RevokedJtis' = RevokedJtis
    BY <1>6 DEF RevokedJtis
  <2>2. /\ Live(s)' => sessions'[s].cred \notin RevokedJtis'
        /\ ~Revoked(s)'
    BY <1>2, <1>6, <2>1 DEF Live, Revoked
  <2> QED
    BY <1>6, <2>1, <2>2 DEF JtiInv, Live, Revoked
<1>7. ASSUME NEW w \in Workers, NEW s \in Sessions, Creates(w, s) \/ CreatesInVain(w, s)
      PROVE  JtiInv'
  BY <1>6, <1>7, CreatesRows, CreatesInVainRows
<1>8. ASSUME NEW w \in Workers, Rotates(w)
      PROVE  JtiInv'
  BY <1>6, <1>8, RotatesRows
<1>9. ASSUME NEW w \in Workers, NEW S \in SUBSET Sessions, Ends(w, S)
      PROVE  JtiInv'
  <2>1. /\ revocations' = revocations \cup NewRevocations(S) /\ UNCHANGED now
        /\ \A x \in Sessions : /\ sessions'[x].cred = sessions[x].cred
                               /\ sessions'[x].expires = sessions[x].expires
                               /\ x \in S => Live(x) /\ Revoked(x)' /\ ~Live(x)'
                               /\ x \notin S => (Live(x)' <=> Live(x))
                               /\ x \notin S => (Revoked(x)' <=> Revoked(x))
    BY <1>9, EndsRows DEF Ends, RevokeRows, Live, Revoked
  <2>2. ASSUME NEW s \in Sessions, Live(s)'
        PROVE  sessions'[s].cred \notin RevokedJtis'
    <3>1. s \notin S /\ Live(s) /\ sessions[s].cred \notin RevokedJtis
      BY <2>1, <2>2 DEF JtiInv
    <3>2. \A x \in S : sessions[x].cred # sessions[s].cred
      BY <2>1, <3>1 DEF CredInv, HasRow, Live
    <3>3. \A r \in NewRevocations(S) : r.jti # sessions[s].cred
      BY <3>2 DEF NewRevocations
    <3> QED
      BY <2>1, <3>1, <3>3 DEF RevokedJtis
  <2>3. ASSUME NEW s \in Sessions, Revoked(s)', now < sessions[s].expires
        PROVE  \E r \in revocations' : /\ r.jti = sessions[s].cred
                                       /\ r.expires = sessions[s].expires
    <3>1. CASE s \in S
      <4>1. sessions[s].cred \notin RevokedJtis
        BY <2>1, <3>1 DEF JtiInv
      <4>2. [jti |-> sessions[s].cred, expires |-> sessions[s].expires] \in NewRevocations(S)
        BY <3>1, <4>1 DEF NewRevocations
      <4> QED
        BY <2>1, <4>2
    <3>2. CASE s \notin S
      BY <2>1, <2>3, <3>2 DEF JtiInv
    <3> QED
      BY <3>1, <3>2
  <2> QED
    BY <2>1, <2>2, <2>3 DEF JtiInv
<1> QED
  BY <1>3, <1>4, <1>5, <1>7, <1>8, <1>9 DEF TablesStep

-----------------------------------------------------------------------------
(* The requests in progress stay as they should be.                        *)

\* How the rows may change under a request: none disappears or changes its
\* user, and a credential that was not there before is a fresh one.
Keeps(st, st2, lc) ==
    \A s \in Sessions :
        /\ st[s].status # "absent" => /\ st2[s].status # "absent"
                                      /\ RowIn(st2, s) <=> RowIn(st, s)
        /\ RowIn(st, s) => st2[s].user = st[s].user
        /\ RowIn(st2, s) => \/ st2[s].cred > lc
                            \/ RowIn(st, s) /\ st2[s].cred = st[s].cred

\* Every step keeps the rows in this sense.
LEMMA TablesKeep ==
    ASSUME TypeInv, TablesStep
    PROVE  /\ Keeps(sessions, sessions', lastCred)
           /\ lastCred' \in Nat /\ lastCred' >= lastCred
           /\ UNCHANGED now \/ Tick
<1> USE StoreAssumption, AuthAssumption
<1>1. lastCred \in Nat /\ Fresh = lastCred + 1
  BY Numbers
<1>2. CASE Rests \/ Tick \/ Cleanup
  BY <1>1, <1>2 DEF Rests, Tick, Cleanup, CleanupExpiredRevocations, Keeps
<1>3. ASSUME NEW w \in Workers, NEW s \in Sessions, Creates(w, s)
      PROVE  Keeps(sessions, sessions', lastCred) /\ lastCred' = lastCred + 1 /\ UNCHANGED now
  BY <1>1, <1>3, CreatesRows DEF Keeps, RowIn
<1>4. ASSUME NEW w \in Workers, NEW s \in Sessions, CreatesInVain(w, s)
      PROVE  Keeps(sessions, sessions', lastCred) /\ lastCred' = lastCred + 1 /\ UNCHANGED now
  BY <1>1, <1>4, CreatesInVainRows DEF Keeps, RowIn
<1>5. ASSUME NEW w \in Workers, Rotates(w)
      PROVE  Keeps(sessions, sessions', lastCred) /\ lastCred' = lastCred + 1 /\ UNCHANGED now
  BY <1>1, <1>5, RotatesRows DEF Keeps, RowIn, Live
<1>6. ASSUME NEW w \in Workers, NEW S \in SUBSET Sessions, Ends(w, S)
      PROVE  Keeps(sessions, sessions', lastCred) /\ UNCHANGED <<lastCred, now>>
  BY <1>6, EndsRows DEF Keeps, RowIn
<1> QED
  BY <1>1, <1>2, <1>3, <1>4, <1>5, <1>6 DEF TablesStep, Rests, Tick, Cleanup,
                                            CleanupExpiredRevocations

\* A request stays good when the rows are kept and it is not overdue.
LEMMA ReqKept ==
    ASSUME AuthAssumption, NEW r \in Request, RequestOK(r), NEW st, NEW st2,
           NEW lc \in Nat, NEW lc2 \in Nat, lc2 >= lc, NEW n \in Nat, NEW n2 \in Nat,
           ReqGood(r, st, lc, n), Keeps(st, st2, lc),
           r.op \in AuthOps => st[r.sid].status # "absent",
           n2 = n \/ (n2 = n + 1 /\ (r.op = "none" \/ n < r.t + MaxDelay))
    PROVE  ReqGood(r, st2, lc2, n2)
<1>1. r.t \in Nat /\ r.cred \in Int /\ MaxDelay \in Nat
  BY DEF Request, Creds, NoCred, AuthAssumption
<1>2. r.op # "none" => /\ r.t <= n2 /\ n2 <= r.t + MaxDelay
                       /\ r.reply = "none"
  BY <1>1 DEF ReqGood
<1>3. ASSUME r.call \in {"user", "rotate"}
      PROVE  /\ RowIn(st2, r.sid) /\ st2[r.sid].user = r.user
             /\ r.cred <= lc2
             /\ \A t \in Sessions : (RowIn(st2, t) /\ st2[t].cred = r.cred) => t = r.sid
  <2>1. /\ r.sid \in Sessions /\ RowIn(st, r.sid) /\ st[r.sid].user = r.user /\ r.cred <= lc
        /\ \A t \in Sessions : (RowIn(st, t) /\ st[t].cred = r.cred) => t = r.sid
    BY <1>3 DEF ReqGood, RequestOK
  <2>2. RowIn(st2, r.sid) /\ st2[r.sid].user = r.user
    BY <2>1 DEF Keeps, RowIn
  <2>3. ASSUME NEW t \in Sessions, RowIn(st2, t), st2[t].cred = r.cred
        PROVE  t = r.sid
    <3>1. ~(st2[t].cred > lc)
      BY <1>1, <2>1, <2>3
    <3> QED
      BY <2>1, <2>3, <3>1 DEF Keeps
  <2> QED
    BY <1>1, <2>1, <2>2, <2>3
<1>4. (r.op \in AuthOps /\ RowIn(st2, r.sid)) => st2[r.sid].user = r.user
  BY DEF ReqGood, RequestOK, Keeps
<1>5. ASSUME r.call = "kill"
      PROVE  /\ st2[r.target].status # "absent"
             /\ \/ r.op = "adminRevoke" /\ r.user \in Admins
                \/ RowIn(st2, r.target) => st2[r.target].user = r.user
  BY <1>5 DEF ReqGood, RequestOK, Keeps
<1>6. /\ r.call = "find" => r.op = "revoke" \/ (r.op = "adminRevoke" /\ r.user \in Admins)
      /\ r.call = "killAll" => \/ r.op = "adminRevokeAll" /\ r.user \in Admins
                               \/ r.target = r.user
  BY DEF ReqGood
<1> QED
  BY <1>2, <1>3, <1>4, <1>5, <1>6 DEF ReqGood

\* What a request becomes is good.
LEMMA BecomesGood ==
    ASSUME StoreAssumption, AuthAssumption, TypeInv, GrantInv, CredInv, TokenInv, ReqsGood,
           NEW w \in Workers, NEW r, Becomes(w, r)
    PROVE  ReqGood(r, sessions', lastCred', now')
<1>1. /\ now \in Nat /\ MaxDelay \in Nat /\ lastCred \in Nat
      /\ \A s \in Sessions : sessions[s].cred \in Nat
  BY Numbers
<1>2. CASE Over(r)
  <2>1. r.op = "none" /\ r.op \notin AuthOps /\ r.call = "idle"
    BY <1>2 DEF Over, AuthOps
  <2> QED
    BY <2>1 DEF ReqGood
<1>3. CASE Enters(w, r)
  <2> SUFFICES ASSUME ~Over(r)
               PROVE  ReqGood(r, sessions, lastCred, now)
    BY <1>2 DEF Becomes
  <2>1. r.t <= now /\ now <= r.t + MaxDelay /\ r.reply = "none"
    BY <1>1, <1>3 DEF Enters
  <2>2. CASE r.op = "login" /\ r.call = "create"
    BY <2>1, <2>2 DEF ReqGood, AuthOps
  <2>3. ASSUME NEW a \in issued, r.op \in AuthOps, r.call = "session",
               r.sid = a.sid, r.user = a.user
        PROVE  ReqGood(r, sessions, lastCred, now)
    BY <2>1, <2>3 DEF ReqGood, TokenInv, RowIn, HasRow
  <2>4. ASSUME r.op = "refresh", r.sid \in Sessions, HasRow(r.sid),
               r.user = sessions[r.sid].user,
               \/ r.call = "user" /\ sessions[r.sid].cred = r.cred
               \/ r.call = "killAll" /\ r.target = r.user
        PROVE  ReqGood(r, sessions, lastCred, now)
    <3>1. sessions[r.sid].cred <= lastCred
      BY <2>4 DEF CredInv
    <3>2. \A t \in Sessions : (RowIn(sessions, t) /\ sessions[t].cred = sessions[r.sid].cred) => t = r.sid
      BY <2>4 DEF CredInv, RowIn, HasRow
    <3> QED
      BY <2>1, <2>4, <3>1, <3>2 DEF ReqGood, AuthOps, RowIn, HasRow
  <2> QED
    BY <1>3, <2>2, <2>3, <2>4 DEF Enters
<1>4. CASE Goes(w, r)
  <2> SUFFICES ASSUME ~Over(r)
               PROVE  ReqGood(r, sessions, lastCred, now)
    BY <1>2 DEF Becomes
  <2> DEFINE q == req[w]
  <2>1. ReqGood(q, sessions, lastCred, now) /\ RequestOK(q) /\ GrantOK(q, sessions, active)
    BY DEF ReqsGood, TypeInv, RequestsOK, GrantInv
  <2>2. /\ r.op = q.op /\ r.user = q.user /\ r.sid = q.sid /\ r.cred = q.cred
        /\ r.t = q.t /\ r.reply = q.reply
    BY <1>4 DEF Goes
  <2> HIDE DEF q
  <2>3. CASE q.call = "user" /\ r.call = "rotate"
    BY <2>1, <2>2, <2>3 DEF ReqGood
  <2>4. CASE r.call \in {"account", "list", "admin"}
    BY <2>1, <2>2, <2>4 DEF ReqGood
  <2>5. CASE r.call = "find" /\ (r.op = "revoke" \/ (r.op = "adminRevoke" /\ r.user \in Admins))
    BY <2>1, <2>2, <2>5 DEF ReqGood
  <2>6. CASE /\ r.call = "killAll"
             /\ r.target = r.user \/ (r.op = "adminRevokeAll" /\ r.user \in Admins)
    BY <2>1, <2>2, <2>6 DEF ReqGood
  <2>7. CASE r.call = "kill" /\ r.target = r.sid /\ r.op \in AuthOps
    BY <2>1, <2>2, <2>7 DEF ReqGood, GrantOK
  <2>8. CASE /\ r.call = "kill" /\ q.call = "find" /\ HasRow(r.target)
             /\ r.op = "adminRevoke" \/ sessions[r.target].user = r.user
    BY <2>1, <2>2, <2>8 DEF ReqGood, HasRow
  <2> QED
    BY <1>4, <2>3, <2>4, <2>5, <2>6, <2>7, <2>8 DEF Goes, q
<1> QED
  BY <1>2, <1>3, <1>4 DEF Becomes

\* Every step preserves ReqsGood.
LEMMA ReqsStep ==
    ASSUME StoreAssumption, AuthAssumption, TypeInv, GrantInv, CredInv, TokenInv, ReqsGood,
           [Next]_vars
    PROVE  ReqsGood'
<1>1. /\ req \in [Workers -> Request] /\ now \in Nat /\ lastCred \in Nat
      /\ \A w \in Workers : /\ RequestOK(req[w]) /\ GrantOK(req[w], sessions, active)
                            /\ ReqGood(req[w], sessions, lastCred, now)
  BY Numbers DEF TypeInv, TypeOK, RequestsOK, GrantInv, ReqsGood
<1>2. /\ Keeps(sessions, sessions', lastCred)
      /\ lastCred' \in Nat /\ lastCred' >= lastCred
      /\ UNCHANGED now \/ Tick
  BY TablesSteps, TablesKeep
<1>3. ASSUME NEW v \in Workers
      PROVE  ReqGood(req[v], sessions', lastCred', now')
  <2>1. /\ now' \in Nat
        /\ now' = now \/ (now' = now + 1 /\ (req[v].op = "none" \/ now < req[v].t + MaxDelay))
    BY <1>1, <1>2 DEF Tick
  <2>2. req[v].op \in AuthOps => sessions[req[v].sid].status # "absent"
    BY <1>1 DEF GrantOK
  <2>3. req[v] \in Request
    BY <1>1
  <2> QED
    BY <1>1, <1>2, <2>1, <2>2, <2>3, ReqKept
<1>4. ASSUME NEW w \in Workers, Step(w)
      PROVE  ReqsGood'
  <2>1. PICK r : req' = [req EXCEPT ![w] = r] /\ Becomes(w, r)
    BY <1>4, WorkerStep
  <2>2. ReqGood(r, sessions', lastCred', now')
    BY <2>1, BecomesGood
  <2> QED
    BY <1>1, <1>3, <2>1, <2>2 DEF ReqsGood
<1>5. ASSUME NEW u \in Suspendable, SetActive(u)
      PROVE  ReqsGood'
  <2>1. ASSUME NEW v \in Workers
        PROVE  ReqGood(req'[v], sessions', lastCred', now')
    <3> DEFINE b == req[v].suspended /\ active[u]
               r == [req[v] EXCEPT !.suspended = b]
    <3>1. req'[v] = r \/ req'[v] = req[v]
      BY <1>5 DEF SetActive
    <3>2. /\ r.op = req[v].op /\ r.call = req[v].call /\ r.user = req[v].user
          /\ r.sid = req[v].sid /\ r.cred = req[v].cred /\ r.target = req[v].target
          /\ r.t = req[v].t /\ r.reply = req[v].reply
      BY <1>1 DEF Request
    <3> HIDE DEF r
    <3>3. ReqGood(r, sessions', lastCred', now')
      BY <1>3, <3>2 DEF ReqGood
    <3> QED
      BY <1>3, <3>1, <3>3
  <2> QED
    BY <2>1 DEF ReqsGood
<1>6. CASE UNCHANGED req
  BY <1>3, <1>6 DEF ReqsGood
<1> QED
  BY <1>4, <1>5, <1>6 DEF Next, Tick, Cleanup, vars

\* AuthInv holds in every state of every behaviour.
LEMMA AuthInvariance == Spec => []AuthInv
<1>1. Init => TypeInv
  BY TypeInvInit, StoreAssumption, AuthAssumption
<1>2. Init => GrantInv
  BY DEF Init, GrantInv, TokensNameSessions, GrantOK, Idle, AuthOps
<1>3. Init => CredInv /\ TokenInv /\ JtiInv
  BY DEF Init, StoreInit, CredInv, TokenInv, JtiInv, HasRow, Live, Revoked, NoRow
<1>4. Init => ReqsGood
  BY DEF Init, ReqsGood, ReqGood, Idle, AuthOps
<1>5. AuthInv /\ [Next]_vars => AuthInv'
  <2> SUFFICES ASSUME AuthInv, [Next]_vars
               PROVE  AuthInv'
    OBVIOUS
  <2>1. TypeInv /\ GrantInv /\ CredInv /\ TokenInv /\ JtiInv /\ ReqsGood
    BY DEF AuthInv
  <2>2. TypeInv' /\ GrantInv'
    BY <2>1, TypeInvStep, GrantInvStep, StoreAssumption, AuthAssumption
  <2>3. TablesStep
    BY <2>1, TablesSteps
  <2>4. CredInv' /\ TokenInv' /\ JtiInv'
    BY <2>1, <2>2, <2>3, CredStep, TokenStep, JtiStep
  <2>5. ReqsGood'
    BY <2>1, ReqsStep, StoreAssumption, AuthAssumption
  <2> QED
    BY <2>2, <2>4, <2>5 DEF AuthInv
<1> QED
  BY <1>1, <1>2, <1>3, <1>4, <1>5, PTL DEF Spec, AuthInv

\* The jti of a revoked session's newest access token is in the fast table for
\* as long as that token is valid, cleanup or not: the token ends before the
\* row of the table does, because a refresh takes less than the difference of
\* the two lifetimes.
THEOREM FastTableIsComplete == Spec => []BlacklistComplete
<1>1. ASSUME AuthInv
      PROVE  BlacklistComplete
  <2> SUFFICES ASSUME NEW a \in issued, Revoked(a.sid), sessions[a.sid].cred = a.cred,
                      now < a.exp
               PROVE  a.cred \in RevokedJtis
    BY DEF BlacklistComplete
  <2>1. /\ a.sid \in Sessions /\ a.exp \in Nat /\ now \in Nat
        /\ sessions[a.sid].expires \in Nat
    BY <1>1, Numbers, StoreAssumption, AuthAssumption DEF AuthInv
  <2>2. a.exp <= sessions[a.sid].expires
    BY <1>1 DEF AuthInv, TokenInv, HasRow, Revoked
  <2>3. PICK r \in revocations : r.jti = sessions[a.sid].cred
    BY <1>1, <2>1, <2>2 DEF AuthInv, JtiInv
  <2> QED
    BY <2>3 DEF RevokedJtis
<1> QED
  BY <1>1, AuthInvariance, PTL

\* A step that is not one of a worker leaves the calls, the credentials and
\* the replies of all requests as they are, and so does one of another worker.
LEMMA OthersStand ==
    ASSUME TypeInv, NEW w \in Workers, [Next]_vars, ~Step(w)
    PROVE  /\ req'[w].call = req[w].call /\ req'[w].reply = req[w].reply
           /\ req'[w].cred = req[w].cred /\ req'[w].sid = req[w].sid
           /\ req'[w].op = req[w].op
<1>1. req \in [Workers -> Request]
  BY DEF TypeInv, TypeOK
<1>2. ASSUME NEW v \in Workers, Step(v)
      PROVE  req'[w] = req[w]
  BY <1>1, <1>2, WorkerStep
<1>3. ASSUME NEW u \in Suspendable, SetActive(u)
      PROVE  /\ req'[w].call = req[w].call /\ req'[w].reply = req[w].reply
             /\ req'[w].cred = req[w].cred /\ req'[w].sid = req[w].sid
             /\ req'[w].op = req[w].op
  <2> DEFINE b == req[w].suspended /\ active[u]
             r == [req[w] EXCEPT !.suspended = b]
  <2>1. req'[w] = r \/ req'[w] = req[w]
    BY <1>3 DEF SetActive
  <2>2. /\ r.op = req[w].op /\ r.call = req[w].call /\ r.sid = req[w].sid
        /\ r.cred = req[w].cred /\ r.reply = req[w].reply
    BY <1>1 DEF Request
  <2> HIDE DEF r
  <2> QED
    BY <2>1, <2>2
<1> QED
  BY <1>2, <1>3 DEF Next, Tick, Cleanup, vars

\* A token that has been exchanged never passes the lookup of a refresh again,
\* however many rotations ago that was: no row has it any more, and the row of
\* a session never takes back a credential.
THEOREM TokensAreSpent == Spec => SpentTokenRefused
<1>1. ASSUME AuthInv, [Next]_vars, NEW w \in Workers,
             req[w].op = "none", req'[w].call = "user", NEW a \in issued
      PROVE  a.from # req'[w].cred
  <2>1. Step(w)
    BY <1>1, OthersStand DEF AuthInv, TypeInv, RequestsOK, RequestOK
  <2>2. PICK r : req' = [req EXCEPT ![w] = r] /\ Becomes(w, r)
    BY <1>1, <2>1, WorkerStep DEF AuthInv
  <2>3. req'[w] = r
    BY <1>1, <2>2 DEF AuthInv, TypeInv, TypeOK
  <2>4. ~Goes(w, r)
    BY <1>1, <2>3 DEF Goes, AuthInv, TypeInv, RequestsOK, RequestOK
  <2>5. Enters(w, r)
    BY <1>1, <2>2, <2>3, <2>4 DEF Becomes, Over
  <2>6. r.sid \in Sessions /\ HasRow(r.sid) /\ sessions[r.sid].cred = r.cred
    BY <1>1, <2>3, <2>5 DEF Enters
  <2> QED
    BY <1>1, <2>3, <2>6 DEF AuthInv, TokenInv
<1>2. AuthInv /\ [Next]_vars
        => [\A w \in Workers :
              req[w].op = "none" /\ req'[w].call = "user"
                 => \A a \in issued : a.from # req'[w].cred]_vars
  BY <1>1
<1> QED
  BY <1>2, AuthInvariance, PTL DEF Spec, SpentTokenRefused

\* A session is ended only by a request of its own user, by an administrator,
\* or on the reuse of a token of the same user: the owner that FindTarget read
\* is still the owner when the row is written.
THEOREM OnlyTheEntitledRevoke == Spec => OnlyEntitledRevoke
<1>1. ASSUME AuthInv, [Next]_vars, NEW s \in Sessions, Live(s), ~Live(s)'
      PROVE  \E w \in Workers :
                /\ req[w].op # "none" /\ req'[w].op = "none"
                /\ \/ req[w].user = sessions[s].user
                   \/ req[w].user \in Admins /\ req[w].op \in AuthOps
  <2>1. TypeInv /\ TablesStep
    BY <1>1, TablesSteps DEF AuthInv
  <2>2. ~Rests /\ ~Tick /\ ~Cleanup
    BY <1>1 DEF Rests, Tick, Cleanup, CleanupExpiredRevocations, Live
  <2>3. ASSUME NEW w \in Workers, NEW x \in Sessions, Creates(w, x) \/ CreatesInVain(w, x)
        PROVE  FALSE
    BY <1>1, <2>1, <2>3, CreatesRows, CreatesInVainRows DEF Live
  <2>4. ASSUME NEW w \in Workers, Rotates(w)
        PROVE  FALSE
    BY <1>1, <2>1, <2>4, RotatesRows DEF Live
  <2>5. PICK w \in Workers, S \in SUBSET Sessions : Ends(w, S)
    BY <2>1, <2>2, <2>3, <2>4 DEF TablesStep
  <2>6. s \in S
    BY <1>1, <2>1, <2>5, EndsRows DEF Live
  <2>7. ReqGood(req[w], sessions, lastCred, now) /\ RequestOK(req[w])
    BY <1>1, <2>1 DEF AuthInv, ReqsGood, TypeInv, RequestsOK
  <2>8. req'[w].op = "none"
    BY <2>1, <2>5 DEF Ends, Answer, Idle, TypeInv, TypeOK
  <2>9. CASE req[w].call = "kill"
    <3>1. req[w].op \in AuthOps /\ req[w].target = s /\ RowIn(sessions, s)
      BY <1>1, <2>5, <2>6, <2>7, <2>9 DEF Ends, At, RequestOK, RowIn, Live
    <3> QED
      BY <2>7, <2>8, <2>9, <3>1 DEF ReqGood, AuthOps
  <2>10. CASE req[w].call = "killAll"
    <3>1. req[w].op \in AuthOps \cup {"refresh"} /\ sessions[s].user = req[w].target
      BY <2>5, <2>6, <2>7, <2>10 DEF Ends, At, RequestOK
    <3> QED
      BY <2>7, <2>8, <2>10, <3>1 DEF ReqGood, AuthOps
  <2> QED
    BY <2>5, <2>9, <2>10 DEF Ends, At
<1>2. AuthInv /\ [Next]_vars
        => [\A s \in Sessions :
              Live(s) /\ ~Live(s)'
                 => \E w \in Workers :
                       /\ req[w].op # "none" /\ req'[w].op = "none"
                       /\ \/ req[w].user = sessions[s].user
                          \/ req[w].user \in Admins /\ req[w].op \in AuthOps]_vars
  BY <1>1
<1> QED
  BY <1>2, AuthInvariance, PTL DEF Spec, OnlyEntitledRevoke

\* When no call of the database fails before its commit, a revocation that is
\* answered with success has happened: the session named, or every session of
\* the user named, is not live when the answer is sent.  The hypothesis is
\* needed: the routes other than logout answer with success also when
\* revokeSession and revokeAllUserSessions could not do their work.
THEOREM SuccessIsRevocation ==
    Spec => (DbFaults \subseteq {"doubt"} => SuccessMeansRevoked)
<1>1. ASSUME DbFaults \subseteq {"doubt"}, AuthInv, [Next]_vars, NEW w \in Workers,
             req[w].call \in {"kill", "killAll"}, req'[w].reply = "ok",
             NEW s \in Sessions,
             \/ req[w].call = "kill"    /\ s = req[w].target
             \/ req[w].call = "killAll" /\ sessions[s].user = req[w].target
      PROVE  ~Live(s)'
  <2>1. /\ req[w].reply = "none" /\ sessions \in [Sessions -> Row]
        /\ req[w].op # "none"
    BY <1>1 DEF AuthInv, ReqsGood, ReqGood, TypeInv, TypeOK, StoreTypeOK, RequestsOK,
                RequestOK, AuthOps
  <2>2. Step(w)
    BY <1>1, <2>1, OthersStand DEF AuthInv
  <2>3. ~Faulty({"error", "lost"})
    BY <1>1 DEF Faulty
  <2>4. Kill(w) \/ KillAll(w)
    <3>1. ASSUME NEW u, LoginLookup(w, u)
          PROVE  FALSE
      BY <2>1, <3>1 DEF LoginLookup, Begins
    <3>2. ASSUME NEW g, RefreshLookup(w, g)
          PROVE  FALSE
      BY <2>1, <3>2 DEF RefreshLookup, Begins
    <3>3. ASSUME NEW op, NEW a, Authenticate(w, op, a)
          PROVE  FALSE
      BY <2>1, <3>3 DEF Authenticate, Begins
    <3>4. ~(LoginCreate(w) \/ RefreshUser(w) \/ RefreshRotate(w) \/ CheckSession(w)
            \/ CheckAccount(w) \/ ListSessions(w) \/ CheckAdmin(w) \/ FindTarget(w))
      BY <1>1 DEF LoginCreate, RefreshUser, RefreshRotate, CheckSession, CheckAccount,
                  ListSessions, CheckAdmin, FindTarget, At
    <3> QED
      BY <2>2, <3>1, <3>2, <3>3, <3>4 DEF Step
  <2>5. CASE Kill(w)
    <3>1. req[w].call = "kill" /\ s = req[w].target
      BY <1>1, <2>5 DEF Kill, At
    <3>2. RevokeRows({t \in {s} : Live(t)})
      BY <2>3, <2>5, <3>1 DEF Kill, RevokeSession
    <3> QED
      BY <2>1, <3>2 DEF RevokeRows, Live, Row
  <2>6. CASE KillAll(w)
    <3>1. sessions[s].user = req[w].target
      BY <1>1, <2>6 DEF KillAll, At
    <3>2. RevokeRows({t \in Sessions : Live(t) /\ sessions[t].user = req[w].target})
      BY <2>3, <2>6 DEF KillAll, RevokeAllUserSessions, LiveSessionsOf
    <3> QED
      BY <2>1, <3>1, <3>2 DEF RevokeRows, Live, Row
  <2> QED
    BY <2>4, <2>5, <2>6
<1>2. DbFaults \subseteq {"doubt"} /\ AuthInv /\ [Next]_vars
        => [\A w \in Workers :
              req[w].call \in {"kill", "killAll"} /\ req'[w].reply = "ok"
                 => \A s \in Sessions :
                       \/ req[w].call = "kill"    /\ s = req[w].target
                       \/ req[w].call = "killAll" /\ sessions[s].user = req[w].target
                       => ~Live(s)']_vars
  BY <1>1
<1>3. CASE DbFaults \subseteq {"doubt"}
  BY <1>2, <1>3, AuthInvariance, PTL DEF Spec, SuccessMeansRevoked
<1>4. CASE ~(DbFaults \subseteq {"doubt"})
  BY <1>4
<1> QED
  BY <1>3, <1>4

-----------------------------------------------------------------------------
(* Honest clients.                                                         *)

\* Only the lookup of a refresh takes note of the tokens presented.
LEMMA PresentedStep ==
    ASSUME [Next]_vars, ~(\E w \in Workers, g \in Creds : RefreshLookup(w, g))
    PROVE  UNCHANGED <<presented, replayed>>
<1>1. ASSUME NEW w \in Workers, Step(w)
      PROVE  UNCHANGED <<presented, replayed>>
  <2>1. ASSUME NEW u, LoginLookup(w, u)
        PROVE  UNCHANGED <<presented, replayed>>
    BY <2>1 DEF LoginLookup
  <2>2. ASSUME NEW op, NEW a, Authenticate(w, op, a)
        PROVE  UNCHANGED <<presented, replayed>>
    BY <2>2 DEF Authenticate
  <2>3. CASE LoginCreate(w) \/ RefreshUser(w) \/ RefreshRotate(w) \/ CheckSession(w)
             \/ CheckAccount(w) \/ ListSessions(w) \/ CheckAdmin(w) \/ FindTarget(w)
             \/ Kill(w) \/ KillAll(w)
    BY <2>3 DEF LoginCreate, RefreshUser, RefreshRotate, CheckSession, CheckAccount,
                ListSessions, CheckAdmin, FindTarget, Kill, KillAll
  <2> QED
    BY <1>1, <2>1, <2>2, <2>3 DEF Step
<1> QED
  BY <1>1 DEF Next, SetActive, Tick, Cleanup, vars

\* A refresh in progress keeps its session and its token, or has just begun.
LEMMA RefreshingStep ==
    ASSUME TypeInv, [Next]_vars, NEW w \in Workers, Refreshing(w)'
    PROVE  \/ /\ Refreshing(w)
              /\ req'[w].sid = req[w].sid /\ req'[w].cred = req[w].cred
           \/ /\ req'[w].cred \in Creds /\ RefreshLookup(w, req'[w].cred)
              /\ req'[w].sid \in Sessions /\ sessions[req'[w].sid].cred = req'[w].cred
              /\ HasRow(req'[w].sid)
              /\ UNCHANGED sessions
<1>1. CASE ~Step(w)
  BY <1>1, OthersStand DEF Refreshing
<1>2. CASE Step(w)
  <2>1. PICK r : req' = [req EXCEPT ![w] = r] /\ Becomes(w, r)
    BY <1>2, WorkerStep
  <2>2. req'[w] = r
    BY <2>1 DEF TypeInv, TypeOK
  <2>3. r.call \in {"user", "rotate"}
    BY <2>2 DEF Refreshing
  <2>4. ~Over(r)
    BY <2>3 DEF Over
  <2>5. CASE Goes(w, r)
    BY <2>2, <2>3, <2>5 DEF Goes, Refreshing
  <2>6. CASE Enters(w, r) /\ UNCHANGED sessions
    <3>1. /\ RefreshLookup(w, r.cred) /\ r.sid \in Sessions /\ HasRow(r.sid)
          /\ sessions[r.sid].cred = r.cred
      BY <2>3, <2>6 DEF Enters
    <3>2. r.cred \in Creds
      BY <3>1 DEF TypeInv, RowsOK
    <3> QED
      BY <2>2, <2>6, <3>1, <3>2
  <2> QED
    BY <2>1, <2>4, <2>5, <2>6 DEF Becomes
<1> QED
  BY <1>1, <1>2

\* As long as no token is presented twice, two refreshes never hold the same
\* token, none loses its session's token to another, and every token that a
\* rotation replaced has been presented.
LEMMA HonestStep ==
    ASSUME StoreAssumption, AuthAssumption, AuthInv, HonestTokens, [Next]_vars
    PROVE  HonestTokens'
<1> SUFFICES ASSUME ~replayed'
             PROVE  /\ \A w \in Workers : Refreshing(w)' =>
                          /\ req'[w].cred \in presented'
                          /\ sessions'[req'[w].sid].cred = req'[w].cred
                    /\ \A v, w \in Workers :
                          (v # w /\ Refreshing(v)' /\ Refreshing(w)') => req'[v].cred # req'[w].cred
                    /\ \A s \in Sessions :
                          (HasRow(s)' /\ sessions'[s].prev # NoCred) => sessions'[s].prev \in presented'
  BY DEF HonestTokens
<1>1. /\ TypeInv /\ TablesStep
      /\ req \in [Workers -> Request] /\ replayed \in BOOLEAN
  BY TablesSteps DEF AuthInv, TypeInv, TypeOK
<1>2. ASSUME NEW w \in Workers, NEW g \in Creds, RefreshLookup(w, g)
      PROVE  ~replayed /\ g \notin presented /\ presented' = presented \cup {g}
             /\ (\A v \in Workers : v # w => req'[v] = req[v])
  <2>1. replayed' = (replayed \/ g \in presented)
    BY <1>2 DEF RefreshLookup
  <2>2. ~replayed /\ g \notin presented
    BY <2>1, Zenon
  <2>3. presented' = presented \cup {g}
    BY <1>2 DEF RefreshLookup
  <2>4. Step(w)
    BY <1>2 DEF Step
  <2>5. PICK r : req' = [req EXCEPT ![w] = r]
    BY <1>1, <2>4, WorkerStep
  <2> QED
    BY <1>1, <2>2, <2>3, <2>5
<1>3. ~replayed /\ presented \subseteq presented'
  <2>1. CASE \E w \in Workers, g \in Creds : RefreshLookup(w, g)
    BY <1>2, <2>1
  <2>2. CASE ~(\E w \in Workers, g \in Creds : RefreshLookup(w, g))
    <3>1. UNCHANGED <<presented, replayed>>
      BY <2>2, PresentedStep
    <3> QED
      BY <3>1
  <2> QED
    BY <2>1, <2>2
<1>4. /\ \A w \in Workers : Refreshing(w) =>
            req[w].cred \in presented /\ sessions[req[w].sid].cred = req[w].cred
      /\ \A v, w \in Workers :
            (v # w /\ Refreshing(v) /\ Refreshing(w)) => req[v].cred # req[w].cred
      /\ \A s \in Sessions :
            (HasRow(s) /\ sessions[s].prev # NoCred) => sessions[s].prev \in presented
  BY <1>3 DEF HonestTokens
<1>5. ASSUME NEW w \in Workers, Rotates(w)
      PROVE  Refreshing(w) /\ ~Refreshing(w)'
  <2>1. PICK x : Answer(w, x)
    BY <1>5 DEF Rotates
  <2> QED
    BY <1>1, <1>5, <2>1 DEF Rotates, At, Refreshing, Answer, Idle
<1>6. ASSUME NEW s \in Sessions, HasRow(s)', sessions'[s].prev # NoCred
      PROVE  sessions'[s].prev \in presented
  <2>1. CASE HasRow(s) /\ sessions'[s].prev = sessions[s].prev
    BY <1>4, <1>6, <2>1
  <2>2. CASE Rests \/ Tick \/ Cleanup
    BY <1>6, <2>1, <2>2 DEF Rests, Tick, Cleanup, CleanupExpiredRevocations, HasRow
  <2>3. ASSUME NEW w \in Workers, NEW x \in Sessions, Creates(w, x)
        PROVE  sessions'[s].prev \in presented
    BY <1>1, <1>6, <2>1, <2>3, CreatesRows DEF HasRow
  <2>4. ASSUME NEW w \in Workers, NEW x \in Sessions, CreatesInVain(w, x)
        PROVE  sessions'[s].prev \in presented
    BY <1>1, <1>6, <2>1, <2>4, CreatesInVainRows DEF HasRow
  <2>5. ASSUME NEW w \in Workers, Rotates(w)
        PROVE  sessions'[s].prev \in presented
    <3>1. CASE s # req[w].sid
      BY <1>1, <1>6, <2>1, <2>5, <3>1, RotatesRows DEF HasRow
    <3>2. CASE s = req[w].sid
      <4>1. sessions'[s].prev = sessions[s].cred
        BY <1>1, <2>5, <3>2, RotatesRows
      <4> QED
        BY <1>4, <1>5, <2>5, <3>2, <4>1
    <3> QED
      BY <3>1, <3>2
  <2>6. ASSUME NEW w \in Workers, NEW S \in SUBSET Sessions, Ends(w, S)
        PROVE  sessions'[s].prev \in presented
    BY <1>1, <1>6, <2>1, <2>6, EndsRows DEF HasRow
  <2> QED
    BY <1>1, <2>2, <2>3, <2>4, <2>5, <2>6 DEF TablesStep
<1>7. ASSUME NEW v \in Workers, Refreshing(v), Refreshing(v)'
      PROVE  sessions'[req[v].sid].cred = req[v].cred
  <2> DEFINE s == req[v].sid
  <2>1. s \in Sessions /\ HasRow(s) /\ sessions[s].cred = req[v].cred
    BY <1>1, <1>4, <1>7 DEF Refreshing, RequestsOK, RequestOK, TypeInv, AuthInv, ReqsGood,
                            ReqGood, RowIn, HasRow
  <2> HIDE DEF s
  <2>2. sessions'[s].cred = sessions[s].cred
    <3>1. CASE Rests \/ Tick \/ Cleanup
      BY <3>1 DEF Rests, Tick, Cleanup, CleanupExpiredRevocations
    <3>2. ASSUME NEW w \in Workers, NEW x \in Sessions, Creates(w, x) \/ CreatesInVain(w, x)
          PROVE  sessions'[s].cred = sessions[s].cred
      BY <1>1, <2>1, <3>2, CreatesRows, CreatesInVainRows DEF HasRow
    <3>3. ASSUME NEW w \in Workers, Rotates(w)
          PROVE  sessions'[s].cred = sessions[s].cred
      <4>1. v # w /\ Refreshing(w)
        BY <1>5, <1>7, <3>3
      <4>2. s # req[w].sid
        BY <1>4, <1>7, <2>1, <4>1
      <4> QED
        BY <1>1, <2>1, <3>3, <4>2, RotatesRows
    <3>4. ASSUME NEW w \in Workers, NEW S \in SUBSET Sessions, Ends(w, S)
          PROVE  sessions'[s].cred = sessions[s].cred
      BY <1>1, <2>1, <3>4, EndsRows
    <3> QED
      BY <1>1, <3>1, <3>2, <3>3, <3>4 DEF TablesStep
  <2> QED
    BY <2>1, <2>2 DEF s
<1>8. ASSUME NEW w \in Workers, Refreshing(w)', ~Refreshing(w)
      PROVE  /\ req'[w].cred \in presented' /\ req'[w].cred \notin presented
             /\ sessions'[req'[w].sid].cred = req'[w].cred
             /\ \A v \in Workers : v # w => req'[v] = req[v]
  <2>1. /\ req'[w].cred \in Creds /\ RefreshLookup(w, req'[w].cred)
        /\ req'[w].sid \in Sessions /\ sessions[req'[w].sid].cred = req'[w].cred
        /\ UNCHANGED sessions
    BY <1>1, <1>8, RefreshingStep
  <2> QED
    BY <1>2, <2>1
<1>9. ASSUME NEW w \in Workers, Refreshing(w)', Refreshing(w)
      PROVE  /\ req'[w].cred \in presented' /\ req'[w].cred = req[w].cred
             /\ sessions'[req'[w].sid].cred = req'[w].cred
  <2>1. CASE req'[w].sid = req[w].sid /\ req'[w].cred = req[w].cred
    BY <1>3, <1>4, <1>7, <1>9, <2>1
  <2>2. CASE RefreshLookup(w, req'[w].cred)
    BY <1>1, <1>9, <2>2 DEF RefreshLookup, Begins, Refreshing, TypeInv, RequestsOK, RequestOK
  <2> QED
    BY <1>1, <1>9, <2>1, <2>2, RefreshingStep
<1>10. ASSUME NEW v \in Workers, NEW w \in Workers, v # w, Refreshing(v)', Refreshing(w)'
       PROVE  req'[v].cred # req'[w].cred
  <2>1. CASE Refreshing(v) /\ Refreshing(w)
    BY <1>4, <1>9, <1>10, <2>1
  <2>2. ASSUME NEW x \in Workers, NEW y \in Workers, x # y, Refreshing(x)', Refreshing(y)',
               ~Refreshing(x)
        PROVE  req'[x].cred # req'[y].cred
    <3>1. req'[x].cred \notin presented /\ req'[y] = req[y]
      BY <1>8, <2>2
    <3>2. Refreshing(y) /\ req[y].cred \in presented
      BY <1>4, <2>2, <3>1 DEF Refreshing
    <3> QED
      BY <3>1, <3>2
  <2> QED
    BY <1>10, <2>1, <2>2
<1> QED
  BY <1>3, <1>6, <1>8, <1>9, <1>10

\* Honest clients are not taken for thieves: as long as nobody presents a
\* token twice, the refresh that starts to revoke all sessions of a user is
\* one whose own session was revoked.
THEOREM HonestStaySignedIn == Spec => HonestNotFlagged
<1>1. Init => HonestTokens
  BY DEF Init, StoreInit, HonestTokens, Refreshing, Idle, HasRow, NoRow
<1>2. AuthInv /\ HonestTokens /\ [Next]_vars => HonestTokens'
  BY HonestStep, StoreAssumption, AuthAssumption
<1>3. ASSUME AuthInv, HonestTokens, [Next]_vars, NEW w \in Workers,
             req[w].op = "none", req'[w].call = "killAll", req'[w].op = "refresh",
             ~replayed'
      PROVE  Revoked(req'[w].sid)
  <2>1. TypeInv /\ req \in [Workers -> Request] /\ RowsOK /\ replayed \in BOOLEAN
    BY <1>3 DEF AuthInv, TypeInv, TypeOK
  <2>2. Step(w)
    BY <1>3, <2>1, OthersStand
  <2>3. PICK r : req' = [req EXCEPT ![w] = r] /\ Becomes(w, r)
    BY <2>1, <2>2, WorkerStep
  <2>4. req'[w] = r
    BY <2>1, <2>3
  <2>5. Enters(w, r)
    BY <1>3, <2>3, <2>4 DEF Becomes, Over, Goes
  <2>6. /\ r.sid \in Sessions /\ HasRow(r.sid) /\ RefreshLookup(w, r.cred)
        /\ Revoked(r.sid) \/ sessions[r.sid].prev = r.cred
    BY <1>3, <2>4, <2>5 DEF Enters, AuthOps
  <2>7. r.cred \in Creds
    BY <2>1, <2>6 DEF RefreshLookup, HeldCreds, TypeInv, TypeOK, TokenResponse
  <2>8. replayed' = (replayed \/ r.cred \in presented)
    BY <2>6 DEF RefreshLookup
  <2>9. ~replayed /\ r.cred \notin presented
    BY <1>3, <2>8, Zenon
  <2>10. r.cred # NoCred
    BY <2>7, StoreAssumption DEF Creds, NoCred
  <2> QED
    BY <1>3, <2>4, <2>6, <2>9, <2>10 DEF HonestTokens
<1>4. AuthInv /\ HonestTokens /\ [Next]_vars
        => [\A w \in Workers :
              req[w].op = "none" /\ req'[w].call = "killAll" /\ req'[w].op = "refresh"
                 => Revoked(req'[w].sid) \/ replayed']_vars
  BY <1>3
<1> QED
  BY <1>1, <1>2, <1>4, AuthInvariance, PTL DEF Spec, HonestNotFlagged

-----------------------------------------------------------------------------
(***************************************************************************)
(* The sessions act as one authority.  Every repository call is a step of  *)
(* a visit or none that is seen: the calls that read pass a door, the last *)
(* call does what the visit is for.  What CheckAdmin and FindTarget have   *)
(* read is used later, so that it still holds then is an invariant.        *)
(***************************************************************************)
States == [s \in Sessions |-> StateOf(sessions[s])]
Owners == [s \in Sessions |-> sessions[s].user]
Visits == [w \in Workers |-> VisitOf(req[w])]

AuthorityStep == Authority!Next \/ UNCHANGED <<States, Owners, active, Visits>>

\* What the code that led to a call has made sure of.
Way(r, st) ==
    /\ r.call = "list" => r.op = "list"
    /\ r.call = "kill" => \/ r.op = "logout" /\ r.target = r.sid
                          \/ r.op = "adminRevoke" /\ r.user \in Admins
                          \/ /\ r.op = "revoke"
                             /\ RowIn(st, r.target) /\ st[r.target].user = r.user
    /\ r.call = "killAll" => \/ r.op \in {"logoutAll", "refresh"} /\ r.target = r.user
                             \/ r.op = "adminRevokeAll" /\ r.user \in Admins

WayInv == \A w \in Workers : Way(req[w], sessions)

-----------------------------------------------------------------------------
(* Visits.                                                                 *)

LEMMA VisitParts ==
    ASSUME NEW w \in Workers
    PROVE  /\ Visits[w].stage = StageOf(req[w]) /\ Visits[w].op = req[w].op
           /\ Visits[w].user = req[w].user /\ Visits[w].sid = req[w].sid
           /\ Visits[w].reply = req[w].reply
BY DEF Visits, VisitOf

\* The visit of a request that is replaced.
LEMMA Turning ==
    ASSUME TypeInv, NEW w \in Workers, NEW r, req' = [req EXCEPT ![w] = r]
    PROVE  Visits' = [Visits EXCEPT ![w] = VisitOf(r)]
<1>1. req \in [Workers -> Request]
  BY DEF TypeInv, TypeOK
<1>2. Visits' = [v \in Workers |-> VisitOf(req'[v])]
  BY DEF Visits
<1>3. [Visits EXCEPT ![w] = VisitOf(r)]
        = [v \in Workers |-> IF v = w THEN VisitOf(r) ELSE VisitOf(req[v])]
  BY Zenon DEF Visits
<1>4. \A v \in Workers : req'[v] = IF v = w THEN r ELSE req[v]
  BY <1>1
<1>5. \A v \in Workers : VisitOf(req'[v]) = IF v = w THEN VisitOf(r) ELSE VisitOf(req[v])
  <2> TAKE v \in Workers
  <2>1. CASE v = w
    <3>1. req'[v] = r
      BY <1>4, <2>1
    <3> QED
      BY <2>1, <3>1
  <2>2. CASE v # w
    <3>1. req'[v] = req[v]
      BY <1>4, <2>2
    <3> QED
      BY <2>2, <3>1
  <2> QED
    BY <2>1, <2>2
<1> QED
  BY <1>2, <1>3, <1>5, Zenon

\* An answer ends the visit.
LEMMA Leaving ==
    ASSUME TypeInv, NEW w \in Workers, NEW x, Answer(w, x)
    PROVE  Visits' = [Visits EXCEPT ![w] = Authority!Away(x)]
<1>1. Visits' = [Visits EXCEPT ![w] = VisitOf(Idle(x))]
  BY Turning DEF Answer
<1>2. VisitOf(Idle(x)) = Authority!Away(x)
  BY DEF VisitOf, Idle, StageOf, Authority!Away
<1> QED
  BY <1>1, <1>2, Zenon

\* A request goes on, the visit at another place or at the same.
LEMMA GoingOn ==
    ASSUME TypeInv, ReqsGood, NEW w \in Workers, req[w].op # "none", NEW r,
           req' = [req EXCEPT ![w] = r], r.op = req[w].op, r.user = req[w].user,
           r.sid = req[w].sid, r.reply = req[w].reply
    PROVE  /\ Visits' = [Visits EXCEPT ![w] =
                           Authority!Visit(StageOf(r), req[w].op, req[w].user, req[w].sid)]
           /\ StageOf(r) = StageOf(req[w]) => Visits' = Visits
<1>1. req[w].reply = "none" /\ req[w] \in Request
  BY DEF ReqsGood, ReqGood, TypeInv, TypeOK
<1>2. VisitOf(r) = Authority!Visit(StageOf(r), req[w].op, req[w].user, req[w].sid)
  BY <1>1 DEF VisitOf, Authority!Visit
<1>3. Visits' = [Visits EXCEPT ![w] = VisitOf(r)]
  BY Turning
<1>4. StageOf(r) = StageOf(req[w]) => Visits[w] = VisitOf(r)
  BY DEF VisitOf, Visits
<1>5. Visits[w] = VisitOf(r) => [Visits EXCEPT ![w] = VisitOf(r)] = Visits
  BY DEF Visits
<1> QED
  BY <1>2, <1>3, <1>4, <1>5, Zenon

LEMMA GoingTo ==
    ASSUME TypeInv, ReqsGood, NEW w \in Workers, req[w].op # "none", NEW c,
           Goto(w, c) \/ \E x : GotoWith(w, c, x)
    PROVE  \E r : /\ r.call = c /\ r.op = req[w].op
                  /\ Visits' = [Visits EXCEPT ![w] =
                       Authority!Visit(StageOf(r), req[w].op, req[w].user, req[w].sid)]
                  /\ StageOf(r) = StageOf(req[w]) => Visits' = Visits
<1>1. req[w] \in Request /\ req \in [Workers -> Request]
  BY DEF TypeInv, TypeOK
<1>2. PICK r : /\ req' = [req EXCEPT ![w] = r]
               /\ r.call = c /\ r.op = req[w].op /\ r.user = req[w].user
               /\ r.sid = req[w].sid /\ r.reply = req[w].reply
  <2>1. CASE Goto(w, c)
    <3> DEFINE r == [req[w] EXCEPT !.call = c]
    <3>1. req' = [req EXCEPT ![w] = r]
      BY <2>1 DEF Goto
    <3>2. /\ r.call = c /\ r.op = req[w].op /\ r.user = req[w].user
          /\ r.sid = req[w].sid /\ r.reply = req[w].reply
      BY <1>1 DEF Request
    <3> HIDE DEF r
    <3> QED
      BY <3>1, <3>2
  <2>2. ASSUME NEW x, GotoWith(w, c, x)
        PROVE  \E r : /\ req' = [req EXCEPT ![w] = r]
                      /\ r.call = c /\ r.op = req[w].op /\ r.user = req[w].user
                      /\ r.sid = req[w].sid /\ r.reply = req[w].reply
    <3> DEFINE r == [req[w] EXCEPT !.call = c, !.target = x]
    <3>1. req' = [req EXCEPT ![w] = r]
      BY <2>2, Zenon DEF GotoWith
    <3>2. /\ r.call = c /\ r.op = req[w].op /\ r.user = req[w].user
          /\ r.sid = req[w].sid /\ r.reply = req[w].reply
      BY <1>1 DEF Request
    <3> HIDE DEF r
    <3> QED
      BY <3>1, <3>2
  <2> QED
    BY <2>1, <2>2
<1> QED
  BY <1>2, GoingOn

\* The rows are seen as states and owners.
LEMMA RowsRest ==
    ASSUME UNCHANGED sessions
    PROVE  UNCHANGED <<States, Owners>>
BY DEF States, Owners

\* A transaction that revokes ends the open sessions of a set, all at once.
LEMMA RevocationEnds ==
    ASSUME TypeInv, NEW S, RevokeRows({t \in S : Live(t)}), S \subseteq Sessions
    PROVE  /\ States' = [s \in Sessions |-> IF s \in S /\ States[s] = "open"
                                              THEN "ended" ELSE States[s]]
           /\ Owners' = Owners
<1>1. sessions \in [Sessions -> Row]
  BY DEF TypeInv, TypeOK, StoreTypeOK
<1>2. sessions' = [s \in Sessions |-> IF s \in S /\ Live(s)
                                       THEN [sessions[s] EXCEPT !.status = "revoked"]
                                       ELSE sessions[s]]
  BY DEF RevokeRows
<1>3. \A s \in Sessions : sessions'[s].user = sessions[s].user
  BY <1>1, <1>2 DEF Row
<1>4. \A s \in Sessions :
        StateOf(sessions'[s]) = IF s \in S /\ StateOf(sessions[s]) = "open"
                                  THEN "ended" ELSE StateOf(sessions[s])
  <2> TAKE s \in Sessions
  <2>1. sessions[s] \in Row
    BY <1>1
  <2>2. StateOf(sessions[s]) = "open" <=> Live(s)
    BY <2>1 DEF StateOf, Live, Row
  <2>3. CASE s \in S /\ Live(s)
    <3>1. sessions'[s].status = "revoked"
      BY <1>2, <2>1, <2>3 DEF Row
    <3> QED
      BY <2>2, <2>3, <3>1 DEF StateOf
  <2>4. CASE ~(s \in S /\ Live(s))
    BY <1>2, <2>2, <2>4
  <2> QED
    BY <2>3, <2>4
<1> QED
  BY <1>3, <1>4 DEF States, Owners

-----------------------------------------------------------------------------
(* Steps of the authority.                                                 *)

VisitStep(w) ==
    \/ \E op \in Authority!Routes, u \in Users, s \in Sessions : Authority!Come(w, op, u, s)
    \/ Authority!Enter(w)
    \/ Authority!Admit(w)
    \/ \E u \in Users : Authority!SignIn(w, u)
    \/ \E s \in Sessions : \/ Authority!EnterToRefresh(w, s)
                           \/ Authority!RaiseAlarm(w, s)
                           \/ Authority!Open(w, s)
    \/ Authority!Renew(w)
    \/ Authority!List(w)
    \/ Authority!LeaveUndone(w)
    \/ Authority!Refuse(w)
    \/ \E S \in Authority!Targets(Visits[w]) : Authority!End(w, S)

\* Such a step is one of those that Does allows where the visitor is.
LEMMA VisitStepIsDone ==
    ASSUME NEW w \in Workers, VisitStep(w)
    PROVE  Authority!Does(w)
<1>1. ASSUME NEW st, Authority!At(w, st)
      PROVE  Visits[w].stage = st
  BY <1>1 DEF Authority!At, Visits
<1>2. ASSUME NEW op \in Authority!Routes, NEW u \in Users, NEW s \in Sessions,
             Authority!Come(w, op, u, s)
      PROVE  Authority!Does(w)
  <2> DEFINE x == Authority!Visit("named", op, u, s)
  <2>1. Visits[w].stage = "away" /\ Visits' = [Visits EXCEPT ![w] = x]
    BY <1>1, <1>2 DEF Authority!Come, Authority!Turns, Visits
  <2>2. x.op = op /\ x.user = u /\ x.sid = s
    BY DEF Authority!Visit
  <2>3. Visits'[w] = x
    <3> HIDE DEF x
    <3>1. Visits = [v \in Workers |-> Visits[v]]
      BY DEF Visits
    <3> QED
      BY <2>1, <3>1
  <2> HIDE DEF x
  <2> QED
    BY <1>2, <2>1, <2>2, <2>3 DEF Authority!Does, Visits
<1>3. ASSUME Authority!Enter(w) \/ Authority!Admit(w) \/ Authority!Refuse(w)
      PROVE  Authority!Does(w)
  BY <1>3, <1>1 DEF Authority!Enter, Authority!Admit, Authority!Does, Visits
<1>4. ASSUME NEW u \in Users, Authority!SignIn(w, u)
      PROVE  Authority!Does(w)
  <2>1. Visits[w].stage = "away"
    BY <1>4, <1>1 DEF Authority!SignIn
  <2> QED
    BY <1>4, <2>1 DEF Authority!Does, Visits
<1>5. ASSUME NEW s \in Sessions,
             Authority!EnterToRefresh(w, s) \/ Authority!RaiseAlarm(w, s)
      PROVE  Authority!Does(w)
  <2>1. Visits[w].stage = "away"
    BY <1>5, <1>1 DEF Authority!EnterToRefresh, Authority!RaiseAlarm
  <2> QED
    BY <1>5, <2>1 DEF Authority!Does, Visits
<1>6. ASSUME NEW s \in Sessions, Authority!Open(w, s)
      PROVE  Authority!Does(w)
  <2>1. Visits[w].stage = "admitted"
    BY <1>6, <1>1 DEF Authority!Open
  <2> QED
    BY <1>6, <2>1 DEF Authority!Does, Visits
<1>7. ASSUME Authority!Renew(w) \/ Authority!List(w) \/ Authority!LeaveUndone(w)
      PROVE  Authority!Does(w)
  <2>1. Visits[w].stage = "admitted"
    BY <1>7, <1>1 DEF Authority!Renew, Authority!List, Authority!LeaveUndone
  <2> QED
    BY <1>7, <2>1 DEF Authority!Does, Visits
<1>8. ASSUME NEW S \in Authority!Targets(Visits[w]), Authority!End(w, S)
      PROVE  Authority!Does(w)
  <2>1. Authority!At(w, "alarm") \/ Authority!At(w, "admitted")
    BY <1>8, Zenon DEF Authority!End
  <2>2. Visits[w].stage \in {"admitted", "alarm"}
    BY <1>1, <2>1
  <2> QED
    BY <1>8, <2>2, Zenon DEF Authority!Does, Visits
<1> QED
  BY <1>2, <1>3, <1>4, <1>5, <1>6, <1>7, <1>8, Zenon DEF VisitStep

\* Every step of a visit but a second refusal of one that is over moves it.
LEMMA VisitStepCounts ==
    ASSUME NEW w \in Workers, VisitStep(w)
    PROVE  AuthorityStep
<1>1. CASE Visits'[w] # Visits[w]
  BY <1>1, VisitStepIsDone DEF AuthorityStep, Authority!Next, Visits
<1>2. CASE Visits'[w] = Visits[w]
  <2>1. ASSUME NEW x, Authority!Turns(w, x)
        PROVE  /\ Visits' = [Visits EXCEPT ![w] = x]
               /\ Visits'[w] = x /\ Visits' = Visits
    <3>1. Visits' = [Visits EXCEPT ![w] = x]
      BY <2>1 DEF Authority!Turns, Visits
    <3>2. Visits = [v \in Workers |-> Visits[v]]
      BY DEF Visits
    <3> QED
      BY <1>2, <3>1, <3>2
  <2>12. ASSUME NEW st, Authority!At(w, st)
         PROVE  Visits[w].stage = st
    BY <2>12 DEF Authority!At, Visits
  <2>2. Authority!Refuse(w) => AuthorityStep
    BY <2>1 DEF Authority!Refuse, Authority!Leaves, Authority!NoneEnds, AuthorityStep, States, Owners
  <2>3. ASSUME NEW op, NEW u, NEW s, Authority!Come(w, op, u, s)
        PROVE  FALSE
    BY <1>2, <2>3, <2>1, <2>12 DEF Authority!Come, Authority!Visit
  <2>4. ~Authority!Enter(w)
    BY <1>2, <2>1, <2>12 DEF Authority!Enter, Authority!Visit
  <2>5. ~Authority!Admit(w)
    BY <1>2, <2>1, <2>12 DEF Authority!Admit, Authority!Visit
  <2>6. ASSUME NEW u, Authority!SignIn(w, u)
        PROVE  FALSE
    BY <1>2, <2>6, <2>1, <2>12 DEF Authority!SignIn, Authority!Visit
  <2>7. ASSUME NEW s, Authority!EnterToRefresh(w, s)
        PROVE  FALSE
    BY <1>2, <2>7, <2>1, <2>12 DEF Authority!EnterToRefresh, Authority!Visit
  <2>8. ASSUME NEW s, Authority!RaiseAlarm(w, s)
        PROVE  FALSE
    BY <1>2, <2>8, <2>1, <2>12 DEF Authority!RaiseAlarm, Authority!Visit
  <2>9. ASSUME NEW s, Authority!Open(w, s)
        PROVE  FALSE
    BY <1>2, <2>9, <2>1, <2>12 DEF Authority!Open, Authority!Leaves, Authority!Away
  <2>10. ~Authority!Renew(w) /\ ~Authority!List(w) /\ ~Authority!LeaveUndone(w)
    BY <1>2, <2>1, <2>12 DEF Authority!Renew, Authority!List, Authority!LeaveUndone, Authority!Leaves, Authority!Away
  <2>11. ASSUME NEW S, Authority!End(w, S)
        PROVE  FALSE
    <3>1. Visits[w].stage # "away"
      <4>1. Authority!At(w, "alarm") \/ Authority!At(w, "admitted")
        BY <2>11, Zenon DEF Authority!End
      <4> QED
        BY <4>1, <2>12
    <3>2. \E a : Authority!Leaves(w, a)
      BY <2>11, Zenon DEF Authority!End
    <3>3. \E a : Visits'[w] = Authority!Away(a)
      BY <2>1, <3>2 DEF Authority!Leaves
    <3> QED
      BY <1>2, <3>1, <3>3 DEF Authority!Away
  <2> QED
    BY <2>2, <2>3, <2>4, <2>5, <2>6, <2>7, <2>8, <2>9, <2>10, <2>11, Zenon DEF VisitStep
<1> QED
  BY <1>1, <1>2

\* A worker that is free has no visitor.
LEMMA IdleIsAway ==
    ASSUME TypeInv, NEW w \in Workers, req[w].op = "none"
    PROVE  Visits[w].stage = "away"
<1>1. req[w] \in Request /\ RequestOK(req[w])
  BY DEF TypeInv, TypeOK, RequestsOK
<1>2. req[w].call = "idle"
  BY <1>1 DEF Request, Calls, RequestOK, AuthOps
<1> QED
  BY <1>2, VisitParts DEF StageOf

\* A refusal that changes nothing.
LEMMA RefusedStep ==
    ASSUME TypeInv, NEW w \in Workers, Answer(w, "refused"),
           States' = States, Owners' = Owners, UNCHANGED active
    PROVE  AuthorityStep
<1>1. Visits' = [Visits EXCEPT ![w] = Authority!Away("refused")]
  BY Leaving
<1>2. Authority!Refuse(w)
  BY <1>1 DEF Authority!Refuse, Authority!Leaves, Authority!Turns,
              Authority!NoneEnds, Visits, States, Owners
<1> QED
  BY <1>2, VisitStepCounts DEF VisitStep

LEMMA LeavingStep ==
    ASSUME TypeInv, NEW w \in Workers, Answer(w, "refused"), UNCHANGED <<sessions, active>>
    PROVE  AuthorityStep
BY RefusedStep, RowsRest

\* Nothing of a visit is seen to move.
LEMMA UnseenStep ==
    ASSUME Visits' = Visits, UNCHANGED <<sessions, active>>
    PROVE  AuthorityStep
BY RowsRest DEF AuthorityStep

\* The doors.
LEMMA LoginLookupSeen ==
    ASSUME TypeInv, NEW w \in Workers, NEW u \in Users, LoginLookup(w, u)
    PROVE  AuthorityStep
<1>1. UNCHANGED <<sessions, active>> /\ req[w].op = "none"
  BY DEF LoginLookup, storeVars, Begins
<1>2. CASE Answer(w, "refused")
  BY <1>1, <1>2, LeavingStep
<1>3. CASE ~Answer(w, "refused")
  <2> DEFINE r == [Idle("none") EXCEPT !.op = "login", !.call = "create", !.user = u, !.t = now]
             x == Authority!Visit("admitted", "login", u, NoId)
  <2>1. req' = [req EXCEPT ![w] = r] /\ active[u]
    BY <1>3 DEF LoginLookup
  <2>2. VisitOf(r) = x
    BY DEF VisitOf, StageOf, Idle, Authority!Visit
  <2>3. Visits' = [Visits EXCEPT ![w] = x]
    <3> HIDE DEF r, x
    <3> QED
      BY <2>1, <2>2, Turning, Zenon
  <2>4. Visits[w].stage = "away"
    BY <1>1, IdleIsAway
  <2>5. Authority!SignIn(w, u)
    BY <1>1, <2>1, <2>3, <2>4, RowsRest
       DEF Authority!SignIn, Authority!At, Authority!Turns, Authority!NoneEnds, Visits, States, Owners
  <2> QED
    BY <2>5, VisitStepCounts DEF VisitStep
<1> QED
  BY <1>2, <1>3

LEMMA RefreshLookupSeen ==
    ASSUME TypeInv, NEW w \in Workers, NEW g, RefreshLookup(w, g)
    PROVE  AuthorityStep
<1>1. UNCHANGED <<sessions, active>> /\ req[w].op = "none" /\ Visits[w].stage = "away"
  BY IdleIsAway DEF RefreshLookup, storeVars, Begins
<1>2. CASE Answer(w, "refused")
  BY <1>1, <1>2, LeavingStep
<1>3. ASSUME NEW s \in Sessions, NEW c \in {"user", "killAll"}, BeginRefresh(w, g, c, s)
      PROVE  Visits' = [Visits EXCEPT ![w] =
               Authority!Visit(IF c = "user" THEN "entered" ELSE "alarm", "refresh", Owners[s], s)]
  <2> DEFINE r == [Idle("none") EXCEPT !.op = "refresh", !.call = c,
                     !.user = sessions[s].user, !.sid = s, !.cred = g,
                     !.target = IF c = "killAll" THEN sessions[s].user ELSE NoId,
                     !.t = now]
             x == Authority!Visit(IF c = "user" THEN "entered" ELSE "alarm", "refresh", Owners[s], s)
  <2>1. req' = [req EXCEPT ![w] = r]
    BY <1>3 DEF BeginRefresh
  <2>2. VisitOf(r) = x
    <3>1. /\ r.call = c /\ r.op = "refresh" /\ r.user = sessions[s].user /\ r.sid = s
          /\ r.reply = "none"
      BY DEF Idle
    <3>2. StageOf(r) = IF c = "user" THEN "entered" ELSE "alarm"
      BY <3>1 DEF StageOf
    <3>3. Owners[s] = sessions[s].user
      BY DEF Owners
    <3> HIDE DEF r
    <3> QED
      BY <3>1, <3>2, <3>3 DEF VisitOf, Authority!Visit
  <2> HIDE DEF r, x
  <2> QED
    BY <2>1, <2>2, Turning, Zenon DEF x
<1>4. ASSUME NEW s \in Sessions, BeginRefresh(w, g, "user", s), Live(s)
      PROVE  AuthorityStep
  <2>1. Visits' = [Visits EXCEPT ![w] = Authority!Visit("entered", "refresh", Owners[s], s)]
    BY <1>3, <1>4
  <2>2. States[s] = "open"
    BY <1>4 DEF States, StateOf, Live
  <2>3. Authority!EnterToRefresh(w, s)
    BY <1>1, <2>1, <2>2, RowsRest
       DEF Authority!EnterToRefresh, Authority!At, Authority!Turns, Authority!NoneEnds,
           Visits, States, Owners
  <2> QED
    BY <2>3, VisitStepCounts DEF VisitStep
<1>5. ASSUME NEW s \in Sessions, BeginRefresh(w, g, "killAll", s), HasRow(s)
      PROVE  AuthorityStep
  <2>1. Visits' = [Visits EXCEPT ![w] = Authority!Visit("alarm", "refresh", Owners[s], s)]
    BY <1>3, <1>5
  <2>2. States[s] # "none"
    BY <1>5 DEF States, StateOf, HasRow
  <2>3. Authority!RaiseAlarm(w, s)
    BY <1>1, <2>1, <2>2, RowsRest
       DEF Authority!RaiseAlarm, Authority!At, Authority!Turns, Authority!NoneEnds,
           Visits, States, Owners
  <2> QED
    BY <2>3, VisitStepCounts DEF VisitStep
<1>6. CASE ~Answer(w, "refused")
  <2>1. \E s \in Sessions : \/ BeginRefresh(w, g, "user", s) /\ Live(s)
                            \/ BeginRefresh(w, g, "killAll", s) /\ HasRow(s)
    BY <1>6 DEF RefreshLookup, HoldersOf, FormerHoldersOf, Usable
  <2> QED
    BY <2>1, <1>4, <1>5
<1> QED
  BY <1>2, <1>6

LEMMA AuthenticateSeen ==
    ASSUME TypeInv, NEW w \in Workers, NEW op \in AuthOps, NEW a \in issued,
           Authenticate(w, op, a)
    PROVE  AuthorityStep
<1>1. UNCHANGED <<sessions, active>> /\ req[w].op = "none" /\ Visits[w].stage = "away"
  BY IdleIsAway DEF Authenticate, storeVars, Begins
<1>2. CASE Answer(w, "refused")
  BY <1>1, <1>2, LeavingStep
<1>3. CASE ~Answer(w, "refused")
  <2> DEFINE d == ~Live(a.sid)
             y == ~active[a.user]
             r == [Idle("none") EXCEPT !.op = op, !.call = "session",
                     !.user = a.user, !.sid = a.sid, !.t = now,
                     !.dead = d, !.suspended = y]
             x == Authority!Visit("named", op, a.user, a.sid)
  <2>1. req' = [req EXCEPT ![w] = r]
    BY <1>3 DEF Authenticate
  <2>2. VisitOf(r) = x
    <3>1. /\ r.call = "session" /\ r.op = op /\ r.user = a.user /\ r.sid = a.sid
          /\ r.reply = "none"
      BY DEF Idle
    <3> HIDE DEF r
    <3>2. StageOf(r) = "named"
      BY <3>1 DEF StageOf
    <3> QED
      BY <3>1, <3>2 DEF VisitOf, Authority!Visit
  <2>3. Visits' = [Visits EXCEPT ![w] = x]
    <3> HIDE DEF r, x
    <3> QED
      BY <2>1, <2>2, Turning, Zenon
  <2>4. op \in Authority!Routes /\ a.user \in Users /\ a.sid \in Sessions
    BY DEF AuthOps, Authority!Routes, TypeInv, TypeOK, TokenResponse
  <2>5. Authority!Come(w, op, a.user, a.sid)
    BY <1>1, <2>3, RowsRest
       DEF Authority!Come, Authority!At, Authority!Turns, Authority!NoneEnds, Visits, States, Owners
  <2> QED
    BY <2>4, <2>5, VisitStepCounts DEF VisitStep
<1> QED
  BY <1>2, <1>3

LEMMA CheckSessionSeen ==
    ASSUME TypeInv, ReqsGood, NEW w \in Workers, CheckSession(w)
    PROVE  AuthorityStep
<1>1. /\ UNCHANGED <<sessions, active>> /\ req[w].call = "session"
      /\ req[w].op \in AuthOps /\ req[w].sid \in Sessions
  BY DEF CheckSession, storeVars, At, TypeInv, RequestsOK, RequestOK
<1>2. CASE Answer(w, "refused")
  BY <1>1, <1>2, LeavingStep
<1>3. CASE Usable(req[w].sid) /\ Goto(w, "account")
  <2> DEFINE x == Authority!Visit("entered", req[w].op, req[w].user, req[w].sid)
  <2>1. Visits' = [Visits EXCEPT ![w] = x]
    <3>1. PICK r : /\ r.call = "account"
                   /\ Visits' = [Visits EXCEPT ![w] =
                        Authority!Visit(StageOf(r), req[w].op, req[w].user, req[w].sid)]
      BY <1>1, <1>3, GoingTo DEF AuthOps
    <3>2. StageOf(r) = "entered"
      BY <3>1 DEF StageOf
    <3> QED
      BY <3>1, <3>2, Zenon
  <2>2. States[req[w].sid] = "open" /\ Owners[req[w].sid] = req[w].user
    BY <1>1, <1>3 DEF States, Owners, StateOf, Usable, Live, ReqsGood, ReqGood, RowIn
  <2>3. Visits[w].stage = "named"
    BY <1>1, VisitParts DEF StageOf
  <2>4. Authority!Enter(w)
    BY <1>1, <2>1, <2>2, <2>3, RowsRest, VisitParts
       DEF Authority!Enter, Authority!At, Authority!Turns, Authority!NoneEnds,
           Visits, States, Owners
  <2> QED
    BY <2>4, VisitStepCounts DEF VisitStep
<1> QED
  BY <1>2, <1>3 DEF CheckSession

\* The second door, of a refresh and of the other routes.
LEMMA AdmitSeen ==
    ASSUME TypeInv, ReqsGood, NEW w \in Workers, req[w].call \in {"user", "account"},
           active[req[w].user], UNCHANGED <<sessions, active>>, NEW c,
           Goto(w, c) \/ \E x : GotoWith(w, c, x),
           c \in {"rotate", "list", "admin", "find", "kill"}
              \/ (c = "killAll" /\ req[w].op # "refresh")
    PROVE  AuthorityStep
<1>1. req[w].op # "none"
  BY DEF TypeInv, RequestsOK, RequestOK, AuthOps
<1>2. PICK r : /\ r.call = c /\ r.op = req[w].op
               /\ Visits' = [Visits EXCEPT ![w] =
                    Authority!Visit(StageOf(r), req[w].op, req[w].user, req[w].sid)]
  BY <1>1, GoingTo
<1>3. StageOf(r) = "admitted"
  BY <1>2 DEF StageOf
<1>4. Visits' = [Visits EXCEPT ![w] =
                   Authority!Visit("admitted", req[w].op, req[w].user, req[w].sid)]
  BY <1>2, <1>3, Zenon
<1>5. Visits[w].stage = "entered"
  BY VisitParts DEF StageOf
<1>6. Authority!Admit(w)
  BY <1>4, <1>5, RowsRest, VisitParts
     DEF Authority!Admit, Authority!At, Authority!Turns, Authority!NoneEnds,
         Visits, States, Owners
<1> QED
  BY <1>6, VisitStepCounts DEF VisitStep

LEMMA DoorsSeen ==
    ASSUME TypeInv, ReqsGood, NEW w \in Workers, RefreshUser(w) \/ CheckAccount(w)
    PROVE  AuthorityStep
<1>1. UNCHANGED <<sessions, active>> /\ req[w].call \in {"user", "account"}
  BY DEF RefreshUser, CheckAccount, storeVars, At
<1>2. CASE Answer(w, "refused")
  BY <1>1, <1>2, LeavingStep
<1>3. CASE ~Answer(w, "refused")
  <2>1. /\ active[req[w].user]
        /\ \E c : /\ Goto(w, c) \/ \E x : GotoWith(w, c, x)
                  /\ c \in {"rotate", "list", "admin", "find", "kill"}
                       \/ (c = "killAll" /\ req[w].op # "refresh")
    BY <1>3 DEF RefreshUser, CheckAccount, LogoutRoutes, SessionRoutes, AdminRoutes
  <2> QED
    BY <1>1, <2>1, AdmitSeen
<1> QED
  BY <1>2, <1>3

\* What visits are for.  A login inserts a row that is live, or fails to.
LEMMA LoginCreateSeen ==
    ASSUME TypeInv, NEW w \in Workers, LoginCreate(w)
    PROVE  AuthorityStep
<1>1. /\ UNCHANGED active /\ req[w].call = "create" /\ req[w].op = "login"
      /\ req[w].user \in Users /\ sessions \in [Sessions -> Row]
  BY DEF LoginCreate, At, TypeInv, TypeOK, StoreTypeOK, RequestsOK, RequestOK
<1>2. Visits[w].stage = "admitted" /\ Visits[w].op = "login" /\ Visits[w].user = req[w].user
  BY <1>1, VisitParts DEF StageOf
<1>3. CASE Answer(w, "refused") /\ UNCHANGED storeVars
  BY <1>1, <1>3, LeavingStep DEF storeVars
<1>4. ASSUME NEW s \in Sessions, Answer(w, "ok"),
             CreateSession(s, req[w].user, req[w].t + RefreshTtl)
      PROVE  AuthorityStep
  <2>1. Visits' = [Visits EXCEPT ![w] = Authority!Away("ok")]
    BY <1>4, Leaving
  <2>2. /\ sessions[s].status = "absent" /\ sessions'[s].status = "live"
        /\ sessions'[s].user = req[w].user
        /\ \A x \in Sessions : x # s => sessions'[x] = sessions[x]
    BY <1>1, <1>4 DEF CreateSession
  <2>3. States[s] = "none"
    BY <2>2 DEF States, StateOf
  <2>4. States' = [States EXCEPT ![s] = "open"]
    <3>1. StateOf(sessions'[s]) = "open"
      BY <2>2 DEF StateOf
    <3> QED
      BY <2>2, <3>1 DEF States
  <2>5. Owners' = [Owners EXCEPT ![s] = Visits[w].user]
    BY <1>2, <2>2 DEF Owners
  <2>6. Authority!Open(w, s)
    BY <1>1, <1>2, <2>1, <2>3, <2>4, <2>5
       DEF Authority!Open, Authority!At, Authority!Leaves, Authority!Turns,
           Visits, States, Owners
  <2> QED
    BY <2>6, VisitStepCounts DEF VisitStep
<1>5. ASSUME NEW s \in Sessions, Answer(w, "ok"), Faulty({"lost"}),
             CreateSessionUncommitted(s)
      PROVE  AuthorityStep
  <2>1. Visits' = [Visits EXCEPT ![w] = Authority!Away("ok")]
    BY <1>5, Leaving
  <2>2. /\ sessions[s].status = "absent" /\ sessions'[s].status = "void"
        /\ sessions'[s].user = sessions[s].user
        /\ \A x \in Sessions : x # s => sessions'[x] = sessions[x]
    BY <1>1, <1>5 DEF CreateSessionUncommitted, Row
  <2>3. States' = States
    <3>1. StateOf(sessions'[s]) = StateOf(sessions[s])
      BY <2>2 DEF StateOf
    <3> QED
      BY <2>2, <3>1 DEF States
  <2>4. Owners' = Owners
    BY <2>2 DEF Owners
  <2>5. Faulty({"error", "lost"})
    BY <1>5 DEF Faulty
  <2>6. Authority!LeaveUndone(w)
    BY <1>1, <1>2, <2>1, <2>3, <2>4, <2>5
       DEF Authority!LeaveUndone, Authority!At, Authority!Leaves, Authority!Turns,
           Authority!NoneEnds, Visits, States, Owners
  <2> QED
    BY <2>6, VisitStepCounts DEF VisitStep
<1> QED
  BY <1>1, <1>3, <1>4, <1>5 DEF LoginCreate

\* A rotation is seen as the renewal of a session that is open.
LEMMA RefreshRotateSeen ==
    ASSUME TypeInv, NEW w \in Workers, RefreshRotate(w)
    PROVE  AuthorityStep
<1>1. /\ UNCHANGED active /\ req[w].call = "rotate" /\ req[w].op = "refresh"
      /\ req[w].sid \in Sessions /\ sessions \in [Sessions -> Row]
  BY DEF RefreshRotate, At, TypeInv, TypeOK, StoreTypeOK, RequestsOK, RequestOK
<1>2. CASE Answer(w, "refused") /\ UNCHANGED storeVars
  BY <1>1, <1>2, LeavingStep DEF storeVars
<1>3. CASE UpdateRefreshToken(req[w].sid, req[w].t + RefreshTtl)
  <2> DEFINE s == req[w].sid
  <2>1. /\ Live(s) /\ sessions'[s].status = "live" /\ sessions'[s].user = sessions[s].user
        /\ \A x \in Sessions : x # s => sessions'[x] = sessions[x]
    BY <1>1, <1>3 DEF UpdateRefreshToken, Row, Live
  <2>2. States' = States
    <3>1. StateOf(sessions'[s]) = StateOf(sessions[s])
      BY <2>1 DEF StateOf, Live
    <3> QED
      BY <2>1, <3>1 DEF States
  <2>3. Owners' = Owners
    BY <2>1 DEF Owners
  <2>4. States[s] = "open"
    BY <1>1, <2>1 DEF States, StateOf, Live
  <2>5. Visits[w].stage = "admitted" /\ Visits[w].op = "refresh" /\ Visits[w].sid = s
    BY <1>1, VisitParts DEF StageOf
  <2>6. CASE Answer(w, "ok")
    <3>1. Visits' = [Visits EXCEPT ![w] = Authority!Away("ok")]
      BY <2>6, Leaving
    <3>2. Authority!Renew(w)
      BY <1>1, <2>2, <2>3, <2>4, <2>5, <3>1
         DEF Authority!Renew, Authority!At, Authority!Leaves, Authority!Turns,
             Authority!NoneEnds, Visits, States, Owners
    <3> QED
      BY <3>2, VisitStepCounts DEF VisitStep
  <2>7. CASE Answer(w, "refused")
    BY <1>1, <2>2, <2>3, <2>7, RefusedStep
  <2> QED
    BY <1>1, <1>3, <2>6, <2>7 DEF RefreshRotate
<1> QED
  BY <1>1, <1>2, <1>3 DEF RefreshRotate

LEMMA ListSeen ==
    ASSUME TypeInv, WayInv, NEW w \in Workers, ListSessions(w)
    PROVE  AuthorityStep
<1>1. /\ UNCHANGED <<sessions, active>> /\ req[w].call = "list" /\ req[w].op = "list"
      /\ Answer(w, "ok")
  BY DEF ListSessions, At, storeVars, WayInv, Way
<1>2. Visits' = [Visits EXCEPT ![w] = Authority!Away("ok")]
  BY <1>1, Leaving
<1>3. Visits[w].stage = "admitted" /\ Visits[w].op = "list"
  BY <1>1, VisitParts DEF StageOf
<1>4. Authority!List(w)
  BY <1>1, <1>2, <1>3, RowsRest
     DEF Authority!List, Authority!At, Authority!Leaves, Authority!Turns,
         Authority!NoneEnds, Visits, States, Owners
<1> QED
  BY <1>4, VisitStepCounts DEF VisitStep

\* An end: every session of S that is open, for a visit that may end S.
LEMMA EndSeen ==
    ASSUME NEW w \in Workers, NEW S, S \in Authority!Targets(Visits[w]), NEW a,
           Visits[w].stage = IF req[w].op = "refresh" THEN "alarm" ELSE "admitted",
           Visits' = [Visits EXCEPT ![w] = Authority!Away(a)],
           States' = [s \in Sessions |-> IF s \in S /\ States[s] = "open"
                                           THEN "ended" ELSE States[s]],
           Owners' = Owners, UNCHANGED active,
           \/ /\ a = "ok" /\ req[w].op # "refresh"
              /\ req[w].op = "logout" => States[req[w].sid] = "open"
           \/ a = "refused" /\ req[w].op \in {"logout", "refresh"}
    PROVE  AuthorityStep
<1>1. Visits[w].op = req[w].op /\ Visits[w].sid = req[w].sid
  BY VisitParts
<1>2. Authority!End(w, S)
  BY <1>1 DEF Authority!End, Authority!At, Authority!Leaves, Authority!Turns,
              Visits, States, Owners
<1> QED
  BY <1>2, VisitStepCounts DEF VisitStep

\* No end, answered with success.
LEMMA UndoneSeen ==
    ASSUME TypeInv, NEW w \in Workers, UNCHANGED <<sessions, active>>, Answer(w, "ok"),
           Faulty({"error", "lost"}), Visits[w].stage = "admitted",
           req[w].op \notin {"refresh", "logout"},
           NEW S, S \in Authority!Targets(Visits[w])
    PROVE  AuthorityStep
<1>1. Visits[w].op = req[w].op
  BY VisitParts
<1>2. Visits' = [Visits EXCEPT ![w] = Authority!Away("ok")]
  BY Leaving
<1>3. Authority!LeaveUndone(w)
  BY <1>1, <1>2, RowsRest
     DEF Authority!LeaveUndone, Authority!At, Authority!Leaves, Authority!Turns,
         Authority!NoneEnds, Visits, States, Owners
<1> QED
  BY <1>3, VisitStepCounts DEF VisitStep

\* What a visit may end.
LEMMA TargetsAre ==
    ASSUME NEW w \in Workers
    PROVE  /\ req[w].op = "logout" => {req[w].sid} \in Authority!Targets(Visits[w])
           /\ req[w].op = "revoke" =>
                 \A s \in Sessions : Owners[s] = req[w].user => {s} \in Authority!Targets(Visits[w])
           /\ req[w].op \in {"logoutAll", "refresh"} =>
                 {s \in Sessions : Owners[s] = req[w].user} \in Authority!Targets(Visits[w])
           /\ req[w].op = "adminRevoke" /\ req[w].user \in Admins =>
                 \A s \in Sessions : {s} \in Authority!Targets(Visits[w])
           /\ req[w].op = "adminRevokeAll" /\ req[w].user \in Admins =>
                 \A u \in Users : {s \in Sessions : Owners[s] = u} \in Authority!Targets(Visits[w])
<1> DEFINE x == Visits[w]
<1>1. x.op = req[w].op /\ x.user = req[w].user /\ x.sid = req[w].sid
  BY VisitParts
<1>2. \A u : Authority!Of(u) = {s \in Sessions : Owners[s] = u}
  BY DEF Authority!Of, Owners
<1> HIDE DEF x
<1>3. req[w].op = "logout" => {req[w].sid} \in Authority!Targets(x)
  BY <1>1 DEF Authority!Targets
<1>4. ASSUME req[w].op = "revoke", NEW s \in Sessions, Owners[s] = req[w].user
      PROVE  {s} \in Authority!Targets(x)
  BY <1>1, <1>2, <1>4 DEF Authority!Targets
<1>5. ASSUME req[w].op \in {"logoutAll", "refresh"}
      PROVE  {s \in Sessions : Owners[s] = req[w].user} \in Authority!Targets(x)
  BY <1>1, <1>2, <1>5 DEF Authority!Targets
<1>6. ASSUME req[w].op = "adminRevoke", req[w].user \in Admins, NEW s \in Sessions
      PROVE  {s} \in Authority!Targets(x)
  BY <1>1, <1>6 DEF Authority!Targets
<1>7. ASSUME req[w].op = "adminRevokeAll", req[w].user \in Admins, NEW u \in Users
      PROVE  {s \in Sessions : Owners[s] = u} \in Authority!Targets(x)
  BY <1>1, <1>2, <1>7 DEF Authority!Targets
<1> QED
  BY <1>3, <1>4, <1>5, <1>6, <1>7 DEF x

LEMMA CheckAdminSeen ==
    ASSUME TypeInv, ReqsGood, NEW w \in Workers, CheckAdmin(w)
    PROVE  AuthorityStep
<1>1. UNCHANGED <<sessions, active>> /\ req[w].call = "admin" /\ req[w].op \in AuthOps
  BY DEF CheckAdmin, storeVars, At, TypeInv, RequestsOK, RequestOK
<1>2. CASE Answer(w, "refused")
  BY <1>1, <1>2, LeavingStep
<1>3. ASSUME NEW c \in {"find", "killAll"}, Goto(w, c) \/ \E x : GotoWith(w, c, x)
      PROVE  AuthorityStep
  <2>1. PICK r : /\ r.call = c /\ r.op = req[w].op
                 /\ StageOf(r) = StageOf(req[w]) => Visits' = Visits
    BY <1>1, <1>3, GoingTo DEF AuthOps
  <2>2. StageOf(r) = StageOf(req[w])
    BY <1>1, <2>1 DEF StageOf, AuthOps
  <2> QED
    BY <1>1, <2>1, <2>2, UnseenStep
<1> QED
  BY <1>2, <1>3 DEF CheckAdmin

\* FindTarget is not seen, unless the session found is the caller's own and
\* has ended before: then this is the instant of its end for the caller.
LEMMA FindTargetSeen ==
    ASSUME TypeInv, ReqsGood, NEW w \in Workers, FindTarget(w)
    PROVE  AuthorityStep
<1>1. UNCHANGED <<sessions, active>> /\ req[w].call = "find" /\ req[w].op \in AuthOps
  BY DEF FindTarget, storeVars, At, TypeInv, RequestsOK, RequestOK
<1>2. CASE Answer(w, "refused")
  BY <1>1, <1>2, LeavingStep
<1>3. ASSUME NEW s, GotoWith(w, "kill", s)
      PROVE  AuthorityStep
  <2>1. PICK r : /\ r.call = "kill" /\ r.op = req[w].op
                 /\ StageOf(r) = StageOf(req[w]) => Visits' = Visits
    BY <1>1, <1>3, GoingTo DEF AuthOps
  <2>2. StageOf(r) = StageOf(req[w])
    BY <1>1, <2>1 DEF StageOf
  <2> QED
    BY <1>1, <2>1, <2>2, UnseenStep
<1>4. ASSUME NEW s \in Sessions, req[w].op = "revoke", sessions[s].user = req[w].user,
             Revoked(s), Answer(w, "ok")
      PROVE  AuthorityStep
  <2>1. {s} \in Authority!Targets(Visits[w])
    BY <1>4, TargetsAre DEF Owners
  <2>2. Visits' = [Visits EXCEPT ![w] = Authority!Away("ok")] /\ Visits[w].stage = "admitted"
    BY <1>1, <1>4, Leaving, VisitParts DEF StageOf
  <2>3. States' = States /\ Owners' = Owners /\ States[s] = "ended"
    BY <1>1, <1>4, RowsRest DEF States, StateOf, Revoked
  <2>4. States' = [x \in Sessions |-> IF x \in {s} /\ States[x] = "open" THEN "ended" ELSE States[x]]
    BY <2>3 DEF States
  <2> QED
    BY <1>1, <1>4, <2>1, <2>2, <2>3, <2>4, EndSeen
<1> QED
  BY <1>2, <1>3, <1>4 DEF FindTarget, FindById

LEMMA KillSeen ==
    ASSUME TypeInv, WayInv, NEW w \in Workers, Kill(w)
    PROVE  AuthorityStep
<1> DEFINE s == req[w].target
<1>1. /\ UNCHANGED active /\ req[w].call = "kill" /\ s \in Sessions
      /\ req[w].op \in {"logout", "revoke", "adminRevoke"}
      /\ req[w].op = "logout" => s = req[w].sid
  BY DEF Kill, At, TypeInv, RequestsOK, RequestOK, WayInv, Way
<1>2. {s} \in Authority!Targets(Visits[w])
  BY <1>1, TargetsAre DEF WayInv, Way, Owners
<1>3. Visits[w].stage = "admitted"
  BY <1>1, VisitParts DEF StageOf
<1>4. CASE RevokeSession(s)
  <2>1. /\ States' = [x \in Sessions |-> IF x \in {s} /\ States[x] = "open"
                                           THEN "ended" ELSE States[x]]
        /\ Owners' = Owners
    BY <1>1, <1>4, RevocationEnds DEF RevokeSession
  <2>2. PICK a : /\ Answer(w, a)
                 /\ \/ a = "ok" /\ (req[w].op = "logout" => Live(s))
                    \/ a = "refused" /\ req[w].op = "logout"
    <3>1. CASE Answer(w, IF Live(s) THEN "ok" ELSE Unrevoked(req[w].op))
      BY <1>1, <3>1 DEF Unrevoked
    <3>2. CASE Answer(w, Unrevoked(req[w].op))
      BY <1>1, <3>2 DEF Unrevoked
    <3>3. CASE UNCHANGED storeVars /\ Answer(w, Unrevoked(req[w].op))
      BY <1>1, <3>3 DEF Unrevoked
    <3> QED
      BY <3>1, <3>2, <3>3 DEF Kill
  <2>3. Live(s) => States[s] = "open"
    BY <1>1 DEF States, StateOf, Live
  <2>4. Visits' = [Visits EXCEPT ![w] = Authority!Away(a)]
    BY <2>2, Leaving
  <2> HIDE DEF s
  <2> QED
    BY <1>1, <1>2, <1>3, <2>1, <2>2, <2>3, <2>4, EndSeen
<1>5. CASE /\ Faulty({"error", "lost"}) /\ UNCHANGED storeVars
           /\ Answer(w, Unrevoked(req[w].op))
  <2>1. UNCHANGED sessions
    BY <1>5 DEF storeVars
  <2>2. CASE req[w].op = "logout"
    BY <1>1, <1>5, <2>1, <2>2, LeavingStep DEF Unrevoked
  <2>3. CASE req[w].op # "logout"
    BY <1>1, <1>2, <1>3, <1>5, <2>1, <2>3, UndoneSeen DEF Unrevoked
  <2> QED
    BY <2>2, <2>3
<1> QED
  BY <1>4, <1>5 DEF Kill

LEMMA KillAllSeen ==
    ASSUME TypeInv, WayInv, NEW w \in Workers, KillAll(w)
    PROVE  AuthorityStep
<1> DEFINE u == req[w].target
           S == {s \in Sessions : Owners[s] = u}
           a == IF req[w].op = "refresh" THEN "refused" ELSE "ok"
<1>1. /\ UNCHANGED active /\ req[w].call = "killAll" /\ u \in Users /\ Answer(w, a)
      /\ req[w].op \in {"logoutAll", "adminRevokeAll", "refresh"}
  BY DEF KillAll, At, TypeInv, RequestsOK, RequestOK, WayInv, Way
<1>2. S \in Authority!Targets(Visits[w])
  <2>1. CASE req[w].op \in {"logoutAll", "refresh"} /\ u = req[w].user
    BY <2>1, TargetsAre
  <2>2. CASE req[w].op = "adminRevokeAll" /\ req[w].user \in Admins
    BY <1>1, <2>2, TargetsAre
  <2> QED
    BY <1>1, <2>1, <2>2 DEF WayInv, Way
<1>3. Visits[w].stage = IF req[w].op = "refresh" THEN "alarm" ELSE "admitted"
  BY <1>1, VisitParts DEF StageOf
<1>4. CASE RevokeAllUserSessions(u)
  <2>1. LiveSessionsOf(u) = {t \in S : Live(t)} /\ S \subseteq Sessions
    BY DEF LiveSessionsOf, Owners
  <2>2. RevokeRows({t \in S : Live(t)})
    BY <1>4, <2>1, Zenon DEF RevokeAllUserSessions
  <2>3. Visits' = [Visits EXCEPT ![w] = Authority!Away(a)]
    BY <1>1, Leaving
  <2>4. \/ /\ a = "ok" /\ req[w].op # "refresh"
           /\ req[w].op = "logout" => States[req[w].sid] = "open"
        \/ a = "refused" /\ req[w].op \in {"logout", "refresh"}
    BY <1>1
  <2> HIDE DEF S, a, u
  <2>5. /\ States' = [s \in Sessions |-> IF s \in S /\ States[s] = "open"
                                           THEN "ended" ELSE States[s]]
        /\ Owners' = Owners
    BY <2>1, <2>2, RevocationEnds
  <2> QED
    BY <1>1, <1>2, <1>3, <2>3, <2>4, <2>5, EndSeen
<1>5. CASE Faulty({"error", "lost"}) /\ UNCHANGED storeVars
  <2>1. UNCHANGED sessions
    BY <1>5 DEF storeVars
  <2>2. CASE req[w].op = "refresh"
    BY <1>1, <2>1, <2>2, LeavingStep
  <2>3. CASE req[w].op # "refresh"
    <3>1. Answer(w, "ok") /\ Visits[w].stage = "admitted" /\ req[w].op # "logout"
      BY <1>1, <1>3, <2>3
    <3> HIDE DEF S
    <3> QED
      BY <1>1, <1>2, <1>5, <2>1, <2>3, <3>1, UndoneSeen
  <2> QED
    BY <2>2, <2>3
<1> QED
  BY <1>4, <1>5 DEF KillAll

\* The environment: only SetActive is seen.
LEMMA SetActiveSeen ==
    ASSUME TypeInv, NEW u \in Suspendable, SetActive(u)
    PROVE  AuthorityStep
<1>1. UNCHANGED sessions /\ active' = [active EXCEPT ![u] = ~active[u]] /\ u \in Users
  BY AuthAssumption DEF SetActive, storeVars
<1>2. Visits' = Visits
  <2>1. ASSUME NEW w \in Workers
        PROVE  VisitOf(req'[w]) = VisitOf(req[w])
    <3>1. req'[w] = req[w] \/ \E b : req'[w] = [req[w] EXCEPT !.suspended = b]
      BY DEF SetActive
    <3>2. ASSUME NEW b, req'[w] = [req[w] EXCEPT !.suspended = b]
          PROVE  /\ req'[w].op = req[w].op /\ req'[w].call = req[w].call
                 /\ req'[w].user = req[w].user /\ req'[w].sid = req[w].sid
                 /\ req'[w].reply = req[w].reply
      BY <3>2 DEF TypeInv, TypeOK, Request
    <3> QED
      BY <3>1, <3>2 DEF VisitOf, StageOf
  <2>2. Visits' = [w \in Workers |-> VisitOf(req'[w])]
    BY DEF Visits
  <2> QED
    BY <2>1, <2>2 DEF Visits
<1>3. Authority!SetActive(u)
  BY <1>1, <1>2, RowsRest DEF Authority!SetActive, Authority!NoneEnds, Visits, States, Owners
<1> QED
  BY <1>1, <1>3 DEF AuthorityStep, Authority!Next

LEMMA EveryStepSeen ==
    ASSUME TypeInv, ReqsGood, WayInv, [Next]_vars
    PROVE  AuthorityStep
<1>1. ASSUME NEW w \in Workers, Step(w)
      PROVE  AuthorityStep
  BY <1>1, LoginLookupSeen, LoginCreateSeen, RefreshLookupSeen, DoorsSeen,
     RefreshRotateSeen, AuthenticateSeen, CheckSessionSeen, ListSeen, CheckAdminSeen,
     FindTargetSeen, KillSeen, KillAllSeen DEF Step
<1>2. CASE Tick \/ Cleanup \/ UNCHANGED vars
  <2>1. UNCHANGED <<sessions, active, req>>
    BY <1>2 DEF Tick, Cleanup, CleanupExpiredRevocations, vars, storeVars
  <2> QED
    BY <2>1, UnseenStep DEF Visits
<1> QED
  BY <1>1, <1>2, SetActiveSeen DEF Next

-----------------------------------------------------------------------------
(* Every call is made for what it is made for.                             *)

\* The request of a worker after its step.
LEMMA WayOfStep ==
    ASSUME TypeInv, ReqsGood, NEW w \in Workers, Step(w)
    PROVE  Way(req'[w], sessions')
<1>1. /\ req \in [Workers -> Request] /\ req[w] \in Request
      /\ RequestOK(req[w]) /\ ReqGood(req[w], sessions, lastCred, now)
  BY DEF TypeInv, TypeOK, RequestsOK, ReqsGood
<1>2. ASSUME req'[w].call \notin {"list", "kill", "killAll"}
      PROVE  Way(req'[w], sessions')
  BY <1>2 DEF Way
<1>3. ASSUME NEW x, Answer(w, x)
      PROVE  Way(req'[w], sessions')
  <2>1. req'[w].call = "idle"
    BY <1>1, <1>3 DEF Answer, Idle
  <2> QED
    BY <1>2, <2>1
<1>4. ASSUME NEW c, Goto(w, c)
      PROVE  req'[w].call = c /\ req'[w].op = req[w].op
  BY <1>1, <1>4 DEF Goto, Request
<1>5. ASSUME NEW c, NEW x, GotoWith(w, c, x)
      PROVE  /\ req'[w].call = c /\ req'[w].op = req[w].op /\ req'[w].target = x
             /\ req'[w].user = req[w].user /\ req'[w].sid = req[w].sid
  BY <1>1, <1>5 DEF GotoWith, Request
<1>6. ASSUME NEW u, LoginLookup(w, u)
      PROVE  Way(req'[w], sessions')
  <2>1. CASE ~Answer(w, "refused")
    <3>1. req'[w].call = "create"
      BY <1>1, <1>6, <2>1 DEF LoginLookup, Idle
    <3> QED
      BY <1>2, <3>1
  <2> QED
    BY <1>3, <2>1
<1>7. ASSUME NEW g, RefreshLookup(w, g)
      PROVE  Way(req'[w], sessions')
  <2>1. ASSUME NEW s, NEW c \in {"user", "killAll"}, BeginRefresh(w, g, c, s)
        PROVE  Way(req'[w], sessions')
    <3>1. /\ req'[w].call = c /\ req'[w].op = "refresh"
          /\ req'[w].user = sessions[s].user
          /\ c = "killAll" => req'[w].target = sessions[s].user
      BY <1>1, <2>1 DEF BeginRefresh, Idle
    <3> QED
      BY <3>1 DEF Way
  <2> QED
    BY <1>3, <1>7, <2>1 DEF RefreshLookup
<1>8. ASSUME NEW op, NEW a, Authenticate(w, op, a)
      PROVE  Way(req'[w], sessions')
  <2>1. CASE ~Answer(w, "refused")
    <3> DEFINE d == ~Live(a.sid)
               y == ~active[a.user]
               r == [Idle("none") EXCEPT !.op = op, !.call = "session",
                       !.user = a.user, !.sid = a.sid, !.t = now,
                       !.dead = d, !.suspended = y]
    <3>1. req' = [req EXCEPT ![w] = r]
      BY <1>8, <2>1 DEF Authenticate
    <3>2. r.call = "session"
      BY DEF Idle
    <3> HIDE DEF r
    <3>3. req'[w].call = "session"
      BY <1>1, <3>1, <3>2
    <3> QED
      BY <1>2, <3>3
  <2> QED
    BY <1>3, <2>1
<1>9. CASE \/ LoginCreate(w) \/ RefreshUser(w) \/ RefreshRotate(w)
           \/ CheckSession(w) \/ ListSessions(w) \/ Kill(w) \/ KillAll(w)
  <2>1. (\E x : Answer(w, x)) \/ Goto(w, "rotate") \/ Goto(w, "account")
    BY <1>9 DEF LoginCreate, RefreshUser, RefreshRotate, CheckSession, ListSessions,
                Kill, KillAll
  <2> QED
    BY <1>2, <1>3, <1>4, <2>1
<1>10. CASE CheckAccount(w)
  <2>1. CASE req[w].op = "list" /\ Goto(w, "list")
    BY <1>4, <2>1 DEF Way
  <2>2. CASE Goto(w, "find") \/ Goto(w, "admin")
    BY <1>2, <1>4, <2>2
  <2>3. CASE LogoutRoutes(w)
    BY <1>5, <2>3 DEF LogoutRoutes, Way
  <2> QED
    BY <1>3, <1>10, <2>1, <2>2, <2>3 DEF CheckAccount, SessionRoutes, AdminRoutes
<1>11. CASE CheckAdmin(w)
  <2>1. CASE Goto(w, "find")
    BY <1>2, <1>4, <2>1
  <2>2. ASSUME NEW u, HasPermission(req[w].user), req[w].op = "adminRevokeAll",
               GotoWith(w, "killAll", u)
        PROVE  Way(req'[w], sessions')
    BY <1>5, <2>2 DEF Way, HasPermission
  <2> QED
    BY <1>3, <1>11, <2>1, <2>2 DEF CheckAdmin
<1>12. CASE FindTarget(w)
  <2>1. req[w].call = "find" /\ sessions' = sessions
    BY <1>12 DEF FindTarget, At, storeVars
  <2>2. ASSUME NEW s, HasRow(s), GotoWith(w, "kill", s),
               req[w].op = "adminRevoke" \/ (req[w].op = "revoke" /\ sessions[s].user = req[w].user)
        PROVE  Way(req'[w], sessions')
    BY <1>1, <1>5, <2>1, <2>2 DEF Way, RowIn, HasRow, ReqGood
  <2> QED
    BY <1>3, <1>12, <2>2 DEF FindTarget, FindById
<1> QED
  BY <1>6, <1>7, <1>8, <1>9, <1>10, <1>11, <1>12 DEF Step

LEMMA WayStep ==
    ASSUME TypeInv, ReqsGood, WayInv, [Next]_vars
    PROVE  WayInv'
<1> SUFFICES ASSUME NEW w \in Workers
             PROVE  Way(req'[w], sessions')
  BY DEF WayInv
<1>1. /\ req \in [Workers -> Request] /\ RequestOK(req[w])
      /\ ReqGood(req[w], sessions, lastCred, now) /\ Way(req[w], sessions)
      /\ Keeps(sessions, sessions', lastCred)
  BY TablesSteps, TablesKeep DEF TypeInv, TypeOK, RequestsOK, ReqsGood, WayInv
<1>2. Way(req[w], sessions')
  BY <1>1 DEF Way, Keeps, RequestOK, RowIn
<1>3. CASE ~Step(w)
  <2>1. CASE req'[w] = req[w]
    BY <1>2, <2>1
  <2>2. ASSUME NEW u, SetActive(u)
        PROVE  Way(req'[w], sessions')
    <3>1. req'[w] = req[w] \/ \E b : req'[w] = [req[w] EXCEPT !.suspended = b]
      BY <2>2 DEF SetActive
    <3>2. ASSUME NEW b, req'[w] = [req[w] EXCEPT !.suspended = b]
          PROVE  /\ req'[w].op = req[w].op /\ req'[w].call = req[w].call
                 /\ req'[w].user = req[w].user /\ req'[w].sid = req[w].sid
                 /\ req'[w].target = req[w].target
      BY <1>1, <3>2 DEF Request
    <3> QED
      BY <1>2, <3>1, <3>2 DEF Way
  <2>3. ASSUME NEW v \in Workers, Step(v)
        PROVE  req'[w] = req[w]
    BY <1>1, <1>3, <2>3, WorkerStep
  <2> QED
    BY <2>1, <2>2, <2>3 DEF Next, Tick, Cleanup, vars
<1> QED
  BY <1>3, WayOfStep

LEMMA WayInvariance == Spec => []WayInv
<1>1. Init => WayInv
  BY DEF Init, WayInv, Way, Idle
<1>2. AuthInv /\ WayInv /\ [Next]_vars => WayInv'
  BY WayStep DEF AuthInv
<1> QED
  BY <1>1, <1>2, AuthInvariance, PTL DEF Spec

\* ActsAsAuthority: requests that overlap at every repository call, under any
\* faults, with tokens that are stale, stolen or replayed, implement visits to
\* an authority that knows sessions, owners and accounts only; for any number of
\* workers, users, sessions and credentials.
THEOREM SessionsActAsAuthority == Spec => ActsAsAuthority
<1>1. ASSUME Init
      PROVE  Authority!Init
  <2>1. States = [s \in Sessions |-> "none"]
    BY <1>1 DEF Init, StoreInit, NoRow, States, StateOf
  <2>2. Owners = [s \in Sessions |-> NoUser]
    BY <1>1 DEF Init, StoreInit, NoRow, Owners
  <2>3. Visits = [w \in Workers |-> Authority!Away("none")]
    BY <1>1 DEF Init, Idle, VisitOf, StageOf, Visits, Authority!Away
  <2> QED
    BY <1>1, <2>1, <2>2, <2>3 DEF Init, Authority!Init, States, Owners, Visits
<1>2. ASSUME AuthInv, WayInv, [Next]_vars
      PROVE  Authority!Next \/ UNCHANGED <<[s \in Sessions |-> StateOf(sessions[s])],
                                           [s \in Sessions |-> sessions[s].user], active,
                                           [w \in Workers |-> VisitOf(req[w])]>>
  BY <1>2, EveryStepSeen DEF AuthInv, AuthorityStep, States, Owners, Visits
<1> QED
  BY <1>1, <1>2, AuthInvariance, WayInvariance, PTL
     DEF Spec, ActsAsAuthority, Authority!Spec
=============================================================================
