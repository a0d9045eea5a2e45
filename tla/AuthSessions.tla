---------------------------- MODULE AuthSessions ----------------------------
(***************************************************************************)
(* The requests that create, rotate, use and revoke sessions: the use      *)
(* cases AuthUseCases::login, refresh, logout, logoutAll, the use cases of *)
(* SessionUseCases, and HttpResponseHelper::extractAuthenticatedUser, that *)
(* guards the authenticated routes.                                        *)
(*                                                                         *)
(* Crow runs each request on a worker thread.  A request makes several     *)
(* repository calls, each a transaction of its own, and nothing is held    *)
(* between two of them: requests interleave at every call.  One action     *)
(* below is one repository call and the code up to the next one.           *)
(*                                                                         *)
(* A repository call can fail.  The repositories catch the exception and   *)
(* return the value that stands for "nothing found" or "not done":         *)
(*   "error"  the call throws before it changes or reads anything;         *)
(*   "lost"   the statements ran, the commit did not take effect;          *)
(*   "doubt"  the commit took effect and the call throws all the same,     *)
(*            because the connection broke before its answer came.         *)
(***************************************************************************)
EXTENDS SessionStore

CONSTANTS Workers,    \* the requests that can be in progress together
          Admins,     \* the users whose role carries the session permissions
          NoId,       \* "no session" and "no target" in a request
          Ops,        \* the operations clients ask for in this instance
          DbFaults,   \* the faults of repository calls in this instance
          Suspendable,\* the users whose is_active flag is changed
          AccessTtl,  \* 900 s
          RefreshTtl, \* 7 days
          MaxDelay    \* bound: how long a request is in progress

AuthOps == {"list", "logout", "logoutAll", "revoke", "adminRevoke",
            "adminRevokeAll"}

ASSUME AuthAssumption ==
    /\ Admins \subseteq Users
    /\ Suspendable \subseteq Users
    /\ NoId \notin Sessions \cup Users
    /\ Ops \subseteq AuthOps \cup {"login", "refresh"}
    /\ DbFaults \subseteq {"error", "lost", "doubt"}
    /\ {AccessTtl, RefreshTtl, MaxDelay} \subseteq Nat
    /\ AccessTtl + MaxDelay <= RefreshTtl

VARIABLES active,    \* users.is_active
          req,       \* the request each worker is processing
          issued,    \* every TokenResponse sent to a client
          presented, \* the refresh tokens presented so far, until
          replayed   \* one of them is presented a second time

vars == <<storeVars, active, req, issued, presented, replayed>>

(***************************************************************************)
(* A request: its operation, the next repository call, the user and the    *)
(* session it concerns, the refresh token presented, what it is about to   *)
(* revoke, and the instant it began.  dead and suspended are history: the  *)
(* session was not live (the account was not active) when the request      *)
(* began and has not been since.  reply is the outcome of the last request *)
(* of the worker.                                                          *)
(***************************************************************************)
Calls == {"idle", "create", "user", "rotate", "session", "account", "list",
          "admin", "find", "kill", "killAll"}

Request == [op        : AuthOps \cup {"login", "refresh", "none"},
            call      : Calls,
            user      : Users \cup {NoUser},
            sid       : Sessions \cup {NoId},
            cred      : Creds \cup {NoCred},
            target    : Sessions \cup Users \cup {NoId},
            t         : Nat,
            dead      : BOOLEAN,
            suspended : BOOLEAN,
            reply     : {"none", "ok", "refused"}]

Idle(r) == [op |-> "none", call |-> "idle", user |-> NoUser, sid |-> NoId,
            cred |-> NoCred, target |-> NoId, t |-> 0, dead |-> FALSE,
            suspended |-> FALSE, reply |-> r]

\* A TokenResponse: the access token's claims sid, sub, jti and exp, the
\* refresh token (cred as well) and the refresh token it was exchanged for.
TokenResponse == [sid : Sessions, user : Users, cred : Creds, exp : Nat,
                  from : Creds \cup {NoCred}]

HeldCreds == {a.cred : a \in issued}

\* All variables have their types.
TypeOK ==
    /\ StoreTypeOK
    /\ active \in [Users -> BOOLEAN]
    /\ req \in [Workers -> Request]
    /\ issued \subseteq TokenResponse
    /\ presented \subseteq Creds
    /\ replayed \in BOOLEAN

Init ==
    /\ StoreInit
    /\ active = [u \in Users |-> TRUE]
    /\ req = [w \in Workers |-> Idle("none")]
    /\ issued = {}
    /\ presented = {}
    /\ replayed = FALSE

-----------------------------------------------------------------------------
Begins(w, op) == req[w].op = "none" /\ op \in Ops
At(w, call)   == req[w].call = call

Answer(w, r)  == req' = [req EXCEPT ![w] = Idle(r)]
Goto(w, call) == req' = [req EXCEPT ![w].call = call]
GotoWith(w, call, target) ==
    req' = [req EXCEPT ![w] = [req[w] EXCEPT !.call = call, !.target = target]]

Faulty(F) == F \cap DbFaults # {}

\* The token pair for session s of user u, in exchange for token f.
Issue(s, u, f) ==
    issued' = issued \cup
                {[sid |-> s, user |-> u, cred |-> Fresh,
                  exp |-> now + AccessTtl, from |-> f]}

-----------------------------------------------------------------------------
(* AuthUseCases::login, from a correct password on.                        *)

LoginLookup(w, u) ==
    /\ Begins(w, "login")
    /\ \/ /\ active[u]
          /\ req' = [req EXCEPT ![w] =
                       [Idle("none") EXCEPT !.op = "login", !.call = "create",
                                            !.user = u, !.t = now]]
       \/ /\ ~active[u] \/ Faulty({"error"})
          /\ Answer(w, "refused")
    /\ UNCHANGED <<storeVars, active, issued, presented, replayed>>

\* createSession.  Once the id is known the login goes on, committed or not.
LoginCreate(w) ==
    /\ At(w, "create")
    /\ \/ \E s \in Sessions :
            /\ \/ CreateSession(s, req[w].user, req[w].t + RefreshTtl)
               \/ Faulty({"lost"}) /\ CreateSessionUncommitted(s)
            /\ Issue(s, req[w].user, NoCred)
            /\ Answer(w, "ok")
       \/ /\ Faulty({"error"})
          /\ Answer(w, "refused")
          /\ UNCHANGED <<storeVars, issued>>
    /\ UNCHANGED <<active, presented, replayed>>

-----------------------------------------------------------------------------
(* AuthUseCases::refresh.                                                  *)

BeginRefresh(w, g, call, s) ==
    req' = [req EXCEPT ![w] =
              [Idle("none") EXCEPT !.op = "refresh", !.call = call,
                 !.user = sessions[s].user, !.sid = s, !.cred = g,
                 !.target = IF call = "killAll" THEN sessions[s].user ELSE NoId,
                 !.t = now]]

\* Mutant: the token before the current one is still good for a refresh.
MutRefreshLookup(w, g) ==
    /\ Begins(w, "refresh")
    /\ g \in HeldCreds
    /\ \E s \in HoldersOf(g) \cup FormerHoldersOf(g) :
          Usable(s) /\ BeginRefresh(w, g, "user", s)
    /\ UNCHANGED <<storeVars, active, issued, presented, replayed>>

\* findByRefreshTokenHash and the checks of what it returns.
RefreshLookup(w, g) ==
    /\ Begins(w, "refresh")
    /\ g \in HeldCreds
    /\ replayed' = (replayed \/ g \in presented)
    /\ presented' = IF replayed' THEN {} ELSE presented \cup {g}
    /\ \/ \E s \in HoldersOf(g) :
            \/ Revoked(s) /\ BeginRefresh(w, g, "killAll", s)
            \/ Usable(s)  /\ BeginRefresh(w, g, "user", s)
            \/ Live(s) /\ Expired(s) /\ Answer(w, "refused")
       \/ /\ HoldersOf(g) = {}
          /\ \E s \in FormerHoldersOf(g) : BeginRefresh(w, g, "killAll", s)
       \/ /\ HoldersOf(g) \cup FormerHoldersOf(g) = {} \/ Faulty({"error"})
          /\ Answer(w, "refused")
    /\ UNCHANGED <<storeVars, active, issued>>

\* findById of the session's user.
RefreshUser(w) ==
    /\ At(w, "user")
    /\ \/ active[req[w].user] /\ Goto(w, "rotate")
       \/ /\ ~active[req[w].user] \/ Faulty({"error"})
          /\ Answer(w, "refused")
    /\ UNCHANGED <<storeVars, active, issued, presented, replayed>>

\* Mutant: the result of updateRefreshToken is not looked at.
MutRefreshRotate(w) ==
    LET s == req[w].sid IN
    /\ At(w, "rotate")
    /\ \/ UpdateRefreshToken(s, req[w].t + RefreshTtl)
       \/ ~Live(s) /\ UNCHANGED storeVars
    /\ Issue(s, req[w].user, req[w].cred)
    /\ Answer(w, "ok")
    /\ UNCHANGED <<active, presented, replayed>>

\* updateRefreshToken: tokens are sent only when it reports that it changed
\* the row; "Refresh collision" otherwise.
RefreshRotate(w) ==
    LET s == req[w].sid IN
    /\ At(w, "rotate")
    /\ \/ /\ UpdateRefreshToken(s, req[w].t + RefreshTtl)
          /\ \/ Issue(s, req[w].user, req[w].cred) /\ Answer(w, "ok")
             \/ Faulty({"doubt"}) /\ Answer(w, "refused") /\ UNCHANGED issued
       \/ /\ ~Live(s) \/ Faulty({"error", "lost"})
          /\ Answer(w, "refused")
          /\ UNCHANGED <<storeVars, issued>>
    /\ UNCHANGED <<active, presented, replayed>>

-----------------------------------------------------------------------------
(* HttpResponseHelper::extractAuthenticatedUser.                           *)

\* validateAccessToken and isTokenRevoked, that answers false on an error.
Authenticate(w, op, a) ==
    /\ Begins(w, op)
    /\ op \in AuthOps
    /\ a \in issued
    /\ now < a.exp
    /\ \/ /\ ~IsTokenRevoked(a.cred) \/ Faulty({"error"})
          /\ req' = [req EXCEPT ![w] =
                       [Idle("none") EXCEPT !.op = op, !.call = "session",
                          !.user = a.user, !.sid = a.sid, !.t = now,
                          !.dead = ~Live(a.sid),
                          !.suspended = ~active[a.user]]]
       \/ IsTokenRevoked(a.cred) /\ Answer(w, "refused")
    /\ UNCHANGED <<storeVars, active, issued, presented, replayed>>

\* Mutant: the session's expiry is checked, its revocation is not.
MutCheckSession(w) ==
    /\ At(w, "session")
    /\ \/ HasRow(req[w].sid) /\ ~Expired(req[w].sid) /\ Goto(w, "account")
       \/ Answer(w, "refused")
    /\ UNCHANGED <<storeVars, active, issued, presented, replayed>>

\* findById of the session the token names.
CheckSession(w) ==
    /\ At(w, "session")
    /\ \/ Usable(req[w].sid) /\ Goto(w, "account")
       \/ /\ ~Usable(req[w].sid) \/ Faulty({"error"})
          /\ Answer(w, "refused")
    /\ UNCHANGED <<storeVars, active, issued, presented, replayed>>

\* AuthController: the routes that end sessions of the caller.
LogoutRoutes(w) ==
    \/ req[w].op = "logout"    /\ GotoWith(w, "kill", req[w].sid)
    \/ req[w].op = "logoutAll" /\ GotoWith(w, "killAll", req[w].user)

\* SessionController: the routes on the caller's list of sessions.
SessionRoutes(w) ==
    \/ req[w].op = "list"   /\ Goto(w, "list")
    \/ req[w].op = "revoke" /\ Goto(w, "find")

\* AdminSessionController reads the user again before the use case decides.
AdminRoutes(w) ==
    req[w].op \in {"adminRevoke", "adminRevokeAll"} /\ Goto(w, "admin")

\* findById of the user the token names; the handler takes over from here.
CheckAccount(w) ==
    /\ At(w, "account")
    /\ \/ /\ active[req[w].user]
          /\ LogoutRoutes(w) \/ SessionRoutes(w) \/ AdminRoutes(w)
       \/ /\ ~active[req[w].user] \/ Faulty({"error"})
          /\ Answer(w, "refused")
    /\ UNCHANGED <<storeVars, active, issued, presented, replayed>>

-----------------------------------------------------------------------------
(* The handlers of the authenticated routes.                               *)

\* A route that only reads, such as getUserSessions; it has no error answer.
ListSessions(w) ==
    /\ At(w, "list")
    /\ Answer(w, "ok")
    /\ UNCHANGED <<storeVars, active, issued, presented, replayed>>

\* roleHasPermission, for the permissions on the sessions of others.
HasPermission(u) == u \in Admins

\* The second findById of the user, and the use case's hasPermission of the
\* role that it reads.
CheckAdmin(w) ==
    /\ At(w, "admin")
    /\ \/ /\ HasPermission(req[w].user)
          /\ \/ req[w].op = "adminRevoke" /\ Goto(w, "find")
             \/ /\ req[w].op = "adminRevokeAll"
                /\ \E u \in Users : GotoWith(w, "killAll", u)
       \/ /\ ~HasPermission(req[w].user) \/ Faulty({"error"})
          /\ Answer(w, "refused")
    /\ UNCHANGED <<storeVars, active, issued, presented, replayed>>

\* Mutant: the check of the owner is missing.
MutFindTarget(w) ==
    /\ At(w, "find")
    /\ \E h \in Sessions \cup Creds : \E s \in FindById(h) :
          IF req[w].op = "revoke" /\ Revoked(s) THEN Answer(w, "ok")
                                                ELSE GotoWith(w, "kill", s)
    /\ UNCHANGED <<storeVars, active, issued, presented, replayed>>

\* revokeUserSession and revokeAdminSession up to the revocation: the client
\* names the session by its id or by its jti (findById, then findByJti).
FindTarget(w) ==
    /\ At(w, "find")
    /\ \/ \E h \in Sessions \cup Creds : \E s \in FindById(h) :
            LET own == sessions[s].user = req[w].user
            IN  \/ req[w].op = "adminRevoke"          /\ GotoWith(w, "kill", s)
                \/ req[w].op = "revoke" /\ own /\ Live(s)
                                                      /\ GotoWith(w, "kill", s)
                \/ req[w].op = "revoke" /\ own /\ Revoked(s) /\ Answer(w, "ok")
                \/ req[w].op = "revoke" /\ ~own       /\ Answer(w, "refused")
       \/ /\ Faulty({"error"}) \/ \E h \in Sessions \cup Creds : FindById(h) = {}
          /\ Answer(w, "refused")
    /\ UNCHANGED <<storeVars, active, issued, presented, replayed>>

\* The answer when revokeSession reports no change: logout passes it on, the
\* two others drop it and answer that the session is revoked.
Unrevoked(op) == IF op = "logout" THEN "refused" ELSE "ok"

\* revokeSession, for logout, revokeUserSession and revokeAdminSession.
Kill(w) ==
    LET s == req[w].target IN
    /\ At(w, "kill")
    /\ \/ /\ RevokeSession(s)
          /\ \/ Answer(w, IF Live(s) THEN "ok" ELSE Unrevoked(req[w].op))
             \/ Faulty({"doubt"}) /\ Answer(w, Unrevoked(req[w].op))
       \/ /\ Faulty({"error", "lost"})
          /\ Answer(w, Unrevoked(req[w].op))
          /\ UNCHANGED storeVars
    /\ UNCHANGED <<active, issued, presented, replayed>>

\* Mutant: the session of the request itself is spared.
MutKillAll(w) ==
    /\ At(w, "killAll")
    /\ RevokeRows(LiveSessionsOf(req[w].target) \ {req[w].sid})
    /\ Answer(w, IF req[w].op = "refresh" THEN "refused" ELSE "ok")
    /\ UNCHANGED <<active, issued, presented, replayed>>

\* revokeAllUserSessions, for logout-all, for an administrator and on the
\* reuse of a refresh token.  The routes answer with its count in every case.
KillAll(w) ==
    /\ At(w, "killAll")
    /\ \/ RevokeAllUserSessions(req[w].target)
       \/ Faulty({"error", "lost"}) /\ UNCHANGED storeVars
    /\ Answer(w, IF req[w].op = "refresh" THEN "refused" ELSE "ok")
    /\ UNCHANGED <<active, issued, presented, replayed>>

-----------------------------------------------------------------------------
(* The environment.                                                        *)

\* PostgresUserRepository::update, used to deactivate and reactivate accounts.
SetActive(u) ==
    /\ active' = [active EXCEPT ![u] = ~active[u]]
    /\ req' = [w \in Workers |->
                 IF req[w].user = u
                 THEN [req[w] EXCEPT !.suspended = @ /\ active[u]]
                 ELSE req[w]]
    /\ UNCHANGED <<storeVars, issued, presented, replayed>>

Tick ==
    /\ now < MaxTime
    /\ \A w \in Workers : req[w].op = "none" \/ now < req[w].t + MaxDelay
    /\ now' = now + 1
    /\ UNCHANGED <<sessions, revocations, lastCred, active, req, issued, presented, replayed>>

Cleanup ==
    /\ CleanupExpiredRevocations
    /\ UNCHANGED <<active, req, issued, presented, replayed>>

Step(w) ==
    \/ \E u \in Users : LoginLookup(w, u)
    \/ LoginCreate(w)
    \/ \E g \in Creds : RefreshLookup(w, g)
    \/ RefreshUser(w)
    \/ RefreshRotate(w)
    \/ \E op \in AuthOps, a \in issued : Authenticate(w, op, a)
    \/ CheckSession(w)
    \/ CheckAccount(w)
    \/ ListSessions(w)
    \/ CheckAdmin(w)
    \/ FindTarget(w)
    \/ Kill(w)
    \/ KillAll(w)

Next ==
    \/ \E w \in Workers : Step(w)
    \/ \E u \in Suspendable : SetActive(u)
    \/ Tick
    \/ Cleanup

Spec == Init /\ [][Next]_vars

-----------------------------------------------------------------------------
(* Properties.                                                             *)

GrantedCalls == {"list", "admin", "find", "kill", "killAll"}

\* A request passes extractAuthenticatedUser only if its session was live, and
\* its account active, at some instant since the request began: whatever
\* token it carries (also one with a jti rotated out long ago, that no
\* blacklist knows), and also when isTokenRevoked fails open.
GrantedOnlyIfUsable ==
    \A w \in Workers :
        req[w].op \in AuthOps /\ req[w].call \in GrantedCalls
            => ~req[w].dead /\ ~req[w].suspended

\* The two tables agree: when a session is revoked, the jti of its newest
\* access token is in token_revocations for as long as that access token is
\* valid, cleanup or not.  The row must outlive the token, so this relates
\* the lifetimes, the delay of a refresh and the order of its two clocks.
BlacklistComplete ==
    \A a \in issued :
        /\ Revoked(a.sid)
        /\ sessions[a.sid].cred = a.cred
        /\ now < a.exp
        => a.cred \in RevokedJtis

\* Revocation is final: no refresh that was already under way, no second
\* revocation and no login changes the row of a revoked session again.
RevocationIsPermanent ==
    [][\A s \in Sessions : Revoked(s) => sessions'[s] = sessions[s]]_vars

\* A refresh token that has been exchanged never passes the lookup of a later
\* refresh, however many rotations ago that was.
SpentTokenRefused ==
    [][\A w \in Workers :
         req[w].op = "none" /\ req'[w].call = "user"
            => \A a \in issued : a.from # req'[w].cred]_vars

\* A session is revoked only by a request of its own user, by an
\* administrator, or on the reuse of a token of the same user (the check of
\* the owner is made on a row read in an earlier transaction).
OnlyEntitledRevoke ==
    [][\A s \in Sessions :
         Live(s) /\ ~Live(s)'
            => \E w \in Workers :
                  /\ req[w].op # "none" /\ req'[w].op = "none"
                  /\ \/ req[w].user = sessions[s].user
                     \/ req[w].user \in Admins /\ req[w].op \in AuthOps]_vars

\* A request that asks for a revocation and is answered with success has had
\* it: the session it named, or every session of the user it named, is
\* revoked when the answer is sent.
SuccessMeansRevoked ==
    [][\A w \in Workers :
         req[w].call \in {"kill", "killAll"} /\ req'[w].reply = "ok"
            => \A s \in Sessions :
                  \/ req[w].call = "kill"    /\ s = req[w].target
                  \/ req[w].call = "killAll" /\ sessions[s].user = req[w].target
                  => ~Live(s)']_vars

\* Honest clients are not taken for thieves: as long as every token is
\* presented once (no retries, no theft), reuse is detected only on the token
\* of a session that somebody revoked, also when a rotation commits and its
\* answer is lost, or when several requests of one client overlap.
HonestNotFlagged ==
    [][\A w \in Workers :
         req[w].op = "none" /\ req'[w].call = "killAll" /\ req'[w].op = "refresh"
            => Revoked(req'[w].sid) \/ replayed']_vars

\* What SessionAuthority calls the state of a row, and the place of a request.
StateOf(row) == CASE row.status = "live"    -> "open"
                  [] row.status = "revoked" -> "ended"
                  [] row.status \in {"absent", "void"} -> "none"

StageOf(r) == CASE r.call = "idle"              -> "away"
                [] r.call = "session"           -> "named"
                [] r.call \in {"account", "user"} -> "entered"
                [] r.call = "killAll" /\ r.op = "refresh" -> "alarm"
                [] r.call = "killAll" /\ r.op # "refresh" -> "admitted"
                [] r.call \in {"create", "rotate", "list", "admin", "find", "kill"} -> "admitted"

VisitOf(r) == [stage |-> StageOf(r), op |-> r.op, user |-> r.user, sid |-> r.sid,
               reply |-> r.reply]

Authority == INSTANCE SessionAuthority WITH
    Visitors  <- Workers,
    Nobody    <- NoUser,
    NoSession <- NoId,
    Lossy     <- Faulty({"error", "lost"}),
    state     <- [s \in Sessions |-> StateOf(sessions[s])],
    owner     <- [s \in Sessions |-> sessions[s].user],
    visit     <- [w \in Workers |-> VisitOf(req[w])]

\* Requests of several transactions each, that interleave and fail, look like
\* visits to one authority: the session is open when the first door is passed,
\* the account active at the second, what is done is done at one instant, and
\* the answer tells of that instant.
ActsAsAuthority == Authority!Spec

\* "Refresh tokens are one-time use": no two responses are in exchange for
\* the same refresh token.
OneTimeUse ==
    \A a, b \in issued : a.from = b.from /\ a.from # NoCred => a = b
=============================================================================
