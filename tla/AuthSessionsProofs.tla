------------------------- MODULE AuthSessionsProofs -------------------------
(***************************************************************************)
(* Theorems about AuthSessions, for every number of sessions, users,       *)
(* workers, credentials and faults.                                        *)
(***************************************************************************)
EXTENDS AuthSessions, TLAPS

(***************************************************************************)
(* TypeOK is not inductive: a token response is typed because the request  *)
(* it answers names a user and a session, and a revocation because a row   *)
(* has a jti.                                                              *)
(***************************************************************************)
RowsOK ==
    \A s \in Sessions :
        HasRow(s) => sessions[s].user \in Users /\ sessions[s].cred \in Creds

RequestOK(r) ==
    /\ r.call \in {"create"} => r.op = "login" /\ r.user \in Users
    /\ r.call \in {"user", "rotate"}
         => /\ r.op = "refresh"
            /\ r.user \in Users /\ r.sid \in Sessions /\ r.cred \in Creds
    /\ r.call \in {"session", "account", "list", "admin", "find", "kill"}
         => r.op \in AuthOps /\ r.user \in Users /\ r.sid \in Sessions
    /\ r.call = "kill" => r.target \in Sessions
    /\ r.call = "killAll" => r.op \in AuthOps \cup {"refresh"} /\ r.target \in Users
    /\ r.op \in AuthOps => r.user \in Users /\ r.sid \in Sessions

RequestsOK == \A w \in Workers : RequestOK(req[w])

TypeInv == TypeOK /\ RowsOK /\ RequestsOK

-----------------------------------------------------------------------------
(* The transactions of the store preserve the types of its tables.         *)

StoreOK == StoreTypeOK /\ RowsOK

\* createSession, committed, leaves well-typed tables.
LEMMA CreateSessionTyped ==
    ASSUME StoreOK, StoreAssumption, NEW s \in Sessions, NEW u \in Users,
           NEW exp \in Nat, CreateSession(s, u, exp)
    PROVE  StoreOK' /\ Fresh \in Creds
BY DEF StoreOK, StoreTypeOK, RowsOK, CreateSession, Fresh, Row, Creds, NoCred,
       HasRow, StoreAssumption

\* createSession whose commit is lost leaves well-typed tables.
LEMMA CreateUncommittedTyped ==
    ASSUME StoreOK, StoreAssumption, NEW s \in Sessions,
           CreateSessionUncommitted(s)
    PROVE  StoreOK' /\ Fresh \in Creds
BY DEF StoreOK, StoreTypeOK, RowsOK, CreateSessionUncommitted, Fresh, Row,
       Creds, NoCred, HasRow, StoreAssumption

\* updateRefreshToken leaves well-typed tables.
LEMMA UpdateRefreshTokenTyped ==
    ASSUME StoreOK, StoreAssumption, NEW s \in Sessions, NEW exp \in Nat,
           UpdateRefreshToken(s, exp)
    PROVE  StoreOK' /\ Fresh \in Creds
<1> DEFINE r == [sessions[s] EXCEPT !.cred = Fresh,
                                    !.prev = sessions[s].cred,
                                    !.expires = exp]
<1>1. Fresh \in Creds
  BY DEF UpdateRefreshToken, StoreOK, StoreTypeOK, Fresh, Creds, StoreAssumption
<1>2. sessions[s] \in Row /\ sessions[s].user \in Users
  BY DEF UpdateRefreshToken, StoreOK, StoreTypeOK, RowsOK, HasRow, Live
<1>3. r \in Row /\ r.user \in Users /\ r.cred \in Creds
  BY <1>1, <1>2 DEF Row
<1>4. sessions' = [sessions EXCEPT ![s] = r]
  BY DEF UpdateRefreshToken
<1> HIDE DEF r
<1>5. sessions' \in [Sessions -> Row] /\ RowsOK'
  BY <1>3, <1>4 DEF StoreOK, StoreTypeOK, RowsOK, HasRow
<1>6. UNCHANGED <<revocations, now>> /\ lastCred' \in 0..MaxCred
  BY <1>1 DEF UpdateRefreshToken, Creds, Fresh
<1> QED
  BY <1>1, <1>5, <1>6 DEF StoreOK, StoreTypeOK

\* Revoking any set of live rows leaves well-typed tables.
LEMMA RevokeRowsTyped ==
    ASSUME StoreOK, NEW S \in SUBSET Sessions, \A s \in S : Live(s),
           RevokeRows(S)
    PROVE  StoreOK'
<1>1. sessions' \in [Sessions -> Row]
  BY DEF StoreOK, StoreTypeOK, RevokeRows, Row
<1>2. RowsOK'
  BY DEF StoreOK, StoreTypeOK, RowsOK, RevokeRows, Row, HasRow, Live
<1>3. NewRevocations(S) \subseteq Revocation
  BY DEF NewRevocations, Revocation, StoreOK, StoreTypeOK, RowsOK, Row, HasRow, Live
<1> QED
  BY <1>1, <1>2, <1>3 DEF StoreOK, StoreTypeOK, RevokeRows

-----------------------------------------------------------------------------
(* A step replaces the request of one worker.                              *)

ReqsOK == req \in [Workers -> Request] /\ RequestsOK

\* Replacing a request by a well-formed one leaves all requests well-formed.
LEMMA ReplaceTyped ==
    ASSUME ReqsOK, NEW w \in Workers, NEW r \in Request, RequestOK(r),
           req' = [req EXCEPT ![w] = r]
    PROVE  ReqsOK'
BY DEF ReqsOK, RequestsOK

\* An answered request is well-formed.
LEMMA AnswerTyped ==
    ASSUME ReqsOK, NEW w \in Workers, NEW r \in {"none", "ok", "refused"},
           Answer(w, r)
    PROVE  ReqsOK'
<1>1. Idle(r) \in Request
  BY DEF Idle, Request, Calls, NoCred
<1>2. RequestOK(Idle(r))
  BY DEF Idle, RequestOK, AuthOps
<1> QED
  BY <1>1, <1>2, ReplaceTyped DEF Answer

\* Moving a request to its next call leaves it well-formed when the operation
\* makes that call.
LEMMA GotoTyped ==
    ASSUME ReqsOK, NEW w \in Workers, NEW c \in Calls, Goto(w, c),
           \/ c = "rotate" /\ req[w].call = "user"
           \/ c \in {"account", "list", "admin", "find"} /\ req[w].op \in AuthOps
    PROVE  ReqsOK'
<1> DEFINE r == [req[w] EXCEPT !.call = c]
<1>1. req[w] \in Request /\ RequestOK(req[w])
  BY DEF ReqsOK, RequestsOK
<1>2. r \in Request
  BY <1>1 DEF Request
<1>3. /\ r.op = req[w].op /\ r.user = req[w].user /\ r.sid = req[w].sid
      /\ r.cred = req[w].cred /\ r.call = c
  BY <1>1 DEF Request
<1>4. RequestOK(r)
  <2> HIDE DEF r
  <2>1. CASE c = "rotate" /\ req[w].call = "user"
    BY <1>1, <1>3, <2>1 DEF RequestOK, AuthOps
  <2>2. CASE c \in {"account", "list", "admin", "find"} /\ req[w].op \in AuthOps
    BY <1>1, <1>3, <2>2 DEF RequestOK
  <2> QED
    BY <2>1, <2>2
<1>5. req' = [req EXCEPT ![w] = r]
  BY DEF Goto
<1> QED
  BY <1>2, <1>4, <1>5, ReplaceTyped

\* The same for a move that names what is to be revoked.
LEMMA GotoWithTyped ==
    ASSUME ReqsOK, NEW w \in Workers, NEW c, NEW x, GotoWith(w, c, x),
           req[w].op \in AuthOps,
           \/ c = "kill" /\ x \in Sessions
           \/ c = "killAll" /\ x \in Users
    PROVE  ReqsOK'
<1> DEFINE r == [req[w] EXCEPT !.call = c, !.target = x]
<1>1. req[w] \in Request /\ RequestOK(req[w])
  BY DEF ReqsOK, RequestsOK
<1>2. req[w].user \in Users /\ req[w].sid \in Sessions
  BY <1>1 DEF RequestOK
<1>3. r \in Request
  <2>1. c \in Calls /\ x \in Sessions \cup Users \cup {NoId}
    BY DEF Calls
  <2> QED
    BY <1>1, <2>1 DEF Request
<1>4. /\ r.op = req[w].op /\ r.user = req[w].user /\ r.sid = req[w].sid
      /\ r.call = c /\ r.target = x
  BY <1>1 DEF Request
<1>5. RequestOK(r)
  <2> HIDE DEF r
  <2>1. CASE c = "kill"
    BY <1>2, <1>4, <2>1 DEF RequestOK
  <2>2. CASE c = "killAll"
    BY <1>2, <1>4, <2>2 DEF RequestOK
  <2> QED
    BY <2>1, <2>2
<1>6. req' = [req EXCEPT ![w] = r]
  BY DEF GotoWith
<1> QED
  BY <1>3, <1>5, <1>6, ReplaceTyped

\* Starting a request as the record r leaves all requests well-formed.
LEMMA BeginTyped ==
    ASSUME ReqsOK, NEW w \in Workers, NEW r, r \in Request, RequestOK(r),
           req' = [req EXCEPT ![w] = r]
    PROVE  ReqsOK'
BY ReplaceTyped

\* The lookup of a refresh token starts a well-formed request.
LEMMA BeginRefreshTyped ==
    ASSUME ReqsOK, StoreOK, NEW w \in Workers, NEW g \in Creds,
           NEW s \in Sessions, HasRow(s), NEW c \in {"user", "killAll"},
           BeginRefresh(w, g, c, s)
    PROVE  ReqsOK'
<1> DEFINE r == [Idle("none") EXCEPT !.op = "refresh", !.call = c,
                   !.user = sessions[s].user, !.sid = s, !.cred = g,
                   !.target = IF c = "killAll" THEN sessions[s].user ELSE NoId,
                   !.t = now]
<1>1. sessions[s].user \in Users /\ now \in Nat
  BY DEF StoreOK, StoreTypeOK, RowsOK
<1>2. r \in Request
  BY <1>1, Zenon DEF Idle, Request, Calls
<1>3. RequestOK(r)
  BY <1>1 DEF Idle, RequestOK, AuthOps
<1>4. req' = [req EXCEPT ![w] = r]
  BY DEF BeginRefresh
<1> QED
  BY <1>2, <1>3, <1>4, BeginTyped

\* A token response for a session of a user is well-typed.
LEMMA IssueTyped ==
    ASSUME StoreOK, AuthAssumption, issued \subseteq TokenResponse, Fresh \in Creds,
           NEW s \in Sessions, NEW u \in Users, NEW f \in Creds \cup {NoCred},
           Issue(s, u, f)
    PROVE  issued' \subseteq TokenResponse
BY DEF StoreOK, StoreTypeOK, Issue, TokenResponse, AuthAssumption

\* The tables stay well-typed when no transaction runs.
LEMMA StoreUnchanged ==
    ASSUME StoreOK, UNCHANGED storeVars
    PROVE  StoreOK'
BY DEF StoreOK, StoreTypeOK, RowsOK, HasRow, storeVars

-----------------------------------------------------------------------------
RestOK ==
    /\ active \in [Users -> BOOLEAN]
    /\ issued \subseteq TokenResponse
    /\ presented \subseteq Creds
    /\ replayed \in BOOLEAN

\* TypeInv is the conjunction of what the lemmas above preserve.
LEMMA TypeInvParts == TypeInv <=> StoreOK /\ ReqsOK /\ RestOK
BY DEF TypeInv, TypeOK, StoreOK, ReqsOK, RestOK

\* Every step of every request, and of the environment, preserves TypeInv.
LEMMA TypeInvStep ==
    ASSUME StoreAssumption, AuthAssumption, TypeInv, [Next]_vars
    PROVE  TypeInv'
<1>1. StoreOK /\ ReqsOK /\ RestOK
  BY TypeInvParts
<1>2. SUFFICES StoreOK' /\ ReqsOK' /\ RestOK'
  BY TypeInvParts, PTL
<1>3. ASSUME NEW w \in Workers, NEW u \in Users, LoginLookup(w, u)
      PROVE  StoreOK' /\ ReqsOK' /\ RestOK'
  <2>1. StoreOK' /\ RestOK'
    BY <1>1, <1>3, StoreUnchanged DEF LoginLookup, RestOK
  <2>2. CASE Answer(w, "refused")
    BY <1>1, <2>1, <2>2, AnswerTyped
  <2>3. CASE ~Answer(w, "refused")
    <3> DEFINE r == [Idle("none") EXCEPT !.op = "login", !.call = "create",
                                         !.user = u, !.t = now]
    <3>1. r \in Request /\ RequestOK(r)
      BY <1>1 DEF Idle, Request, Calls, RequestOK, AuthOps, NoCred, StoreOK, StoreTypeOK
    <3>2. req' = [req EXCEPT ![w] = r]
      BY <1>3, <2>3 DEF LoginLookup
    <3> QED
      BY <1>1, <2>1, <3>1, <3>2, BeginTyped
  <2> QED
    BY <2>2, <2>3
<1>4. ASSUME NEW w \in Workers, LoginCreate(w)
      PROVE  StoreOK' /\ ReqsOK' /\ RestOK'
  <2>1. req[w].user \in Users /\ req[w].t + RefreshTtl \in Nat
    BY <1>1, <1>4 DEF LoginCreate, At, ReqsOK, RequestsOK, RequestOK, Request, AuthAssumption
  <2>2. ReqsOK'
    BY <1>1, <1>4, AnswerTyped DEF LoginCreate
  <2>3. CASE UNCHANGED <<storeVars, issued>>
    BY <1>1, <1>4, <2>2, <2>3, StoreUnchanged DEF LoginCreate, RestOK
  <2>4. ASSUME NEW s \in Sessions,
               \/ CreateSession(s, req[w].user, req[w].t + RefreshTtl)
               \/ CreateSessionUncommitted(s),
               Issue(s, req[w].user, NoCred)
        PROVE  StoreOK' /\ issued' \subseteq TokenResponse
    <3>1. StoreOK' /\ Fresh \in Creds
      BY <1>1, <2>1, <2>4, CreateSessionTyped, CreateUncommittedTyped
    <3> QED
      BY <1>1, <2>1, <2>4, <3>1, IssueTyped DEF RestOK
  <2> QED
    BY <1>1, <1>4, <2>2, <2>3, <2>4 DEF LoginCreate, RestOK
<1>5. ASSUME NEW w \in Workers, NEW g \in Creds, RefreshLookup(w, g)
      PROVE  StoreOK' /\ ReqsOK' /\ RestOK'
  <2>1. StoreOK' /\ RestOK'
    BY <1>1, <1>5, StoreUnchanged DEF RefreshLookup, RestOK
  <2>2. CASE Answer(w, "refused")
    BY <1>1, <2>1, <2>2, AnswerTyped
  <2>3. CASE ~Answer(w, "refused")
    <3>1. PICK s \in Sessions, c \in {"user", "killAll"} :
             HasRow(s) /\ BeginRefresh(w, g, c, s)
      BY <1>5, <2>3 DEF RefreshLookup, HoldersOf, FormerHoldersOf
    <3> QED
      BY <1>1, <2>1, <3>1, BeginRefreshTyped
  <2> QED
    BY <2>2, <2>3
<1>6. ASSUME NEW w \in Workers, RefreshUser(w)
      PROVE  StoreOK' /\ ReqsOK' /\ RestOK'
  <2>1. StoreOK' /\ RestOK'
    BY <1>1, <1>6, StoreUnchanged DEF RefreshUser, RestOK
  <2>2. ReqsOK'
    BY <1>1, <1>6, AnswerTyped, GotoTyped DEF RefreshUser, At, Calls
  <2> QED
    BY <2>1, <2>2
<1>7. ASSUME NEW w \in Workers, RefreshRotate(w)
      PROVE  StoreOK' /\ ReqsOK' /\ RestOK'
  <2>1. /\ req[w].user \in Users /\ req[w].sid \in Sessions /\ req[w].cred \in Creds
        /\ req[w].t + RefreshTtl \in Nat
    BY <1>1, <1>7 DEF RefreshRotate, At, ReqsOK, RequestsOK, RequestOK, Request, AuthAssumption
  <2>2. ReqsOK'
    BY <1>1, <1>7, AnswerTyped DEF RefreshRotate
  <2>3. CASE UNCHANGED <<storeVars, issued>>
    BY <1>1, <1>7, <2>2, <2>3, StoreUnchanged DEF RefreshRotate, RestOK
  <2>4. CASE /\ UpdateRefreshToken(req[w].sid, req[w].t + RefreshTtl)
             /\ Issue(req[w].sid, req[w].user, req[w].cred) \/ UNCHANGED issued
    <3>1. StoreOK' /\ Fresh \in Creds
      BY <1>1, <2>1, <2>4, UpdateRefreshTokenTyped
    <3>2. issued' \subseteq TokenResponse
      BY <1>1, <2>1, <2>4, <3>1, IssueTyped DEF RestOK
    <3> QED
      BY <1>1, <1>7, <2>2, <3>1, <3>2 DEF RefreshRotate, RestOK
  <2> QED
    BY <1>7, <2>3, <2>4 DEF RefreshRotate
<1>8. ASSUME NEW w \in Workers, NEW op \in AuthOps, NEW a \in issued,
             Authenticate(w, op, a)
      PROVE  StoreOK' /\ ReqsOK' /\ RestOK'
  <2>1. StoreOK' /\ RestOK'
    BY <1>1, <1>8, StoreUnchanged DEF Authenticate, RestOK
  <2>2. CASE Answer(w, "refused")
    BY <1>1, <2>1, <2>2, AnswerTyped
  <2>3. CASE ~Answer(w, "refused")
    <3> DEFINE r == [Idle("none") EXCEPT !.op = op, !.call = "session",
                       !.user = a.user, !.sid = a.sid, !.t = now,
                       !.dead = ~Live(a.sid),
                       !.suspended = ~active[a.user]]
    <3>1. a.user \in Users /\ a.sid \in Sessions /\ now \in Nat
      BY <1>1 DEF RestOK, TokenResponse, StoreOK, StoreTypeOK
    <3>2. r \in Request
      BY <3>1, Zenon DEF Idle, Request, Calls, NoCred
    <3>3. RequestOK(r)
      BY <3>1 DEF Idle, RequestOK
    <3>4. req' = [req EXCEPT ![w] = r]
      BY <1>8, <2>3 DEF Authenticate
    <3> HIDE DEF r
    <3> QED
      BY <1>1, <2>1, <3>2, <3>3, <3>4, BeginTyped
  <2> QED
    BY <2>2, <2>3
<1>9. ASSUME NEW w \in Workers, CheckSession(w)
      PROVE  StoreOK' /\ ReqsOK' /\ RestOK'
  <2>1. StoreOK' /\ RestOK'
    BY <1>1, <1>9, StoreUnchanged DEF CheckSession, RestOK
  <2>2. req[w].op \in AuthOps
    BY <1>1, <1>9 DEF CheckSession, At, ReqsOK, RequestsOK, RequestOK
  <2>3. ReqsOK'
    BY <1>1, <1>9, <2>2, AnswerTyped, GotoTyped DEF CheckSession, Calls
  <2> QED
    BY <2>1, <2>3
<1>10. ASSUME NEW w \in Workers, CheckAccount(w)
       PROVE  StoreOK' /\ ReqsOK' /\ RestOK'
  <2>1. StoreOK' /\ RestOK'
    BY <1>1, <1>10, StoreUnchanged DEF CheckAccount, RestOK
  <2>2. req[w].op \in AuthOps /\ req[w].sid \in Sessions /\ req[w].user \in Users
    BY <1>1, <1>10 DEF CheckAccount, At, ReqsOK, RequestsOK, RequestOK
  <2>3. CASE Answer(w, "refused")
    BY <1>1, <2>1, <2>3, AnswerTyped
  <2>4. CASE ~Answer(w, "refused")
    <3>1. \/ Goto(w, "list") \/ Goto(w, "find") \/ Goto(w, "admin")
          \/ GotoWith(w, "kill", req[w].sid) \/ GotoWith(w, "killAll", req[w].user)
      BY <1>10, <2>4 DEF CheckAccount, LogoutRoutes, SessionRoutes, AdminRoutes
    <3>2. CASE Goto(w, "list") \/ Goto(w, "find") \/ Goto(w, "admin")
      BY <1>1, <2>1, <2>2, <3>2, GotoTyped DEF Calls
    <3>3. CASE GotoWith(w, "kill", req[w].sid) \/ GotoWith(w, "killAll", req[w].user)
      BY <1>1, <2>1, <2>2, <3>3, GotoWithTyped
    <3> QED
      BY <3>1, <3>2, <3>3
  <2> QED
    BY <2>3, <2>4
<1>11. ASSUME NEW w \in Workers, ListSessions(w)
       PROVE  StoreOK' /\ ReqsOK' /\ RestOK'
  BY <1>1, <1>11, StoreUnchanged, AnswerTyped DEF ListSessions, RestOK
<1>12. ASSUME NEW w \in Workers, CheckAdmin(w)
       PROVE  StoreOK' /\ ReqsOK' /\ RestOK'
  <2>1. StoreOK' /\ RestOK'
    BY <1>1, <1>12, StoreUnchanged DEF CheckAdmin, RestOK
  <2>2. req[w].op \in AuthOps
    BY <1>1, <1>12 DEF CheckAdmin, At, ReqsOK, RequestsOK, RequestOK
  <2>3. \/ Answer(w, "refused") \/ Goto(w, "find")
        \/ \E u \in Users : GotoWith(w, "killAll", u)
    BY <1>12 DEF CheckAdmin
  <2> QED
    BY <1>1, <2>1, <2>2, <2>3, AnswerTyped, GotoTyped, GotoWithTyped DEF Calls
<1>13. ASSUME NEW w \in Workers, FindTarget(w)
       PROVE  StoreOK' /\ ReqsOK' /\ RestOK'
  <2>1. StoreOK' /\ RestOK'
    BY <1>1, <1>13, StoreUnchanged DEF FindTarget, RestOK
  <2>2. req[w].op \in AuthOps
    BY <1>1, <1>13 DEF FindTarget, At, ReqsOK, RequestsOK, RequestOK
  <2>3. \/ Answer(w, "refused") \/ Answer(w, "ok")
        \/ \E s \in Sessions : GotoWith(w, "kill", s)
    BY <1>13 DEF FindTarget, FindById
  <2> QED
    BY <1>1, <2>1, <2>2, <2>3, AnswerTyped, GotoWithTyped
<1>14. ASSUME NEW w \in Workers, Kill(w)
       PROVE  StoreOK' /\ ReqsOK' /\ RestOK'
  <2>1. RestOK'
    BY <1>1, <1>14 DEF Kill, RestOK
  <2>2. req[w].target \in Sessions
    BY <1>1, <1>14 DEF Kill, At, ReqsOK, RequestsOK, RequestOK
  <2>3. ReqsOK'
    BY <1>1, <1>14, AnswerTyped DEF Kill, Unrevoked
  <2>4. CASE UNCHANGED storeVars
    BY <1>1, <2>1, <2>3, <2>4, StoreUnchanged
  <2>5. CASE RevokeSession(req[w].target)
    BY <1>1, <2>1, <2>2, <2>3, <2>5, RevokeRowsTyped DEF RevokeSession
  <2> QED
    BY <1>14, <2>4, <2>5 DEF Kill
<1>15. ASSUME NEW w \in Workers, KillAll(w)
       PROVE  StoreOK' /\ ReqsOK' /\ RestOK'
  <2>1. RestOK'
    BY <1>1, <1>15 DEF KillAll, RestOK
  <2>2. ReqsOK'
    BY <1>1, <1>15, AnswerTyped DEF KillAll
  <2>3. CASE UNCHANGED storeVars
    BY <1>1, <2>1, <2>2, <2>3, StoreUnchanged
  <2>4. CASE RevokeAllUserSessions(req[w].target)
    BY <1>1, <2>1, <2>2, <2>4, RevokeRowsTyped DEF RevokeAllUserSessions, LiveSessionsOf
  <2> QED
    BY <1>15, <2>3, <2>4 DEF KillAll
<1>16. ASSUME NEW u \in Suspendable, SetActive(u)
       PROVE  StoreOK' /\ ReqsOK' /\ RestOK'
  <2>1. StoreOK'
    BY <1>1, <1>16, StoreUnchanged DEF SetActive
  <2>2. RestOK' /\ active[u] \in BOOLEAN
    BY <1>1, <1>16 DEF SetActive, RestOK, AuthAssumption
  <2>3. ASSUME NEW w \in Workers
        PROVE  req'[w] \in Request /\ RequestOK(req'[w])
    <3> DEFINE b == req[w].suspended /\ active[u]
               r == [req[w] EXCEPT !.suspended = b]
    <3>1. req[w] \in Request /\ RequestOK(req[w])
      BY <1>1 DEF ReqsOK, RequestsOK
    <3>2. b \in BOOLEAN
      OBVIOUS
    <3>3. req'[w] = r \/ req'[w] = req[w]
      BY <1>16 DEF SetActive
    <3> HIDE DEF b
    <3>4. r \in Request /\ RequestOK(r)
      BY <3>1, <3>2 DEF Request, RequestOK
    <3> QED
      BY <3>1, <3>3, <3>4
  <2>4. ReqsOK'
    BY <1>16, <2>3 DEF SetActive, ReqsOK, RequestsOK
  <2> QED
    BY <2>1, <2>2, <2>4
<1>17. CASE Tick
  <2>1. StoreOK'
    BY <1>1, <1>17 DEF Tick, StoreOK, StoreTypeOK, RowsOK, HasRow
  <2> QED
    BY <1>1, <1>17, <2>1 DEF Tick, ReqsOK, RequestsOK, RestOK
<1>18. CASE Cleanup
  <2>1. StoreOK'
    BY <1>1, <1>18 DEF Cleanup, CleanupExpiredRevocations, StoreOK, StoreTypeOK,
                       RowsOK, HasRow
  <2> QED
    BY <1>1, <1>18, <2>1 DEF Cleanup, ReqsOK, RequestsOK, RestOK
<1>19. CASE UNCHANGED vars
  BY <1>1, <1>19, StoreUnchanged DEF vars, ReqsOK, RequestsOK, RestOK
<1> QED
  BY <1>3, <1>4, <1>5, <1>6, <1>7, <1>8, <1>9, <1>10, <1>11, <1>12, <1>13,
     <1>14, <1>15, <1>16, <1>17, <1>18, <1>19 DEF Next, Step

\* No request has begun and no row exists in the initial state.
LEMMA TypeInvInit ==
    ASSUME StoreAssumption, AuthAssumption, Init
    PROVE  TypeInv
<1>1. StoreOK
  BY DEF Init, StoreInit, StoreOK, StoreTypeOK, RowsOK, HasRow, NoRow, Row,
         NoCred, StoreAssumption
<1>2. Idle("none") \in Request /\ RequestOK(Idle("none"))
  BY DEF Idle, Request, Calls, NoCred, RequestOK, AuthOps
<1>3. ReqsOK
  BY <1>2 DEF Init, ReqsOK, RequestsOK
<1>4. RestOK
  BY DEF Init, RestOK
<1> QED
  BY <1>1, <1>3, <1>4, TypeInvParts

\* TypeInv holds in every state of every behaviour.
LEMMA TypeInvariant == Spec => []TypeInv
<1>1. Init => TypeInv
  BY TypeInvInit, StoreAssumption, AuthAssumption
<1>2. TypeInv /\ [Next]_vars => TypeInv'
  BY TypeInvStep, StoreAssumption, AuthAssumption
<1> QED
  BY <1>1, <1>2, PTL DEF Spec

\* All variables keep their types: in particular a revocation always carries
\* the jti of a row and a token response always names a user and a session,
\* whatever the interleaving and the faults of the repository calls.
THEOREM TypeCorrect == Spec => []TypeOK
<1>1. TypeInv => TypeOK
  BY DEF TypeInv
<1> QED
  BY <1>1, TypeInvariant, PTL

-----------------------------------------------------------------------------
(* How one row of the table may change in one step.                        *)

RowStep(s) ==
    \/ sessions'[s] = sessions[s]
    \/ sessions[s].status = "absent"
    \/ Live(s) /\ sessions'[s].status \in {"live", "revoked"}

\* Revoking live rows changes live rows to revoked ones and no other row.
LEMMA RevokeRowsStep ==
    ASSUME NEW S, \A s \in S : Live(s), RevokeRows(S),
           sessions \in [Sessions -> Row]
    PROVE  \A s \in Sessions : RowStep(s)
BY DEF RevokeRows, RowStep, Row

\* Every step changes each row in one of the ways of RowStep.
LEMMA StepRows ==
    ASSUME TypeInv, [Next]_vars
    PROVE  \A s \in Sessions : RowStep(s)
<1>1. sessions \in [Sessions -> Row]
  BY DEF TypeInv, TypeOK, StoreTypeOK
<1>2. CASE UNCHANGED sessions
  BY <1>2 DEF RowStep
<1>3. ASSUME NEW w \in Workers, LoginCreate(w)
      PROVE  \A s \in Sessions : RowStep(s)
  <2>1. CASE UNCHANGED <<storeVars, issued>>
    BY <2>1, <1>2 DEF storeVars
  <2>2. ASSUME NEW t \in Sessions, sessions[t].status = "absent",
               NEW r, sessions' = [sessions EXCEPT ![t] = r]
        PROVE  \A s \in Sessions : RowStep(s)
    BY <1>1, <2>2 DEF RowStep
  <2>3. ASSUME NEW t \in Sessions, NEW exp,
               CreateSession(t, req[w].user, exp) \/ CreateSessionUncommitted(t)
        PROVE  \A s \in Sessions : RowStep(s)
    BY <2>2, <2>3 DEF CreateSession, CreateSessionUncommitted
  <2> QED
    BY <1>3, <2>1, <2>3 DEF LoginCreate
<1>4. ASSUME NEW w \in Workers, RefreshRotate(w)
      PROVE  \A s \in Sessions : RowStep(s)
  <2>1. CASE UNCHANGED <<storeVars, issued>>
    BY <2>1, <1>2 DEF storeVars
  <2>2. CASE UpdateRefreshToken(req[w].sid, req[w].t + RefreshTtl)
    <3>1. \A s \in Sessions : s # req[w].sid => sessions'[s] = sessions[s]
      BY <1>1, <2>2 DEF UpdateRefreshToken
    <3>2. req[w].sid \in Sessions => RowStep(req[w].sid)
      BY <1>1, <2>2 DEF UpdateRefreshToken, RowStep, Live, Row
    <3> QED
      BY <3>1, <3>2 DEF RowStep
  <2> QED
    BY <1>4, <2>1, <2>2 DEF RefreshRotate
<1>5. ASSUME NEW w \in Workers, Kill(w)
      PROVE  \A s \in Sessions : RowStep(s)
  <2>1. CASE UNCHANGED storeVars
    BY <2>1, <1>2 DEF storeVars
  <2>2. CASE RevokeSession(req[w].target)
    BY <1>1, <2>2, RevokeRowsStep DEF RevokeSession
  <2> QED
    BY <1>5, <2>1, <2>2 DEF Kill
<1>6. ASSUME NEW w \in Workers, KillAll(w)
      PROVE  \A s \in Sessions : RowStep(s)
  <2>1. CASE UNCHANGED storeVars
    BY <2>1, <1>2 DEF storeVars
  <2>2. CASE RevokeAllUserSessions(req[w].target)
    BY <1>1, <2>2, RevokeRowsStep DEF RevokeAllUserSessions, LiveSessionsOf
  <2> QED
    BY <1>6, <2>1, <2>2 DEF KillAll
<1>7. ASSUME ~(\E w \in Workers :
                  LoginCreate(w) \/ RefreshRotate(w) \/ Kill(w) \/ KillAll(w))
      PROVE  UNCHANGED sessions
  BY <1>7, Zenon DEF Next, Step, vars, storeVars, LoginLookup, RefreshLookup, RefreshUser,
              Authenticate, CheckSession, CheckAccount, ListSessions, CheckAdmin,
              FindTarget, SetActive, Tick, Cleanup, CleanupExpiredRevocations
<1> QED
  BY <1>2, <1>3, <1>4, <1>5, <1>6, <1>7

\* Once revoked, a row never changes again: no refresh, login or revocation
\* already under way when it was revoked can bring the session back.
THEOREM RevocationIsFinal == Spec => RevocationIsPermanent
<1>1. TypeInv /\ [Next]_vars
        => [\A s \in Sessions : Revoked(s) => sessions'[s] = sessions[s]]_vars
  BY StepRows DEF RowStep, Revoked, Live
<1> QED
  BY <1>1, TypeInvariant, PTL DEF Spec, RevocationIsPermanent
=============================================================================
