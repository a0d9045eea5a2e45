---------------------------- MODULE SessionStore ----------------------------
(***************************************************************************)
(* The tables "sessions" and "token_revocations" and the transactions that *)
(* PostgresSessionRepository runs on them.  Every repository method is one *)
(* PostgreSQL transaction, so every operator below is one atomic change;   *)
(* what can interleave is the transactions of different requests, and that *)
(* is the business of the modules that extend this one.                    *)
(*                                                                         *)
(* A login or a refresh generates a jti and a refresh token together and   *)
(* always writes the jti and the hash of the token together.  The pair is  *)
(* one number here, a "credential": fresh ones are taken from lastCred.    *)
(***************************************************************************)
EXTENDS Integers, FiniteSets

CONSTANTS Sessions,  \* the session ids the database may hand out
          Users,     \* the ids of the registered users
          NoUser,    \* the user of a session id that names no row
          MaxCred,   \* bound: how many credentials are ever generated
          MaxTime    \* bound: the last instant of the clock

ASSUME StoreAssumption ==
    /\ NoUser \notin Users
    /\ MaxCred \in Nat
    /\ MaxTime \in Nat

VARIABLES sessions,     \* table sessions, by session id
          revocations,  \* table token_revocations
          now,          \* the clock of the server and of the database
          lastCred      \* the credentials generated so far are 1..lastCred

storeVars == <<sessions, revocations, now, lastCred>>

Creds  == 1..MaxCred
NoCred == 0

(***************************************************************************)
(* A session id is "absent" until the database generates it.  It is "void" *)
(* when the row was inserted by a transaction whose commit failed: the     *)
(* caller has read the id but no row carries it.  A row is "live" while    *)
(* revoked_at is null and "revoked" once it is set.                        *)
(***************************************************************************)
Row == [status  : {"absent", "void", "live", "revoked"},
        user    : Users \cup {NoUser},
        cred    : Creds \cup {NoCred},   \* jti and refresh_token_hash
        prev    : Creds \cup {NoCred},   \* previous_refresh_token_hash
        expires : Nat]

NoRow == [status |-> "absent", user |-> NoUser, cred |-> NoCred,
          prev |-> NoCred, expires |-> 0]

Revocation == [jti : Creds, expires : Nat]

StoreTypeOK ==
    /\ sessions \in [Sessions -> Row]
    /\ revocations \subseteq Revocation
    /\ now \in Nat
    /\ lastCred \in 0..MaxCred

StoreInit ==
    /\ sessions = [s \in Sessions |-> NoRow]
    /\ revocations = {}
    /\ now = 0
    /\ lastCred = 0

-----------------------------------------------------------------------------
(* Queries.                                                                *)

HasRow(s)  == sessions[s].status \in {"live", "revoked"}
Live(s)    == sessions[s].status = "live"
Revoked(s) == sessions[s].status = "revoked"
Expired(s) == now >= sessions[s].expires
Usable(s)  == Live(s) /\ ~Expired(s)

\* findById and findByJti: a session can be named by its id or by its jti.
FindByJti(h) == {s \in Sessions : HasRow(s) /\ sessions[s].cred = h}
FindById(h)  == {s \in Sessions : HasRow(s) /\ (s = h \/ sessions[s].cred = h)}

\* findByRefreshTokenHash: first the current hash ...
HoldersOf(g) == {s \in Sessions : HasRow(s) /\ sessions[s].cred = g}
\* ... then, when no row has it, the hash each row had before its last rotation.
FormerHoldersOf(g) == {s \in Sessions : HasRow(s) /\ sessions[s].prev = g}

RevokedJtis == {r.jti : r \in revocations}

\* isTokenRevoked: the fast table, then the sessions whose current jti it is.
IsTokenRevoked(g) ==
    \/ g \in RevokedJtis
    \/ \E s \in Sessions : Revoked(s) /\ sessions[s].cred = g

-----------------------------------------------------------------------------
(* Transactions.  g is the credential of the request that runs them.       *)

Fresh == lastCred + 1

\* createSession, committed.
CreateSession(s, u, exp) ==
    /\ lastCred < MaxCred
    /\ sessions[s].status = "absent"
    /\ sessions' = [sessions EXCEPT ![s] =
                      [status |-> "live", user |-> u, cred |-> Fresh,
                       prev |-> NoCred, expires |-> exp]]
    /\ lastCred' = Fresh
    /\ UNCHANGED <<revocations, now>>

\* createSession when the INSERT ... RETURNING id succeeds and the commit
\* does not: the method returns the session with its id all the same.
CreateSessionUncommitted(s) ==
    /\ lastCred < MaxCred
    /\ sessions[s].status = "absent"
    /\ sessions' = [sessions EXCEPT ![s].status = "void"]
    /\ lastCred' = Fresh
    /\ UNCHANGED <<revocations, now>>

\* Mutant: the WHERE clause forgets revoked_at IS NULL.
MutRotateRevoked(s, exp) ==
    /\ lastCred < MaxCred
    /\ HasRow(s)
    /\ sessions' = [sessions EXCEPT ![s] =
                      [sessions[s] EXCEPT !.cred = Fresh,
                                          !.prev = sessions[s].cred,
                                          !.expires = exp]]
    /\ lastCred' = Fresh
    /\ UNCHANGED <<revocations, now>>

\* Mutant: the new hash goes to the column of the previous one.
MutRotateSwapped(s, exp) ==
    /\ lastCred < MaxCred
    /\ Live(s)
    /\ sessions' = [sessions EXCEPT ![s].prev = Fresh, ![s].expires = exp]
    /\ lastCred' = Fresh
    /\ UNCHANGED <<revocations, now>>

\* updateRefreshToken, when its WHERE finds the row: one generation of the
\* old hash is kept.
UpdateRefreshToken(s, exp) ==
    /\ lastCred < MaxCred
    /\ Live(s)
    /\ sessions' = [sessions EXCEPT ![s] =
                      [sessions[s] EXCEPT !.cred = Fresh,
                                          !.prev = sessions[s].cred,
                                          !.expires = exp]]
    /\ lastCred' = Fresh
    /\ UNCHANGED <<revocations, now>>

\* Mutant: the id of the session is inserted in the place of its jti.
MutNewRevocations(S) ==
    {[jti |-> s, expires |-> sessions[s].expires] : s \in S}

\* ON CONFLICT (jti) DO NOTHING keeps the first row of a jti.
NewRevocations(S) ==
    {r \in {[jti |-> sessions[s].cred, expires |-> sessions[s].expires] : s \in S} :
        r.jti \notin RevokedJtis}

\* The UPDATE of the rows S and the INSERTs into token_revocations that follow
\* it in the same transaction.
RevokeRows(S) ==
    /\ sessions' = [s \in Sessions |->
                      IF s \in S THEN [sessions[s] EXCEPT !.status = "revoked"]
                                 ELSE sessions[s]]
    /\ revocations' = revocations \cup NewRevocations(S)
    /\ UNCHANGED <<now, lastCred>>

\* revokeSession by id; it reports false when {s} has no unrevoked row.
RevokeSession(s) == RevokeRows({t \in {s} : Live(t)})

\* revokeAllUserSessions.
LiveSessionsOf(u) == {s \in Sessions : Live(s) /\ sessions[s].user = u}
RevokeAllUserSessions(u) == RevokeRows(LiveSessionsOf(u))

\* Mutant: the comparison is the wrong way round.
MutCleanupExpiredRevocations ==
    /\ revocations' = {r \in revocations : r.expires <= now}
    /\ UNCHANGED <<sessions, now, lastCred>>

\* cleanupExpiredRevocations.  Nothing in the program calls it yet; it is a
\* method of the repository that a maintenance job may call at any time.
CleanupExpiredRevocations ==
    /\ revocations' = {r \in revocations : r.expires > now}
    /\ UNCHANGED <<sessions, now, lastCred>>
=============================================================================
