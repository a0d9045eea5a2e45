----------------------------- MODULE UserStore ------------------------------
(***************************************************************************)
(* The table "users" and the transactions that PostgresUserRepository runs *)
(* on it.  Every method is one transaction of one statement, so every      *)
(* operator below is one atomic change; the table's UNIQUE constraints, on *)
(* google_id and on the lower-case email, make a statement throw, while    *)
(* the lookups compare an email as it is spelled.                          *)
(*                                                                         *)
(* is_active is left out: create writes TRUE, and nothing in the program   *)
(* calls update, the only method that writes it later (AuthSessions models *)
(* its use by a tool).                                                     *)
(***************************************************************************)
EXTENDS Integers, FiniteSets

CONSTANTS UserIds,    \* the ids the database may hand out
          Emails,
          Passwords,
          GoogleIds,  \* the ids ("sub") of accounts at Google
          Lower,      \* LOWER(email), the spelling the unique index compares
          None        \* NULL: no password, no Google account, no user

ASSUME UserAssumption ==
    /\ None \notin UserIds \cup Emails \cup Passwords \cup GoogleIds
    /\ Lower \in [Emails -> Emails]

VARIABLE users   \* table users, by id

(***************************************************************************)
(* An absent row is one whose id the database has not handed out.  locked  *)
(* says that locked_until is set and not over yet.                         *)
(***************************************************************************)
User == [there    : BOOLEAN,
         email    : Emails \cup {None},
         pw       : Passwords \cup {None},    \* password_hash
         google   : GoogleIds \cup {None},    \* google_id
         provider : {"local", "google", "local+google"},
         failed   : Nat,                      \* failed_login_attempts
         locked   : BOOLEAN]

NoRow == [there |-> FALSE, email |-> None, pw |-> None, google |-> None,
          provider |-> "local", failed |-> 0, locked |-> FALSE]

UsersTypeOK == users \in [UserIds -> User]
UsersInit   == users = [u \in UserIds |-> NoRow]

Rows == {u \in UserIds : users[u].there}

\* findByEmail and findByGoogleId.
WithEmail(e)  == {u \in Rows : users[u].email = e}
WithGoogle(g) == {u \in Rows : users[u].google = g}

NewRow(e, p, g) ==
    [there |-> TRUE, email |-> e, pw |-> p, google |-> g,
     provider |-> IF g = None THEN "local" ELSE "google", failed |-> 0, locked |-> FALSE]

\* Mutant: the columns are not UNIQUE, the lookups before are relied on.
MutCreate(u, e, p, g) ==
    /\ u \notin Rows
    /\ users' = [users EXCEPT ![u] = NewRow(e, p, g)]

\* create, for registerUser (no g) and for loginWithGoogle (no p).
MayCreate(e, g) ==
    /\ \A u \in Rows : Lower[users[u].email] # Lower[e]
    /\ g = None \/ WithGoogle(g) = {}
Create(u, e, p, g) ==
    /\ u \notin Rows
    /\ MayCreate(e, g)
    /\ users' = [users EXCEPT ![u] = NewRow(e, p, g)]

\* Mutant: the provider is not computed from the row but from the use case.
MutLinkGoogleAccount(u, g) ==
    /\ WithGoogle(g) \subseteq {u}
    /\ users' = [users EXCEPT ![u] = [users[u] EXCEPT !.google = g, !.provider = "local+google"]]

\* linkGoogleAccount: whatever the row's google_id was before.
MayLink(u, g) == WithGoogle(g) \subseteq {u}
LinkGoogleAccount(u, g) ==
    /\ MayLink(u, g)
    /\ users' = [users EXCEPT ![u] =
                   [users[u] EXCEPT
                      !.google = g,
                      !.provider = IF users[u].pw # None THEN "local+google" ELSE "google"]]

\* Mutant: a provider that no reader of the column knows.
MutSetPassword(u, p) ==
    users' = [users EXCEPT ![u] =
                [users[u] EXCEPT
                   !.pw = p,
                   !.provider = IF users[u].google # None THEN "google+local" ELSE "local"]]

\* setPassword.
SetPassword(u, p) ==
    users' = [users EXCEPT ![u] =
                [users[u] EXCEPT
                   !.pw = p,
                   !.provider = IF users[u].google # None THEN "local+google" ELSE "local"]]

\* incrementFailedAttempts, resetFailedAttempts, and lockAccount or the end of
\* the fifteen minutes it sets.
IncrementFailedAttempts(u) ==
    users' = [users EXCEPT ![u] = [users[u] EXCEPT !.failed = users[u].failed + 1]]

ResetFailedAttempts(u) ==
    users' = [users EXCEPT ![u] = [users[u] EXCEPT !.failed = 0, !.locked = FALSE]]

SetLocked(u, b) ==
    users' = [users EXCEPT ![u] = [users[u] EXCEPT !.locked = b]]
=============================================================================
