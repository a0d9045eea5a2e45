------------------------------ MODULE Accounts ------------------------------
(***************************************************************************)
(* How accounts come to be and how somebody proves to own one: the use     *)
(* cases AuthUseCases::registerUser, login up to the session (from there   *)
(* on it is AuthSessions), loginWithGoogle from a verified identity on,    *)
(* and setPassword.                                                        *)
(*                                                                         *)
(* As in AuthSessions one action is one repository call with the code up   *)
(* to the next one, and requests on several worker threads interleave at   *)
(* every call.  A repository call can fail:                                *)
(*   "error"  it throws before it changes or reads anything;               *)
(*   "lost"   the statement ran, the commit did not take effect.           *)
(* A commit that takes effect and is reported as failed is no other case:  *)
(* of the writing calls only the answer to setPassword depends on it, and  *)
(* what a request is answered is not part of the state.                    *)
(***************************************************************************)
EXTENDS UserStore

CONSTANTS Workers,     \* the requests that can be in progress together
          Identities,  \* the pairs of a Google id and an email Google vouches for
          Threshold,   \* 5: failed logins before an account is locked
          MaxWrong,    \* bound: wrong passwords presented for one account
          DbFaults     \* the faults of repository calls in this instance

ASSUME AccountsAssumption ==
    /\ IsFiniteSet(Workers) /\ Workers # {}
    /\ Identities \subseteq [google : GoogleIds, email : Emails]
    /\ Threshold \in Nat \ {0}
    /\ MaxWrong \in Nat
    /\ DbFaults \subseteq {"error", "lost"}

VARIABLES req,         \* the request each worker is processing
          wrong,       \* how many wrong passwords were presented, by account
          registered   \* the emails of the registrations that were committed

vars == <<users, req, wrong, registered>>

(***************************************************************************)
(* A request: its operation, the next repository call, what it was called  *)
(* with, the account it has found and the number of failed attempts that   *)
(* was read with it.                                                       *)
(***************************************************************************)
Request == [op     : {"none", "register", "login", "google", "setPassword"},
            call   : {"idle", "create", "count", "lock", "email", "link",
                      "reload", "reset", "set"},
            user   : UserIds \cup {None},
            email  : Emails \cup {None},
            pw     : Passwords \cup {None},
            google : GoogleIds \cup {None},
            failed : Nat]

Idle == [op |-> "none", call |-> "idle", user |-> None, email |-> None,
         pw |-> None, google |-> None, failed |-> 0]

TypeOK ==
    /\ UsersTypeOK
    /\ req \in [Workers -> Request]
    /\ wrong \in [UserIds -> Nat]
    /\ registered \subseteq Emails

Init ==
    /\ UsersInit
    /\ req = [w \in Workers |-> Idle]
    /\ wrong = [u \in UserIds |-> 0]
    /\ registered = {}

-----------------------------------------------------------------------------
At(w, op, call) == req[w].op = op /\ req[w].call = call
Free(w)         == req[w].op = "none"

Answer(w)           == req' = [req EXCEPT ![w] = Idle]
Goto(w, call)       == req' = [req EXCEPT ![w] = [req[w] EXCEPT !.call = call]]
GotoFor(w, call, u) ==
    req' = [req EXCEPT ![w] = [req[w] EXCEPT !.call = call, !.user = u]]

Faulty(F) == F \cap DbFaults # {}

-----------------------------------------------------------------------------
(* AuthUseCases::registerUser.                                             *)

\* findByEmail, that answers "nothing found" on an error.
RegisterLookup(w, e, p) ==
    /\ Free(w)
    /\ \/ /\ WithEmail(e) = {} \/ Faulty({"error"})
          /\ req' = [req EXCEPT ![w] = [Idle EXCEPT !.op = "register",
                                          !.call = "create", !.email = e, !.pw = p]]
       \/ WithEmail(e) # {} /\ Answer(w)
    /\ UNCHANGED <<users, wrong, registered>>

\* create.  The id is known before the commit, and with an id the answer is
\* 201, committed or not.
RegisterCreate(w) ==
    LET e == req[w].email IN
    /\ At(w, "register", "create")
    /\ \/ /\ \E u \in UserIds : Create(u, e, req[w].pw, None)
          /\ registered' = registered \cup {e}
       \/ /\ ~MayCreate(e, None) \/ Faulty({"error", "lost"})
          /\ UNCHANGED <<users, registered>>
    /\ Answer(w)
    /\ UNCHANGED wrong

-----------------------------------------------------------------------------
(* AuthUseCases::login.                                                    *)

\* findByEmail, and the password against the hash in what it returned.  The
\* comparison with locked_until is there and is never true: mapUserRow does
\* not read the column.
LoginLookup(w, e, p) ==
    LET Begin(u, call) ==
          req' = [req EXCEPT ![w] = [Idle EXCEPT !.op = "login", !.call = call,
                                       !.user = u, !.failed = users[u].failed]]
    IN
    /\ Free(w)
    /\ \/ \E u \in WithEmail(e) :
            \/ users[u].pw = p /\ Begin(u, "reset") /\ UNCHANGED wrong
            \/ users[u].pw = None /\ Answer(w) /\ UNCHANGED wrong
            \/ /\ users[u].pw \notin {p, None}
               /\ wrong[u] < MaxWrong
               /\ wrong' = [wrong EXCEPT ![u] = @ + 1]
               /\ Begin(u, "count")
       \/ /\ WithEmail(e) = {} \/ Faulty({"error"})
          /\ Answer(w)
          /\ UNCHANGED wrong
    /\ UNCHANGED <<users, registered>>

\* Mutant: the attempt of this request is counted twice.
MutLoginCount(w) ==
    /\ At(w, "login", "count")
    /\ IncrementFailedAttempts(req[w].user)
    /\ IF req[w].failed + 2 >= Threshold THEN Goto(w, "lock") ELSE Answer(w)
    /\ UNCHANGED <<wrong, registered>>

\* incrementFailedAttempts; the number read before decides on the lock.
LoginCount(w) ==
    /\ At(w, "login", "count")
    /\ \/ IncrementFailedAttempts(req[w].user)
       \/ Faulty({"error", "lost"}) /\ UNCHANGED users
    /\ IF req[w].failed + 1 >= Threshold THEN Goto(w, "lock") ELSE Answer(w)
    /\ UNCHANGED <<wrong, registered>>

\* lockAccount.
LoginLock(w) ==
    /\ At(w, "login", "lock")
    /\ \/ SetLocked(req[w].user, TRUE)
       \/ Faulty({"error", "lost"}) /\ UNCHANGED users
    /\ Answer(w)
    /\ UNCHANGED <<wrong, registered>>

-----------------------------------------------------------------------------
(* AuthUseCases::loginWithGoogle.                                          *)

\* findByGoogleId.
GoogleLookup(w, i) ==
    LET Begin(call, u) ==
          req' = [req EXCEPT ![w] = [Idle EXCEPT !.op = "google", !.call = call,
                                       !.user = u, !.email = i.email, !.google = i.google]]
    IN
    /\ Free(w)
    /\ \/ \E u \in WithGoogle(i.google) : Begin("reset", u)
       \/ (WithGoogle(i.google) = {} \/ Faulty({"error"})) /\ Begin("email", None)
    /\ UNCHANGED <<users, wrong, registered>>

\* findByEmail: link the account that has the email, or create one.
GoogleByEmail(w) ==
    /\ At(w, "google", "email")
    /\ \/ \E u \in WithEmail(req[w].email) : GotoFor(w, "link", u)
       \/ (WithEmail(req[w].email) = {} \/ Faulty({"error"})) /\ Goto(w, "create")
    /\ UNCHANGED <<users, wrong, registered>>

\* linkGoogleAccount, whose result is not looked at.
GoogleLink(w) ==
    LET u == req[w].user
        g == req[w].google
    IN
    /\ At(w, "google", "link")
    /\ \/ LinkGoogleAccount(u, g)
       \/ (~MayLink(u, g) \/ Faulty({"error", "lost"})) /\ UNCHANGED users
    /\ Goto(w, "reload")
    /\ UNCHANGED <<wrong, registered>>

\* findById of the account that was linked.
GoogleReload(w) ==
    /\ At(w, "google", "reload")
    /\ \/ Goto(w, "reset")
       \/ Faulty({"error"}) /\ Answer(w)
    /\ UNCHANGED <<users, wrong, registered>>

\* Mutant: a row that has the email already is overwritten (an upsert).
MutGoogleCreate(w) ==
    LET e == req[w].email
        g == req[w].google
    IN
    /\ At(w, "google", "create")
    /\ \E u \in UserIds :
          /\ WithEmail(e) \subseteq {u} /\ (u \in Rows => u \in WithEmail(e))
          /\ users' = [users EXCEPT ![u] = NewRow(e, None, g)]
          /\ GotoFor(w, "reset", u)
    /\ UNCHANGED <<wrong, registered>>

\* create.  When it is not committed the request goes on with the id of no
\* row, and the foreign key of the session refuses it.
GoogleCreate(w) ==
    LET e == req[w].email
        g == req[w].google
    IN
    /\ At(w, "google", "create")
    /\ \/ \E u \in UserIds : Create(u, e, None, g) /\ GotoFor(w, "reset", u)
       \/ /\ ~MayCreate(e, g) \/ Faulty({"error", "lost"})
          /\ Answer(w)
          /\ UNCHANGED users
    /\ UNCHANGED <<wrong, registered>>

-----------------------------------------------------------------------------
(* The end of both sign-ins, here: AuthSessions goes on with the session.  *)

\* resetFailedAttempts.
Reset(w) ==
    /\ req[w].call = "reset"
    /\ \/ ResetFailedAttempts(req[w].user)
       \/ Faulty({"error", "lost"}) /\ UNCHANGED users
    /\ Answer(w)
    /\ UNCHANGED <<wrong, registered>>

-----------------------------------------------------------------------------
(* AuthUseCases::setPassword, for an authenticated user.                   *)

SetPasswordLookup(w, u, p) ==
    /\ Free(w)
    /\ u \in Rows
    /\ \/ req' = [req EXCEPT ![w] = [Idle EXCEPT !.op = "setPassword",
                                       !.call = "set", !.user = u, !.pw = p]]
       \/ Faulty({"error"}) /\ Answer(w)
    /\ UNCHANGED <<users, wrong, registered>>

SetPasswordUpdate(w) ==
    /\ At(w, "setPassword", "set")
    /\ \/ SetPassword(req[w].user, req[w].pw)
       \/ Faulty({"error", "lost"}) /\ UNCHANGED users
    /\ Answer(w)
    /\ UNCHANGED <<wrong, registered>>

\* Fifteen minutes pass: locked_until is over.
LockEnds(u) ==
    /\ users[u].locked
    /\ SetLocked(u, FALSE)
    /\ UNCHANGED <<req, wrong, registered>>

Step(w) ==
    \/ \E e \in Emails, p \in Passwords : RegisterLookup(w, e, p) \/ LoginLookup(w, e, p)
    \/ RegisterCreate(w)
    \/ LoginCount(w)
    \/ LoginLock(w)
    \/ \E i \in Identities : GoogleLookup(w, i)
    \/ GoogleByEmail(w)
    \/ GoogleLink(w)
    \/ GoogleReload(w)
    \/ GoogleCreate(w)
    \/ Reset(w)
    \/ \E u \in UserIds, p \in Passwords : SetPasswordLookup(w, u, p)
    \/ SetPasswordUpdate(w)

Next == (\E w \in Workers : Step(w)) \/ (\E u \in UserIds : LockEnds(u))

Spec == Init /\ [][Next]_vars

-----------------------------------------------------------------------------
(* Properties.                                                             *)

\* A person has one account: no two accounts have one email, in any spelling,
\* or one Google account, however registrations, sign-ins with Google and links race with
\* each other between their lookups and their writes.
OneAccountPerPerson ==
    \A u, v \in Rows :
        u # v => /\ Lower[users[u].email] # Lower[users[v].email]
                 /\ users[u].google = None \/ users[u].google # users[v].google

\* auth_provider says which ways of signing in an account has, also when a
\* link and a new password reach the row at the same time.
ProviderMatches ==
    \A u \in Rows :
        users[u].provider = IF users[u].google = None  THEN "local"
                            ELSE IF users[u].pw = None THEN "google"
                                                       ELSE "local+google"

\* An account that was registered with a password keeps a password: a sign-in
\* with Google for the same email neither replaces the account nor drops it.
RegisteredHasPassword ==
    \A e \in registered : \E u \in WithEmail(e) : users[u].pw # None

\* An account is locked only after Threshold wrong passwords, also when logins
\* that succeed and fail overlap and decide on numbers read before.
LockMeansFailures ==
    \A u \in UserIds : users[u].locked => wrong[u] >= Threshold

\* "5 consecutive failed login attempts lock the target account for 15
\* minutes": no password is accepted for an account that is locked.
LockHolds ==
    [][\A w \in Workers :
         Free(w) /\ At(w, "login", "reset")'
            => ~users[req'[w].user].locked]_vars
=============================================================================
