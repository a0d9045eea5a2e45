--------------------------- MODULE AccountsProofs ---------------------------
(* Theorems about Accounts, for any number of accounts and of requests.    *)
EXTENDS Accounts, FiniteSetTheorems, TLAPS

(***************************************************************************)
(* TypeOK allows NULL wherever a request does not use a field yet.  What a *)
(* request brings to its writing call is not NULL: a link would otherwise  *)
(* call an account without a Google id a Google account.                   *)
(***************************************************************************)
Brings(r) ==
    /\ r.op = "google" => r.google \in GoogleIds
    /\ r.op \in {"register", "setPassword"} => r.pw \in Passwords
    /\ r.op = "register" => r.email \in Emails

TypeInv == TypeOK /\ \A w \in Workers : Brings(req[w])

LEMMA IdleType == Idle \in Request /\ Brings(Idle)
  BY UserAssumption DEF Idle, Request, Brings

\* The operations of the use cases, and the calls a request goes through.
Ops   == {"none", "register", "login", "google", "setPassword"}
Calls == {"idle", "create", "count", "lock", "email", "link", "reload", "reset", "set"}

\* What a request is made of.
LEMMA RequestFields ==
    ASSUME NEW r \in Request
    PROVE  /\ r.op \in Ops /\ r.call \in Calls /\ r.user \in UserIds \cup {None}
           /\ r.email \in Emails \cup {None} /\ r.pw \in Passwords \cup {None}
           /\ r.google \in GoogleIds \cup {None} /\ r.failed \in Nat
           /\ r = [op |-> r.op, call |-> r.call, user |-> r.user, email |-> r.email,
                   pw |-> r.pw, google |-> r.google, failed |-> r.failed]
  BY DEF Request, Ops, Calls

\* A request that goes on to its next call keeps its type.
LEMMA GotoType ==
    ASSUME NEW r \in Request, Brings(r), NEW c \in Calls, NEW u \in UserIds \cup {None}
    PROVE  /\ [r EXCEPT !.call = c] \in Request /\ Brings([r EXCEPT !.call = c])
           /\ [r EXCEPT !.call = c, !.user = u] \in Request
           /\ Brings([r EXCEPT !.call = c, !.user = u])
  <1>1. ASSUME NEW q \in Request, Brings(q), NEW v \in UserIds \cup {None}
        PROVE  /\ [q EXCEPT !.user = v] \in Request
               /\ Brings([q EXCEPT !.user = v])
    <2>1. [q EXCEPT !.user = v] \in Request
      BY DEF Request
    <2>2. Brings([q EXCEPT !.user = v])
      BY <1>1 DEF Brings, Request
    <2> QED
      BY <2>1, <2>2
  <1> DEFINE q == [r EXCEPT !.call = c]
  <1>2. q \in Request
    BY DEF Request, Calls
  <1>3. Brings(q)
    BY DEF Brings, Request
  <1>4. [r EXCEPT !.call = c, !.user = u] = [q EXCEPT !.user = u]
    OBVIOUS
  <1> HIDE DEF q
  <1>5. [q EXCEPT !.user = u] \in Request /\ Brings([q EXCEPT !.user = u])
    BY <1>1, <1>2, <1>3
  <1> QED
    BY <1>2, <1>3, <1>4, <1>5 DEF q

\* The type of req after one worker's request has changed.
LEMMA ReqType ==
    ASSUME TypeInv, NEW w \in Workers, NEW r \in Request, Brings(r),
           req' = [req EXCEPT ![w] = r]
    PROVE  req' \in [Workers -> Request] /\ \A v \in Workers : Brings(req'[v])
  BY DEF TypeInv, TypeOK

\* The type of users after one row has changed.
LEMMA RowType ==
    ASSUME TypeInv, NEW u, NEW row \in User, users' = [users EXCEPT ![u] = row]
    PROVE  UsersTypeOK'
  BY DEF TypeInv, TypeOK, UsersTypeOK

\* What the transactions write into a row.
LEMMA NewRowType ==
    ASSUME NEW e \in Emails \cup {None}, NEW p \in Passwords \cup {None},
           NEW g \in GoogleIds \cup {None}
    PROVE  NewRow(e, p, g) \in User
  BY DEF NewRow, User

LEMMA StoreType ==
    ASSUME TypeInv, NEW u, NEW p \in Passwords \cup {None}, NEW g \in GoogleIds \cup {None},
           NEW b \in BOOLEAN,
           \/ LinkGoogleAccount(u, g)
           \/ SetPassword(u, p)
           \/ IncrementFailedAttempts(u)
           \/ ResetFailedAttempts(u)
           \/ SetLocked(u, b)
    PROVE  UsersTypeOK'
  <1>0. CASE u \notin UserIds
    <2>1. PICK row : users' = [users EXCEPT ![u] = row]
      BY Zenon DEF LinkGoogleAccount, SetPassword, IncrementFailedAttempts,
                   ResetFailedAttempts, SetLocked
    <2> QED
      BY <1>0, <2>1 DEF TypeInv, TypeOK, UsersTypeOK
  <1>1. CASE u \in UserIds
    <2>1. users[u] \in User
      BY <1>1 DEF TypeInv, TypeOK, UsersTypeOK
    <2>2. CASE LinkGoogleAccount(u, g)
      BY <2>1, <2>2, RowType DEF LinkGoogleAccount, User
    <2>3. CASE SetPassword(u, p)
      BY <2>1, <2>3, RowType DEF SetPassword, User
    <2>4. CASE IncrementFailedAttempts(u)
      <3>1. [users[u] EXCEPT !.failed = users[u].failed + 1] \in User
        BY <2>1 DEF User
      <3> QED
        BY <2>4, <3>1, RowType DEF IncrementFailedAttempts
    <2>5. CASE ResetFailedAttempts(u)
      BY <2>1, <2>5, RowType DEF ResetFailedAttempts, User
    <2>6. CASE SetLocked(u, b)
      BY <2>1, <2>6, RowType DEF SetLocked, User
    <2> QED
      BY <2>2, <2>3, <2>4, <2>5, <2>6
  <1> QED
    BY <1>0, <1>1

LEMMA InitType == Init => TypeInv
  <1> SUFFICES ASSUME Init PROVE TypeInv
    OBVIOUS
  <1>1. NoRow \in User
    BY DEF NoRow, User
  <1> QED
    BY <1>1, IdleType DEF Init, UsersInit, UsersTypeOK, TypeInv, TypeOK

LEMMA StepType == TypeInv /\ [Next]_vars => TypeInv'
  <1> SUFFICES ASSUME TypeInv, [Next]_vars PROVE TypeInv'
    OBVIOUS
  <1>t. /\ users \in [UserIds -> User] /\ req \in [Workers -> Request]
        /\ wrong \in [UserIds -> Nat] /\ registered \subseteq Emails
        /\ \A w \in Workers : Brings(req[w])
    BY DEF TypeInv, TypeOK, UsersTypeOK
  <1>u. ASSUME UNCHANGED users PROVE UsersTypeOK'
    BY <1>t, <1>u DEF UsersTypeOK
  <1>g. ASSUME NEW w \in Workers, NEW r \in Request, Brings(r),
               req' = [req EXCEPT ![w] = r],
               UsersTypeOK', wrong' \in [UserIds -> Nat], registered' \subseteq Emails
        PROVE  TypeInv'
    <2>1. req' \in [Workers -> Request] /\ \A v \in Workers : Brings(req'[v])
      BY <1>g, ReqType
    <2> QED
      BY <1>g, <2>1 DEF TypeInv, TypeOK
  <1>a. ASSUME NEW w \in Workers, Answer(w),
               UsersTypeOK', wrong' \in [UserIds -> Nat], registered' \subseteq Emails
        PROVE  TypeInv'
    BY <1>a, <1>g, IdleType, Zenon DEF Answer
  <1>h. ASSUME NEW w \in Workers, NEW c \in Calls, NEW u \in UserIds \cup {None},
               Goto(w, c) \/ GotoFor(w, c, u),
               UsersTypeOK', wrong' \in [UserIds -> Nat], registered' \subseteq Emails
        PROVE  TypeInv'
    <2>1. req[w] \in Request /\ Brings(req[w])
      BY <1>t
    <2>2. \E r \in Request : Brings(r) /\ req' = [req EXCEPT ![w] = r]
      BY <1>h, <2>1, GotoType, Zenon DEF Goto, GotoFor
    <2> QED
      BY <1>g, <1>h, <2>2
  <1>1. ASSUME NEW w \in Workers, NEW e \in Emails, NEW p \in Passwords,
               RegisterLookup(w, e, p)
        PROVE  TypeInv'
    <2> DEFINE r == [Idle EXCEPT !.op = "register", !.call = "create", !.email = e, !.pw = p]
    <2>2. r \in Request /\ Brings(r)
      BY UserAssumption DEF Idle, Request, Brings
    <2>3. Answer(w) \/ req' = [req EXCEPT ![w] = r]
      BY <1>1 DEF RegisterLookup
    <2>4. UNCHANGED <<users, wrong, registered>>
      BY <1>1 DEF RegisterLookup
    <2> HIDE DEF r
    <2> QED
      BY <1>t, <1>u, <1>a, <1>g, <2>2, <2>3, <2>4
  <1>2. ASSUME NEW w \in Workers, RegisterCreate(w)
        PROVE  TypeInv'
    <2>1. req[w].email \in Emails /\ req[w].pw \in Passwords
      BY <1>2, <1>t DEF RegisterCreate, At, Brings
    <2>2. UsersTypeOK'
      <3>1. ASSUME NEW u \in UserIds, Create(u, req[w].email, req[w].pw, None)
            PROVE  UsersTypeOK'
        <4>1. NewRow(req[w].email, req[w].pw, None) \in User
          BY <2>1, NewRowType
        <4> QED
          BY <3>1, <4>1, RowType DEF Create
      <3> QED
        BY <1>2, <1>u, <3>1 DEF RegisterCreate
    <2>3. Answer(w) /\ UNCHANGED wrong /\ registered' \subseteq Emails
      BY <1>2, <1>t, <2>1 DEF RegisterCreate
    <2> QED
      BY <1>t, <1>a, <2>2, <2>3
  <1>3. ASSUME NEW w \in Workers, NEW e \in Emails, NEW p \in Passwords, LoginLookup(w, e, p)
        PROVE  TypeInv'
    <2> DEFINE r(u, c) == [Idle EXCEPT !.op = "login", !.call = c,
                                       !.user = u, !.failed = users[u].failed]
    <2>1. ASSUME NEW u \in UserIds, NEW c \in {"reset", "count"}
          PROVE  r(u, c) \in Request /\ Brings(r(u, c))
      <3>1. users[u].failed \in Nat
        BY <1>t DEF User
      <3> QED
        BY <3>1, UserAssumption DEF Idle, Request, Brings
    <2> HIDE DEF r
    <2>2. ASSUME NEW u \in UserIds, wrong' = [wrong EXCEPT ![u] = @ + 1]
          PROVE  wrong' \in [UserIds -> Nat]
      BY <1>t, <2>2
    <2>3. wrong' = wrong \/ \E u \in UserIds : wrong' = [wrong EXCEPT ![u] = @ + 1]
      BY <1>3, Zenon DEF LoginLookup, WithEmail, Rows
    <2>4. UNCHANGED <<users, registered>>
      BY <1>3, Zenon DEF LoginLookup
    <2>5. UsersTypeOK' /\ wrong' \in [UserIds -> Nat] /\ registered' \subseteq Emails
      <3>1. UsersTypeOK' /\ registered' \subseteq Emails
        BY <1>t, <1>u, <2>4
      <3>2. wrong' \in [UserIds -> Nat]
        <4>1. CASE wrong' = wrong
          BY <1>t, <4>1
        <4>2. ASSUME NEW u \in UserIds, wrong' = [wrong EXCEPT ![u] = @ + 1]
              PROVE  wrong' \in [UserIds -> Nat]
          BY <2>2, <4>2
        <4> QED
          BY <2>3, <4>1, <4>2
      <3> QED
        BY <3>1, <3>2
    <2>6. \/ Answer(w)
          \/ \E u \in UserIds, c \in {"reset", "count"} : req' = [req EXCEPT ![w] = r(u, c)]
      BY <1>3, Zenon DEF LoginLookup, WithEmail, Rows, r
    <2> QED
      BY <2>1, <2>5, <2>6, <1>a, <1>g
  <1>4. ASSUME NEW w \in Workers, LoginCount(w)
        PROVE  TypeInv'
    <2>1. UsersTypeOK'
      BY <1>4, <1>u, StoreType DEF LoginCount
    <2>2. (Answer(w) \/ Goto(w, "lock")) /\ UNCHANGED <<wrong, registered>>
      BY <1>4, Zenon DEF LoginCount
    <2> QED
      BY <1>t, <1>a, <1>h, <2>1, <2>2 DEF Calls
  <1>5. ASSUME NEW w \in Workers, LoginLock(w)
        PROVE  TypeInv'
    <2>1. UsersTypeOK'
      BY <1>5, <1>u, StoreType DEF LoginLock
    <2>2. Answer(w) /\ UNCHANGED <<wrong, registered>>
      BY <1>5 DEF LoginLock
    <2> QED
      BY <1>t, <1>a, <2>1, <2>2
  <1>6. ASSUME NEW w \in Workers, NEW i \in Identities, GoogleLookup(w, i)
        PROVE  TypeInv'
    <2> DEFINE r(c, u) == [Idle EXCEPT !.op = "google", !.call = c,
                                       !.user = u, !.email = i.email, !.google = i.google]
    <2>1. ASSUME NEW u \in UserIds \cup {None}, NEW c \in {"reset", "email"}
          PROVE  r(c, u) \in Request /\ Brings(r(c, u))
      <3>1. i.email \in Emails /\ i.google \in GoogleIds
        BY AccountsAssumption
      <3> QED
        BY <3>1 DEF Idle, Request, Brings
    <2> HIDE DEF r
    <2>2. \E u \in UserIds \cup {None}, c \in {"reset", "email"} : req' = [req EXCEPT ![w] = r(c, u)]
      BY <1>6, Zenon DEF GoogleLookup, WithGoogle, Rows, r
    <2>3. UNCHANGED <<users, wrong, registered>>
      BY <1>6, Zenon DEF GoogleLookup
    <2> QED
      BY <1>t, <1>u, <1>g, <2>1, <2>2, <2>3
  <1>7. ASSUME NEW w \in Workers, GoogleByEmail(w)
        PROVE  TypeInv'
    <2>1. (\E u \in UserIds : GotoFor(w, "link", u)) \/ Goto(w, "create")
      BY <1>7, Zenon DEF GoogleByEmail, WithEmail, Rows
    <2>2. UNCHANGED <<users, wrong, registered>>
      BY <1>7 DEF GoogleByEmail
    <2> QED
      BY <1>t, <1>u, <1>h, <2>1, <2>2 DEF Calls
  <1>8. ASSUME NEW w \in Workers, GoogleLink(w)
        PROVE  TypeInv'
    <2>1. UsersTypeOK'
      <3>1. req[w].google \in GoogleIds
        BY <1>8, <1>t DEF GoogleLink, At, Brings
      <3> QED
        BY <1>8, <1>u, <3>1, StoreType DEF GoogleLink
    <2>2. Goto(w, "reload") /\ UNCHANGED <<wrong, registered>>
      BY <1>8 DEF GoogleLink
    <2> QED
      BY <1>t, <1>h, <2>1, <2>2 DEF Calls
  <1>9. ASSUME NEW w \in Workers, GoogleReload(w)
        PROVE  TypeInv'
    <2>1. (Answer(w) \/ Goto(w, "reset")) /\ UNCHANGED <<users, wrong, registered>>
      BY <1>9, Zenon DEF GoogleReload
    <2> QED
      BY <1>t, <1>u, <1>a, <1>h, <2>1 DEF Calls
  <1>10. ASSUME NEW w \in Workers, GoogleCreate(w)
         PROVE  TypeInv'
    <2>1. UsersTypeOK'
      <3>1. req[w].email \in Emails \cup {None} /\ req[w].google \in GoogleIds \cup {None}
        BY <1>t, RequestFields
      <3>2. ASSUME NEW u \in UserIds, Create(u, req[w].email, None, req[w].google)
            PROVE  UsersTypeOK'
        <4>1. NewRow(req[w].email, None, req[w].google) \in User
          BY <3>1, NewRowType
        <4> QED
          BY <3>2, <4>1, RowType DEF Create
      <3> QED
        BY <1>10, <1>u, <3>2 DEF GoogleCreate
    <2>2. /\ Answer(w) \/ \E u \in UserIds : GotoFor(w, "reset", u)
          /\ UNCHANGED <<wrong, registered>>
      BY <1>10, Zenon DEF GoogleCreate
    <2> QED
      BY <1>t, <1>a, <1>h, <2>1, <2>2 DEF Calls
  <1>11. ASSUME NEW w \in Workers, Reset(w)
         PROVE  TypeInv'
    <2>1. UsersTypeOK'
      BY <1>11, <1>u, StoreType DEF Reset
    <2>2. Answer(w) /\ UNCHANGED <<wrong, registered>>
      BY <1>11 DEF Reset
    <2> QED
      BY <1>t, <1>a, <2>1, <2>2
  <1>12. ASSUME NEW w \in Workers, NEW u \in UserIds, NEW p \in Passwords,
                SetPasswordLookup(w, u, p)
         PROVE  TypeInv'
    <2> DEFINE r == [Idle EXCEPT !.op = "setPassword", !.call = "set", !.user = u, !.pw = p]
    <2>2. r \in Request /\ Brings(r)
      BY UserAssumption DEF Idle, Request, Brings
    <2>3. Answer(w) \/ req' = [req EXCEPT ![w] = r]
      BY <1>12 DEF SetPasswordLookup
    <2>4. UNCHANGED <<users, wrong, registered>>
      BY <1>12 DEF SetPasswordLookup
    <2> HIDE DEF r
    <2> QED
      BY <1>t, <1>u, <1>a, <1>g, <2>2, <2>3, <2>4
  <1>13. ASSUME NEW w \in Workers, SetPasswordUpdate(w)
         PROVE  TypeInv'
    <2>1. UsersTypeOK'
      <3>1. req[w].pw \in Passwords
        BY <1>13, <1>t DEF SetPasswordUpdate, At, Brings
      <3> QED
        BY <1>13, <1>u, <3>1, StoreType DEF SetPasswordUpdate
    <2>2. Answer(w) /\ UNCHANGED <<wrong, registered>>
      BY <1>13 DEF SetPasswordUpdate
    <2> QED
      BY <1>t, <1>a, <2>1, <2>2
  <1>14. ASSUME NEW u \in UserIds, LockEnds(u)
         PROVE  TypeInv'
    <2>1. UsersTypeOK'
      BY <1>14, StoreType DEF LockEnds
    <2>2. UNCHANGED <<req, wrong, registered>>
      BY <1>14 DEF LockEnds
    <2> QED
      BY <1>t, <2>1, <2>2 DEF TypeInv, TypeOK
  <1>15. CASE UNCHANGED vars
    BY <1>15, <1>t DEF vars, TypeInv, TypeOK, UsersTypeOK
  <1> QED
    BY <1>1, <1>2, <1>3, <1>4, <1>5, <1>6, <1>7, <1>8, <1>9, <1>10, <1>11, <1>12,
       <1>13, <1>14, <1>15 DEF Next, Step

(***************************************************************************)
(* Every reachable state has its type (for the worker threads: each request*)
(* holds at every call what the call needs), whatever the races and faults.*)
(***************************************************************************)
THEOREM AccountsTyped == Spec => []TypeOK
  <1>1. TypeInv => TypeOK
    BY DEF TypeInv
  <1> QED
    BY <1>1, InitType, StepType, PTL DEF Spec

-----------------------------------------------------------------------------
(* One account per person, with the provider its columns say.  A UNIQUE    *)
(* constraint is what makes this hold: no lookup before a write is enough. *)

HasPassword(e) == \E u \in WithEmail(e) : users[u].pw # None

Identity == OneAccountPerPerson /\ ProviderMatches
KeepsPasswords == \A e : HasPassword(e) => HasPassword(e)'

\* A step that changes no row's email, Google id, password or provider.
SameIdentity ==
    /\ users' \in [UserIds -> User]
    /\ \A u \in UserIds :
          /\ users'[u].there = users[u].there /\ users'[u].email = users[u].email
          /\ users'[u].google = users[u].google /\ users'[u].pw = users[u].pw
          /\ users'[u].provider = users[u].provider

LEMMA SameIdentityKeeps ==
    ASSUME TypeInv, Identity, SameIdentity
    PROVE  Identity' /\ KeepsPasswords
  <1>1. OneAccountPerPerson'
    BY DEF Identity, SameIdentity, OneAccountPerPerson, Rows
  <1>2. ProviderMatches'
    BY DEF Identity, SameIdentity, ProviderMatches, Rows
  <1>3. KeepsPasswords
    BY DEF SameIdentity, KeepsPasswords, HasPassword, WithEmail, Rows
  <1> QED
    BY <1>1, <1>2, <1>3 DEF Identity

LEMMA CountingKeeps ==
    ASSUME TypeInv, Identity, NEW u, NEW b \in BOOLEAN,
           \/ IncrementFailedAttempts(u)
           \/ ResetFailedAttempts(u)
           \/ SetLocked(u, b)
    PROVE  Identity' /\ KeepsPasswords
  <1>1. users' \in [UserIds -> User]
    BY StoreType DEF UsersTypeOK
  <1>2. users \in [UserIds -> User]
    BY DEF TypeInv, TypeOK, UsersTypeOK
  <1>3. CASE IncrementFailedAttempts(u)
    BY <1>1, <1>2, <1>3, SameIdentityKeeps DEF SameIdentity, IncrementFailedAttempts, User
  <1>4. CASE ResetFailedAttempts(u)
    BY <1>1, <1>2, <1>4, SameIdentityKeeps DEF SameIdentity, ResetFailedAttempts, User
  <1>5. CASE SetLocked(u, b)
    BY <1>1, <1>2, <1>5, SameIdentityKeeps DEF SameIdentity, SetLocked, User
  <1> QED
    BY <1>3, <1>4, <1>5

LEMMA CreateKeeps ==
    ASSUME TypeInv, Identity, NEW u \in UserIds, NEW e, NEW p, NEW g,
           g = None \/ p = None, Create(u, e, p, g)
    PROVE  /\ Identity' /\ KeepsPasswords
           /\ p # None => HasPassword(e)'
  <1>t. users \in [UserIds -> User]
    BY DEF TypeInv, TypeOK, UsersTypeOK
  <1>1. /\ users'[u] = NewRow(e, p, g)
        /\ \A v \in UserIds \ {u} : users'[v] = users[v]
        /\ Rows' = Rows \cup {u} /\ u \notin Rows
    BY <1>t DEF Create, Rows, NewRow
  <1>2. OneAccountPerPerson'
    <2> SUFFICES ASSUME NEW v \in Rows, u # v
                 PROVE  /\ Lower[users[v].email] # Lower[e]
                        /\ g = None \/ users[v].google # g
      BY <1>1 DEF Identity, OneAccountPerPerson, NewRow, Rows
    <2> QED
      BY DEF Create, MayCreate, WithGoogle
  <1>3. ProviderMatches'
    BY <1>1 DEF Identity, ProviderMatches, NewRow, Rows
  <1>4. KeepsPasswords
    BY <1>1 DEF KeepsPasswords, HasPassword, WithEmail, Rows
  <1>5. p # None => HasPassword(e)'
    BY <1>1 DEF HasPassword, WithEmail, NewRow
  <1> QED
    BY <1>2, <1>3, <1>4, <1>5 DEF Identity

LEMMA LinkKeeps ==
    ASSUME TypeInv, Identity, NEW u, NEW g \in GoogleIds, LinkGoogleAccount(u, g)
    PROVE  Identity' /\ KeepsPasswords
  <1>t. users \in [UserIds -> User]
    BY DEF TypeInv, TypeOK, UsersTypeOK
  <1>1. /\ \A v \in UserIds \ {u} : users'[v] = users[v]
        /\ u \in UserIds =>
              /\ users'[u].there = users[u].there /\ users'[u].email = users[u].email
              /\ users'[u].pw = users[u].pw /\ users'[u].google = g
              /\ users'[u].provider = IF users[u].pw # None THEN "local+google" ELSE "google"
        /\ Rows' = Rows
    BY <1>t DEF LinkGoogleAccount, Rows, User
  <1>2. \A v \in Rows : v # u => users[v].google # g
    BY DEF LinkGoogleAccount, MayLink, WithGoogle
  <1>3. OneAccountPerPerson'
    BY <1>1, <1>2 DEF Identity, OneAccountPerPerson, Rows
  <1>4. ProviderMatches'
    BY <1>1, UserAssumption DEF Identity, ProviderMatches, Rows
  <1>5. KeepsPasswords
    BY <1>1 DEF KeepsPasswords, HasPassword, WithEmail, Rows
  <1> QED
    BY <1>3, <1>4, <1>5 DEF Identity

LEMMA SetPasswordKeeps ==
    ASSUME TypeInv, Identity, NEW u, NEW p \in Passwords, SetPassword(u, p)
    PROVE  Identity' /\ KeepsPasswords
  <1>t. users \in [UserIds -> User]
    BY DEF TypeInv, TypeOK, UsersTypeOK
  <1>1. /\ \A v \in UserIds \ {u} : users'[v] = users[v]
        /\ u \in UserIds =>
              /\ users'[u].there = users[u].there /\ users'[u].email = users[u].email
              /\ users'[u].pw = p /\ users'[u].google = users[u].google
              /\ users'[u].provider = IF users[u].google # None THEN "local+google" ELSE "local"
        /\ Rows' = Rows
    BY <1>t DEF SetPassword, Rows, User
  <1>2. OneAccountPerPerson'
    BY <1>1 DEF Identity, OneAccountPerPerson, Rows
  <1>3. ProviderMatches'
    BY <1>1, UserAssumption DEF Identity, ProviderMatches, Rows
  <1>4. KeepsPasswords
    BY <1>1, UserAssumption DEF KeepsPasswords, HasPassword, WithEmail, Rows
  <1> QED
    BY <1>2, <1>3, <1>4 DEF Identity

LEMMA StepIdentity ==
    ASSUME TypeInv, Identity, RegisteredHasPassword, [Next]_vars
    PROVE  Identity' /\ RegisteredHasPassword'
  <1>t. /\ users \in [UserIds -> User] /\ req \in [Workers -> Request]
        /\ \A w \in Workers : Brings(req[w])
    BY DEF TypeInv, TypeOK, UsersTypeOK
  <1>k. ASSUME Identity', KeepsPasswords, registered' = registered
        PROVE  Identity' /\ RegisteredHasPassword'
    BY <1>k DEF KeepsPasswords, HasPassword, RegisteredHasPassword
  <1>u. ASSUME UNCHANGED users, registered' = registered
        PROVE  Identity' /\ RegisteredHasPassword'
    <2>1. SameIdentity
      BY <1>u, <1>t DEF SameIdentity
    <2> QED
      BY <1>u, <1>k, <2>1, SameIdentityKeeps
  <1>1. ASSUME NEW w \in Workers, RegisterCreate(w)
        PROVE  Identity' /\ RegisteredHasPassword'
    <2>1. req[w].email \in Emails /\ req[w].pw \in Passwords
      BY <1>1, <1>t DEF RegisterCreate, At, Brings
    <2>2. ASSUME NEW u \in UserIds, NEW e \in Emails, NEW p \in Passwords,
                 Create(u, e, p, None), registered' = registered \cup {e}
          PROVE  Identity' /\ RegisteredHasPassword'
      <3>1. Identity' /\ KeepsPasswords /\ HasPassword(e)'
        BY <2>1, <2>2, CreateKeeps, UserAssumption
      <3>2. RegisteredHasPassword'
        BY <2>2, <3>1 DEF KeepsPasswords, HasPassword, RegisteredHasPassword
      <3> QED
        BY <3>1, <3>2
    <2> QED
      BY <1>1, <1>u, <2>1, <2>2 DEF RegisterCreate
  <1>2. ASSUME NEW w \in Workers, GoogleLink(w)
        PROVE  Identity' /\ RegisteredHasPassword'
    <2>1. req[w].google \in GoogleIds
      BY <1>2, <1>t DEF GoogleLink, At, Brings
    <2> QED
      BY <1>2, <1>k, <1>u, <2>1, LinkKeeps DEF GoogleLink
  <1>3. ASSUME NEW w \in Workers, GoogleCreate(w)
        PROVE  Identity' /\ RegisteredHasPassword'
    BY <1>3, <1>k, <1>u, CreateKeeps DEF GoogleCreate
  <1>4. ASSUME NEW w \in Workers, SetPasswordUpdate(w)
        PROVE  Identity' /\ RegisteredHasPassword'
    <2>1. req[w].pw \in Passwords
      BY <1>4, <1>t DEF SetPasswordUpdate, At, Brings
    <2> QED
      BY <1>4, <1>k, <1>u, <2>1, SetPasswordKeeps DEF SetPasswordUpdate
  <1>5. ASSUME NEW w \in Workers, LoginCount(w) \/ LoginLock(w) \/ Reset(w)
        PROVE  Identity' /\ RegisteredHasPassword'
    BY <1>5, <1>k, <1>u, CountingKeeps DEF LoginCount, LoginLock, Reset
  <1>6. ASSUME NEW u \in UserIds, LockEnds(u)
        PROVE  Identity' /\ RegisteredHasPassword'
    BY <1>6, <1>k, CountingKeeps DEF LockEnds
  <1>7. ASSUME NEW w \in Workers,
               \/ \E e \in Emails, p \in Passwords : RegisterLookup(w, e, p) \/ LoginLookup(w, e, p)
               \/ \E i \in Identities : GoogleLookup(w, i)
               \/ GoogleByEmail(w)
               \/ GoogleReload(w)
               \/ \E u \in UserIds, p \in Passwords : SetPasswordLookup(w, u, p)
        PROVE  Identity' /\ RegisteredHasPassword'
    BY <1>7, <1>u, Zenon DEF RegisterLookup, LoginLookup, GoogleLookup, GoogleByEmail, GoogleReload,
                      SetPasswordLookup
  <1>8. CASE UNCHANGED vars
    BY <1>8, <1>u DEF vars
  <1> QED
    BY <1>1, <1>2, <1>3, <1>4, <1>5, <1>6, <1>7, <1>8 DEF Next, Step

IdentityInv == TypeInv /\ Identity /\ RegisteredHasPassword

LEMMA IdentityInvariant == Spec => []IdentityInv
  <1>1. Init => IdentityInv
    <2>1. ASSUME Init PROVE Rows = {} /\ registered = {}
      BY <2>1 DEF Init, UsersInit, NoRow, Rows
    <2> QED
      BY <2>1, InitType DEF IdentityInv, Identity, OneAccountPerPerson, ProviderMatches,
                            RegisteredHasPassword
  <1>2. IdentityInv /\ [Next]_vars => IdentityInv'
    BY StepType, StepIdentity DEF IdentityInv
  <1> QED
    BY <1>1, <1>2, PTL DEF Spec

(***************************************************************************)
(* However registrations, first sign-ins with Google, links and faults     *)
(* interleave, no two accounts have one email or one Google account.       *)
(***************************************************************************)
THEOREM OneAccount == Spec => []OneAccountPerPerson
  <1>1. IdentityInv => OneAccountPerPerson
    BY DEF IdentityInv, Identity
  <1> QED
    BY <1>1, IdentityInvariant, PTL

(***************************************************************************)
(* auth_provider, that linkGoogleAccount and setPassword compute from the  *)
(* row inside their UPDATE, agrees with the row in every reachable state.  *)
(***************************************************************************)
THEOREM ProviderIsTrue == Spec => []ProviderMatches
  <1>1. IdentityInv => ProviderMatches
    BY DEF IdentityInv, Identity
  <1> QED
    BY <1>1, IdentityInvariant, PTL

(***************************************************************************)
(* No operation takes the password from an account registered with one.    *)
(***************************************************************************)
THEOREM PasswordsStay == Spec => []RegisteredHasPassword
  <1>1. IdentityInv => RegisteredHasPassword
    BY DEF IdentityInv
  <1> QED
    BY <1>1, IdentityInvariant, PTL

-----------------------------------------------------------------------------
(* A lock is always earned.  The number a request compares with the        *)
(* threshold was read earlier and may be out of date either way; what makes*)
(* the comparison safe is that failed_login_attempts, together with the    *)
(* wrong passwords that are not counted yet, never exceeds the number of   *)
(* wrong passwords presented.                                              *)

Counting(u) == {w \in Workers : At(w, "login", "count") /\ req[w].user = u}

Justified(w, u) ==
    /\ At(w, "login", "count") \/ At(w, "login", "lock")
    /\ req[w].user = u
    => req[w].failed < wrong[u]

LockInv ==
    \A u \in UserIds :
       /\ users[u].failed + Cardinality(Counting(u)) <= wrong[u]
       /\ \A w \in Workers : Justified(w, u)
       /\ users[u].locked => wrong[u] >= Threshold

AboutToLock ==
    \A w \in Workers : At(w, "login", "lock") => req[w].failed + 1 >= Threshold

FailureInv == TypeInv /\ LockInv /\ AboutToLock

LEMMA CountingFinite ==
    ASSUME NEW u
    PROVE  IsFiniteSet(Counting(u)) /\ Cardinality(Counting(u)) \in Nat
  BY AccountsAssumption, FS_Subset, FS_CardinalityType DEF Counting

LEMMA Types ==
    ASSUME TypeInv
    PROVE  /\ users \in [UserIds -> User] /\ req \in [Workers -> Request]
           /\ wrong \in [UserIds -> Nat]
           /\ \A u \in UserIds : users[u].failed \in Nat /\ users[u].locked \in BOOLEAN
           /\ \A w \in Workers : req[w].failed \in Nat
           /\ Threshold \in Nat
  BY AccountsAssumption DEF TypeInv, TypeOK, UsersTypeOK, User, Request

\* A step on the account of nobody, or one that only clears counters.
Clearing ==
    /\ users' \in [UserIds -> User]
    /\ \A u \in UserIds : /\ users'[u].failed <= users[u].failed
                          /\ users'[u].locked => users[u].locked

\* A request that neither counts nor locks afterwards.
Quiet(r) == r.op # "login" \/ r.call \notin {"count", "lock"}

LEMMA QuietKeeps ==
    ASSUME FailureInv, TypeInv', Clearing, UNCHANGED wrong, NEW w \in Workers, NEW r, Quiet(r),
           UNCHANGED req \/ req' = [req EXCEPT ![w] = r]
    PROVE  FailureInv'
  <1>t. TypeInv
    BY DEF FailureInv
  <1>1. \A v \in Workers : req'[v] = req[v] \/ req'[v] = r
    BY <1>t, Types
  <1>2. AboutToLock'
    BY <1>1 DEF FailureInv, AboutToLock, At, Quiet
  <1>3. ASSUME NEW u \in UserIds
        PROVE  /\ users'[u].failed + Cardinality(Counting(u)') <= wrong'[u]
               /\ \A v \in Workers : Justified(v, u)'
               /\ users'[u].locked => wrong'[u] >= Threshold
    <2>1. Counting(u)' \subseteq Counting(u)
      BY <1>1 DEF Counting, At, Quiet
    <2>2. Cardinality(Counting(u)') <= Cardinality(Counting(u)) /\ Cardinality(Counting(u)') \in Nat
      BY <2>1, CountingFinite, FS_Subset, FS_CardinalityType
    <2>3. /\ users[u].failed \in Nat /\ users'[u].failed \in Nat /\ wrong[u] \in Nat
          /\ Cardinality(Counting(u)) \in Nat
      BY <1>t, Types, CountingFinite DEF Clearing, User
    <2>4. users[u].failed + Cardinality(Counting(u)) <= wrong[u]
      BY DEF FailureInv, LockInv
    <2>5. users'[u].failed + Cardinality(Counting(u)') <= wrong'[u]
      BY <2>2, <2>3, <2>4 DEF Clearing
    <2>6. \A v \in Workers : Justified(v, u)'
      BY <1>1 DEF FailureInv, LockInv, Justified, At, Quiet
    <2>7. users'[u].locked => wrong'[u] >= Threshold
      BY DEF FailureInv, LockInv, Clearing
    <2> QED
      BY <2>5, <2>6, <2>7
  <1> QED
    BY <1>2, <1>3 DEF FailureInv, LockInv

\* A wrong password: the request will count it.
LEMMA LookupFails ==
    ASSUME FailureInv, TypeInv', NEW w \in Workers, req[w].op # "login", NEW u \in UserIds, NEW r,
           r.op = "login", r.call = "count", r.user = u, r.failed = users[u].failed,
           UNCHANGED users, req' = [req EXCEPT ![w] = r],
           wrong' = [wrong EXCEPT ![u] = @ + 1]
    PROVE  FailureInv'
  <1>t. TypeInv
    BY DEF FailureInv
  <1>1. /\ req'[w] = r
        /\ \A v \in Workers \ {w} : req'[v] = req[v]
        /\ wrong'[u] = wrong[u] + 1
        /\ \A v \in UserIds \ {u} : wrong'[v] = wrong[v]
    BY <1>t, Types
  <1>2. AboutToLock'
    BY <1>1 DEF FailureInv, AboutToLock, At
  <1>3. /\ Counting(u)' = Counting(u) \cup {w} /\ w \notin Counting(u)
        /\ \A v \in UserIds \ {u} : Counting(v)' = Counting(v)
    BY <1>1 DEF Counting, At
  <1>4. Cardinality(Counting(u)') = Cardinality(Counting(u)) + 1
    <2>1. IsFiniteSet(Counting(u))
      BY CountingFinite
    <2>2. Cardinality(Counting(u) \cup {w}) = Cardinality(Counting(u)) + 1
      BY <1>3, <2>1, FS_AddElement
    <2> QED
      BY <1>3, <2>2
  <1>5. ASSUME NEW v \in UserIds
        PROVE  /\ users'[v].failed + Cardinality(Counting(v)') <= wrong'[v]
               /\ \A x \in Workers : Justified(x, v)'
               /\ users'[v].locked => wrong'[v] >= Threshold
    <2>1. /\ users[v].failed \in Nat /\ wrong[v] \in Nat /\ wrong[u] \in Nat
          /\ users[u].failed \in Nat
          /\ Cardinality(Counting(v)) \in Nat /\ Cardinality(Counting(u)) \in Nat
          /\ Threshold \in Nat
          /\ \A x \in Workers : req[x].failed \in Nat
      BY <1>t, Types, CountingFinite
    <2>2. /\ users[v].failed + Cardinality(Counting(v)) <= wrong[v]
          /\ users[u].failed + Cardinality(Counting(u)) <= wrong[u]
          /\ users[v].locked => wrong[v] >= Threshold
          /\ \A x \in Workers : Justified(x, v)
      BY DEF FailureInv, LockInv
    <2>c. Cardinality(Counting(v)') = IF v = u THEN Cardinality(Counting(u)) + 1
                                              ELSE Cardinality(Counting(v))
      BY <1>3, <1>4
    <2>w. wrong'[v] = IF v = u THEN wrong[u] + 1 ELSE wrong[v]
      BY <1>1
    <2>3. users'[v].failed + Cardinality(Counting(v)') <= wrong'[v]
      BY <2>c, <2>w, <2>1, <2>2
    <2>4. ASSUME NEW x \in Workers \ {w}
          PROVE  Justified(x, v)'
      <3>1. wrong[v] <= wrong'[v] /\ wrong'[v] \in Nat
        BY <1>1, <2>1
      <3>2. Justified(x, v) /\ req'[x] = req[x] /\ req[x].failed \in Nat
        BY <1>1, <2>1, <2>2
      <3> QED
        BY <2>1, <3>1, <3>2 DEF Justified, At
    <2>5. Justified(w, v)'
      BY <1>1, <2>1, <2>2 DEF Justified, At
    <2>6. users'[v].locked => wrong'[v] >= Threshold
      BY <1>1, <2>1, <2>2
    <2> QED
      BY <2>3, <2>4, <2>5, <2>6
  <1> QED
    BY <1>2, <1>5 DEF FailureInv, LockInv

\* The wrong password is counted, or the count is lost; the request locks if
\* the number it has read makes it.
LEMMA CountKeeps ==
    ASSUME FailureInv, TypeInv', NEW w \in Workers, LoginCount(w)
    PROVE  FailureInv'
  <1>t. TypeInv
    BY DEF FailureInv
  <1>r. req[w] \in Request
    BY <1>t, Types
  <1>1. /\ \/ req'[w] = Idle
           \/ /\ req'[w].op = req[w].op /\ req'[w].call = "lock"
              /\ req'[w].user = req[w].user /\ req'[w].failed = req[w].failed
              /\ req[w].failed + 1 >= Threshold
        /\ \A v \in Workers \ {w} : req'[v] = req[v]
        /\ req[w].op = "login" /\ req[w].call = "count"
        /\ wrong' = wrong
    BY <1>t, <1>r, Types DEF LoginCount, Answer, Goto, At, Request
  <1>2. AboutToLock'
    BY <1>1 DEF FailureInv, AboutToLock, At, Idle
  <1>3. ASSUME NEW v \in UserIds
        PROVE  /\ users'[v].failed \in Nat /\ users'[v].locked = users[v].locked
               /\ IF v = req[w].user THEN users'[v].failed <= users[v].failed + 1
                                     ELSE users'[v].failed <= users[v].failed
    BY <1>t, Types DEF LoginCount, IncrementFailedAttempts, User
  <1>4. ASSUME NEW v \in UserIds
        PROVE  IF v = req[w].user
               THEN Counting(v)' = Counting(v) \ {w} /\ w \in Counting(v)
               ELSE Counting(v)' = Counting(v)
    BY <1>1 DEF Counting, At, Idle
  <1>5. ASSUME NEW v \in UserIds
        PROVE  /\ users'[v].failed + Cardinality(Counting(v)') <= wrong'[v]
               /\ \A x \in Workers : Justified(x, v)'
               /\ users'[v].locked => wrong'[v] >= Threshold
    <2>1. /\ users[v].failed \in Nat /\ wrong[v] \in Nat
          /\ Cardinality(Counting(v)) \in Nat
      BY <1>t, Types, CountingFinite
    <2>2. /\ users[v].failed + Cardinality(Counting(v)) <= wrong[v]
          /\ users[v].locked => wrong[v] >= Threshold
          /\ \A x \in Workers : Justified(x, v)
      BY DEF FailureInv, LockInv
    <2>3. IF v = req[w].user THEN Cardinality(Counting(v)') = Cardinality(Counting(v)) - 1
                             ELSE Cardinality(Counting(v)') = Cardinality(Counting(v))
      BY <1>4, CountingFinite, FS_RemoveElement
    <2>4. users'[v].failed + Cardinality(Counting(v)') <= wrong'[v]
      BY <1>1, <1>3, <2>1, <2>2, <2>3
    <2>5. \A x \in Workers : Justified(x, v)'
      BY <1>1, <2>2 DEF Justified, At, Idle
    <2> QED
      BY <1>1, <1>3, <2>2, <2>4, <2>5
  <1> QED
    BY <1>2, <1>5 DEF FailureInv, LockInv

\* The lock is set: what the request has read bounds the wrong passwords.
LEMMA LockKeeps ==
    ASSUME FailureInv, TypeInv', NEW w \in Workers, LoginLock(w)
    PROVE  FailureInv'
  <1>t. TypeInv
    BY DEF FailureInv
  <1>1. /\ req'[w] = Idle
        /\ \A v \in Workers \ {w} : req'[v] = req[v]
        /\ req[w].op = "login" /\ req[w].call = "lock"
        /\ wrong' = wrong
    BY <1>t, Types DEF LoginLock, Answer, At
  <1>2. AboutToLock'
    BY <1>1 DEF FailureInv, AboutToLock, At, Idle
  <1>3. ASSUME NEW v \in UserIds
        PROVE  /\ users'[v].failed = users[v].failed
               /\ users'[v].locked => users[v].locked \/ v = req[w].user
               /\ Counting(v)' = Counting(v)
    <2>1. Counting(v)' = Counting(v)
      BY <1>1 DEF Counting, At, Idle
    <2> QED
      BY <1>t, <2>1, Types DEF LoginLock, SetLocked, User
  <1>4. ASSUME NEW v \in UserIds
        PROVE  /\ users'[v].failed + Cardinality(Counting(v)') <= wrong'[v]
               /\ \A x \in Workers : Justified(x, v)'
               /\ users'[v].locked => wrong'[v] >= Threshold
    <2>1. /\ users[v].failed + Cardinality(Counting(v)) <= wrong[v]
          /\ users[v].locked => wrong[v] >= Threshold
          /\ \A x \in Workers : Justified(x, v)
      BY DEF FailureInv, LockInv
    <2>2. \A x \in Workers : Justified(x, v)'
      BY <1>1, <2>1 DEF Justified, At, Idle
    <2>3. v = req[w].user => wrong[v] >= Threshold
      <3>1. req[w].failed + 1 >= Threshold
        BY <1>1 DEF FailureInv, AboutToLock, At
      <3>2. v = req[w].user => req[w].failed < wrong[v]
        BY <1>1, <2>1 DEF Justified, At
      <3> QED
        BY <1>t, <3>1, <3>2, Types
    <2> QED
      BY <1>1, <1>3, <2>1, <2>2, <2>3
  <1> QED
    BY <1>2, <1>4 DEF FailureInv, LockInv

\* The transactions that count nothing and lock nothing.
LEMMA ClearingSteps ==
    ASSUME TypeInv, UsersTypeOK',
           \/ UNCHANGED users
           \/ \E u, e, p, g : Create(u, e, p, g)
           \/ \E u, g : LinkGoogleAccount(u, g)
           \/ \E u, p : SetPassword(u, p)
           \/ \E u : ResetFailedAttempts(u)
           \/ \E u : SetLocked(u, FALSE)
    PROVE  Clearing
  <1>t. /\ users \in [UserIds -> User] /\ users' \in [UserIds -> User]
        /\ \A v \in UserIds : users[v].failed \in Nat
    BY Types DEF UsersTypeOK
  <1>1. CASE UNCHANGED users
    BY <1>t, <1>1 DEF Clearing
  <1>2. CASE \E u, e, p, g : Create(u, e, p, g)
    BY <1>t, <1>2 DEF Clearing, Create, NewRow
  <1>3. CASE \E u, g : LinkGoogleAccount(u, g)
    <2>1. PICK u, g : LinkGoogleAccount(u, g)
      BY <1>3
    <2>2. ASSUME NEW v \in UserIds
          PROVE  users'[v].failed <= users[v].failed /\ (users'[v].locked => users[v].locked)
      <3>1. users[v] \in User /\ (v # u => users'[v] = users[v])
        BY <1>t, <2>1, Zenon DEF LinkGoogleAccount
      <3>2. CASE v = u
        <4>1. users'[v].failed = users[v].failed /\ users'[v].locked = users[v].locked
          BY <1>t, <2>1, <3>1, <3>2, Zenon DEF LinkGoogleAccount, User
        <4> QED
          BY <1>t, <4>1
      <3> QED
        BY <1>t, <3>1, <3>2
    <2> QED
      BY <1>t, <2>2 DEF Clearing
  <1>4. CASE \E u, p : SetPassword(u, p)
    <2>1. PICK u, p : SetPassword(u, p)
      BY <1>4
    <2>2. ASSUME NEW v \in UserIds
          PROVE  users'[v].failed <= users[v].failed /\ (users'[v].locked => users[v].locked)
      <3>1. users[v] \in User /\ (v # u => users'[v] = users[v])
        BY <1>t, <2>1, Zenon DEF SetPassword
      <3>2. CASE v = u
        <4>1. users'[v].failed = users[v].failed /\ users'[v].locked = users[v].locked
          BY <1>t, <2>1, <3>1, <3>2, Zenon DEF SetPassword, User
        <4> QED
          BY <1>t, <4>1
      <3> QED
        BY <1>t, <3>1, <3>2
    <2> QED
      BY <1>t, <2>2 DEF Clearing
  <1>5. CASE \E u : ResetFailedAttempts(u)
    <2>1. PICK u : ResetFailedAttempts(u)
      BY <1>5
    <2>2. ASSUME NEW v \in UserIds
          PROVE  users'[v].failed <= users[v].failed /\ (users'[v].locked => users[v].locked)
      <3>1. users[v] \in User /\ (v # u => users'[v] = users[v])
        BY <1>t, <2>1, Zenon DEF ResetFailedAttempts
      <3>2. CASE v = u
        <4>1. users'[v].failed = 0 /\ users'[v].locked = FALSE
          BY <1>t, <2>1, <3>1, <3>2, Zenon DEF ResetFailedAttempts, User
        <4> QED
          BY <1>t, <4>1
      <3> QED
        BY <1>t, <3>1, <3>2
    <2> QED
      BY <1>t, <2>2 DEF Clearing
  <1>6. CASE \E u : SetLocked(u, FALSE)
    <2>1. PICK u : SetLocked(u, FALSE)
      BY <1>6, Zenon
    <2>2. ASSUME NEW v \in UserIds
          PROVE  users'[v].failed <= users[v].failed /\ (users'[v].locked => users[v].locked)
      <3>1. users[v] \in User /\ (v # u => users'[v] = users[v])
        BY <1>t, <2>1 DEF SetLocked
      <3>2. CASE v = u
        BY <1>t, <2>1, <3>1, <3>2 DEF SetLocked, User
      <3> QED
        BY <1>t, <3>1, <3>2
    <2> QED
      BY <1>t, <2>2 DEF Clearing
  <1> QED
    BY <1>1, <1>2, <1>3, <1>4, <1>5, <1>6, Zenon

LEMMA StepFailure == FailureInv /\ [Next]_vars => FailureInv'
  <1> SUFFICES ASSUME FailureInv, [Next]_vars PROVE FailureInv'
    OBVIOUS
  <1>t. TypeInv /\ TypeInv' /\ UsersTypeOK'
    BY StepType DEF FailureInv, TypeInv, TypeOK
  <1>i. Quiet(Idle)
    BY DEF Quiet, Idle
  <1>c. ASSUME Clearing, UNCHANGED wrong, NEW w \in Workers,
               \/ UNCHANGED req
               \/ Answer(w)
               \/ \E r : Quiet(r) /\ req' = [req EXCEPT ![w] = r]
        PROVE  FailureInv'
    BY <1>c, <1>t, <1>i, QuietKeeps DEF Answer
  <1>q. ASSUME NEW w \in Workers, req[w].op = "google", NEW u,
               NEW c \in {"create", "link", "reload", "reset"}
        PROVE  /\ Quiet([req[w] EXCEPT !.call = c])
               /\ Quiet([req[w] EXCEPT !.call = c, !.user = u])
    BY <1>q, <1>t, Types DEF Quiet, Request
  <1>1. ASSUME NEW w \in Workers, NEW e \in Emails, NEW p \in Passwords,
               RegisterLookup(w, e, p)
        PROVE  FailureInv'
    <2>1. Quiet([Idle EXCEPT !.op = "register", !.call = "create", !.email = e, !.pw = p])
      BY DEF Quiet, Idle
    <2> QED
      BY <1>1, <1>c, <1>t, <2>1, ClearingSteps DEF RegisterLookup
  <1>2. ASSUME NEW w \in Workers, RegisterCreate(w)
        PROVE  FailureInv'
    BY <1>2, <1>c, <1>t, ClearingSteps DEF RegisterCreate
  <1>3. ASSUME NEW w \in Workers, NEW e \in Emails, NEW p \in Passwords, LoginLookup(w, e, p)
        PROVE  FailureInv'
    <2> DEFINE r(u, c) == [Idle EXCEPT !.op = "login", !.call = c,
                                       !.user = u, !.failed = users[u].failed]
    <2>1. ASSUME NEW u
          PROVE  /\ Quiet(r(u, "reset"))
                 /\ r(u, "count").op = "login" /\ r(u, "count").call = "count"
                 /\ r(u, "count").user = u /\ r(u, "count").failed = users[u].failed
      BY DEF Quiet, Idle
    <2> HIDE DEF r
    <2>2. /\ UNCHANGED users /\ req[w].op # "login"
          /\ \/ /\ UNCHANGED wrong
                /\ Answer(w) \/ \E u \in UserIds : req' = [req EXCEPT ![w] = r(u, "reset")]
             \/ \E u \in UserIds : /\ wrong' = [wrong EXCEPT ![u] = @ + 1]
                                   /\ req' = [req EXCEPT ![w] = r(u, "count")]
      BY <1>3, Zenon DEF LoginLookup, Free, WithEmail, Rows, r
    <2>3. CASE UNCHANGED wrong /\ (Answer(w) \/ \E u \in UserIds : req' = [req EXCEPT ![w] = r(u, "reset")])
      <3>1. Clearing
        BY <1>t, <2>2, ClearingSteps
      <3> QED
        BY <1>c, <2>1, <2>3, <3>1
    <2>4. ASSUME NEW u \in UserIds, wrong' = [wrong EXCEPT ![u] = @ + 1],
                 req' = [req EXCEPT ![w] = r(u, "count")]
          PROVE  FailureInv'
      <3>1. PICK x : /\ x.op = "login" /\ x.call = "count" /\ x.user = u
                     /\ x.failed = users[u].failed /\ req' = [req EXCEPT ![w] = x]
        BY <2>1, <2>4
      <3>2. users' = users /\ req[w].op # "login" /\ TypeInv'
        BY <1>t, <2>2
      <3> QED
        <4>1. /\ UNCHANGED users /\ u \in UserIds
              /\ wrong' = [wrong EXCEPT ![u] = @ + 1]
          BY <2>4, <3>2
        <4> HIDE DEF FailureInv, TypeInv
        <4> QED
          BY <3>1, <3>2, <4>1, LookupFails
    <2> QED
      BY <2>2, <2>3, <2>4
  <1>4. ASSUME NEW w \in Workers, NEW i \in Identities, GoogleLookup(w, i)
        PROVE  FailureInv'
    <2>1. ASSUME NEW u, NEW c
          PROVE  Quiet([Idle EXCEPT !.op = "google", !.call = c, !.user = u,
                                    !.email = i.email, !.google = i.google])
      BY DEF Quiet, Idle
    <2> QED
      BY <1>4, <1>c, <1>t, <2>1, ClearingSteps, Zenon DEF GoogleLookup
  <1>5. ASSUME NEW w \in Workers, GoogleByEmail(w)
        PROVE  FailureInv'
    <2>1. \E r : Quiet(r) /\ req' = [req EXCEPT ![w] = r]
      BY <1>5, <1>q, Zenon DEF GoogleByEmail, Goto, GotoFor, At
    <2> QED
      BY <1>5, <1>c, <1>t, <2>1, ClearingSteps DEF GoogleByEmail
  <1>6. ASSUME NEW w \in Workers, GoogleLink(w)
        PROVE  FailureInv'
    <2>1. \E r : Quiet(r) /\ req' = [req EXCEPT ![w] = r]
      BY <1>6, <1>q, Zenon DEF GoogleLink, Goto, At
    <2> QED
      BY <1>6, <1>c, <1>t, <2>1, ClearingSteps DEF GoogleLink
  <1>7. ASSUME NEW w \in Workers, GoogleReload(w)
        PROVE  FailureInv'
    <2>1. Answer(w) \/ \E r : Quiet(r) /\ req' = [req EXCEPT ![w] = r]
      BY <1>7, <1>q, Zenon DEF GoogleReload, Goto, At
    <2>2. UNCHANGED users /\ UNCHANGED wrong
      BY <1>7 DEF GoogleReload
    <2>3. Clearing
      BY <1>t, <2>2, ClearingSteps
    <2> HIDE DEF Clearing, Quiet, Answer, FailureInv
    <2> QED
      BY <1>c, <2>1, <2>2, <2>3
  <1>8. ASSUME NEW w \in Workers, GoogleCreate(w)
        PROVE  FailureInv'
    <2>1. Answer(w) \/ \E r : Quiet(r) /\ req' = [req EXCEPT ![w] = r]
      BY <1>8, <1>q, Zenon DEF GoogleCreate, GotoFor, At
    <2> QED
      BY <1>8, <1>c, <1>t, <2>1, ClearingSteps, Zenon DEF GoogleCreate
  <1>9. ASSUME NEW w \in Workers, Reset(w)
        PROVE  FailureInv'
    BY <1>9, <1>c, <1>t, ClearingSteps DEF Reset
  <1>10. ASSUME NEW w \in Workers, NEW u \in UserIds, NEW p \in Passwords,
                SetPasswordLookup(w, u, p)
         PROVE  FailureInv'
    <2>1. Quiet([Idle EXCEPT !.op = "setPassword", !.call = "set", !.user = u, !.pw = p])
      BY DEF Quiet, Idle
    <2> QED
      BY <1>10, <1>c, <1>t, <2>1, ClearingSteps DEF SetPasswordLookup
  <1>11. ASSUME NEW w \in Workers, SetPasswordUpdate(w)
         PROVE  FailureInv'
    BY <1>11, <1>c, <1>t, ClearingSteps DEF SetPasswordUpdate
  <1>12. ASSUME NEW w \in Workers, LoginCount(w) \/ LoginLock(w)
         PROVE  FailureInv'
    BY <1>12, <1>t, CountKeeps, LockKeeps
  <1>13. ASSUME UNCHANGED <<req, wrong>>, Clearing
         PROVE  FailureInv'
    <2>1. PICK w \in Workers : TRUE
      BY AccountsAssumption
    <2> QED
      BY <1>13, <1>c
  <1>14. ASSUME NEW u \in UserIds, LockEnds(u)
         PROVE  FailureInv'
    BY <1>13, <1>14, <1>t, ClearingSteps DEF LockEnds
  <1>15. CASE UNCHANGED vars
    BY <1>13, <1>15, <1>t, ClearingSteps DEF vars
  <1> QED
    BY <1>1, <1>2, <1>3, <1>4, <1>5, <1>6, <1>7, <1>8, <1>9, <1>10, <1>11, <1>12,
       <1>14, <1>15 DEF Next, Step

LEMMA InitFailure == Init => FailureInv
  <1> SUFFICES ASSUME Init PROVE FailureInv
    OBVIOUS
  <1>1. TypeInv
    BY InitType
  <1>2. AboutToLock
    BY DEF Init, Idle, AboutToLock, At
  <1>3. ASSUME NEW u \in UserIds
        PROVE  /\ users[u].failed + Cardinality(Counting(u)) <= wrong[u]
               /\ \A w \in Workers : Justified(w, u)
               /\ users[u].locked => wrong[u] >= Threshold
    <2>1. Counting(u) = {}
      BY DEF Init, Idle, Counting, At
    <2>2. Cardinality(Counting(u)) = 0
      BY <2>1, FS_EmptySet
    <2>3. \A w \in Workers : Justified(w, u)
      BY DEF Init, Idle, Justified, At
    <2>4. users[u].failed = 0 /\ ~users[u].locked /\ wrong[u] = 0
      BY DEF Init, UsersInit, NoRow
    <2> QED
      BY <2>2, <2>3, <2>4
  <1> QED
    BY <1>1, <1>2, <1>3 DEF FailureInv, LockInv

(***************************************************************************)
(* An account is locked only after Threshold wrong passwords, though login *)
(* compares a count it read before it counts, and logins overlap.          *)
(***************************************************************************)
THEOREM LocksAreEarned == Spec => []LockMeansFailures
  <1>1. FailureInv => LockMeansFailures
    BY DEF FailureInv, LockInv, LockMeansFailures
  <1> QED
    BY <1>1, InitFailure, StepFailure, PTL DEF Spec
=============================================================================
