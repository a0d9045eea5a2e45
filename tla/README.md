# A TLA+ model of CPPBackendApi

CPPBackendApi is a C++ web service (Crow) over one PostgreSQL database, that it
uses as a relational store, a cache, a message queue and a document store. Crow
runs every request on one of several worker threads (`Core/Core.cpp:247`); the
threads share nothing but the connection pool and the signing keys, and several
instances may run on one database. So what can go wrong is what happens between
the transactions of different requests, in the pool, and when a database call
fails half way. That is what these modules are about.

## The system's parts

| Part | State | Operations | Made correct by | Model |
|---|---|---|---|---|
| Session store (`PostgresSessionRepository`) | tables `sessions`, `token_revocations` | create, find by id, jti or token hash, rotate, revoke one, revoke all, blacklist, cleanup | a revoked row never changes; the blacklist agrees with the sessions | `SessionStore` |
| Authentication and sessions (`AuthUseCases`, `SessionUseCases`, `extractAuthenticatedUser`) | requests in progress, tokens held by clients | login, refresh, logout, logout-all, list, revoke own, revoke as administrator | who is let in, who may revoke, what reuse of a token means | `SessionAuthority`, `AuthSessions` |
| Connection pool (`PostgresDb`) | stack of idle connections, counter, condition variable | lease, return, reconnect | exact counter, bound, no lost wakeup, everybody answered | `ConnectionPool`, `ConnectionLeases` |
| Message queue (`PostgresMessageQueueRepository`, `QueueUseCases`) | table `message_queue` | publish, poll, acknowledge, fail | one delivery per message, order, nothing lost | `AtMostOnceQueue`, `MessageQueue` |
| User accounts, login lockout (`PostgresUserRepository`, `AuthUseCases::login`) | table `users` | register, count failures, lock, set password | one account per email; a lock is earned, and holds | `UserStore`, `Accounts` |
| Sign-in with Google (`AuthUseCases::loginWithGoogle`, `GoogleAuthService`) | PKCE verifier in the cache, `users.google_id` | authorisation URL, callback, linking | a verifier is used once; one account per Google id; links keep passwords | `CacheRequests` up to the verified identity, `Accounts` from there on |
| Cache (`PostgresCacheRepository`) | table `cache_store` | set, get, remove, cleanup | a map whose entries expire by themselves; no stale answer | `ExpiringMap`, `CacheStore`, `CacheRequests` |
| Signing keys and access tokens (`RsaKeyManager`, `JwtService`) | key ring, JWKS, one of each per node | rotate, look up, sign, validate | tokens stay verifiable while they are valid; no node takes another's key for its own | `KeyRing` |
| Todos (`PostgresTodoRepository`, `InMemoryTodoRepository`) | table `todos`; a vector in memory | create, read, list, update, delete | requests that overlap behave as if done at one instant; both repositories behave alike | `RecordStore`, `Todos` |
| Documents (`PostgresDocumentRepository`) | table `documents` | insert, find, query, update, remove | the same; collections are apart; a page shows the newest | `RecordStore`, `Documents` |
| Revocation listener | one thread, one connection | start, stop, print | stops, reconnects | not modelled (below) |
| Audit log, permissions, validation, cryptography, HTTP layer, configuration, OpenAPI text | | | | not modelled (below) |

**How they interact.** Every repository call leases one connection from the pool
for the time of one transaction and gives it back at its end. No call is made
while another connection is held, so the pool and the repositories can be
modelled apart: to a repository the pool is a call that may throw, to the pool a
repository is a thread that holds a connection for a while. A use case makes
several repository calls in a row and holds nothing between two of them, and the
repositories turn every exception into the value for "nothing found" or "not
done". One action of `AuthSessions` is therefore one repository call, and the
failures of calls are part of it.

## Modules

| Module | What it is |
|---|---|
| `SessionStore` | the tables of sessions and revoked tokens and the transactions on them |
| `SessionAuthority` | what the sessions promise |
| `AuthSessions` | EXTENDS `SessionStore` with the requests in progress, and keeps the promise |
| `MCAuthSessions` | instances for TLC |
| `AuthSessionsProofs`, `AuthGrantProofs` | theorems about `AuthSessions` |
| `UserStore` | the table of accounts and the transactions on it |
| `Accounts` | EXTENDS it with registration, login, sign-in with Google, set password |
| `MCAccounts`, `AccountsProofs` | instances and theorems |
| `ConnectionLeases` | what the pool promises |
| `ConnectionPool` | how `PostgresDb` keeps the promise |
| `MCConnectionPool`, `ConnectionPoolProofs` | instances and theorems |
| `AtMostOnceQueue` | what the queue promises |
| `MessageQueue`, `MCMessageQueue`, `MessageQueueProofs` | how the table keeps the promise, instances and theorems |
| `ExpiringMap` | what the cache promises |
| `CacheStore` | the table `cache_store` and the transactions on it |
| `CacheRequests`, `MCCacheRequests`, `CacheProofs` | EXTENDS it with the cache's endpoints and the sign-in with Google; its instance and theorems |
| `KeyRing`, `MCKeyRing`, `KeyRingProofs` | signing keys and access tokens on several nodes; instance and theorems |
| `ContentClients` | the clients of the content, and what an order of a set is (`InOrder`) |
| `RecordStore` | what a store of records promises to them |
| `Todos`, `Documents` | how the todos and the documents keep it |
| `MCContent`, `ContentProofs` | one instance of both, theorems about both |

### SessionStore and AuthSessions

* A jti and a refresh token are generated together and always stored together,
  so a pair is one number, a *credential*. `lastCred` is the random generator:
  each one is fresh. Hashing is injective.
* `sessions[s].cred` stands for the columns `jti` and `refresh_token_hash`,
  `prev` for `previous_refresh_token_hash`, `status` for `revoked_at` (and for
  the row being there at all). `issued` is the set of token responses clients
  have received: what they may present.
* `req[w]` is the program counter of a worker thread: which repository call
  comes next (`call`), and the local variables that outlive a call.
* A repository call either works, throws first (`"error"`), is not committed
  (`"lost"`), or is committed and throws all the same (`"doubt"`).
* `presented` and `replayed` are history: which refresh tokens were presented,
  and whether one was presented twice.
* The clock is `now`; the expiry of a token is tested by `JwtService`
  (`now < exp`), that of a session on the row that was read. `Tick` lets no
  request take longer than `MaxDelay`.
* `active` is `users.is_active`. No route changes it; `SetActive` is
  `PostgresUserRepository::update`, that an administrator's tool would call.
  Likewise nothing in the program calls `cleanupExpiredRevocations`; `Cleanup`
  lets it run at any time.

`SessionAuthority` has no tokens, no hashes, no blacklist and no clock: a session
is open or ended, and a visitor passes two doors, at which the session must be
open and the account active *at that instant*, and does what the visit is for at
a third instant. `StateOf`, `StageOf` and `VisitOf` map rows and requests to it.
Almost every repository call is one step of a visit: `CheckSession` is the first
door, `CheckAccount` or `RefreshUser` the second, `Kill` or `KillAll` ends
sessions. `CheckAdmin` and `FindTarget` are stutters that go on when they succeed:
the administrator's permission and the owner of the row are asked for at the
instant of the revocation, and that what was read earlier still holds then is what
the refinement shows. With faults that lose a transaction a visit may be left
undone and answered with success (`Lossy`), but for a logout and a refresh.

`LoginLookup` begins where the password has been verified. The audit log is left
out: its failures are swallowed and nothing reads it.

### UserStore and Accounts

The same cut as above: one action is one repository call. `users` has a row per
id; `pw`, `google` and `provider` are `password_hash`, `google_id` and
`auth_provider`, a password is as good as its hash. `locked` says that
`locked_until` lies ahead; `LockEnds` is the end of the fifteen minutes, at any
time. `Create` and `LinkGoogleAccount` have the UNIQUE constraints of the
migrations as their guards, where `MayCreate` compares lower-case emails
(migration 003) and the lookups `WithEmail` compare them as spelled. `Lower` is a
constant function, so an instance says which spellings are one.

`LoginLookup` reads no lock, because `mapUserRow` fills everything but
`lockedUntil`. It keeps the number of failures it has read (`req[w].failed`), and
`LoginCount` and `LoginLock` decide on that. `loginWithGoogle` starts with what
Google vouches for, a pair of a Google id and an email from `Identities`; both
sign-ins end where `AuthSessions` takes over. `is_active` is left to
`AuthSessions`: nothing here changes it. `wrong` and `registered` are history.

### ConnectionPool

`getConnection` holds the mutex from its first to its last line except while it
waits on `m_cv`, so a critical section is one action. `notify_one` of
`returnConnection` is called after the unlock and is an action of its own
(`Notify`); the failed reconnection notifies while it holds the mutex, so this is
part of `ReconnectFails`. A waiter that is notified goes back to `"ask"` and
competes with newcomers. A connection is `"open"` or `"closed"`; the server may
close one at any time.

### MessageQueue

Each operation is one transaction: its statement takes the row's lock, its
effect is seen at the commit, and two actions model the two. `Locked` is the row
lock: `SKIP LOCKED` passes over it, `acknowledge` and `fail` wait for it. A
transaction may end `"lost"` or in `"doubt"` as above. The row of a publication
that is not committed is seen by nobody. `prior` is history for the order
property.

`AtMostOnceQueue` has messages that are ready, taken or finished, clients that have
asked for something, and answers: what a client asked for happens at one instant.
A statement is the request, its commit or failure the effect with the answer, so
the mapping (`StageOf`, `Promise`) needs no history.

### CacheStore and CacheRequests

`cache` has the row of each key; a row with `expires <= now` is expired and may
still be there, as in the table. `CacheRequests` adds its two users. A request of
the cache's endpoints is one action, except a set, that writes (`SetEntry`) and
reads back (`ReadBack`) in two transactions. A sign-in goes through `Callback`,
`ReadVerifier`, `Purge` and `Exchange`: the lookup of the verifier, its removal,
and Google's answer. Clients come with every state and every code that Google has
given out, also twice. An authorisation code is known by the verifier of the URL
that it came from, and Google (external) redeems it once and only with that
verifier. `ClaimsStatus` and `IdTokenStatus` are the decision on the claims of an
ID token; all combinations of claims are enumerated, and `Exchange` and
`DirectLogin` answer with any reply that one of them leads to. Any repository
call may fail, with the result the repository gives then. `spent`, `kept`,
`puts` and the marks of `urls` are history for the properties.

`ExpiringMap` has no rows and no clock, only values with the time that is left to
them. The mapping takes the rows that are `Live`.

### KeyRing

Each node has its own ring, because keys live in memory (`RsaKeyManager.cpp:16`).
`rotateKey` is one action, it holds the exclusive lock throughout. Signing is
two: `TakeKey` copies the active key under the shared lock, `Sign` uses it later.
A pair of keys is the number of its generation; 0 stands for the empty strings
of a generation that failed. A kid is the configured one, a name, or the second
in which `rotateKey` was called without one. `made` is history.

Nothing in `Core.cpp` calls `rotateKey`; the tests do, and an operator's tool
would. `Restart` is the construction in `main`.

### RecordStore, Todos and Documents

A todo or document request in the database is two actions, its first statement
with the row lock, and the rest with the commit; `CommitFails` and
`DocumentFails` are the exceptions before and after a commit, `NoDatabase` and
`NoDocuments` those before the first statement. In memory a request is one action
under the mutex. `backend` says which repository is there and never changes.

`RecordStore` has records, requests that wait, and answers: a request takes
effect at one instant, on the record of that instant. The mapping takes the
committed rows for the records and a transaction for a request that waits. The
conjunct on changes in its `Next` says nothing that `[Next]_vars` does not say;
it spares TLC the requests of clients that nothing happens to.

A title or description is good or `BadText` (`InputValidator`), `Keep` is an
optional without a value. A document is the set of its fields, so that a filter
(`data @> filter`) asks for a subset. `Page` is the query with its order and its
limit. Times other than the order of creation are left out.

## Runs

All bounds are CONSTANTS of the modules and named there: `MaxCred` (credentials
generated), `MaxTime`, `MaxDelay`, `MaxId` (messages), `MaxRetry`, `MaxWrong` (wrong
passwords per account), `MaxUrls` (authorisation URLs), `MaxTtl`, `MaxPairs`,
`MaxTokens`, `MaxTodos` (ids); the uuids of an instance bound its documents. The
auth, accounts, cache, key and content runs
set `CHECK_DEADLOCK FALSE`: once the credentials, ids and the time are used up a
client really has nothing left to do. Symmetry is used only for sets whose
members are merely compared, and in no run with a liveness property.

| Run | Instance | Shows |
|---|---|---|
| `auth_concurrent` | 2 requests at once, 2 users (one an administrator), 2 sessions, 3 credentials, all operations but logout-all, all faults, a suspended account | `GrantedOnlyIfUsable`, `RevocationIsPermanent`, `SpentTokenRefused`, `OnlyEntitledRevoke`, `HonestNotFlagged`, `ActsAsAuthority` (refinement of `SessionAuthority`) |
| `auth_time` | 1 user, 5 instants, access tokens live 1, sessions 2, requests take up to 1; a call may be committed and throw | `BlacklistComplete`, `SuccessMeansRevoked` |
| `accounts_races` | 2 requests at once, 2 accounts, 3 emails of 2 people (one with two spellings), 2 Google accounts with any of the emails, threshold 2, failing calls | `OneAccountPerPerson`, `ProviderMatches`, `RegisteredHasPassword`, `LockMeansFailures` |
| `pool_safety` | 5 threads, pool of 3, all faults | `CountExact`, `BoundedLeases` (refinement of `ConnectionLeases`) |
| `pool_answered` | 5 threads, pool of 2, failing reconnections, fairness | `NoLostWakeup`, `AllAnswered` |
| `queue_delivery` | 2 producers, 3 consumers, 2 topics, 2 messages, all faults | `NoDuplicateDelivery`, `QueueKeepsPromise` (refinement of `AtMostOnceQueue`, where a finished message stays finished) |
| `queue_order` | 2 producers, 2 consumers, 1 topic, 3 messages, no faults, fairness | `FifoPerConsumer`, `EveryMessageTaken` |
| `cache_signin` | 2 requests at once, 2 states, 2 authorisation URLs, 1 other key with 2 values, instants 0 and 1, a verifier lives 1, an entry 1 or the default 2, failing calls | `CacheImplementsMap` (refinement of `ExpiringMap`), `SetAnswerNotStale`, `SpentVerifiersGone`, `HonestSignInWorks` |
| `keys` | 2 nodes, 2 requests that sign, 2 previous keys, 5 generations of keys, instants 0 to 2, access tokens live 2, one token held at a time | `VerifiesUntilRetired`, `AcceptsOnlyOwn`, `JwksAgrees` |
| `content` | 2 clients; todos with 2 titles, 1 description and 2 ids, 1 todo at the beginning, either repository; or documents with 2 collections, 2 uuids, 2 values, pages of 1; all faults | `TodosImplementStore`, `DocumentsImplementStore` (refinements of `RecordStore`), `GoneStaysGone`, `ListsAgree`, `PagesAreNewest` |

Two requests are enough for the races of a pair of handlers, and every property
of `AuthSessions` speaks of one request, or of one request and a revocation; two
sessions are needed for the operations on all sessions of a user; three
credentials are a login and two rotations, or two logins and a rotation.
Logout-all is left to `auth_time`: it is the transaction that the reuse of a token
and an administrator call too.
`accounts_races` has two of everything that two requests can compete for, an
email that changes hands between Google accounts, and a Google account whose
email changes; a threshold of 2 lets one request read a count that another one
is about to change. In
`pool_answered` three threads wait while two hold connections. `queue_delivery`
needs two consumers on one message and one that acknowledges it meanwhile.
In `cache_signin` two states and two URLs make a callback bring the wrong state,
the wrong code, or a state that a second URL has taken over; at instant 1 a
verifier and an entry have expired and an entry with the default has not. In `keys`
a ring holds three keys, not six as in the code, so that three rotations push
the first one out; both nodes start, or start again, with one configured kid. A
token is judged alone, so one is enough (and the theorems have no such bounds).
`content` has a todo that exists and one that is created, and two documents in two
collections. Two requests are enough to interfere in a row, and
no request touches two rows.
`FifoPerConsumer` is stated without faults because a poll that is rolled back
puts its message back behind one that another poll has skipped to: this is how
`SKIP LOCKED` works and the order is lost there.

### Where the program does not do what it says

Each of these runs checks one statement of a comment or a document, and TLC
finds it violated.

| Run | Property | What happens |
|---|---|---|
| `auth_one_time_use` | `OneTimeUse` | two overlapping refreshes with one token both succeed: the row lock of the lookup ends before the rotation |
| `accounts_lockout` | `LockHolds` | the account is locked in the table and the next right password is accepted: no read returns `locked_until` |

Others have no run of their own, because they are plain in the code or need only
one more word in a configuration to be seen:

* A rotation keeps one previous hash (`PostgresSessionRepository.cpp:341`), so a
  refresh token of two rotations ago is unknown and its reuse revokes nothing;
  `README.md:80` says that any rotated token does.
* When the creation of a connection throws, nobody is notified
  (`PostgresDb.cpp:76`; the failed reconnection notifies, line 90). Say the database
  restarts: both connections of a pool of two come back closed and wake a waiter
  each, these two fail to connect, and a third waiter sleeps while the pool has
  room. `AllAnswered` is violated like this when `ConnectFaults` of
  `pool_answered` contains `"create"`; `docs/01_system_design.md:116` says that the
  pool "automatically reconnects seamlessly".
* `revokeUserSession` drops the result of `revokeSession` and answers "Session
  revoked successfully" when the transaction failed (`SessionUseCases.cpp:101`).
  `SuccessMeansRevoked` is violated when `DbFaults` contains `"lost"`, so `auth_time`
  checks it for transactions that are not rolled back.
* `pollNext` commits PROCESSING before the answer is sent and nothing takes a
  message back, so a node that stops in between loses it;
  `docs/01_system_design.md:140` says "zero queue data loss on node failure".
* `docs/04_api_flows.md:192` says that the verifier is fetched and removed
  "atomically" and a replayed callback cannot retrieve it. It is two
  transactions: callbacks that overlap both get it, and Google's refusal of the
  second code is what remains. `SpentVerifiersGone` holds for callbacks that have
  ended. The removal is by key, so it may also take the verifier of a later URL
  with the same state; `HonestSignInWorks` says what is left.
* `docs/security.md:176` promises rotation of keys without interruption. Two
  rotations in one second share a kid, and the lookup finds the newer key or the
  oldest of the previous ones, so tokens of the others are refused; a restart or
  a second node has another key under the same configured kid.
  `VerifiesUntilRetired` and `AcceptsOnlyOwn` say exactly which tokens are
  accepted. `README.md:291` names the variable of the kid `JWT_KID`, the code
  reads `JWT_KEY_ID` (`EnvLoader.cpp:219`).
* `.env.example:23` to `28` offer the lifetimes of tokens, the number of failed
  attempts and the minutes of a lock as settings. `EnvLoader.cpp:220` reads them
  and nothing uses them: the use cases have 900 seconds, 7 days (30 after a
  sign-in with Google), 5 attempts and 15 minutes of their own.
* A cache set whose write fails is answered with what the key held before, "set
  successfully" (`CacheUseCases.cpp:28`). Todos and documents that could not be
  stored are answered 201 with the id 0 or an empty one.

Further, `createSession` and
`create` know the new id before the commit and return it when the commit throws,
so a login or a registration that was not stored is answered like one that was
(`PostgresSessionRepository.cpp:47`, `PostgresUserRepository.cpp:128`); `publish`
answers 201 with the id 0 when the database refused the message
(`QueueUseCases.cpp:32`). A message
marked as failed is never handed out again, though `README.md:134` says "for
retry". A second acknowledgement succeeds, though its error text says "not found
or already acknowledged" (`QueueUseCases.cpp:102`).

## Fairness

`ConnectionPool`: weak fairness of each thread's own steps (it gets the mutex, it
finishes its transaction and returns the connection, it calls `notify_one`).
The operating system schedules threads, connection attempts have a timeout
(`connect_timeout`), and the handle's destructor always runs. Nothing is assumed
of which waiter is notified, of spurious wakeups or of the server. `AllAnswered`
is for the case that new requests stop at some time: the mutex and the condition
variable promise nothing to a thread that newcomers overtake again and again.

`MessageQueue`: transactions end (weak), and each consumer polls each topic
whenever it is free again and again (strong, because a consumer is busy in
between). Consumers are outside of the program; `EveryMessageTaken` says what the
queue does for consumers of this kind.

The other modules have safety properties only: a request ends after a fixed
number of calls, each with a timeout.

## What is proved

The proofs hold for every value of the constants that satisfies the named ASSUMEs:
every number of workers, users, sessions, threads, messages, clients and ids.
Every invariant below that is named `Inv`, or ends in it, was checked by TLC on the
instances of the runs before it was proved.

* `TypeCorrect`: `Spec => []TypeOK`. `TypeOK` alone is not inductive: `Kill`
  needs a session as its target and `KillAll` a user, and which it is depends on
  the next call. `AuthSessionsProofs` strengthens it to `TypeInv`.
* `RevocationIsFinal`: `Spec => RevocationIsPermanent`. The only transaction
  that writes to an existing row besides a revocation is the rotation, and its
  WHERE asks for a live row; the step proof goes through every action.
* `GrantsAreSound`: `Spec => []GrantedOnlyIfUsable`. The inductive invariant
  `GrantInv` says that a request at or past the check of the account has a
  session that was live since the request began, one past it also an account that
  was active, and that the history variables mean what they say.
* `TokensAreSpent`, `OnlyTheEntitledRevoke`, `FastTableIsComplete`,
  `SuccessIsRevocation` (in `AuthGrantProofs`): `SpentTokenRefused`,
  `OnlyEntitledRevoke`, `BlacklistComplete` and `SuccessMeansRevoked`, all from one
  invariant, `AuthInv`. To `TypeInv` and `GrantInv` it adds: a credential is on
  one row at most and none is from the future (`CredInv`); an exchanged token is on
  no row, a token names the user of its session, and the newest token of a session
  ends before the session (`TokenInv`); the fast table has the jtis of revoked
  sessions and not those of live ones (`JtiInv`); and what a request has read in
  an earlier transaction still holds where it is used (`ReqGood`: the owner of the
  session that it is about to revoke, the holder of the token that it is about to
  exchange). `WorkerStep` says what a step makes of a request, `TablesSteps` what
  it makes of the tables; each part of `AuthInv` is then preserved by a lemma of
  its own. `BlacklistComplete` is where `AccessTtl + MaxDelay <= RefreshTtl` is
  needed. `SuccessIsRevocation` has the hypothesis `DbFaults \subseteq {"doubt"}`,
  which is the instance of its run: a revocation that could not be done is
  answered with success by every route except logout, see above.
* `SessionsActAsAuthority`: `Spec => ActsAsAuthority`, the refinement. One lemma per
  repository call (`CheckSessionSeen`, `KillSeen`, ...) says which step of a visit it
  is, or that nothing of it is seen; `VisitStepCounts` leaves out the steps in which
  a visit stays what it was. Besides `AuthInv` it needs `WayInv`: a call is made for
  what it is for, with the target that the route has made sure of.
* `HonestStaySignedIn`: `Spec => HonestNotFlagged`, with `HonestTokens` besides:
  until a token is presented a second time, every refresh in progress has the
  token that its session has, no two have the same, and every token that was
  replaced has been presented.
* `AccountsTyped`, `OneAccount`, `ProviderIsTrue`, `PasswordsStay`: the
  invariants of the table, proved transaction by transaction (the lemmas
  `CreateKeeps`, `LinkKeeps`, `SetPasswordKeeps`, `CountingKeeps`) and then
  action by action. `TypeInv` adds to `TypeOK` that a request brings no NULL to
  its writing call.
* `LocksAreEarned`: `Spec => []LockMeansFailures`, for any finite number of
  requests. The invariant `FailureInv`: the column's count plus the number of
  requests that have yet to count is at most the number of wrong passwords
  presented, and so is what each of these requests has read, plus one.
* `CounterIsExact`: `Spec => []CountExact`; the invariant is `CountExact` with
  the type of the variables, and the lemmas count holders with the cardinality
  theorems. It needs no assumption on the faults, and shows that the
  guards `m_createdCount > 0` are never false.
* `PoolTyped` comes with it.
* `PoolImplementsLeases`: `Spec => BoundedLeases`, by step simulation under the
  mapping `holders <- Holders`.
* `KeysTyped`, `TokensVerify`, `OnlyOwnAccepted`, `JwksIsTrue`: the three
  properties of `KeyRing` and its types, for any number of nodes and any cap on
  the previous keys. The invariant `Inv` says that a ring is the end of the
  sequence `made` (`EndsWith`; `RotationKeeps` is the step, `RingHoldsTheLast`
  what it is good for), that a key pair that is anywhere, in a ring, in a request
  that has yet to sign or in a token, has one kid only (`OneKid`), and that a
  token is not from the future. `LookupFinds` says what the lookup of a kid
  returns, from the least-number principle.
* `NoWakeupIsLost`: `"create" \notin ConnectFaults => (Spec => []NoLostWakeup)`.
  The assumption is necessary: a creation that fails notifies nobody.
* `QueueTyped`, `DeliveredOnce`, `FinishedIsFinal`: the invariant `Inv` of
  `MessageQueueProofs` says what the row locks give. No two open transactions have
  one row (`OneTxPerRow`), so a row is still what the statement found: a poll's is
  PENDING (`TxOnRow`); and what was handed out is PENDING no more
  (`DeliveredTaken`).
* `DeliveredInOrder`: `Spec => []("lost" \notin EndFaults => FifoPerConsumer)`.
  `OrderInv` adds that whoever has a message, or is about to get it, can no longer
  get an older one of its topic: that one is taken, or in the hands of another
  client. A transaction that is rolled back refutes this, which is why the
  hypothesis is there; commits in doubt are allowed, that the run does not have.
* `QueueImplementsPromise`: `Spec => QueueKeepsPromise`, by step simulation. A commit
  is an abstract effect because the row is still what the statement found (`Inv`),
  and because producers only publish and consumers never do (`OpInv`); `CommitMoves`
  is the lemma for the four statements.
* `CacheTyped`, `SpentStayGone`, `SetReadsItsOwn`, `HonestIsServed`: a state's row
  has no verifier but one made for this state (`StateRowsInv`), a verifier that is
  exchanged after a successful removal is in no row (`SpentInv`), what a set will
  read back was written since its own write (`ReadBackInv`); and a URL that is not
  spoilt has one callback at a time, its code is not redeemed before, and until that
  callback has read the verifier the row is there, or it is late (`HonestInv`).
* `CacheIsAMap`: `Spec => CacheImplementsMap`. The clock is the interesting step:
  a `Tick` lowers what is left of every entry and makes those that reach 0 vanish,
  and a cleanup is a stutter.
* `TodosTyped`, `VectorIsSorted`, `GoneTodosStayGone`, `TodosAreAStore`:
  `TodosInv` says that a transaction that is open has read the row as it still is
  (`TodoTxInv`), that it alone has it (`TodoLockInv`), that a todo has an id that was
  given out (`IdInv`), and that the vector in memory holds the ids of the todos there are, each
  once, in ascending order (`VectorInv`). In the refinement a statement that locks
  a row is the abstract request, and its commit or failure the answer.
* `BothListTheSame`: `Spec => []ListsAgree`. The database's list, `ORDER BY id`, is an
  enumeration of the ids in ascending order; the vector's list is a loop that keeps
  the entries of a user, `kept[n]` after n entries, and an invariant of the loop, from
  the least-number principle (`LeastExists`), says that it is one too. There is only
  one such enumeration of a set (`AscendsOnce`).
* `PagesShowTheNewest`: `Spec => []PagesAreNewest`. The invariant `OnePlace`: no two
  documents, and no two insertions in progress, have one place in the order of
  creation; so the order is total, and what a page leaves out comes after all that
  it shows.
* `DocumentsTyped`, `DocumentsAreAStore`: the same for the documents with
  `DocumentsInv`; by `DrawnInv` a document has the uuid and the place in the order
  that were drawn for it.

The assumptions these proofs made explicit: `MaxTodos` is positive, there is a uuid and
a collection, and `Absent` is neither a todo, nor a document, nor what is shown of one.

Only model-checked:

* `AllAnswered` and `EveryMessageTaken`: liveness under fairness is out of the
  prover's reach, and so is ENABLED.
* `FifoPerConsumer` and `SuccessMeansRevoked` hold in their runs under the
  hypothesis of their theorems; what happens without it is said above.

No module has a RECURSIVE operator; `List` of `Todos` has a recursive function for the
loop over the vector.

## Not modelled

* The revocation listener: a thread that prints the notifications it gets; no
  state of the program depends on it. It ends when its connection breaks and is
  not started again.
* The audit log: append only, its failures are swallowed, no decision reads it.
* The table from roles to permissions: a constant; `Admins` are the users it gives
  the permissions on the sessions of others (`HasPermission`). `canAccessSession`
  and `canRevokeSession` are called by tests only.
* `AuthInputValidator`, hashing, encodings, random bytes: functions of one
  string. Credentials and uuids are taken as unique, hashes as injective,
  signatures as unforgeable.
* Routing and the wording of JSON; the text of answers is left out except for
  their status and the record they show.
* Configuration and start-up: sequential, before the first request; a restart's
  fresh keys are in `KeyRing`. A pool of size 0, that `EnvLoader` accepts, makes
  everybody wait; the pool's theorems hold for it.
* The listings of sessions, the queue's metrics, health and the OpenAPI text:
  they only read, or are constant.
* The composition of `CacheRequests` with `Accounts`: the first ends with a
  verified identity, the second begins with any identity that Google may vouch
  for, so every behaviour of the first is followed by one of the second.

## What could come next

Every safety property that a run checks is a theorem, except those that the code
violates. What remains:

1. A node that stops between the commit of a poll and its answer, and consumers that
   stop, once the queue takes messages back.
2. The listener's stop and its missing reconnect, if it ever gets an effect.
3. Proofs of `AllAnswered` and `EveryMessageTaken`, with a prover that has ENABLED and
   fairness.
