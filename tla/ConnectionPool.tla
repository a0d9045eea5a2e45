--------------------------- MODULE ConnectionPool ---------------------------
(***************************************************************************)
(* PostgresDb: the pool of database connections that the worker threads    *)
(* share.  A mutex guards the pool and its counter, and a condition        *)
(* variable holds the threads that found neither an idle connection nor    *)
(* room for a new one.                                                     *)
(*                                                                         *)
(* getConnection holds the mutex from its first line to its last, except   *)
(* while it waits, so one critical section is one action.  The notify_one  *)
(* of returnConnection comes after the mutex is released and is a step of  *)
(* its own.  A woken thread competes for the mutex with the threads that   *)
(* have just called getConnection.                                         *)
(*                                                                         *)
(* A connection is its status only, "open" or "closed" (is_open()); no     *)
(* two owners can have the same one, it is moved as a unique_ptr.          *)
(***************************************************************************)
EXTENDS Integers, Sequences, FiniteSets

CONSTANTS Threads,       \* the threads that run repository calls
          MaxPool,       \* m_maxPoolSize
          ConnectFaults  \* the connection attempts that may throw

ASSUME PoolAssumption ==
    /\ IsFiniteSet(Threads)
    /\ MaxPool \in Nat
    /\ ConnectFaults \subseteq {"create", "reconnect"}

VARIABLES pool,     \* m_pool, a stack of idle connections
          created,  \* m_createdCount
          pc        \* where each thread is

vars == <<pool, created, pc>>

(***************************************************************************)
(* "idle": outside of the pool; "ask": in getConnection, about to take the *)
(* mutex; "wait": in the wait set of m_cv; "open" and "closed": holding a  *)
(* connection with that status; "notify": in returnConnection, about to    *)
(* call notify_one.                                                        *)
(***************************************************************************)
TypeOK ==
    /\ pool \in Seq({"open", "closed"})
    /\ created \in Nat
    /\ pc \in [Threads -> {"idle", "ask", "wait", "open", "closed", "notify"}]

Init ==
    /\ pool = <<>>
    /\ created = 0
    /\ pc = [t \in Threads |-> "idle"]

Holders == {t \in Threads : pc[t] \in {"open", "closed"}}
Waiters == {t \in Threads : pc[t] = "wait"}

-----------------------------------------------------------------------------
\* The predicate that m_cv.wait tests.
Available == pool # <<>> \/ created < MaxPool

Top  == pool[Len(pool)]
Rest == SubSeq(pool, 1, Len(pool) - 1)

\* m_cv.notify_one by thread t, that goes on to be idle.
NotifyOne(t) ==
    LET pc2 == [pc EXCEPT ![t] = "idle"] IN
    \/ Waiters = {} /\ pc' = pc2
    \/ \E w \in Waiters : pc' = [pc2 EXCEPT ![w] = "ask"]

\* A thread begins a repository call.
Request(t) ==
    /\ pc[t] = "idle"
    /\ pc' = [pc EXCEPT ![t] = "ask"]
    /\ UNCHANGED <<pool, created>>

Wait(t) ==
    /\ pc[t] = "ask"
    /\ ~Available
    /\ pc' = [pc EXCEPT ![t] = "wait"]
    /\ UNCHANGED <<pool, created>>

\* The predicate is tested again after a wakeup without a notification.
SpuriousWakeup(t) ==
    /\ pc[t] = "wait"
    /\ pc' = [pc EXCEPT ![t] = "ask"]
    /\ UNCHANGED <<pool, created>>

\* An idle connection is taken; a closed one is replaced by a new one.
LeasePooled(t) ==
    /\ pc[t] = "ask"
    /\ pool # <<>>
    /\ pool' = Rest
    /\ pc' = [pc EXCEPT ![t] = "open"]
    /\ UNCHANGED created

\* The replacement of a closed connection throws.
ReconnectFails(t) ==
    /\ pc[t] = "ask"
    /\ pool # <<>>
    /\ Top = "closed"
    /\ "reconnect" \in ConnectFaults
    /\ pool' = Rest
    /\ created' = IF created > 0 THEN created - 1 ELSE created
    /\ NotifyOne(t)

\* Mutant: the room for a new connection is not tested again after the wait.
MutLeaseNew(t) ==
    /\ pc[t] = "ask"
    /\ pool = <<>>
    /\ created' = created + 1
    /\ pc' = [pc EXCEPT ![t] = "open"]
    /\ UNCHANGED pool

LeaseNew(t) ==
    /\ pc[t] = "ask"
    /\ pool = <<>>
    /\ created < MaxPool
    /\ created' = created + 1
    /\ pc' = [pc EXCEPT ![t] = "open"]
    /\ UNCHANGED pool

\* The creation of a connection throws: nothing changes and nobody is notified.
CreateFails(t) ==
    /\ pc[t] = "ask"
    /\ pool = <<>>
    /\ created < MaxPool
    /\ "create" \in ConnectFaults
    /\ pc' = [pc EXCEPT ![t] = "idle"]
    /\ UNCHANGED <<pool, created>>

\* Mutant: a closed connection is thrown away and still counted.
MutReturn(t) ==
    /\ \/ pc[t] = "open" /\ pool' = Append(pool, "open")
       \/ pc[t] = "closed" /\ UNCHANGED pool
    /\ pc' = [pc EXCEPT ![t] = "notify"]
    /\ UNCHANGED created

\* Mutant: nobody is notified of a closed connection.
MutReturnSilent(t) ==
    \/ /\ pc[t] = "open"
       /\ pool' = Append(pool, "open")
       /\ pc' = [pc EXCEPT ![t] = "notify"]
       /\ UNCHANGED created
    \/ /\ pc[t] = "closed"
       /\ created' = created - 1
       /\ pc' = [pc EXCEPT ![t] = "idle"]
       /\ UNCHANGED pool

\* Mutant: a closed connection is counted down for itself and for its handle.
MutReturnTwice(t) ==
    /\ \/ pc[t] = "open" /\ pool' = Append(pool, "open") /\ UNCHANGED created
       \/ pc[t] = "closed" /\ created' = created - 2 /\ UNCHANGED pool
    /\ pc' = [pc EXCEPT ![t] = "notify"]

\* returnConnection, called by the deleter of the handle, up to the unlock.
Return(t) ==
    /\ \/ pc[t] = "open" /\ pool' = Append(pool, "open") /\ UNCHANGED created
       \/ /\ pc[t] = "closed"
          /\ created' = IF created > 0 THEN created - 1 ELSE created
          /\ UNCHANGED pool
    /\ pc' = [pc EXCEPT ![t] = "notify"]

Notify(t) ==
    /\ pc[t] = "notify"
    /\ NotifyOne(t)
    /\ UNCHANGED <<pool, created>>

\* The server closes a connection that is in use, or one that is idle.
CloseLeased(t) ==
    /\ pc[t] = "open"
    /\ pc' = [pc EXCEPT ![t] = "closed"]
    /\ UNCHANGED <<pool, created>>

CloseIdle(i) ==
    /\ pool' = [pool EXCEPT ![i] = "closed"]
    /\ UNCHANGED <<created, pc>>

GetConnection(t) ==
    \/ Wait(t)
    \/ LeasePooled(t)
    \/ ReconnectFails(t)
    \/ LeaseNew(t)
    \/ CreateFails(t)

Next ==
    \/ \E t \in Threads :
          \/ Request(t) \/ GetConnection(t) \/ Return(t) \/ Notify(t)
          \/ SpuriousWakeup(t) \/ CloseLeased(t)
    \/ \E i \in 1..Len(pool) : CloseIdle(i)

Spec == Init /\ [][Next]_vars

(***************************************************************************)
(* Every thread runs: one that is about to take the mutex gets it, one     *)
(* that holds a connection finishes its statements (or loses them) and     *)
(* returns it.  Nothing is assumed of who is notified, of new requests, of *)
(* spurious wakeups or of the server.                                      *)
(***************************************************************************)
Fairness ==
    \A t \in Threads :
        WF_vars(GetConnection(t)) /\ WF_vars(Return(t)) /\ WF_vars(Notify(t))

FairSpec == Spec /\ Fairness

-----------------------------------------------------------------------------
(* Properties.                                                             *)

\* The counter is exact: after any sequence of leases, failed creations,
\* failed reconnections and returned broken connections it is the number of
\* connections that exist, and that is never more than the pool's size.  An
\* exception path that forgot to count would leak room for good.
CountExact ==
    /\ created = Len(pool) + Cardinality(Holders)
    /\ created <= MaxPool

Capacity == Len(pool) + MaxPool - created
Moving   == {t \in Threads : pc[t] \in {"ask", "notify"}}

\* No wakeup is lost: while threads wait, for every connection that could be
\* handed out there is a thread under way that takes it or notifies a waiter.
NoLostWakeup == Waiters # {} => Capacity <= Cardinality(Moving)

\* Once new requests stop, every thread in getConnection gets an answer: a
\* connection or an exception.
AllAnswered ==
    \A t \in Threads :
        \/ pc[t] \in {"ask", "wait"} ~> pc[t] \notin {"ask", "wait"}
        \/ []<><<\E u \in Threads : Request(u)>>_vars

\* The pool is a bounded set of leases.
Leases == INSTANCE ConnectionLeases WITH holders <- Holders
BoundedLeases == Leases!Spec
=============================================================================
