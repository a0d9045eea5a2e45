------------------------ MODULE ConnectionPoolProofs ------------------------
(***************************************************************************)
(* Theorems about ConnectionPool, for every number of threads and every    *)
(* size of the pool.                                                       *)
(***************************************************************************)
EXTENDS ConnectionPool, FiniteSetTheorems, SequenceTheorems, TLAPS

Inv == TypeOK /\ CountExact

\* The sets of threads that the invariants count are finite.
LEMMA CountsTyped ==
    ASSUME PoolAssumption
    PROVE  /\ IsFiniteSet(Holders) /\ Cardinality(Holders) \in Nat
           /\ IsFiniteSet(Waiters) /\ Cardinality(Waiters) \in Nat
           /\ IsFiniteSet(Moving)  /\ Cardinality(Moving)  \in Nat
<1>1. Holders \subseteq Threads /\ Waiters \subseteq Threads /\ Moving \subseteq Threads
  BY DEF Holders, Waiters, Moving
<1> QED
  BY <1>1, FS_Subset, FS_CardinalityType DEF PoolAssumption

\* All but the last element of a sequence.
LEMMA FrontTyped ==
    ASSUME NEW S, NEW s \in Seq(S), s # <<>>
    PROVE  /\ SubSeq(s, 1, Len(s) - 1) \in Seq(S)
           /\ Len(SubSeq(s, 1, Len(s) - 1)) = Len(s) - 1
           /\ Len(s) \in Nat \ {0}
<1>1. Len(s) \in Nat \ {0}
  BY EmptySeq
<1>2. ASSUME NEW n \in 0..Len(s)
      PROVE  SubSeq(s, 1, n) \in Seq(S) /\ Len(SubSeq(s, 1, n)) = n
  OBVIOUS
<1>3. Len(s) - 1 \in 0..Len(s)
  BY <1>1
<1> QED
  BY <1>1, <1>2, <1>3

\* Popping the stack leaves a shorter stack of the same kind.
LEMMA RestTyped ==
    ASSUME pool \in Seq({"open", "closed"}), pool # <<>>
    PROVE  /\ Rest \in Seq({"open", "closed"})
           /\ Len(Rest) = Len(pool) - 1
           /\ Len(pool) \in Nat \ {0}
BY FrontTyped, Zenon DEF Rest

\* Pushing onto the stack leaves a longer stack of the same kind.
LEMMA PushTyped ==
    ASSUME pool \in Seq({"open", "closed"}), NEW c \in {"open", "closed"}
    PROVE  /\ Append(pool, c) \in Seq({"open", "closed"})
           /\ Len(Append(pool, c)) = Len(pool) + 1
BY AppendProperties, Zenon

\* A notification moves the notifying thread and at most one waiter, and
\* nobody who holds a connection.
LEMMA NotifyKeepsHolders ==
    ASSUME TypeOK, NEW t \in Threads, pc[t] \in {"ask", "notify"}, NotifyOne(t)
    PROVE  Holders' = Holders /\ pc' \in [Threads ->
             {"idle", "ask", "wait", "open", "closed", "notify"}]
BY DEF TypeOK, NotifyOne, Waiters, Holders

\* Every step preserves the types and the exactness of the counter.
LEMMA InvStep ==
    ASSUME PoolAssumption, Inv, [Next]_vars
    PROVE  Inv'
<1> USE DEF Inv, TypeOK
<1>1. /\ IsFiniteSet(Holders) /\ Cardinality(Holders) \in Nat /\ MaxPool \in Nat
      /\ Len(pool) \in Nat
  BY CountsTyped DEF PoolAssumption
<1>2. ASSUME NEW t \in Threads,
             Request(t) \/ Wait(t) \/ SpuriousWakeup(t) \/ CreateFails(t) \/ CloseLeased(t)
      PROVE  Inv'
  <2>1. Holders' = Holders
    BY <1>2 DEF Request, Wait, SpuriousWakeup, CreateFails, CloseLeased, Holders
  <2> QED
    BY <1>2, <2>1 DEF Request, Wait, SpuriousWakeup, CreateFails, CloseLeased, CountExact
<1>3. ASSUME NEW t \in Threads, LeasePooled(t)
      PROVE  Inv'
  <2>1. Holders' = Holders \cup {t} /\ t \notin Holders
    BY <1>3 DEF LeasePooled, Holders
  <2>2. Cardinality(Holders') = Cardinality(Holders) + 1
    BY <1>1, <2>1, FS_AddElement
  <2> QED
    BY <1>1, <1>3, <2>2, RestTyped DEF LeasePooled, CountExact
<1>4. ASSUME NEW t \in Threads, ReconnectFails(t)
      PROVE  Inv'
  <2>1. Holders' = Holders /\ pc' \in [Threads ->
             {"idle", "ask", "wait", "open", "closed", "notify"}]
    BY <1>4, NotifyKeepsHolders DEF ReconnectFails
  <2>2. created > 0 /\ created' = created - 1
    BY <1>1, <1>4, RestTyped DEF ReconnectFails, CountExact
  <2> QED
    BY <1>1, <1>4, <2>1, <2>2, RestTyped DEF ReconnectFails, CountExact
<1>5. ASSUME NEW t \in Threads, LeaseNew(t)
      PROVE  Inv'
  <2>1. Holders' = Holders \cup {t} /\ t \notin Holders
    BY <1>5 DEF LeaseNew, Holders
  <2>2. Cardinality(Holders') = Cardinality(Holders) + 1
    BY <1>1, <2>1, FS_AddElement
  <2> QED
    BY <1>1, <1>5, <2>2 DEF LeaseNew, CountExact
<1>6. ASSUME NEW t \in Threads, Return(t)
      PROVE  Inv'
  <2>1. Holders' = Holders \ {t} /\ t \in Holders
    BY <1>6 DEF Return, Holders
  <2>2. Cardinality(Holders') = Cardinality(Holders) - 1 /\ Cardinality(Holders') \in Nat
    BY <1>1, <2>1, FS_RemoveElement, FS_CardinalityType
  <2> QED
    <3>1. CASE pc[t] = "open"
      <4>1. /\ pool' = Append(pool, "open") /\ created' = created
            /\ pc' = [pc EXCEPT ![t] = "notify"]
        BY <1>6, <3>1 DEF Return
      <4>2. pool' \in Seq({"open", "closed"}) /\ Len(pool') = Len(pool) + 1
        BY <4>1, PushTyped
      <4> QED
        BY <1>1, <2>2, <4>1, <4>2 DEF CountExact
    <3>2. CASE pc[t] = "closed"
      BY <1>1, <1>6, <2>2, <3>2 DEF Return, CountExact
    <3> QED
      BY <1>6, <3>1, <3>2 DEF Return
<1>7. ASSUME NEW t \in Threads, Notify(t)
      PROVE  Inv'
  BY <1>7, NotifyKeepsHolders DEF Notify, CountExact
<1>8. ASSUME NEW i \in 1..Len(pool), CloseIdle(i)
      PROVE  Inv'
  <2>1. pool' \in Seq({"open", "closed"}) /\ Len(pool') = Len(pool)
    BY <1>8 DEF CloseIdle
  <2>2. Holders' = Holders
    BY <1>8 DEF CloseIdle, Holders
  <2> QED
    BY <1>8, <2>1, <2>2 DEF CloseIdle, CountExact
<1>9. CASE UNCHANGED vars
  BY <1>9 DEF vars, CountExact, Holders
<1> QED
  BY <1>2, <1>3, <1>4, <1>5, <1>6, <1>7, <1>8, <1>9 DEF Next, GetConnection

\* Inv holds in every state of every behaviour.
LEMMA Invariance == Spec => []Inv
<1>1. Init => Inv
  <2> SUFFICES ASSUME Init PROVE Inv
    OBVIOUS
  <2>1. Holders = {}
    BY DEF Init, Holders
  <2> QED
    BY <2>1, FS_EmptySet, PoolAssumption DEF Init, Inv, TypeOK, CountExact, PoolAssumption
<1>2. Inv /\ [Next]_vars => Inv'
  BY InvStep, PoolAssumption
<1> QED
  BY <1>1, <1>2, PTL DEF Spec

\* All variables keep their types, in particular the stack holds connections
\* and the counter never drops below zero.
THEOREM PoolTyped == Spec => []TypeOK
<1>1. Inv => TypeOK
  BY DEF Inv
<1> QED
  BY <1>1, Invariance, PTL

\* m_createdCount is the number of connections that exist and never exceeds
\* the size of the pool, whatever fails to connect and whatever breaks.
THEOREM CounterIsExact == Spec => []CountExact
<1>1. Inv => CountExact
  BY DEF Inv
<1> QED
  BY <1>1, Invariance, PTL

-----------------------------------------------------------------------------
(* The pool implements ConnectionLeases: a thread gets a connection only   *)
(* while fewer than MaxPool threads have one.                              *)

\* Every step of the pool leases, returns, or leaves the leases alone.
LEMMA LeasesStep ==
    ASSUME PoolAssumption, Inv, [Next]_vars
    PROVE  [Leases!Next]_Holders
<1> USE DEF Inv, TypeOK
<1>0. Leases!Cardinality(Holders) = Cardinality(Holders)
  BY DEF Leases!Cardinality, Cardinality
<1>1. /\ Cardinality(Holders) \in Nat /\ MaxPool \in Nat /\ Len(pool) \in Nat
  BY CountsTyped DEF PoolAssumption
<1>2. ASSUME NEW t \in Threads,
             \/ Request(t) \/ Wait(t) \/ SpuriousWakeup(t) \/ CreateFails(t)
             \/ CloseLeased(t)
      PROVE  Holders' = Holders
  BY <1>2 DEF Request, Wait, SpuriousWakeup, CreateFails, CloseLeased, Holders
<1>3. ASSUME NEW t \in Threads, LeasePooled(t)
      PROVE  Leases!Lease(t)
  <2>1. Holders' = Holders \cup {t} /\ t \notin Holders
    BY <1>3 DEF LeasePooled, Holders
  <2>2. Cardinality(Holders) < MaxPool
    BY <1>1, <1>3, RestTyped DEF LeasePooled, CountExact
  <2> QED
    BY <1>0, <2>1, <2>2 DEF Leases!Lease
<1>4. ASSUME NEW t \in Threads, LeaseNew(t)
      PROVE  Leases!Lease(t)
  <2>1. Holders' = Holders \cup {t} /\ t \notin Holders
    BY <1>4 DEF LeaseNew, Holders
  <2>2. Cardinality(Holders) < MaxPool
    BY <1>1, <1>4 DEF LeaseNew, CountExact
  <2> QED
    BY <1>0, <2>1, <2>2 DEF Leases!Lease
<1>5. ASSUME NEW t \in Threads, ReconnectFails(t) \/ Notify(t)
      PROVE  Holders' = Holders
  BY <1>5, NotifyKeepsHolders DEF ReconnectFails, Notify
<1>6. ASSUME NEW t \in Threads, Return(t)
      PROVE  Leases!Return(t)
  BY <1>6 DEF Return, Holders, Leases!Return
<1>7. ASSUME NEW i \in 1..Len(pool), CloseIdle(i)
      PROVE  Holders' = Holders
  BY <1>7 DEF CloseIdle, Holders
<1>8. CASE UNCHANGED vars
  BY <1>8 DEF vars, Holders
<1> QED
  BY <1>2, <1>3, <1>4, <1>5, <1>6, <1>7, <1>8 DEF Next, GetConnection, Leases!Next

\* However threads wait, are woken, fail to connect or lose their connection,
\* the pool is a bounded set of leases.
THEOREM PoolImplementsLeases == Spec => BoundedLeases
<1>1. Init => Leases!Init
  BY DEF Init, Holders, Leases!Init
<1>2. Inv /\ [Next]_vars => [Leases!Next]_Holders
  BY LeasesStep, PoolAssumption
<1> QED
  BY <1>1, <1>2, Invariance, PTL DEF Spec, BoundedLeases, Leases!Spec

-----------------------------------------------------------------------------
(* No wakeup is lost, as long as the creation of a connection never fails. *)

\* A thread that leaves the moving ones, and a waiter that joins them.
LEMMA NotifyCounts ==
    ASSUME PoolAssumption, TypeOK, NEW t \in Threads, t \in Moving, NotifyOne(t)
    PROVE  \/ Waiters' = {}
           \/ Waiters # {} /\ Cardinality(Moving') = Cardinality(Moving)
<1>1. CASE Waiters = {} /\ pc' = [pc EXCEPT ![t] = "idle"]
  BY <1>1 DEF Waiters, TypeOK
<1>2. ASSUME NEW w \in Waiters, pc' = [[pc EXCEPT ![t] = "idle"] EXCEPT ![w] = "ask"]
      PROVE  Cardinality(Moving') = Cardinality(Moving)
  <2>1. Moving' = (Moving \ {t}) \cup {w} /\ w \notin Moving \ {t}
    BY <1>2 DEF Waiters, Moving, TypeOK
  <2>2. /\ Cardinality(Moving \ {t}) = Cardinality(Moving) - 1
        /\ Cardinality(Moving) \in Nat /\ IsFiniteSet(Moving \ {t})
    BY CountsTyped, FS_RemoveElement
  <2>3. Cardinality(Moving') = Cardinality(Moving \ {t}) + 1
    BY <2>1, <2>2, FS_AddElement
  <2> QED
    BY <2>2, <2>3
<1> QED
  BY <1>1, <1>2 DEF NotifyOne

\* Every step preserves NoLostWakeup when no creation can fail.
LEMMA WakeupStep ==
    ASSUME PoolAssumption, "create" \notin ConnectFaults, Inv, NoLostWakeup, [Next]_vars
    PROVE  NoLostWakeup'
<1> USE DEF Inv, TypeOK
<1>1. /\ IsFiniteSet(Moving) /\ Cardinality(Moving) \in Nat
      /\ IsFiniteSet(Waiters) /\ Cardinality(Waiters) \in Nat
      /\ MaxPool \in Nat /\ Len(pool) \in Nat /\ created \in Nat
  BY CountsTyped DEF PoolAssumption
<1>2. ASSUME NEW t \in Threads, Moving' = Moving \cup {t}, t \notin Moving
      PROVE  Cardinality(Moving') = Cardinality(Moving) + 1
  BY <1>1, <1>2, FS_AddElement
<1>3. ASSUME NEW t \in Threads, Moving' = Moving \ {t}, t \in Moving
      PROVE  Cardinality(Moving') = Cardinality(Moving) - 1 /\ Cardinality(Moving') \in Nat
  BY <1>1, <1>3, FS_RemoveElement, FS_CardinalityType
<1>4. ASSUME NEW t \in Threads, Request(t)
      PROVE  NoLostWakeup'
  <2>1. Moving' = Moving \cup {t} /\ t \notin Moving /\ Waiters' = Waiters
    BY <1>4 DEF Request, Moving, Waiters
  <2>2. Cardinality(Moving') = Cardinality(Moving) + 1
    BY <1>2, <2>1
  <2>3. Capacity' = Capacity /\ Capacity \in Int
    BY <1>1, <1>4 DEF Request, Capacity
  <2> QED
    BY <1>1, <2>1, <2>2, <2>3 DEF NoLostWakeup
<1>5. ASSUME NEW t \in Threads, Wait(t)
      PROVE  NoLostWakeup'
  <2>1. Moving' = Moving \ {t} /\ t \in Moving
    BY <1>5 DEF Wait, Moving
  <2>2. Capacity' <= 0
    BY <1>1, <1>5 DEF Wait, Available, Capacity
  <2>3. Cardinality(Moving') \in Nat
    BY <1>3, <2>1
  <2>4. Capacity' \in Int
    BY <1>1, <1>5 DEF Wait, Capacity
  <2> QED
    BY <2>2, <2>3, <2>4 DEF NoLostWakeup
<1>6. ASSUME NEW t \in Threads, SpuriousWakeup(t)
      PROVE  NoLostWakeup'
  <2>1. /\ Moving' = Moving \cup {t} /\ t \notin Moving
        /\ Waiters' = Waiters \ {t} /\ t \in Waiters
    BY <1>6 DEF SpuriousWakeup, Moving, Waiters
  <2>2. Cardinality(Moving') = Cardinality(Moving) + 1
    BY <1>2, <2>1
  <2>3. Capacity' = Capacity /\ Capacity \in Int
    BY <1>1, <1>6 DEF SpuriousWakeup, Capacity
  <2> QED
    BY <1>1, <2>1, <2>2, <2>3 DEF NoLostWakeup
<1>7. ASSUME NEW t \in Threads, LeasePooled(t) \/ LeaseNew(t)
      PROVE  NoLostWakeup'
  <2>1. Moving' = Moving \ {t} /\ t \in Moving /\ Waiters' = Waiters
    BY <1>7 DEF LeasePooled, LeaseNew, Moving, Waiters
  <2>2. Cardinality(Moving') = Cardinality(Moving) - 1
    BY <1>3, <2>1
  <2>3. Capacity' = Capacity - 1 /\ Capacity \in Int
    <3>1. CASE LeasePooled(t)
      BY <1>1, <3>1, RestTyped DEF LeasePooled, Capacity
    <3>2. CASE LeaseNew(t)
      BY <1>1, <3>2 DEF LeaseNew, Capacity
    <3> QED
      BY <1>7, <3>1, <3>2
  <2> QED
    BY <1>1, <2>1, <2>2, <2>3 DEF NoLostWakeup
<1>8. ASSUME NEW t \in Threads, ReconnectFails(t) \/ Notify(t)
      PROVE  NoLostWakeup'
  <2>1. t \in Moving /\ NotifyOne(t)
    BY <1>8 DEF ReconnectFails, Notify, Moving
  <2>2. Capacity' = Capacity
    <3>1. CASE Notify(t)
      BY <3>1 DEF Notify, Capacity
    <3>2. CASE ReconnectFails(t)
      <4>1. created > 0
        BY <1>1, <3>2, CountsTyped, RestTyped DEF ReconnectFails, CountExact
      <4> QED
        BY <1>1, <3>2, <4>1, RestTyped DEF ReconnectFails, Capacity
    <3> QED
      BY <1>8, <3>1, <3>2
  <2> QED
    BY <2>1, <2>2, NotifyCounts DEF NoLostWakeup
<1>9. ASSUME NEW t \in Threads, Return(t)
      PROVE  NoLostWakeup'
  <2>1. Moving' = Moving \cup {t} /\ t \notin Moving /\ Waiters' = Waiters
    BY <1>9 DEF Return, Moving, Waiters
  <2>2. Cardinality(Moving') = Cardinality(Moving) + 1
    BY <1>2, <2>1
  <2>3. Capacity' = Capacity + 1 /\ Capacity \in Int
    <3>1. CASE pc[t] = "open"
      <4>1. Len(pool') = Len(pool) + 1 /\ created' = created
        BY <1>9, <3>1, PushTyped DEF Return
      <4> QED
        BY <1>1, <4>1 DEF Capacity
    <3>2. CASE pc[t] = "closed"
      <4>1. t \in Holders
        BY <3>2 DEF Holders
      <4>2. Cardinality(Holders) # 0
        BY <4>1, CountsTyped, FS_EmptySet
      <4>3. created' = created - 1 /\ pool' = pool
        BY <1>1, <1>9, <3>2, <4>2, CountsTyped DEF Return, CountExact
      <4> QED
        BY <1>1, <4>3 DEF Capacity
    <3> QED
      BY <1>9, <3>1, <3>2 DEF Return
  <2> QED
    BY <1>1, <2>1, <2>2, <2>3 DEF NoLostWakeup
<1>10. ASSUME NEW t \in Threads, CloseLeased(t)
       PROVE  NoLostWakeup'
  BY <1>10 DEF CloseLeased, NoLostWakeup, Capacity, Waiters, Moving
<1>11. ASSUME NEW i \in 1..Len(pool), CloseIdle(i)
       PROVE  NoLostWakeup'
  <2>1. Len(pool') = Len(pool)
    BY <1>11 DEF CloseIdle
  <2> QED
    BY <1>11, <2>1 DEF CloseIdle, NoLostWakeup, Capacity, Waiters, Moving
<1>12. CASE UNCHANGED vars
  BY <1>12 DEF vars, NoLostWakeup, Capacity, Waiters, Moving
<1> QED
  BY <1>4, <1>5, <1>6, <1>7, <1>8, <1>9, <1>10, <1>11, <1>12
     DEF Next, GetConnection, CreateFails

\* As long as the creation of a connection does not throw, no thread sleeps
\* beside a connection it could have: neither failed reconnections nor broken
\* connections nor spurious wakeups nor threads that overtake lose a wakeup.
THEOREM NoWakeupIsLost ==
    ASSUME "create" \notin ConnectFaults
    PROVE  Spec => []NoLostWakeup
<1>1. Init => NoLostWakeup
  BY DEF Init, NoLostWakeup, Waiters
<1>2. Inv /\ NoLostWakeup /\ [Next]_vars => NoLostWakeup'
  BY WakeupStep, PoolAssumption
<1> QED
  BY <1>1, <1>2, Invariance, PTL DEF Spec
=============================================================================
