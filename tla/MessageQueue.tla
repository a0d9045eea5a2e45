---------------------------- MODULE MessageQueue ----------------------------
(***************************************************************************)
(* The queue kept in the table message_queue: QueueUseCases on             *)
(* PostgresMessageQueueRepository.                                         *)
(*                                                                         *)
(* Each operation is one transaction of one statement that matters, and    *)
(* the transactions of different requests overlap: the statement takes     *)
(* its row lock and its effect becomes visible at the commit.  So each     *)
(* operation is two actions, the statement and the end of the transaction  *)
(* together with the answer.  A transaction can end badly:                 *)
(*   "lost"   nothing was committed, the client is told of the failure;    *)
(*   "doubt"  it was committed, but the client is not told so (the node,   *)
(*            its connection or the client's is gone before the answer).   *)
(***************************************************************************)
EXTENDS Integers, Sequences, FiniteSets

CONSTANTS Producers,  \* the clients that publish
          Consumers,  \* the clients that poll, acknowledge and fail
          Topics,
          MaxId,      \* bound: how many ids the sequence hands out
          MaxRetry,   \* bound: how often a message is marked as failed
          EndFaults   \* how transactions may end badly in this instance

ASSUME QueueAssumption ==
    /\ MaxId \in Nat
    /\ MaxRetry \in Nat
    /\ EndFaults \subseteq {"lost", "doubt"}
    /\ Producers \cap Consumers = {}

Clients == Producers \cup Consumers
Ids     == 1..MaxId
NoId    == 0     \* the id of no message, that publish returns on an error

VARIABLES rows,       \* the committed rows, by id
          lastId,     \* the sequence behind the column id
          tx,         \* the transaction of each client
          confirmed,  \* for each 201 answer to a publication: its message id
          delivered   \* the 200 answers to polls, in the order they are sent

vars == <<rows, lastId, tx, confirmed, delivered>>

(***************************************************************************)
(* A row that is not there, not yet there, or rolled back is "absent".     *)
(* prior is history: the messages of the topic whose publication had been  *)
(* confirmed when this one began.                                          *)
(***************************************************************************)
Row == [status : {"absent", "PENDING", "PROCESSING", "COMPLETED", "FAILED"},
        topic  : Topics,
        retry  : 0..MaxRetry,
        prior  : SUBSET Ids]

Tx == [op    : {"none", "publish", "poll", "ack", "fail"},
       id    : Ids \cup {NoId},
       reply : {"none", "ok", "error"}]

NoTx(r) == [op |-> "none", id |-> NoId, reply |-> r]

TypeOK ==
    /\ rows \in [Ids -> Row]
    /\ lastId \in 0..MaxId
    /\ tx \in [Clients -> Tx]
    /\ confirmed \subseteq Ids \cup {NoId}
    /\ delivered \in Seq([to : Consumers, id : Ids])

Init ==
    /\ rows \in [Ids -> {[status |-> "absent", topic |-> t, retry |-> 0, prior |-> {}] : t \in Topics}]
    /\ lastId = 0
    /\ tx = [c \in Clients |-> NoTx("none")]
    /\ confirmed = {}
    /\ delivered = <<>>

-----------------------------------------------------------------------------
Status(i) == rows[i].status
Locked(i) == \E c \in Clients : tx[c].id = i
Idle(c)   == tx[c].op = "none"

Open(c, op, i) == tx' = [tx EXCEPT ![c] = [op |-> op, id |-> i, reply |-> "none"]]
Answer(c, r)   == tx' = [tx EXCEPT ![c] = NoTx(r)]

\* INSERT ... RETURNING id.  The row's topic is the one the request names; the
\* id is taken from the sequence at once, and is not given back.
Publish(c) ==
    /\ Idle(c)
    /\ lastId < MaxId
    /\ lastId' = lastId + 1
    /\ Open(c, "publish", lastId + 1)
    /\ rows' = [rows EXCEPT ![lastId + 1].prior =
                  {i \in confirmed \cap Ids : rows[i].topic = rows[lastId + 1].topic}]
    /\ UNCHANGED <<confirmed, delivered>>

\* The database refuses the row, for one because its payload is no JSON text.
PublishRefused(c) ==
    /\ Idle(c)
    /\ Answer(c, "ok")
    /\ confirmed' = confirmed \cup {NoId}
    /\ UNCHANGED <<rows, lastId, delivered>>

Pending(t) == {i \in Ids : Status(i) = "PENDING" /\ rows[i].topic = t}

\* Mutant: SELECT without FOR UPDATE SKIP LOCKED.
MutTake(c, t) ==
    /\ Idle(c)
    /\ \E i \in Pending(t) :
          (\A j \in Pending(t) : i <= j) /\ Open(c, "poll", i)
    /\ UNCHANGED <<rows, lastId, confirmed, delivered>>

\* Mutant: no ORDER BY.
MutTakeAny(c, t) ==
    /\ Idle(c)
    /\ \E i \in Pending(t) : ~Locked(i) /\ Open(c, "poll", i)
    /\ UNCHANGED <<rows, lastId, confirmed, delivered>>

\* Mutant: a poll goes on from the last message handed out, like an offset.
MutTakeAfter(c, t) ==
    LET free == {i \in Pending(t) : ~Locked(i) /\ \A n \in 1..Len(delivered) : delivered[n].id < i} IN
    /\ Idle(c)
    /\ \E i \in free : (\A j \in free : i <= j) /\ Open(c, "poll", i)
    /\ UNCHANGED <<rows, lastId, confirmed, delivered>>

\* pollNext: the first pending row that no transaction has locked.
Take(c, t) ==
    LET free == {i \in Pending(t) : ~Locked(i)} IN
    /\ Idle(c)
    /\ \E i \in free : (\A j \in free : i <= j) /\ Open(c, "poll", i)
    /\ UNCHANGED <<rows, lastId, confirmed, delivered>>

TakeNothing(c, t) ==
    /\ Idle(c)
    /\ \A i \in Pending(t) : Locked(i)
    /\ Answer(c, "error")
    /\ UNCHANGED <<rows, lastId, confirmed, delivered>>

\* acknowledge and fail: UPDATE ... WHERE id = $1, whatever the status.  The
\* statement waits while another transaction has locked the row.
Mark(c, op, i) ==
    /\ Idle(c)
    /\ Status(i) # "absent"
    /\ ~Locked(i)
    /\ op = "fail" => rows[i].retry < MaxRetry
    /\ Open(c, op, i)
    /\ UNCHANGED <<rows, lastId, confirmed, delivered>>

MarkNothing(c, i) ==
    /\ Idle(c)
    /\ Status(i) = "absent"
    /\ Answer(c, "error")
    /\ UNCHANGED <<rows, lastId, confirmed, delivered>>

-----------------------------------------------------------------------------
\* Mutant: the statement of acknowledge writes another word.
MutEffectWord(op, i) ==
    CASE op = "publish" -> [rows EXCEPT ![i].status = "PENDING"]
      [] op = "poll"    -> [rows EXCEPT ![i].status = "PROCESSING"]
      [] op = "ack"     -> [rows EXCEPT ![i].status = "ACKNOWLEDGED"]
      [] op = "fail"    -> [rows EXCEPT ![i].status = "FAILED", ![i].retry = @ + 1]

\* What the commit of a transaction makes of the table.
Effect(op, i) ==
    CASE op = "publish" -> [rows EXCEPT ![i].status = "PENDING"]
      [] op = "poll"    -> [rows EXCEPT ![i].status = "PROCESSING"]
      [] op = "ack"     -> [rows EXCEPT ![i].status = "COMPLETED"]
      [] op = "fail"    -> [rows EXCEPT ![i].status = "FAILED", ![i].retry = @ + 1]

\* The commit, and the answer that the client gets.
Commit(c) ==
    LET op == tx[c].op
        i  == tx[c].id
    IN
    /\ ~Idle(c)
    /\ rows' = Effect(op, i)
    /\ confirmed' = IF op = "publish" THEN confirmed \cup {i} ELSE confirmed
    /\ delivered' = IF op = "poll" THEN Append(delivered, [to |-> c, id |-> i])
                                   ELSE delivered
    /\ Answer(c, "ok")
    /\ UNCHANGED lastId

\* Mutant: pollNext keeps the row in a variable outside of its try block, and
\* returns it after the catch.
MutCommitFails(c) ==
    /\ ~Idle(c)
    /\ \/ "lost" \in EndFaults /\ UNCHANGED rows
       \/ "doubt" \in EndFaults /\ rows' = Effect(tx[c].op, tx[c].id)
    /\ confirmed' = IF tx[c].op = "publish" THEN confirmed \cup {NoId} ELSE confirmed
    /\ delivered' = IF tx[c].op = "poll" THEN Append(delivered, [to |-> c, id |-> tx[c].id])
                                         ELSE delivered
    /\ Answer(c, IF tx[c].op \in {"publish", "poll"} THEN "ok" ELSE "error")
    /\ UNCHANGED lastId

\* A commit that fails, or whose success nobody learns of.  The repository
\* returns the id 0 of a publication, and publish answers 201 with it.
CommitFails(c) ==
    /\ ~Idle(c)
    /\ \/ "lost" \in EndFaults /\ UNCHANGED rows
       \/ "doubt" \in EndFaults /\ rows' = Effect(tx[c].op, tx[c].id)
    /\ confirmed' = IF tx[c].op = "publish" THEN confirmed \cup {NoId} ELSE confirmed
    /\ Answer(c, IF tx[c].op = "publish" THEN "ok" ELSE "error")
    /\ UNCHANGED <<lastId, delivered>>

Next ==
    \/ \E c \in Producers : Publish(c) \/ PublishRefused(c)
    \/ \E c \in Consumers, t \in Topics : Take(c, t) \/ TakeNothing(c, t)
    \/ \E c \in Consumers, i \in Ids :
          Mark(c, "ack", i) \/ Mark(c, "fail", i) \/ MarkNothing(c, i)
    \/ \E c \in Clients : Commit(c) \/ CommitFails(c)

Spec == Init /\ [][Next]_vars

(***************************************************************************)
(* Transactions end, and a consumer that is free again and again polls     *)
(* each topic again and again.                                             *)
(***************************************************************************)
Fairness ==
    /\ \A c \in Clients : WF_vars(Commit(c))
    /\ \A c \in Consumers, t \in Topics : SF_vars(Take(c, t))

FairSpec == Spec /\ Fairness

-----------------------------------------------------------------------------
(* Properties.                                                             *)

\* No message is handed out twice, to one consumer or to two, whatever
\* transactions overlap, and whatever is acknowledged or failed meanwhile.
NoDuplicateDelivery ==
    \A m, n \in 1..Len(delivered) : delivered[m].id = delivered[n].id => m = n

\* What is finished stays finished: a poll that is still uncommitted when its
\* message is acknowledged or failed does not set it back to PROCESSING.
FinishedStaysFinished ==
    [][\A i \in Ids : Status(i) \in {"COMPLETED", "FAILED"}
                         => Status(i)' \in {"COMPLETED", "FAILED"}]_vars

\* A consumer never gets a message after one of the same topic that was
\* published later, "later" meaning after the first one's confirmation.
FifoPerConsumer ==
    \A m, n \in 1..Len(delivered) :
        /\ m < n
        /\ delivered[m].to = delivered[n].to
        => delivered[n].id \notin rows[delivered[m].id].prior

\* What has become of a message, in the words of AtMostOnceQueue.
StageOf(status) ==
    CASE status = "absent"                  -> "none"
      [] status = "PENDING"                 -> "waiting"
      [] status = "PROCESSING"              -> "taken"
      [] status \in {"COMPLETED", "FAILED"} -> "finished"

Promise == INSTANCE AtMostOnceQueue WITH
    Messages  <- Ids,
    NoMessage <- NoId,
    stage     <- [i \in Ids |-> StageOf(Status(i))],
    accepted  <- confirmed,
    handed    <- delivered,
    answer    <- [c \in Clients |-> tx[c].reply]

\* Statements that take their locks one after the other, commits in any order
\* and transactions that end badly look to the clients like requests of one
\* instant each: a message stops waiting by a poll or by being finished, once,
\* and an answer tells what was done at that instant.
QueueKeepsPromise == Promise!Spec

\* While consumers keep polling, every message is taken or finished.
EveryMessageTaken ==
    \A i \in Ids : Status(i) = "PENDING" ~> Status(i) # "PENDING"
=============================================================================
