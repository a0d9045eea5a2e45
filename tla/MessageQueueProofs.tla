------------------------- MODULE MessageQueueProofs -------------------------
(***************************************************************************)
(* Theorems about MessageQueue, for every number of clients, topics and    *)
(* messages, and every way its transactions may end.                       *)
(***************************************************************************)
EXTENDS MessageQueue, SequenceTheorems, TLAPS

(***************************************************************************)
(* What the row locks give to an open transaction: it is the only one on   *)
(* its row, and the row is still what its statement found.                 *)
(***************************************************************************)
OneTxPerRow ==
    \A c, d \in Clients : tx[c].id # NoId /\ tx[c].id = tx[d].id => c = d

TxOnRow(op, i) ==
    /\ op = "none" <=> i = NoId
    /\ i <= lastId
    /\ op = "publish" => Status(i) = "absent"
    /\ op = "poll" => Status(i) = "PENDING"
    /\ op \in {"ack", "fail"} => Status(i) # "absent"
    /\ op = "fail" => rows[i].retry < MaxRetry

TxInv ==
    /\ OneTxPerRow
    /\ \A c \in Clients : TxOnRow(tx[c].op, tx[c].id)
    /\ \A c \in Clients : tx[c].op = "poll" => c \in Consumers

\* A row is there only when its id was handed out, and when it was confirmed;
\* the messages before it are confirmed ones of its topic, with lower ids.
RowInv ==
    \A i \in Ids :
        /\ Status(i) # "absent" => i <= lastId
        /\ i \in confirmed => Status(i) # "absent"
        /\ \A p \in rows[i].prior : /\ p \in confirmed
                                    /\ rows[p].topic = rows[i].topic
                                    /\ p < i

\* A message that was handed out is not there to be taken again.
Taken(i) == Status(i) \in {"PROCESSING", "COMPLETED", "FAILED"}
Finished(i) == Status(i) \in {"COMPLETED", "FAILED"}
DeliveredTaken == \A n \in 1..Len(delivered) : Taken(delivered[n].id)

Inv == TypeOK /\ TxInv /\ RowInv /\ DeliveredTaken /\ NoDuplicateDelivery

(***************************************************************************)
(* For the order: consumer c holds or held message d, and so it can never  *)
(* get the message p any more, because p is taken, or is in the hands of   *)
(* another client whose transaction will not be rolled back.               *)
(***************************************************************************)
Got(c, d) ==
    \/ tx[c].op = "poll" /\ tx[c].id = d
    \/ \E n \in 1..Len(delivered) : delivered[n].to = c /\ delivered[n].id = d

Passed(c, p) ==
    \/ Taken(p)
    \/ \E a \in Clients : a # c /\ tx[a].id = p /\ tx[a].op # "publish"

OrderInv ==
    \A c \in Consumers, d \in Ids : Got(c, d) => \A p \in rows[d].prior : Passed(c, p)

FifoInv == "lost" \notin EndFaults => OrderInv /\ FifoPerConsumer

-----------------------------------------------------------------------------
\* What a transaction makes of the table: its own row changes, and no other.
LEMMA EffectIsLocal ==
    ASSUME QueueAssumption, TypeOK,
           NEW i \in Ids, NEW op \in {"publish", "poll", "ack", "fail"},
           op = "fail" => rows[i].retry < MaxRetry
    PROVE  /\ Effect(op, i) \in [Ids -> Row]
           /\ \A j \in Ids : j # i => Effect(op, i)[j] = rows[j]
           /\ Effect(op, i)[i].topic = rows[i].topic
           /\ Effect(op, i)[i].prior = rows[i].prior
           /\ op = "publish" => Effect(op, i)[i].status = "PENDING"
           /\ op # "publish" => Effect(op, i)[i].status \in {"PROCESSING", "COMPLETED", "FAILED"}
           /\ op \in {"ack", "fail"} => Effect(op, i)[i].status \in {"COMPLETED", "FAILED"}
<1> USE DEF TypeOK
<1>1. CASE op = "publish"
  BY <1>1 DEF Effect, Row
<1>2. CASE op = "poll"
  BY <1>2 DEF Effect, Row
<1>3. CASE op = "ack"
  BY <1>3 DEF Effect, Row
<1>4. CASE op = "fail"
  <2> DEFINE mid == [rows EXCEPT ![i].status = "FAILED"]
  <2>1. /\ mid \in [Ids -> Row] /\ mid[i].status = "FAILED"
        /\ \A j \in Ids : j # i => mid[j] = rows[j]
        /\ mid[i].topic = rows[i].topic /\ mid[i].prior = rows[i].prior
        /\ mid[i].retry = rows[i].retry
    <3> DEFINE row == [rows[i] EXCEPT !.status = "FAILED"]
    <3>1. rows[i] \in Row
      OBVIOUS
    <3>2. /\ row \in Row /\ row.status = "FAILED" /\ row.topic = rows[i].topic
          /\ row.prior = rows[i].prior /\ row.retry = rows[i].retry
      BY <3>1 DEF Row
    <3>3. mid = [rows EXCEPT ![i] = row]
      OBVIOUS
    <3> HIDE DEF row, mid
    <3> QED
      BY <3>2, <3>3
  <2>2. rows[i].retry + 1 \in 0..MaxRetry
    BY <1>4 DEF QueueAssumption, Row
  <2>3. Effect(op, i) = [mid EXCEPT ![i].retry = mid[i].retry + 1]
    BY <1>4 DEF Effect
  <2> HIDE DEF mid
  <2>4. ASSUME NEW n \in 0..MaxRetry, Effect(op, i) = [mid EXCEPT ![i].retry = n]
        PROVE  /\ Effect(op, i) \in [Ids -> Row]
               /\ \A j \in Ids : j # i => Effect(op, i)[j] = mid[j]
               /\ Effect(op, i)[i].topic = mid[i].topic
               /\ Effect(op, i)[i].prior = mid[i].prior
               /\ Effect(op, i)[i].status = mid[i].status
    <3>1. MaxRetry \in Nat
      BY DEF QueueAssumption
    <3>2. [mid[i] EXCEPT !.retry = n] \in Row
      BY <2>1, <3>1 DEF Row
    <3>3. Effect(op, i) = [mid EXCEPT ![i] = [mid[i] EXCEPT !.retry = n]]
      BY <2>4
    <3> QED
      BY <2>1, <3>2, <3>3 DEF Row
  <2>5. mid[i].retry + 1 \in 0..MaxRetry
    BY <2>1, <2>2
  <2> QED
    BY <1>4, <2>1, <2>3, <2>4, <2>5
<1> QED
  BY <1>1, <1>2, <1>3, <1>4

\* An open transaction names a row and one of the four operations.
LEMMA OpenTx ==
    ASSUME Inv, NEW c \in Clients, ~Idle(c)
    PROVE  /\ tx[c].id \in Ids
           /\ tx[c].op \in {"publish", "poll", "ack", "fail"}
           /\ tx[c].op = "fail" => rows[tx[c].id].retry < MaxRetry
           /\ \A d \in Clients : d # c => tx[d].id # tx[c].id
BY DEF Inv, TypeOK, TxInv, TxOnRow, OneTxPerRow, Idle, Tx, Ids, NoId

\* What was handed out has an id.
LEMMA DeliveredIds ==
    ASSUME TypeOK
    PROVE  Len(delivered) \in Nat /\ \A n \in 1..Len(delivered) : delivered[n].id \in Ids
<1>1. delivered \in Seq([to : Consumers, id : Ids])
  BY DEF TypeOK
<1>2. Len(delivered) \in Nat
  BY <1>1, LenProperties
<1>3. ASSUME NEW n \in 1..Len(delivered)
      PROVE  delivered[n] \in [to : Consumers, id : Ids]
  BY <1>1, <1>3, ElementOfSeq
<1> QED
  BY <1>2, <1>3

\* The initial state.
LEMMA InitInv == QueueAssumption /\ Init => Inv /\ FifoInv
<1> SUFFICES ASSUME QueueAssumption, Init
             PROVE  Inv /\ FifoInv
  OBVIOUS
<1>1. /\ delivered = <<>> /\ Len(delivered) = 0
      /\ lastId = 0 /\ confirmed = {}
      /\ \A c \in Clients : tx[c] = NoTx("none")
      /\ \A i \in Ids : Status(i) = "absent" /\ rows[i].prior = {}
  BY DEF Init, Status
<1>2. TypeOK
  BY DEF Init, TypeOK, Row, Tx, NoTx, QueueAssumption
<1>3. TxInv
  BY <1>1 DEF TxInv, OneTxPerRow, TxOnRow, NoTx, NoId
<1>4. RowInv /\ DeliveredTaken /\ NoDuplicateDelivery
  BY <1>1 DEF RowInv, DeliveredTaken, NoDuplicateDelivery
<1>5. FifoInv
  BY <1>1 DEF FifoInv, OrderInv, FifoPerConsumer
<1> QED
  BY <1>2, <1>3, <1>4, <1>5 DEF Inv

\* A statement on a free row opens a transaction and changes no row.
LEMMA OpenKeepsInv ==
    ASSUME Inv, NEW c \in Clients, NEW i \in Ids, NEW op \in {"poll", "ack", "fail"},
           ~Locked(i), Status(i) # "absent",
           op = "poll" => Status(i) = "PENDING",
           op = "fail" => rows[i].retry < MaxRetry,
           op = "poll" => c \in Consumers,
           Open(c, op, i), UNCHANGED <<rows, lastId, confirmed, delivered>>
    PROVE  Inv'
<1>1. tx' = [tx EXCEPT ![c] = [op |-> op, id |-> i, reply |-> "none"]]
  BY DEF Open
<1>2. tx \in [Clients -> Tx] /\ [op |-> op, id |-> i, reply |-> "none"] \in Tx
  BY DEF Inv, TypeOK, Tx
<1>3. /\ tx'[c].op = op /\ tx'[c].id = i
      /\ \A d \in Clients : d # c => tx'[d] = tx[d]
  BY <1>1, <1>2
<1>4. TypeOK'
  BY <1>1, <1>2 DEF Inv, TypeOK
<1>5. OneTxPerRow'
  BY <1>3 DEF Inv, TxInv, OneTxPerRow, Locked
<1>6. i # NoId /\ i <= lastId
  BY DEF Inv, RowInv, Ids, NoId
<1>7. \A d \in Clients : TxOnRow(tx[d].op, tx[d].id)'
  BY <1>3, <1>6 DEF Inv, TxInv, TxOnRow, Status
<1>9. \A d \in Clients : tx'[d].op = "poll" => d \in Consumers
  BY <1>3 DEF Inv, TxInv
<1>8. RowInv' /\ DeliveredTaken' /\ NoDuplicateDelivery'
  BY DEF Inv, RowInv, DeliveredTaken, NoDuplicateDelivery, Taken, Status
<1> QED
  BY <1>4, <1>5, <1>7, <1>8, <1>9 DEF Inv, TxInv

\* An operation that is answered at once changes no row either.
LEMMA AnswerKeepsInv ==
    ASSUME Inv, NEW c \in Clients, NEW r \in {"ok", "error"},
           Idle(c), Answer(c, r),
           confirmed' \in {confirmed, confirmed \cup {NoId}},
           UNCHANGED <<rows, lastId, delivered>>
    PROVE  Inv'
<1>1. tx' = [tx EXCEPT ![c] = NoTx(r)]
  BY DEF Answer
<1>2. tx \in [Clients -> Tx] /\ NoTx(r) \in Tx
  BY DEF Inv, TypeOK, Tx, NoTx
<1>3. tx[c].op = "none" /\ tx[c].id = NoId
  BY DEF Idle, Inv, TxInv, TxOnRow
<1>4. \A d \in Clients : tx'[d].op = tx[d].op /\ tx'[d].id = tx[d].id
  BY <1>1, <1>2, <1>3 DEF NoTx
<1>5. \A j \in Ids : j \in confirmed' <=> j \in confirmed
  BY DEF Ids, NoId
<1>6. TypeOK'
  BY <1>1, <1>2 DEF Inv, TypeOK
<1>7. TxInv'
  BY <1>4 DEF Inv, TxInv, OneTxPerRow, TxOnRow, Status
<1>8. \A j \in Ids : rows[j].prior \subseteq Ids
  BY DEF Inv, TypeOK, Row
<1>9. RowInv'
  BY <1>5, <1>8 DEF Inv, RowInv, Status
<1>10. DeliveredTaken' /\ NoDuplicateDelivery'
  BY DEF Inv, DeliveredTaken, NoDuplicateDelivery, Taken, Status
<1> QED
  BY <1>6, <1>7, <1>9, <1>10 DEF Inv
\* A publication begins: the row of the new id gets its history.
LEMMA PublishKeepsInv ==
    ASSUME QueueAssumption, Inv, NEW c \in Clients, Publish(c)
    PROVE  Inv'
<1> DEFINE new == lastId + 1
           before == {i \in confirmed \cap Ids : rows[i].topic = rows[new].topic}
<1>1. /\ new \in Ids /\ lastId' = new /\ lastId \in Nat /\ new # NoId
      /\ confirmed' = confirmed /\ delivered' = delivered
      /\ rows' = [rows EXCEPT ![new].prior = before]
      /\ tx' = [tx EXCEPT ![c] = [op |-> "publish", id |-> new, reply |-> "none"]]
  BY DEF Publish, Open, Inv, TypeOK, QueueAssumption, Ids, NoId
<1>2. Status(new) = "absent" /\ \A d \in Clients : tx[d].id # new
  BY <1>1 DEF Inv, RowInv, TxInv, TxOnRow
<1>3. /\ rows' \in [Ids -> Row]
      /\ \A j \in Ids : /\ rows'[j].status = rows[j].status
                        /\ rows'[j].topic = rows[j].topic
                        /\ rows'[j].retry = rows[j].retry
                        /\ j # new => rows'[j].prior = rows[j].prior
      /\ rows'[new].prior = before
  <2>1. before \in SUBSET Ids /\ rows \in [Ids -> Row]
    BY DEF Inv, TypeOK
  <2> HIDE DEF before, new
  <2>2. [rows[new] EXCEPT !.prior = before] \in Row
    BY <1>1, <2>1 DEF Row
  <2>3. rows' = [rows EXCEPT ![new] = [rows[new] EXCEPT !.prior = before]]
    BY <1>1
  <2> QED
    BY <1>1, <2>1, <2>2, <2>3 DEF Row
<1>4. /\ tx'[c].op = "publish" /\ tx'[c].id = new
      /\ \A d \in Clients : d # c => tx'[d] = tx[d]
  BY <1>1 DEF Inv, TypeOK
<1>5. TypeOK'
  <2>1. [op |-> "publish", id |-> new, reply |-> "none"] \in Tx
    BY <1>1 DEF Tx
  <2> QED
    BY <1>1, <1>3, <2>1 DEF Inv, TypeOK, Ids
<1>6. OneTxPerRow'
  BY <1>2, <1>4 DEF Inv, TxInv, OneTxPerRow
<1>7. ASSUME NEW d \in Clients
      PROVE  TxOnRow(tx[d].op, tx[d].id)'
  <2>1. CASE d = c
    BY <1>1, <1>2, <1>3, <1>4, <2>1 DEF TxOnRow, Status
  <2>2. CASE d # c
    <3>1. TxOnRow(tx[d].op, tx[d].id) /\ tx'[d] = tx[d] /\ tx[d].id \in Ids \cup {NoId}
      BY <1>4, <2>2 DEF Inv, TxInv, TypeOK, Tx
    <3>2. tx[d].op # "none" => tx[d].id \in Ids
      BY <3>1 DEF TxOnRow
    <3>3. tx[d].id <= lastId'
      BY <1>1, <3>1 DEF TxOnRow, Ids, NoId
    <3> QED
      BY <1>3, <3>1, <3>2, <3>3 DEF TxOnRow, Status
  <2> QED
    BY <2>1, <2>2
<1>11. \A d \in Clients : tx'[d].op = "poll" => d \in Consumers
  BY <1>4 DEF Inv, TxInv
<1>8. \A j \in Ids : rows[j].prior \subseteq Ids
  BY DEF Inv, TypeOK, Row
<1>9. RowInv'
  <2> SUFFICES ASSUME NEW j \in Ids
               PROVE  /\ Status(j)' # "absent" => j <= lastId'
                      /\ j \in confirmed' => Status(j)' # "absent"
                      /\ \A p \in rows'[j].prior : /\ p \in confirmed'
                                                   /\ rows'[p].topic = rows'[j].topic
                                                   /\ p < j
    BY Zenon DEF RowInv
  <2>1. /\ Status(j)' # "absent" => j <= lastId'
        /\ j \in confirmed' => Status(j)' # "absent"
    BY <1>1, <1>3 DEF Inv, RowInv, Status, Ids
  <2>2. ASSUME NEW p \in rows'[j].prior
        PROVE  p \in confirmed' /\ rows'[p].topic = rows'[j].topic /\ p < j
    <3>1. CASE j # new
      BY <1>1, <1>3, <1>8, <2>2, <3>1 DEF Inv, RowInv
    <3>2. CASE j = new
      <4>1. p \in confirmed \cap Ids /\ rows[p].topic = rows[new].topic
        BY <1>3, <2>2, <3>2
      <4>2. p <= lastId
        BY <4>1 DEF Inv, RowInv
      <4> QED
        BY <1>1, <1>3, <3>2, <4>1, <4>2 DEF Ids
    <3> QED
      BY <3>1, <3>2
  <2> QED
    BY <2>1, <2>2
<1>10. DeliveredTaken' /\ NoDuplicateDelivery'
  <2>1. \A n \in 1..Len(delivered) : delivered[n].id \in Ids
    BY DeliveredIds DEF Inv
  <2> QED
    BY <1>1, <1>3, <2>1 DEF Inv, DeliveredTaken, NoDuplicateDelivery, Taken, Status
<1> QED
  BY <1>5, <1>6, <1>7, <1>9, <1>10, <1>11 DEF Inv, TxInv

(***************************************************************************)
(* The end of a transaction on row i: the row is as before or as the       *)
(* transaction makes it, the client has no transaction any more.           *)
(***************************************************************************)
Ends(c, op, i) ==
    /\ rows' \in {rows, Effect(op, i)}
    /\ tx' \in {[tx EXCEPT ![c] = NoTx(r)] : r \in {"ok", "error"}}
    /\ UNCHANGED lastId

\* Whatever way it ends, the other transactions find their rows unchanged.
LEMMA EndKeepsTx ==
    ASSUME QueueAssumption, Inv, NEW c \in Clients, ~Idle(c),
           Ends(c, tx[c].op, tx[c].id)
    PROVE  /\ rows' \in [Ids -> Row] /\ tx' \in [Clients -> Tx]
           /\ TxInv'
           /\ \A j \in Ids : /\ rows'[j].topic = rows[j].topic
                             /\ rows'[j].prior = rows[j].prior
                             /\ j # tx[c].id => rows'[j] = rows[j]
           /\ \A d \in Clients : d # c => tx'[d] = tx[d]
           /\ tx'[c].op = "none" /\ tx'[c].id = NoId
<1> DEFINE op == tx[c].op
           i  == tx[c].id
<1>1. /\ i \in Ids /\ op \in {"publish", "poll", "ack", "fail"}
      /\ op = "fail" => rows[i].retry < MaxRetry
      /\ \A d \in Clients : d # c => tx[d].id # i
  BY OpenTx, Zenon
<1>2. /\ rows' \in [Ids -> Row]
      /\ \A j \in Ids : /\ rows'[j].topic = rows[j].topic
                        /\ rows'[j].prior = rows[j].prior
                        /\ j # i => rows'[j] = rows[j]
  <2> HIDE DEF op, i
  <2>1. rows \in [Ids -> Row] /\ TypeOK
    BY DEF Inv, TypeOK
  <2>2. /\ Effect(op, i) \in [Ids -> Row]
        /\ \A j \in Ids : j # i => Effect(op, i)[j] = rows[j]
        /\ Effect(op, i)[i].topic = rows[i].topic
        /\ Effect(op, i)[i].prior = rows[i].prior
    BY <1>1, <2>1, EffectIsLocal
  <2>3. rows' = rows \/ rows' = Effect(op, i)
    BY DEF Ends, op, i
  <2> QED
    BY <2>1, <2>2, <2>3
<1>3. /\ tx' \in [Clients -> Tx]
      /\ \A d \in Clients : d # c => tx'[d] = tx[d]
      /\ tx'[c].op = "none" /\ tx'[c].id = NoId
  <2>1. PICK r \in {"ok", "error"} : tx' = [tx EXCEPT ![c] = NoTx(r)]
    BY DEF Ends
  <2>2. NoTx(r) \in Tx /\ NoTx(r).op = "none" /\ NoTx(r).id = NoId
    BY DEF NoTx, Tx
  <2> QED
    BY <2>1, <2>2 DEF Inv, TypeOK
<1>4. OneTxPerRow'
  BY <1>3 DEF Inv, TxInv, OneTxPerRow
<1>5. ASSUME NEW d \in Clients
      PROVE  TxOnRow(tx[d].op, tx[d].id)'
  <2>1. lastId' = lastId /\ lastId \in Nat
    BY DEF Ends, Inv, TypeOK
  <2>2. CASE d = c
    BY <1>3, <2>1, <2>2 DEF TxOnRow, NoId
  <2>3. CASE d # c
    <3>1. TxOnRow(tx[d].op, tx[d].id) /\ tx'[d] = tx[d] /\ tx[d].id \in Ids \cup {NoId}
      BY <1>3, <2>3 DEF Inv, TxInv, TypeOK, Tx
    <3>2. tx[d].op # "none" => tx[d].id \in Ids /\ rows'[tx[d].id] = rows[tx[d].id]
      BY <1>1, <1>2, <2>3, <3>1 DEF TxOnRow
    <3> QED
      BY <2>1, <3>1, <3>2 DEF TxOnRow, Status
  <2> QED
    BY <2>2, <2>3
<1>6. \A d \in Clients : tx'[d].op = "poll" => d \in Consumers
  BY <1>3 DEF Inv, TxInv
<1> QED
  BY <1>2, <1>3, <1>4, <1>5, <1>6 DEF TxInv

\* A row that was taken stays taken, and one that is there stays there.
LEMMA EndKeepsRows ==
    ASSUME QueueAssumption, Inv, NEW c \in Clients, ~Idle(c),
           Ends(c, tx[c].op, tx[c].id), NEW j \in Ids
    PROVE  /\ Taken(j) => Taken(j)'
           /\ Status(j) # "absent" => Status(j)' # "absent"
           /\ Finished(j) => Finished(j)'
           /\ j = tx[c].id /\ rows' = Effect(tx[c].op, j) => Status(j)' # "absent"
           /\ j = tx[c].id /\ rows' = Effect(tx[c].op, j) /\ tx[c].op # "publish" => Taken(j)'
<1> DEFINE op == tx[c].op
           i  == tx[c].id
<1>1. /\ i \in Ids /\ op \in {"publish", "poll", "ack", "fail"}
      /\ op = "fail" => rows[i].retry < MaxRetry
  BY OpenTx, Zenon
<1>2. /\ op = "publish" => Status(i) = "absent"
      /\ op = "poll" => Status(i) = "PENDING"
      /\ rows' = rows \/ rows' = Effect(op, i)
  BY DEF Inv, TxInv, TxOnRow, Ends
<1> HIDE DEF op, i
<1>3. TypeOK
  BY DEF Inv
<1>4. /\ \A k \in Ids : k # i => Effect(op, i)[k] = rows[k]
      /\ op = "publish" => Effect(op, i)[i].status = "PENDING"
      /\ op # "publish" => Effect(op, i)[i].status \in {"PROCESSING", "COMPLETED", "FAILED"}
      /\ op \in {"ack", "fail"} => Effect(op, i)[i].status \in {"COMPLETED", "FAILED"}
  BY <1>1, <1>3, EffectIsLocal
<1>5. /\ Taken(j) => Taken(j)'
      /\ Status(j) # "absent" => Status(j)' # "absent"
      /\ j = i /\ rows' = Effect(op, j) => Status(j)' # "absent"
      /\ j = i /\ rows' = Effect(op, j) /\ op # "publish" => Taken(j)'
  BY <1>2, <1>4 DEF Taken, Status
<1>6. Finished(j) => Finished(j)'
  BY <1>1, <1>2, <1>4 DEF Finished, Status
<1> QED
  BY <1>5, <1>6 DEF op, i
\* A commit: what it hands out was there to be taken, and now is taken.
LEMMA CommitKeepsInv ==
    ASSUME QueueAssumption, Inv, NEW c \in Clients, Commit(c)
    PROVE  Inv'
<1> DEFINE op == tx[c].op
           i  == tx[c].id
           d  == [to |-> c, id |-> i]
<1>1. /\ ~Idle(c) /\ i \in Ids /\ op \in {"publish", "poll", "ack", "fail"}
      /\ op = "poll" => Status(i) = "PENDING" /\ c \in Consumers
      /\ i <= lastId
  BY OpenTx DEF Commit, Inv, TxInv, TxOnRow
<1>2. /\ rows' = Effect(op, i) /\ lastId' = lastId
      /\ confirmed' = IF op = "publish" THEN confirmed \cup {i} ELSE confirmed
      /\ delivered' = IF op = "poll" THEN Append(delivered, d) ELSE delivered
  BY DEF Commit
<1>3. Ends(c, tx[c].op, tx[c].id)
  BY <1>2 DEF Ends, Commit, Answer
<1>4. /\ rows' \in [Ids -> Row] /\ tx' \in [Clients -> Tx] /\ TxInv'
      /\ \A j \in Ids : /\ rows'[j].topic = rows[j].topic
                        /\ rows'[j].prior = rows[j].prior
                        /\ j # i => rows'[j] = rows[j]
  BY <1>1, <1>3, EndKeepsTx, Zenon
<1>5. \A j \in Ids : /\ Taken(j) => Taken(j)'
                     /\ Status(j) # "absent" => Status(j)' # "absent"
                     /\ j = i => Status(j)' # "absent"
                     /\ j = i /\ op # "publish" => Taken(j)'
  BY <1>1, <1>2, <1>3, EndKeepsRows
<1>6. /\ delivered \in Seq([to : Consumers, id : Ids])
      /\ confirmed \subseteq Ids \cup {NoId}
      /\ lastId \in 0..MaxId
      /\ \A j \in Ids : rows[j].prior \subseteq Ids
  BY DEF Inv, TypeOK, Row
<1> HIDE DEF op, i
<1>7. op = "poll" => /\ d \in [to : Consumers, id : Ids]
                     /\ Append(delivered, d) \in Seq([to : Consumers, id : Ids])
                     /\ Len(Append(delivered, d)) = Len(delivered) + 1
                     /\ Append(delivered, d)[Len(delivered) + 1] = d
                     /\ \A n \in 1..Len(delivered) : Append(delivered, d)[n] = delivered[n]
  <2> SUFFICES ASSUME op = "poll"
               PROVE  /\ d \in [to : Consumers, id : Ids]
                      /\ Append(delivered, d) \in Seq([to : Consumers, id : Ids])
                      /\ Len(Append(delivered, d)) = Len(delivered) + 1
                      /\ Append(delivered, d)[Len(delivered) + 1] = d
                      /\ \A n \in 1..Len(delivered) : Append(delivered, d)[n] = delivered[n]
    OBVIOUS
  <2>1. d \in [to : Consumers, id : Ids]
    BY <1>1
  <2> HIDE DEF d
  <2> QED
    BY <1>6, <2>1, AppendProperties
<1>8. TypeOK'
  BY <1>1, <1>2, <1>4, <1>6, <1>7 DEF TypeOK
<1>9. RowInv'
  <2> SUFFICES ASSUME NEW j \in Ids
               PROVE  /\ Status(j)' # "absent" => j <= lastId'
                      /\ j \in confirmed' => Status(j)' # "absent"
                      /\ \A p \in rows'[j].prior : /\ p \in confirmed'
                                                   /\ rows'[p].topic = rows'[j].topic
                                                   /\ p < j
    BY Zenon DEF RowInv
  <2>1. Status(j)' # "absent" => j <= lastId'
    BY <1>1, <1>2, <1>4 DEF Inv, RowInv, Status
  <2>2. j \in confirmed' => Status(j)' # "absent"
    BY <1>2, <1>5 DEF Inv, RowInv
  <2>3. \A p \in rows[j].prior : p \in confirmed /\ rows[p].topic = rows[j].topic /\ p < j
    BY DEF Inv, RowInv
  <2> QED
    BY <1>2, <1>4, <1>6, <2>1, <2>2, <2>3
<1>10. Len(delivered) \in Nat /\ \A n \in 1..Len(delivered) : delivered[n].id \in Ids
  BY DeliveredIds DEF Inv
<1>11. \A n \in 1..Len(delivered) : Taken(delivered[n].id)
  BY DEF Inv, DeliveredTaken
<1>12. DeliveredTaken' /\ NoDuplicateDelivery'
  <2>1. CASE op = "poll"
    <3>1. \A n \in 1..Len(delivered) : delivered[n].id # i
      BY <1>1, <1>11, <2>1 DEF Taken
    <3>2. \A n \in 1..(Len(delivered) + 1) : \/ n \in 1..Len(delivered)
                                            \/ n = Len(delivered) + 1
      BY <1>10
    <3>3. /\ Len(delivered') = Len(delivered) + 1
          /\ delivered'[Len(delivered) + 1].id = i
          /\ \A n \in 1..Len(delivered) : delivered'[n] = delivered[n]
      BY <1>2, <1>7, <2>1
    <3>4. \A j \in Ids : j = i => Taken(j)'
      BY <1>5, <2>1
    <3>5. ASSUME NEW n \in 1..(Len(delivered) + 1)
          PROVE  Taken(delivered[n].id)'
      BY <1>1, <1>5, <1>10, <1>11, <3>2, <3>3, <3>4
    <3>7. DeliveredTaken'
      BY <3>3, <3>5 DEF DeliveredTaken
    <3>6. NoDuplicateDelivery'
      BY <3>1, <3>2, <3>3 DEF Inv, NoDuplicateDelivery
    <3> QED
      BY <3>6, <3>7
  <2>2. CASE op # "poll"
    BY <1>2, <1>5, <1>10, <1>11, <2>2 DEF Inv, DeliveredTaken, NoDuplicateDelivery
  <2> QED
    BY <2>1, <2>2
<1> QED
  BY <1>4, <1>8, <1>9, <1>12 DEF Inv

\* A transaction that ends badly hands nothing out.
LEMMA CommitFailsKeepsInv ==
    ASSUME QueueAssumption, Inv, NEW c \in Clients, CommitFails(c)
    PROVE  Inv'
<1> DEFINE op == tx[c].op
           i  == tx[c].id
<1>1. ~Idle(c) /\ i \in Ids /\ i <= lastId
  BY OpenTx DEF CommitFails, Inv, TxInv, TxOnRow
<1>2. /\ rows' \in {rows, Effect(op, i)} /\ lastId' = lastId /\ delivered' = delivered
      /\ confirmed' \in {confirmed, confirmed \cup {NoId}}
  BY DEF CommitFails
<1>3. Ends(c, tx[c].op, tx[c].id)
  BY <1>2 DEF Ends, CommitFails, Answer
<1>4. /\ rows' \in [Ids -> Row] /\ tx' \in [Clients -> Tx] /\ TxInv'
      /\ \A j \in Ids : /\ rows'[j].topic = rows[j].topic
                        /\ rows'[j].prior = rows[j].prior
                        /\ j # i => rows'[j] = rows[j]
  BY <1>1, <1>3, EndKeepsTx, Zenon
<1>5. \A j \in Ids : /\ Taken(j) => Taken(j)'
                     /\ Status(j) # "absent" => Status(j)' # "absent"
  BY <1>1, <1>3, EndKeepsRows, Zenon
<1> HIDE DEF op, i
<1>6. TypeOK'
  BY <1>2, <1>4 DEF Inv, TypeOK
<1>7. \A j \in Ids : /\ j \in confirmed' <=> j \in confirmed
                     /\ rows[j].prior \subseteq Ids
  BY <1>2 DEF Ids, NoId, Inv, TypeOK, Row
<1>8. RowInv'
  <2> SUFFICES ASSUME NEW j \in Ids
               PROVE  /\ Status(j)' # "absent" => j <= lastId'
                      /\ j \in confirmed' => Status(j)' # "absent"
                      /\ \A p \in rows'[j].prior : /\ p \in confirmed'
                                                   /\ rows'[p].topic = rows'[j].topic
                                                   /\ p < j
    BY Zenon DEF RowInv
  <2>1. Status(j)' # "absent" => j <= lastId'
    BY <1>1, <1>2, <1>4 DEF Inv, RowInv, Status
  <2>2. j \in confirmed' => Status(j)' # "absent"
    BY <1>5, <1>7 DEF Inv, RowInv
  <2>3. \A p \in rows[j].prior : p \in confirmed /\ rows[p].topic = rows[j].topic /\ p < j
    BY DEF Inv, RowInv
  <2> QED
    BY <1>4, <1>7, <2>1, <2>2, <2>3
<1>9. \A n \in 1..Len(delivered) : delivered[n].id \in Ids
  BY DeliveredIds DEF Inv
<1>10. DeliveredTaken' /\ NoDuplicateDelivery'
  BY <1>2, <1>5, <1>9 DEF Inv, DeliveredTaken, NoDuplicateDelivery
<1> QED
  BY <1>4, <1>6, <1>8, <1>10 DEF Inv

\* Every step preserves the invariant.
LEMMA InvStep ==
    ASSUME QueueAssumption, Inv, [Next]_vars
    PROVE  Inv'
<1>1. ASSUME NEW c \in Producers, Publish(c) \/ PublishRefused(c)
      PROVE  Inv'
  <2>1. c \in Clients
    BY DEF Clients
  <2>2. CASE Publish(c)
    BY <2>1, <2>2, PublishKeepsInv
  <2>3. CASE PublishRefused(c)
    BY <2>1, <2>3, AnswerKeepsInv DEF PublishRefused
  <2> QED
    BY <1>1, <2>2, <2>3
<1>2. ASSUME NEW c \in Consumers, NEW t \in Topics, Take(c, t) \/ TakeNothing(c, t)
      PROVE  Inv'
  <2>1. c \in Clients
    BY DEF Clients
  <2>2. CASE Take(c, t)
    <3>1. PICK i \in {j \in Pending(t) : ~Locked(j)} : Open(c, "poll", i)
      BY <2>2 DEF Take
    <3>2. i \in Ids /\ Status(i) = "PENDING" /\ ~Locked(i)
      BY DEF Pending
    <3>3. UNCHANGED <<rows, lastId, confirmed, delivered>>
      BY <2>2 DEF Take
    <3> QED
      BY <2>1, <3>1, <3>2, <3>3, OpenKeepsInv
  <2>3. CASE TakeNothing(c, t)
    BY <2>1, <2>3, AnswerKeepsInv DEF TakeNothing
  <2> QED
    BY <1>2, <2>2, <2>3
<1>3. ASSUME NEW c \in Consumers, NEW i \in Ids, NEW op \in {"ack", "fail"}, Mark(c, op, i)
      PROVE  Inv'
  BY <1>3, OpenKeepsInv DEF Mark, Clients
<1>4. ASSUME NEW c \in Consumers, NEW i \in Ids, MarkNothing(c, i)
      PROVE  Inv'
  BY <1>4, AnswerKeepsInv DEF MarkNothing, Clients
<1>5. ASSUME NEW c \in Clients, Commit(c) \/ CommitFails(c)
      PROVE  Inv'
  BY <1>5, CommitKeepsInv, CommitFailsKeepsInv
<1>6. CASE UNCHANGED vars
  BY <1>6 DEF vars, Inv, TypeOK, TxInv, OneTxPerRow, TxOnRow, RowInv, DeliveredTaken,
              NoDuplicateDelivery, Taken, Status
<1> QED
  BY <1>1, <1>2, <1>3, <1>4, <1>5, <1>6 DEF Next

\* Inv holds in every state of every behaviour.
LEMMA Invariance == Spec => []Inv
BY InitInv, InvStep, QueueAssumption, PTL DEF Spec

\* Every variable of the queue stays in its type.
THEOREM QueueTyped == Spec => []TypeOK
<1>1. Inv => TypeOK
  BY DEF Inv
<1> QED
  BY <1>1, Invariance, PTL

\* NoDuplicateDelivery, for every number of consumers and every way their
\* transactions overlap and end: no message is handed out twice.
THEOREM DeliveredOnce == Spec => []NoDuplicateDelivery
<1>1. Inv => NoDuplicateDelivery
  BY DEF Inv
<1> QED
  BY <1>1, Invariance, PTL

-----------------------------------------------------------------------------
(***************************************************************************)
(* What any step leaves alone: the transactions of all clients but one     *)
(* and the history of every id that was handed out; and only the end of a  *)
(* transaction changes a status.                                           *)
(***************************************************************************)
Frame(c) ==
    /\ \A d \in Clients : d # c => tx'[d] = tx[d]
    /\ \A i \in Ids : i <= lastId => rows'[i].prior = rows[i].prior
    /\ \/ Commit(c) \/ CommitFails(c)
       \/ /\ Idle(c) /\ delivered' = delivered
          /\ \A i \in Ids : Status(i)' = Status(i)
          /\ \/ tx'[c].op # "poll"
             \/ c \in Consumers /\ \E t \in Topics : Take(c, t)

LEMMA StepFrame ==
    ASSUME QueueAssumption, Inv, Next
    PROVE  \E c \in Clients : Frame(c)
<1>1. /\ tx \in [Clients -> Tx] /\ rows \in [Ids -> Row]
      /\ lastId \in Nat /\ \A i \in Ids : i \in Nat
  BY DEF Inv, TypeOK, Ids, QueueAssumption
<1>2. ASSUME NEW c \in Producers, Publish(c)
      PROVE  \E b \in Clients : Frame(b)
  <2>1. /\ \A i \in Ids : /\ rows'[i].status = rows[i].status
                          /\ i # lastId + 1 => rows'[i] = rows[i]
        /\ delivered' = delivered /\ Idle(c)
    <3> DEFINE before == {i \in confirmed \cap Ids : rows[i].topic = rows[lastId + 1].topic}
    <3>1. rows' = [rows EXCEPT ![lastId + 1].prior = before] /\ lastId + 1 \in Ids
      BY <1>1, <1>2 DEF Publish, Ids, QueueAssumption, Inv, TypeOK
    <3> HIDE DEF before
    <3> QED
      BY <1>1, <1>2, <3>1 DEF Publish, Row
  <2>2. /\ tx'[c].op = "publish" /\ c \in Clients
        /\ \A d \in Clients : d # c => tx'[d] = tx[d]
    BY <1>1, <1>2 DEF Publish, Open, Clients
  <2>3. Frame(c)
    BY <1>1, <2>1, <2>2 DEF Frame, Status
  <2> QED
    BY <2>2, <2>3
<1>3. ASSUME NEW c \in Clients, NEW r \in {"ok", "error"}, Idle(c), Answer(c, r),
             UNCHANGED <<rows, delivered>>
      PROVE  \E b \in Clients : Frame(b)
  <2>1. tx'[c].op = "none" /\ \A d \in Clients : d # c => tx'[d] = tx[d]
    BY <1>1, <1>3 DEF Answer, NoTx
  <2>2. Frame(c)
    BY <1>3, <2>1 DEF Frame, Status
  <2> QED
    BY <2>2
<1>4. ASSUME NEW c \in Consumers, NEW t \in Topics, Take(c, t)
      PROVE  \E b \in Clients : Frame(b)
  <2>1. /\ c \in Clients /\ Idle(c) /\ rows' = rows /\ delivered' = delivered
        /\ \A d \in Clients : d # c => tx'[d] = tx[d]
    BY <1>1, <1>4 DEF Take, Open, Clients
  <2>2. Frame(c)
    BY <1>4, <2>1 DEF Frame, Status
  <2> QED
    BY <2>1, <2>2
<1>5. ASSUME NEW c \in Consumers, NEW i \in Ids, NEW op \in {"ack", "fail"}, Mark(c, op, i)
      PROVE  \E b \in Clients : Frame(b)
  <2>1. /\ c \in Clients /\ Idle(c) /\ rows' = rows /\ delivered' = delivered
        /\ \A d \in Clients : d # c => tx'[d] = tx[d]
        /\ tx'[c].op # "poll"
    BY <1>1, <1>5 DEF Mark, Open, Clients
  <2>2. Frame(c)
    BY <2>1 DEF Frame, Status
  <2> QED
    BY <2>1, <2>2
<1>6. ASSUME NEW c \in Clients, Commit(c) \/ CommitFails(c)
      PROVE  \E b \in Clients : Frame(b)
  <2>1. ~Idle(c) /\ Ends(c, tx[c].op, tx[c].id)
    BY <1>6 DEF Commit, CommitFails, Ends, Answer
  <2>2. /\ \A j \in Ids : rows'[j].prior = rows[j].prior
        /\ \A d \in Clients : d # c => tx'[d] = tx[d]
    BY <2>1, EndKeepsTx, Zenon
  <2>3. Frame(c)
    BY <1>6, <2>2 DEF Frame
  <2> QED
    BY <2>3
<1>7. ASSUME NEW c \in Producers, PublishRefused(c)
      PROVE  \E b \in Clients : Frame(b)
  BY <1>3, <1>7 DEF PublishRefused, Clients
<1>8. ASSUME NEW c \in Consumers, NEW t \in Topics, TakeNothing(c, t)
      PROVE  \E b \in Clients : Frame(b)
  BY <1>3, <1>8 DEF TakeNothing, Clients
<1>9. ASSUME NEW c \in Consumers, NEW i \in Ids, MarkNothing(c, i)
      PROVE  \E b \in Clients : Frame(b)
  BY <1>3, <1>9 DEF MarkNothing, Clients
<1> QED
  BY <1>2, <1>4, <1>5, <1>6, <1>7, <1>8, <1>9 DEF Next

\* Nothing that is taken or finished is set back by a step.
LEMMA StatusesKept ==
    ASSUME QueueAssumption, Inv, Next, NEW i \in Ids
    PROVE  (Taken(i) => Taken(i)') /\ (Finished(i) => Finished(i)')
<1>1. PICK c \in Clients : Frame(c)
  BY StepFrame
<1>2. CASE Commit(c) \/ CommitFails(c)
  <2>1. ~Idle(c) /\ Ends(c, tx[c].op, tx[c].id)
    BY <1>2 DEF Commit, CommitFails, Ends, Answer
  <2> QED
    BY <2>1, EndKeepsRows, Zenon
<1>3. CASE \A j \in Ids : Status(j)' = Status(j)
  BY <1>3 DEF Taken, Finished
<1> QED
  BY <1>1, <1>2, <1>3 DEF Frame

\* FinishedStaysFinished: no poll, publication or failed commit, however late
\* it ends, sets a finished message back.
THEOREM FinishedIsFinal == Spec => FinishedStaysFinished
<1>1. ASSUME Inv, [Next]_vars
      PROVE  [\A i \in Ids : Status(i) \in {"COMPLETED", "FAILED"}
                                => Status(i)' \in {"COMPLETED", "FAILED"}]_vars
  BY <1>1, StatusesKept, QueueAssumption DEF Finished
<1> QED
  BY <1>1, Invariance, PTL DEF Spec, FinishedStaysFinished

-----------------------------------------------------------------------------
\* When no transaction is rolled back, a message that consumer c cannot get
\* any more stays out of its reach.
LEMMA PassedKept ==
    ASSUME QueueAssumption, Inv, Next, "lost" \notin EndFaults,
           NEW c \in Clients, NEW p \in Ids, Passed(c, p)
    PROVE  Passed(c, p)'
<1>1. CASE Taken(p)
  BY <1>1, StatusesKept DEF Passed
<1>2. CASE \E a \in Clients : a # c /\ tx[a].id = p /\ tx[a].op # "publish"
  <2>1. PICK a \in Clients : a # c /\ tx[a].id = p /\ tx[a].op # "publish"
    BY <1>2
  <2>2. PICK b \in Clients : Frame(b)
    BY StepFrame
  <2>3. CASE a # b
    <3>1. tx'[a] = tx[a]
      BY <2>2, <2>3 DEF Frame
    <3> QED
      BY <2>1, <3>1 DEF Passed
  <2>4. CASE a = b
    <3>1. ~Idle(a)
      BY <2>1 DEF Idle, Inv, TxInv, TxOnRow, Ids, NoId
    <3>2. Commit(a) \/ CommitFails(a)
      BY <2>2, <2>4, <3>1 DEF Frame
    <3>3. rows' = Effect(tx[a].op, p) /\ Ends(a, tx[a].op, tx[a].id)
      BY <2>1, <3>2 DEF Commit, CommitFails, Ends, Answer
    <3>4. Taken(p)'
      BY <2>1, <3>1, <3>3, EndKeepsRows
    <3> QED
      BY <3>4 DEF Passed
  <2> QED
    BY <2>3, <2>4
<1> QED
  BY <1>1, <1>2 DEF Passed

\* A poll takes a message only when each one before it is out of reach.
LEMMA TakeInOrder ==
    ASSUME Inv, NEW c \in Consumers, NEW t \in Topics, Take(c, t),
           NEW d \in Ids, tx'[c].id = d, NEW p \in rows[d].prior
    PROVE  p \in Ids /\ Passed(c, p)
<1> DEFINE free == {i \in Pending(t) : ~Locked(i)}
<1>1. c \in Clients /\ tx \in [Clients -> Tx] /\ rows \in [Ids -> Row]
  BY DEF Inv, TypeOK, Clients
<1>2. d \in free /\ \A j \in free : d <= j
  BY <1>1 DEF Take, Open
<1>3. p \in Ids
  BY <1>1 DEF Row
<1>4. Status(p) # "absent" /\ rows[p].topic = t /\ p < d
  BY <1>2, <1>3 DEF Inv, RowInv, Pending
<1>5. p \notin free
  BY <1>2, <1>3, <1>4 DEF Ids
<1>6. CASE Status(p) # "PENDING"
  BY <1>1, <1>3, <1>4, <1>6 DEF Passed, Taken, Status, Row
<1>7. CASE Status(p) = "PENDING"
  <2>1. PICK a \in Clients : tx[a].id = p
    BY <1>3, <1>4, <1>5, <1>7 DEF Pending, Locked
  <2>2. tx[a].op # "publish"
    BY <1>4, <2>1 DEF Inv, TxInv, TxOnRow
  <2>3. a # c
    BY <1>1, <1>3, <2>1 DEF Take, Idle, Inv, TxInv, TxOnRow, Ids, NoId
  <2> QED
    BY <1>3, <2>1, <2>2, <2>3 DEF Passed
<1> QED
  BY <1>3, <1>6, <1>7

\* What a consumer has after a step it had before it, unless the step is the
\* statement of its poll.
LEMMA GotBefore ==
    ASSUME QueueAssumption, Inv, Next, NEW c \in Consumers, NEW d \in Ids, Got(c, d)'
    PROVE  \/ Got(c, d)
           \/ tx'[c].id = d /\ \E t \in Topics : Take(c, t)
<1> c \in Clients
  BY DEF Clients
<1>1. PICK b \in Clients : Frame(b)
  BY StepFrame
<1>2. CASE Commit(b) \/ CommitFails(b)
  <2>1. ~Idle(b) /\ Ends(b, tx[b].op, tx[b].id)
    BY <1>2 DEF Commit, CommitFails, Ends, Answer
  <2>2. tx'[b].op = "none"
    BY <2>1, EndKeepsTx, Zenon
  <2>3. CASE tx'[c].op = "poll" /\ tx'[c].id = d
    <3>1. c # b
      BY <2>2, <2>3
    <3>2. tx'[c] = tx[c]
      BY <1>1, <3>1 DEF Frame
    <3> QED
      BY <2>3, <3>2 DEF Got
  <2>4. CASE \E n \in 1..Len(delivered') : delivered'[n].to = c /\ delivered'[n].id = d
    <3>1. CASE delivered' = delivered
      BY <2>4, <3>1 DEF Got
    <3>2. CASE delivered' # delivered
      <4> DEFINE e == [to |-> b, id |-> tx[b].id]
      <4>1. delivered' = Append(delivered, e) /\ tx[b].op = "poll"
        BY <1>2, <3>2 DEF Commit, CommitFails
      <4>2. PICK n \in 1..Len(delivered') : delivered'[n].to = c /\ delivered'[n].id = d
        BY <2>4
      <4>3. \/ n \in 1..Len(delivered) /\ delivered'[n] = delivered[n]
            \/ delivered'[n] = e
        BY <4>1 DEF Inv, TypeOK
      <4> QED
        BY <4>1, <4>2, <4>3 DEF Got
    <3> QED
      BY <3>1, <3>2
  <2> QED
    BY <2>3, <2>4 DEF Got
<1>3. CASE /\ delivered' = delivered
           /\ tx'[b].op # "poll" \/ (b \in Consumers /\ \E t \in Topics : Take(b, t))
  <2>1. CASE c = b
    BY <1>3, <2>1 DEF Got
  <2>2. CASE c # b
    BY <1>1, <1>3, <2>2 DEF Got, Frame
  <2> QED
    BY <2>1, <2>2
<1>4. \/ Commit(b) \/ CommitFails(b)
      \/ /\ delivered' = delivered
         /\ tx'[b].op # "poll" \/ (b \in Consumers /\ \E t \in Topics : Take(b, t))
  BY <1>1, Zenon DEF Frame
<1> QED
  BY <1>2, <1>3, <1>4, Zenon

\* Who has a message has one whose id was handed out.
LEMMA GotIsOld ==
    ASSUME Inv, NEW c \in Clients, NEW d \in Ids, Got(c, d)
    PROVE  d <= lastId
BY DEF Got, Inv, TxInv, TxOnRow, DeliveredTaken, RowInv, Taken

\* Every step keeps the order.
LEMMA FifoStep ==
    ASSUME QueueAssumption, Inv, FifoInv, [Next]_vars
    PROVE  FifoInv'
<1> SUFFICES ASSUME "lost" \notin EndFaults
             PROVE  OrderInv' /\ FifoPerConsumer'
  BY DEF FifoInv
<1>1. OrderInv /\ FifoPerConsumer
  BY DEF FifoInv
<1>2. CASE UNCHANGED vars
  BY <1>1, <1>2 DEF vars, OrderInv, FifoPerConsumer, Got, Passed, Taken, Status
<1>3. CASE Next
  <2>1. PICK b \in Clients : Frame(b)
    BY <1>3, StepFrame
  <2>2. \A d \in Ids : d <= lastId => rows'[d].prior = rows[d].prior
    BY <2>1 DEF Frame
  <2>3. \A d \in Ids : rows[d].prior \subseteq Ids
    BY DEF Inv, TypeOK, Row
  <2>4. ASSUME NEW c \in Consumers, NEW d \in Ids, Got(c, d)', NEW p \in rows'[d].prior
        PROVE  Passed(c, p)'
    <3>1. c \in Clients
      BY DEF Clients
    <3>2. CASE Got(c, d)
      <4>1. p \in rows[d].prior
        BY <2>2, <2>4, <3>1, <3>2, GotIsOld
      <4>2. p \in Ids /\ Passed(c, p)
        BY <1>1, <2>3, <3>2, <4>1 DEF OrderInv
      <4> QED
        BY <1>3, <3>1, <4>2, PassedKept
    <3>3. CASE tx'[c].id = d /\ \E t \in Topics : Take(c, t)
      <4>1. PICK t \in Topics : Take(c, t)
        BY <3>3
      <4>2. p \in rows[d].prior
        BY <2>4, <4>1 DEF Take
      <4>3. p \in Ids /\ Passed(c, p)
        BY <3>3, <4>1, <4>2, TakeInOrder
      <4> QED
        BY <1>3, <3>1, <4>3, PassedKept
    <3> QED
      BY <1>3, <2>4, <3>2, <3>3, GotBefore
  <2>5. FifoPerConsumer'
    <3>1. CASE delivered' = delivered
      <4>1. \A n \in 1..Len(delivered) : rows'[delivered[n].id].prior = rows[delivered[n].id].prior
        <5>1. ASSUME NEW n \in 1..Len(delivered)
              PROVE  delivered[n].id \in Ids /\ delivered[n].id <= lastId
          BY DeliveredIds DEF Inv, DeliveredTaken, RowInv, Taken
        <5> QED
          BY <2>2, <5>1
      <4> QED
        BY <1>1, <3>1, <4>1 DEF FifoPerConsumer
    <3>2. CASE delivered' # delivered
      <4> DEFINE i == tx[b].id
                 e == [to |-> b, id |-> i]
      <4>1. Commit(b) \/ CommitFails(b)
        BY <2>1, <3>2 DEF Frame
      <4>2. Commit(b) /\ tx[b].op = "poll" /\ delivered' = Append(delivered, e)
        BY <3>2, <4>1 DEF Commit, CommitFails
      <4>3. /\ i \in Ids /\ Status(i) = "PENDING" /\ b \in Consumers
            /\ \A a \in Clients : a # b => tx[a].id # i
        BY <4>2, OpenTx DEF Commit, Inv, TxInv, TxOnRow
      <4>4. ~Passed(b, i)
        BY <4>3 DEF Passed, Taken
      <4>5. /\ Len(delivered) \in Nat /\ Len(delivered') = Len(delivered) + 1
            /\ delivered'[Len(delivered) + 1] = e
            /\ \A n \in 1..Len(delivered) : delivered'[n] = delivered[n]
        BY <4>2 DEF Inv, TypeOK
      <4>6. \A n \in 1..Len(delivered) : delivered[n].id \in Ids
        BY DeliveredIds DEF Inv
      <4>7. ASSUME NEW m \in 1..Len(delivered), delivered[m].to = b
            PROVE  i \notin rows[delivered[m].id].prior
        <5>1. Got(b, delivered[m].id)
          BY <4>7 DEF Got
        <5> QED
          BY <1>1, <4>3, <4>4, <4>6, <5>1 DEF OrderInv
      <4>8. \A m \in 1..Len(delivered) : rows'[delivered[m].id].prior = rows[delivered[m].id].prior
        <5>1. ASSUME NEW m \in 1..Len(delivered)
              PROVE  delivered[m].id \in Ids /\ delivered[m].id <= lastId
          BY <4>6 DEF Inv, DeliveredTaken, RowInv, Taken
        <5> QED
          BY <2>2, <5>1
      <4> HIDE DEF i
      <4>9. ASSUME NEW m \in 1..Len(delivered'), NEW n \in 1..Len(delivered'),
                   m < n, delivered'[m].to = delivered'[n].to
            PROVE  delivered'[n].id \notin rows'[delivered'[m].id].prior
        <5>1. m \in 1..Len(delivered) /\ delivered'[m] = delivered[m]
          BY <4>5, <4>9
        <5>2. CASE n \in 1..Len(delivered)
          BY <1>1, <4>5, <4>8, <4>9, <5>1, <5>2 DEF FifoPerConsumer
        <5>3. CASE n = Len(delivered) + 1
          BY <4>5, <4>7, <4>8, <4>9, <5>1, <5>3
        <5> QED
          BY <4>5, <5>2, <5>3
      <4> QED
        BY <4>9 DEF FifoPerConsumer
    <3> QED
      BY <3>1, <3>2
  <2> QED
    BY <2>4, <2>5 DEF OrderInv
<1> QED
  BY <1>2, <1>3

\* FifoPerConsumer, for every number of clients and topics, and also when
\* commits succeed without anybody learning of it: no consumer gets a message
\* after one that was published later, as long as no transaction is rolled
\* back (a rolled back poll makes its message available again, after others).
THEOREM DeliveredInOrder == Spec => []("lost" \notin EndFaults => FifoPerConsumer)
<1>1. Inv /\ FifoInv /\ [Next]_vars => FifoInv'
  BY FifoStep, QueueAssumption
<1>2. FifoInv => ("lost" \notin EndFaults => FifoPerConsumer)
  BY DEF FifoInv
<1>3. Spec => []FifoInv
  BY <1>1, InitInv, QueueAssumption, Invariance, PTL DEF Spec
<1> QED
  BY <1>2, <1>3, PTL

-----------------------------------------------------------------------------
(***************************************************************************)
(* The queue keeps its promise, step by step: a statement begins a request *)
(* (Ask), and the end of its transaction is its effect and its answer.     *)
(***************************************************************************)
Stages  == [i \in Ids |-> StageOf(Status(i))]
Answers == [c \in Clients |-> tx[c].reply]

PromiseVars == <<Stages, confirmed, delivered, Answers>>
PromiseStep == Promise!Next \/ UNCHANGED PromiseVars

\* The stages that a row may be in.
LEMMA StageCases ==
    ASSUME TypeOK, NEW i \in Ids
    PROVE  /\ Status(i) = "absent" <=> Stages[i] = "none"
           /\ Status(i) = "PENDING" <=> Stages[i] = "waiting"
BY DEF TypeOK, Row, Status, Stages, StageOf

\* Where no status changes, no stage does.
LEMMA StagesStay ==
    ASSUME \A i \in Ids : Status(i)' = Status(i)
    PROVE  Stages' = Stages
BY DEF Stages

\* Where one status changes, that message moves, and no other.
LEMMA OneMoves ==
    ASSUME NEW i \in Ids, NEW to, StageOf(Status(i)') = to,
           \A j \in Ids : j # i => Status(j)' = Status(j)
    PROVE  Stages' = [Stages EXCEPT ![i] = to]
<1>1. Stages' = [j \in Ids |-> StageOf(Status(j)')]
  BY DEF Stages, StageOf, Status
<1>2. [Stages EXCEPT ![i] = to] = [j \in Ids |-> IF j = i THEN to ELSE StageOf(Status(j))]
  BY Zenon DEF Stages
<1>3. \A j \in Ids : StageOf(Status(j)') = IF j = i THEN to ELSE StageOf(Status(j))
  BY Zenon
<1> QED
  BY <1>1, <1>2, <1>3, Zenon

\* The commit of a transaction moves its message, and no other.
LEMMA CommitMoves ==
    ASSUME QueueAssumption, Inv, NEW c \in Clients, ~Idle(c),
           NEW i, i = tx[c].id, NEW op, op = tx[c].op, rows' = Effect(op, i)
    PROVE  /\ op = "publish" => /\ Stages[i] = "none"
                                /\ Stages' = [Stages EXCEPT ![i] = "waiting"]
           /\ op = "poll"    => /\ Stages[i] = "waiting"
                                /\ Stages' = [Stages EXCEPT ![i] = "taken"]
           /\ op \in {"ack", "fail"} => /\ Stages[i] # "none"
                                        /\ Stages' = [Stages EXCEPT ![i] = "finished"]
<1>1. /\ i \in Ids /\ op \in {"publish", "poll", "ack", "fail"}
      /\ op = "fail" => rows[i].retry < MaxRetry
      /\ TypeOK /\ TxOnRow(op, i)
  BY OpenTx DEF Inv, TxInv
<1>2. /\ \A j \in Ids : j # i => Effect(op, i)[j] = rows[j]
      /\ op = "publish" => Effect(op, i)[i].status = "PENDING"
      /\ op \in {"ack", "fail"} => Effect(op, i)[i].status \in {"COMPLETED", "FAILED"}
  BY <1>1, EffectIsLocal
<1>3. op = "poll" => Effect(op, i)[i].status = "PROCESSING"
  BY <1>1 DEF Effect, TypeOK, Row
<1>4. \A j \in Ids : j # i => Status(j)' = Status(j)
  BY <1>2 DEF Status
<1>5. CASE op = "publish"
  <2>1. StageOf(Status(i)') = "waiting"
    BY <1>2, <1>5 DEF Status, StageOf
  <2>2. Stages[i] = "none"
    BY <1>1, <1>5 DEF TxOnRow, Stages, StageOf, Status
  <2> QED
    BY <1>1, <1>4, <1>5, <2>1, <2>2, OneMoves
<1>6. CASE op = "poll"
  <2>1. StageOf(Status(i)') = "taken"
    BY <1>3, <1>6 DEF Status, StageOf
  <2>2. Stages[i] = "waiting"
    BY <1>1, <1>6 DEF TxOnRow, Stages, StageOf, Status
  <2> QED
    BY <1>1, <1>4, <1>6, <2>1, <2>2, OneMoves
<1>7. CASE op \in {"ack", "fail"}
  <2>1. StageOf(Status(i)') = "finished"
    BY <1>2, <1>7 DEF Status, StageOf
  <2>2. Stages[i] # "none"
    BY <1>1, <1>7 DEF TxOnRow, Stages, StageOf, Status, TypeOK, Row
  <2> QED
    BY <1>1, <1>4, <1>7, <2>1, <2>2, OneMoves
<1> QED
  BY <1>1, <1>5, <1>6, <1>7

\* The reply of one client is its answer.
LEMMA AnswerIsTold ==
    ASSUME TypeOK, NEW c \in Clients, NEW t, tx' = [tx EXCEPT ![c] = t]
    PROVE  Answers' = [Answers EXCEPT ![c] = t.reply]
<1>1. tx \in [Clients -> Tx]
  BY DEF TypeOK
<1>2. Answers' = [d \in Clients |-> tx'[d].reply]
  BY DEF Answers
<1>3. [Answers EXCEPT ![c] = t.reply] = [d \in Clients |-> IF d = c THEN t.reply ELSE tx[d].reply]
  BY Zenon DEF Answers
<1>4. \A d \in Clients : tx'[d].reply = IF d = c THEN t.reply ELSE tx[d].reply
  BY <1>1
<1> QED
  BY <1>2, <1>3, <1>4, Zenon

\* A client that is answered was answered this, and one that asks has no answer.
LEMMA AnswerTells ==
    ASSUME TypeOK, NEW c \in Clients, NEW r, Answer(c, r)
    PROVE  Answers' = [Answers EXCEPT ![c] = r]
<1>1. tx' = [tx EXCEPT ![c] = NoTx(r)]
  BY DEF Answer
<1>2. NoTx(r).reply = r
  BY DEF NoTx
<1>3. Answers' = [Answers EXCEPT ![c] = NoTx(r).reply]
  BY <1>1, AnswerIsTold, Zenon
<1> QED
  BY <1>2, <1>3, Zenon

LEMMA OpenTells ==
    ASSUME TypeOK, NEW c \in Clients, NEW op, NEW i, Open(c, op, i)
    PROVE  Answers' = [Answers EXCEPT ![c] = "none"]
<1> DEFINE t == [op |-> op, id |-> i, reply |-> "none"]
<1>1. tx' = [tx EXCEPT ![c] = t] /\ t.reply = "none"
  BY DEF Open
<1> HIDE DEF t
<1> QED
  BY <1>1, AnswerIsTold, Zenon

\* A statement is the beginning of a request.
LEMMA AskIsStep ==
    ASSUME TypeOK, NEW c \in Clients, NEW op, NEW i, Open(c, op, i),
           UNCHANGED <<confirmed, delivered>>, \A j \in Ids : Status(j)' = Status(j)
    PROVE  PromiseStep
<1>1. Answers' = [Answers EXCEPT ![c] = "none"]
  BY OpenTells
<1>2. Stages' = Stages
  BY StagesStay
<1>3. Promise!Ask(c)
  BY <1>1, <1>2 DEF Promise!Ask, Promise!Tell, Stages, Answers
<1> QED
  BY <1>3 DEF PromiseStep, Promise!Next, Promise!Clients, Clients

\* An answer without a transaction is that of a request that had no effect.
LEMMA ErrorIsStep ==
    ASSUME TypeOK, NEW c \in Consumers, Answer(c, "error"),
           UNCHANGED <<rows, confirmed, delivered>>
    PROVE  PromiseStep
<1>1. Answers' = [Answers EXCEPT ![c] = "error"]
  BY AnswerTells DEF Clients
<1>2. Stages' = Stages
  BY StagesStay DEF Status
<1>3. Promise!Fail(c)
  BY <1>1, <1>2 DEF Promise!Fail, Promise!Tell, Stages, Answers
<1> QED
  BY <1>3 DEF PromiseStep, Promise!Next

\* Only producers publish, and only consumers do anything else.
OpInv == \A c \in Clients : /\ tx[c].op = "publish" => c \in Producers
                            /\ tx[c].op \in {"poll", "ack", "fail"} => c \in Consumers

LEMMA OpStep ==
    ASSUME TypeOK, OpInv, [Next]_vars
    PROVE  OpInv'
<1>1. tx \in [Clients -> Tx]
  BY DEF TypeOK
<1>2. ASSUME NEW c \in Clients, NEW t, tx' = [tx EXCEPT ![c] = t],
             t.op = "publish" => c \in Producers,
             t.op \in {"poll", "ack", "fail"} => c \in Consumers
      PROVE  OpInv'
  BY <1>1, <1>2 DEF OpInv
<1>3. ASSUME NEW c \in Producers, Publish(c) \/ PublishRefused(c)
      PROVE  OpInv'
  BY <1>2, <1>3 DEF Publish, PublishRefused, Open, Answer, NoTx, Clients
<1>4. ASSUME NEW c \in Consumers, NEW t \in Topics, Take(c, t) \/ TakeNothing(c, t)
      PROVE  OpInv'
  <2>1. c \in Clients
    BY DEF Clients
  <2>2. CASE Take(c, t)
    <3>1. PICK i : Open(c, "poll", i)
      BY <2>2 DEF Take
    <3> QED
      BY <1>2, <2>1, <3>1 DEF Open
  <2>3. CASE TakeNothing(c, t)
    BY <1>2, <2>1, <2>3 DEF TakeNothing, Answer, NoTx
  <2> QED
    BY <1>4, <2>2, <2>3
<1>5. ASSUME NEW c \in Consumers, NEW i \in Ids,
             Mark(c, "ack", i) \/ Mark(c, "fail", i) \/ MarkNothing(c, i)
      PROVE  OpInv'
  BY <1>2, <1>5 DEF Mark, MarkNothing, Open, Answer, NoTx, Clients
<1>6. ASSUME NEW c \in Clients, Commit(c) \/ CommitFails(c)
      PROVE  OpInv'
  <2>1. \E r : Answer(c, r)
    BY <1>6 DEF Commit, CommitFails
  <2> QED
    BY <1>2, <2>1 DEF Answer, NoTx
<1>7. CASE UNCHANGED vars
  BY <1>7 DEF vars, OpInv
<1> QED
  BY <1>3, <1>4, <1>5, <1>6, <1>7 DEF Next

LEMMA OpInvariance == Spec => []OpInv
<1>1. Init => OpInv
  BY DEF Init, OpInv, NoTx
<1> QED
  BY <1>1, OpStep, QueueTyped, PTL DEF Spec

\* A commit is the effect and the answer of its request.
LEMMA CommitIsStep ==
    ASSUME QueueAssumption, Inv, OpInv, NEW c \in Clients, Commit(c)
    PROVE  PromiseStep
<1> DEFINE i  == tx[c].id
           op == tx[c].op
<1>1. /\ ~Idle(c) /\ i \in Ids /\ op \in {"publish", "poll", "ack", "fail"}
      /\ rows' = Effect(op, i) /\ TypeOK
  BY OpenTx DEF Commit, Inv
<1>2. Answers' = [Answers EXCEPT ![c] = "ok"]
  BY <1>1, AnswerTells DEF Commit
<1>3. CASE op = "publish"
  <2>1. Stages' = [Stages EXCEPT ![i] = "waiting"] /\ Stages[i] = "none"
    BY <1>1, <1>3, CommitMoves
  <2>2. confirmed' = confirmed \cup {i} /\ delivered' = delivered
    BY <1>3 DEF Commit
  <2>3. Promise!Accept(c, i)
    BY <1>2, <2>1, <2>2 DEF Promise!Accept, Promise!Moves, Promise!Tell, Stages, Answers
  <2> QED
    BY <1>1, <1>3, <2>3 DEF PromiseStep, Promise!Next, OpInv
<1>4. CASE op = "poll"
  <2>1. Stages' = [Stages EXCEPT ![i] = "taken"] /\ Stages[i] = "waiting"
    BY <1>1, <1>4, CommitMoves
  <2>2. confirmed' = confirmed /\ delivered' = Append(delivered, [to |-> c, id |-> i])
    BY <1>4 DEF Commit
  <2>3. Promise!Hand(c, i)
    BY <1>2, <2>1, <2>2 DEF Promise!Hand, Promise!Moves, Promise!Tell, Stages, Answers
  <2> QED
    BY <1>1, <1>4, <2>3 DEF PromiseStep, Promise!Next, OpInv
<1>5. CASE op \in {"ack", "fail"}
  <2>1. Stages' = [Stages EXCEPT ![i] = "finished"] /\ Stages[i] # "none"
    BY <1>1, <1>5, CommitMoves
  <2>2. confirmed' = confirmed /\ delivered' = delivered
    BY <1>5 DEF Commit
  <2>3. Promise!Finish(c, i)
    BY <1>2, <2>1, <2>2 DEF Promise!Finish, Promise!Moves, Promise!Tell, Stages, Answers
  <2> QED
    BY <1>1, <1>5, <2>3 DEF PromiseStep, Promise!Next, OpInv
<1> QED
  BY <1>1, <1>3, <1>4, <1>5

\* A transaction that ends badly is a request that failed, its effect had or not.
LEMMA CommitFailsIsStep ==
    ASSUME QueueAssumption, Inv, OpInv, NEW c \in Clients, CommitFails(c)
    PROVE  PromiseStep
<1> DEFINE i  == tx[c].id
           op == tx[c].op
<1>1. /\ ~Idle(c) /\ i \in Ids /\ op \in {"publish", "poll", "ack", "fail"} /\ TypeOK
  BY OpenTx DEF CommitFails, Inv
<1>2. Answers' = [Answers EXCEPT ![c] = IF op = "publish" THEN "ok" ELSE "error"]
  BY <1>1, AnswerTells DEF CommitFails
<1>3. Stages' = Stages \/ rows' = Effect(op, i)
  <2>1. CASE UNCHANGED rows
    BY <2>1, StagesStay DEF Status
  <2> QED
    BY <2>1 DEF CommitFails
<1>4. delivered' = delivered
  BY DEF CommitFails
<1>5. CASE op = "publish"
  <2>1. \/ Stages' = Stages
        \/ Stages[i] = "none" /\ Stages' = [Stages EXCEPT ![i] = "waiting"]
    BY <1>1, <1>3, <1>5, CommitMoves
  <2>2. confirmed' = confirmed \cup {NoId}
    BY <1>5 DEF CommitFails
  <2>3. Answers' = [Answers EXCEPT ![c] = "ok"]
    BY <1>2, <1>5
  <2>4. Promise!AcceptFails(c)
    BY <1>1, <1>4, <2>1, <2>2, <2>3
       DEF Promise!AcceptFails, Promise!Moves, Promise!Tell, Stages, Answers
  <2> QED
    BY <1>5, <2>4 DEF PromiseStep, Promise!Next, OpInv
<1>6. CASE op # "publish"
  <2>1. \/ Stages' = Stages
        \/ Stages[i] = "waiting" /\ Stages' = [Stages EXCEPT ![i] = "taken"]
        \/ Stages[i] # "none"    /\ Stages' = [Stages EXCEPT ![i] = "finished"]
    <3>1. CASE op = "poll"
      BY <1>1, <1>3, <3>1, CommitMoves
    <3>2. CASE op \in {"ack", "fail"}
      BY <1>1, <1>3, <3>2, CommitMoves
    <3> QED
      BY <1>1, <1>6, <3>1, <3>2
  <2>2. confirmed' = confirmed
    BY <1>6 DEF CommitFails
  <2>3. Answers' = [Answers EXCEPT ![c] = "error"]
    BY <1>2, <1>6
  <2>4. Promise!Fail(c)
    BY <1>1, <1>4, <2>1, <2>2, <2>3
       DEF Promise!Fail, Promise!Moves, Promise!Tell, Stages, Answers
  <2> QED
    BY <1>1, <1>6, <2>4 DEF PromiseStep, Promise!Next, OpInv
<1> QED
  BY <1>5, <1>6

LEMMA EveryStepIsPromised ==
    ASSUME QueueAssumption, Inv, OpInv, Next
    PROVE  PromiseStep
<1>1. TypeOK
  BY DEF Inv
<1>2. ASSUME NEW c \in Producers, Publish(c)
      PROVE  PromiseStep
  <2>1. \A j \in Ids : Status(j)' = Status(j)
    <3> DEFINE before == {i \in confirmed \cap Ids : rows[i].topic = rows[lastId + 1].topic}
    <3>1. rows' = [rows EXCEPT ![lastId + 1].prior = before] /\ lastId + 1 \in Ids
      BY <1>1, <1>2 DEF Publish, Ids, QueueAssumption, TypeOK
    <3> HIDE DEF before
    <3> QED
      BY <1>1, <3>1 DEF TypeOK, Row, Status
  <2> QED
    BY <1>1, <1>2, <2>1, AskIsStep DEF Publish, Clients
<1>3. ASSUME NEW c \in Producers, PublishRefused(c)
      PROVE  PromiseStep
  <2>1. Answers' = [Answers EXCEPT ![c] = "ok"]
    BY <1>1, <1>3, AnswerTells DEF PublishRefused, Clients
  <2>2. Stages' = Stages /\ delivered' = delivered /\ confirmed' = confirmed \cup {NoId}
    BY <1>3, StagesStay DEF PublishRefused, Status
  <2>3. Promise!AcceptFails(c)
    BY <2>1, <2>2 DEF Promise!AcceptFails, Promise!Tell, Stages, Answers
  <2> QED
    BY <2>3 DEF PromiseStep, Promise!Next
<1>4. ASSUME NEW c \in Consumers, NEW t \in Topics, Take(c, t)
      PROVE  PromiseStep
  <2>1. PICK i : Open(c, "poll", i)
    BY <1>4 DEF Take
  <2> QED
    BY <1>1, <1>4, <2>1, AskIsStep DEF Take, Clients, Status
<1>5. ASSUME NEW c \in Consumers, NEW op, NEW i \in Ids, Mark(c, op, i)
      PROVE  PromiseStep
  BY <1>1, <1>5, AskIsStep DEF Mark, Clients, Status
<1>6. ASSUME NEW c \in Consumers, \/ \E t \in Topics : TakeNothing(c, t)
                                  \/ \E i \in Ids : MarkNothing(c, i)
      PROVE  PromiseStep
  BY <1>1, <1>6, ErrorIsStep DEF TakeNothing, MarkNothing
<1> QED
  BY <1>2, <1>3, <1>4, <1>5, <1>6, CommitIsStep, CommitFailsIsStep DEF Next

\* QueueKeepsPromise: statements and commits of overlapping transactions, that
\* may end badly, implement requests that take effect at one instant each, for
\* any number of clients, topics and messages.
THEOREM QueueImplementsPromise == Spec => QueueKeepsPromise
<1>1. ASSUME QueueAssumption, Init
      PROVE  Promise!Init
  <2>1. \A i \in Ids : Status(i) = "absent"
    BY <1>1 DEF Init, Status
  <2>2. Stages = [i \in Ids |-> "none"]
    BY <2>1 DEF Stages, StageOf
  <2>3. Answers = [c \in Clients |-> "none"]
    BY <1>1 DEF Init, NoTx, Answers
  <2> QED
    BY <1>1, <2>2, <2>3 DEF Promise!Init, Promise!Clients, Clients, Init, Stages, Answers
<1>2. ASSUME Inv, OpInv, [Next]_vars
      PROVE  Promise!Next \/ UNCHANGED <<[i \in Ids |-> StageOf(Status(i))], confirmed, delivered,
                                         [c \in Clients |-> tx[c].reply]>>
  <2>1. CASE Next
    BY <1>2, <2>1, QueueAssumption, EveryStepIsPromised
       DEF PromiseStep, PromiseVars, Stages, Answers
  <2>2. CASE UNCHANGED vars
    BY <2>2 DEF vars, Status
  <2> QED
    BY <1>2, <2>1, <2>2
<1> QED
  BY <1>1, <1>2, QueueAssumption, Invariance, OpInvariance, PTL
     DEF Spec, QueueKeepsPromise, Promise!Spec
=============================================================================
