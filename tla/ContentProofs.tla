--------------------------- MODULE ContentProofs ---------------------------
(***************************************************************************)
(* Theorems about the todos and about the documents, for any clients, any  *)
(* texts and data, any number of todos and of documents: the types, what   *)
(* the locks and the sequences keep true between two statements, and that  *)
(* either store is a RecordStore.                                          *)
(***************************************************************************)
EXTENDS Todos, Documents, FunctionTheorems, FiniteSetTheorems, SequenceTheorems,
        WellFoundedInduction, TLAPS

-----------------------------------------------------------------------------
(* The inductive invariant of the todos.                                   *)

\* What a transaction that holds the lock of its row knows of it.
TodoTxSound(c) ==
    LET tx == todoTx[c] IN
    tx.op # "none" =>
        /\ backend = "database"
        /\ tx.op = "create" => /\ tx.change \in Todo
                               /\ ValidUpdate(tx.change)
                               /\ tx.key < nextId
                               /\ ~Present(tx.key)
        /\ tx.op = "update" => /\ ValidUpdate(tx.change)
                               /\ Present(tx.key)
                               /\ tx.saw = rows[tx.key]
        /\ tx.op = "delete" => Present(tx.key)

TodoTxInv == \A c \in Clients : TodoTxSound(c)

\* No two transactions are on one row.
TodoLockInv ==
    \A c, d \in Clients :
        (c # d /\ todoTx[c].op # "none" /\ todoTx[d].op # "none")
            => todoTx[c].key # todoTx[d].key

\* The ids that are given out are those below nextId.
IdInv == \A i \in TodoIds : Present(i) => i < nextId

\* The vector in memory holds the ids of the todos there are, by id.
VectorInv ==
    backend = "memory" =>
        /\ \A n \in 1..Len(vector) : Present(vector[n])
        /\ \A i \in TodoIds : Present(i) => \E n \in 1..Len(vector) : vector[n] = i
        /\ \A m, n \in 1..Len(vector) : m < n => vector[m] < vector[n]

TodosInv == TodosTypeOK /\ TodoTxInv /\ TodoLockInv /\ IdInv /\ VectorInv

-----------------------------------------------------------------------------
(* The inductive invariant of the documents.                               *)

DocTxSound(c) ==
    LET tx == docTx[c] IN
    tx.op # "none" =>
        /\ tx.id \in drawn
        /\ tx.was = documents[tx.id]
        /\ tx.op = "create" => /\ tx.was = Absent
                               /\ tx.doc \in Document
                               /\ tx.doc.created <= Cardinality(drawn)
        /\ tx.op = "update" => /\ tx.was \in Document
                               /\ tx.doc \in Document
                               /\ tx.doc.collection = tx.was.collection
                               /\ tx.doc.created = tx.was.created
        /\ tx.op = "delete" => tx.was \in Document /\ tx.doc = Absent

DocTxInv == \A c \in Clients : DocTxSound(c)

DocLockInv ==
    \A c, d \in Clients :
        (c # d /\ docTx[c].op # "none" /\ docTx[d].op # "none") => docTx[c].id # docTx[d].id

\* A document has the uuid and the place in the order that were drawn for it.
DrawnInv ==
    \A u \in Uuids : documents[u] # Absent =>
        u \in drawn /\ documents[u].created <= Cardinality(drawn)

DocumentsInv == DocumentsTypeOK /\ DocTxInv /\ DocLockInv /\ DrawnInv


-----------------------------------------------------------------------------
(* The texts and the changes of a todo.                                    *)

Status == {0, 200, 201, 400, 404}
TodoReplies == [status : Status, body : Todo \cup {Absent}]

\* What is created is a todo, and a change that is valid.
LEMMA NewTodoIsATodo ==
    ASSUME NEW t \in Titles, NEW d \in Descriptions
    PROVE  /\ NewTodo(t, d) \in Todo
           /\ NewTodo(t, d) \in TodoChange
           /\ ValidUpdate(NewTodo(t, d))
<1> DEFINE new == NewTodo(t, d)
<1>1. new.title = t /\ new.description = d
  BY DEF NewTodo
<1>2. t # Keep /\ t # BadText /\ d # BadText
  BY TodosAssumption
<1>3. new # Empty
  BY <1>1, <1>2 DEF Empty
<1>4. new \in Todo /\ new \in TodoChange
  BY DEF NewTodo, Todo, TodoChange
<1> QED
  BY <1>1, <1>2, <1>3, <1>4 DEF ValidUpdate

\* A valid change makes a todo of a todo.
LEMMA MergeIsATodo ==
    ASSUME NEW todo \in Todo, NEW change \in TodoChange, ValidUpdate(change)
    PROVE  Merge(todo, change) \in Todo
<1> DEFINE One(f) == IF change[f] = Keep THEN todo[f] ELSE change[f]
<1>1. Merge(todo, change)
        = [title |-> One("title"), description |-> One("description"),
           completed |-> One("completed")]
  BY DEF Merge, Todo
<1>2. One("title") \in Titles
  BY TodosAssumption DEF ValidUpdate, TodoChange, Todo
<1>3. One("description") \in Descriptions
  BY TodosAssumption DEF ValidUpdate, TodoChange, Todo
<1>4. One("completed") \in BOOLEAN
  BY TodosAssumption DEF TodoChange, Todo
<1> HIDE DEF One
<1> QED
  BY <1>1, <1>2, <1>3, <1>4 DEF Todo

\* A reply is a reply.
LEMMA RepliesTyped ==
    ASSUME NEW status \in Status, NEW body \in Todo \cup {Absent}
    PROVE  Reply(status, body) \in TodoReplies
BY DEF Reply, TodoReplies

\* What a client may hold: nothing, or a transaction with its fields.
LEMMA HeldTx ==
    ASSUME NEW tx \in Tx \cup {NoTx}, tx.op # "none"
    PROVE  /\ tx.op \in {"create", "update", "delete"}
           /\ tx.key \in TodoIds
           /\ tx.op # "delete" => /\ tx.change \in TodoChange
                                  /\ tx = [op |-> tx.op, key |-> tx.key,
                                           change |-> tx.change, saw |-> tx.saw]
           /\ tx.op = "delete" => tx = [op |-> "delete", key |-> tx.key]
BY DEF Tx, NoTx

\* What the transaction of a client makes of its row is a todo or nothing.
LEMMA OutcomeTyped ==
    ASSUME TodosInv, NEW c \in Clients, ~Idle(c)
    PROVE  /\ Outcome(todoTx[c]) \in Todo \cup {Absent}
           /\ todoTx[c].op = "create" => Outcome(todoTx[c]) = todoTx[c].change
           /\ todoTx[c].op = "update"
                => Outcome(todoTx[c]) = Merge(rows[todoTx[c].key], todoTx[c].change)
           /\ todoTx[c].op = "delete" => Outcome(todoTx[c]) = Absent
           /\ todoTx[c].op # "delete" => Outcome(todoTx[c]) # Absent
<1> DEFINE tx == todoTx[c]
<1>1. tx \in Tx \cup {NoTx} /\ tx.op # "none" /\ TodoTxSound(c)
  BY DEF TodosInv, TodosTypeOK, TodoTxInv, Idle
<1>2. tx.op \in {"create", "update", "delete"} /\ tx.key \in TodoIds
  BY <1>1, HeldTx
<1>3. rows[tx.key] \in Todo \cup {Absent}
  BY <1>2 DEF TodosInv, TodosTypeOK
<1>4. Absent \notin Todo
  BY TodosAssumption
<1>5. CASE tx.op = "create"
  BY <1>1, <1>4, <1>5 DEF Outcome, TodoTxSound
<1>6. CASE tx.op = "update"
  <2>1. tx.change \in TodoChange
    BY <1>1, <1>6, HeldTx
  <2>2. ValidUpdate(tx.change) /\ rows[tx.key] \in Todo /\ tx.saw = rows[tx.key]
    BY <1>1, <1>3, <1>6 DEF TodoTxSound, Present
  <2>3. Merge(rows[tx.key], tx.change) \in Todo
    BY <2>1, <2>2, MergeIsATodo
  <2> QED
    BY <1>4, <1>6, <2>2, <2>3 DEF Outcome
<1>7. CASE tx.op = "delete"
  BY <1>7 DEF Outcome
<1> QED
  BY <1>2, <1>5, <1>6, <1>7

-----------------------------------------------------------------------------
(* What a step of the todos does.                                          *)

\* It answers, and that is all.
Answers(c, a) ==
    /\ todoAnswer' = [todoAnswer EXCEPT ![c] = a]
    /\ UNCHANGED <<backend, rows, vector, nextId, todoTx>>

\* It is a first statement: the row is nobody's, and the transaction knows it.
Starts(c, tx) ==
    /\ Idle(c) /\ tx.op # "none" /\ backend = "database"
    /\ ~Locked(tx.key)
    /\ Begin(c, tx)
    /\ rows' = rows /\ nextId' \in nextId..(MaxTodos + 1)
    /\ tx.op = "create" => /\ tx.change \in Todo /\ ValidUpdate(tx.change)
                           /\ tx.key < nextId' /\ ~Present(tx.key)
    /\ tx.op = "update" => /\ ValidUpdate(tx.change)
                           /\ Present(tx.key) /\ tx.saw = rows[tx.key]
    /\ tx.op = "delete" => Present(tx.key)

\* It ends a transaction: its row is r, and it is answered.
Ends(c, r, a) ==
    /\ rows' \in {rows, [rows EXCEPT ![todoTx[c].key] = r]}
    /\ todoTx' = [todoTx EXCEPT ![c] = NoTx]
    /\ todoAnswer' = [todoAnswer EXCEPT ![c] = a]
    /\ UNCHANGED <<backend, vector, nextId>>

LEMMA AnswersKeepsInv ==
    ASSUME TodosInv, NEW c \in Clients, NEW a \in TodoReplies, Answers(c, a)
    PROVE  TodosInv'
<1>1. TodosTypeOK'
  <2>1. todoAnswer' \in [Clients -> TodoReplies]
    BY DEF TodosInv, TodosTypeOK, TodoReplies, Status, Answers
  <2> QED
    BY <2>1 DEF TodosInv, TodosTypeOK, TodoReplies, Status, Answers
<1>2. UNCHANGED <<backend, rows, vector, nextId, todoTx>>
  BY DEF Answers
<1>3. TodoTxInv'
  BY <1>2 DEF TodosInv, TodoTxInv, TodoTxSound, Present
<1>4. TodoLockInv'
  BY <1>2 DEF TodosInv, TodoLockInv
<1>5. IdInv'
  BY <1>2 DEF TodosInv, IdInv, Present
<1>6. VectorInv'
  BY <1>2 DEF TodosInv, VectorInv, Present
<1> QED
  BY <1>1, <1>3, <1>4, <1>5, <1>6 DEF TodosInv

LEMMA StartsKeepsInv ==
    ASSUME TodosInv, NEW c \in Clients, NEW tx \in Tx, Starts(c, tx)
    PROVE  TodosInv'
<1>1. nextId' \in Nat /\ nextId \in Nat /\ nextId <= nextId' /\ nextId' \in 1..(MaxTodos + 1)
  BY TodosAssumption DEF TodosInv, TodosTypeOK, Starts
<1>2. todoTx' = [todoTx EXCEPT ![c] = tx] /\ UNCHANGED <<backend, vector, todoAnswer, rows>>
  BY DEF Starts, Begin
<1>3. DOMAIN todoTx = Clients /\ todoTx'[c] = tx
         /\ \A d \in Clients \ {c} : todoTx'[d] = todoTx[d]
  BY <1>2 DEF TodosInv, TodosTypeOK
<1>4. TodosTypeOK'
  BY <1>1, <1>2 DEF TodosInv, TodosTypeOK
<1>5. TodoTxInv'
  <2>1. ASSUME NEW d \in Clients PROVE TodoTxSound(d)'
    <3>1. CASE d = c
      BY <1>2, <1>3, <3>1 DEF TodoTxSound, Present, Starts
    <3>2. CASE d # c
      <4>1. todoTx'[d] = todoTx[d] /\ TodoTxSound(d)
        BY <1>3, <3>2 DEF TodosInv, TodoTxInv
      <4>2. todoTx[d].op = "create" /\ todoTx[d].op # "none"
              => (todoTx[d].key < nextId => todoTx[d].key < nextId')
        <5>1. todoTx[d].op # "none" => todoTx[d].key \in TodoIds
          BY HeldTx DEF TodosInv, TodosTypeOK
        <5> QED
          BY <1>1, <5>1 DEF TodoIds
      <4> QED
        BY <1>2, <4>1, <4>2 DEF TodoTxSound, Present
    <3> QED
      BY <3>1, <3>2
  <2> QED
    BY <2>1 DEF TodoTxInv
<1>6. TodoLockInv'
  BY <1>3 DEF TodosInv, TodoLockInv, Locked, Starts
<1>7. IdInv'
  BY <1>1, <1>2 DEF TodosInv, IdInv, Present, TodoIds
<1>8. VectorInv'
  BY <1>2 DEF TodosInv, VectorInv, Present
<1> QED
  BY <1>4, <1>5, <1>6, <1>7, <1>8 DEF TodosInv

\* The end of a transaction: nobody else was at its row.
LEMMA EndsKeepsInv ==
    ASSUME TodosInv, NEW c \in Clients, ~Idle(c), NEW a \in TodoReplies,
           Ends(c, Outcome(todoTx[c]), a)
    PROVE  TodosInv'
<1> DEFINE tx == todoTx[c]
           r == Outcome(tx)
<1>1. tx \in Tx \cup {NoTx} /\ tx.op # "none" /\ TodoTxSound(c)
  BY DEF TodosInv, TodosTypeOK, TodoTxInv, Idle
<1>2. tx.key \in TodoIds /\ backend = "database" /\ nextId \in Nat /\ tx.key < nextId
  <2>1. tx.key \in TodoIds /\ tx.op \in {"create", "update", "delete"}
    BY <1>1, HeldTx
  <2>2. backend = "database" /\ nextId \in Nat
    BY <1>1, TodosAssumption DEF TodoTxSound, TodosInv, TodosTypeOK
  <2> QED
    BY <1>1, <2>1, <2>2 DEF TodoTxSound, TodosInv, IdInv
<1>3. r \in Todo \cup {Absent}
  BY OutcomeTyped
<1> HIDE DEF r
<1>4. /\ \A i \in TodoIds \ {tx.key} : rows'[i] = rows[i]
      /\ rows' \in [TodoIds -> Todo \cup {Absent}]
  BY <1>2, <1>3 DEF Ends, TodosInv, TodosTypeOK, r
<1>5. /\ todoTx'[c] = NoTx /\ NoTx.op = "none"
      /\ \A d \in Clients \ {c} : todoTx'[d] = todoTx[d]
      /\ todoTx' \in [Clients -> Tx \cup {NoTx}]
  BY DEF Ends, NoTx, TodosInv, TodosTypeOK
<1>6. UNCHANGED <<backend, vector, nextId>>
  BY DEF Ends
<1>7. TodosTypeOK'
  <2>1. todoAnswer' \in [Clients -> TodoReplies]
    BY DEF TodosInv, TodosTypeOK, TodoReplies, Status, Ends
  <2> QED
    BY <1>4, <1>5, <1>6, <2>1 DEF TodosInv, TodosTypeOK, TodoReplies, Status
<1>8. TodoTxInv'
  <2>1. ASSUME NEW d \in Clients, todoTx'[d].op # "none" PROVE TodoTxSound(d)'
    <3>1. d # c
      BY <1>5, <2>1
    <3>2. todoTx'[d] = todoTx[d] /\ TodoTxSound(d) /\ todoTx[d].op # "none"
      BY <1>5, <2>1, <3>1 DEF TodosInv, TodoTxInv
    <3>3. todoTx[d].key \in TodoIds
      BY <3>2, HeldTx DEF TodosInv, TodosTypeOK
    <3>4. todoTx[d].key # tx.key
      BY <1>1, <3>1, <3>2 DEF TodosInv, TodoLockInv
    <3>5. rows'[todoTx[d].key] = rows[todoTx[d].key]
      BY <1>4, <3>3, <3>4
    <3> QED
      BY <1>6, <3>2, <3>5 DEF TodoTxSound, Present
  <2> QED
    BY <2>1 DEF TodoTxInv, TodoTxSound
<1>9. TodoLockInv'
  BY <1>5 DEF TodosInv, TodoLockInv
<1>10. IdInv'
  BY <1>2, <1>4, <1>6 DEF TodosInv, IdInv, Present
<1>11. VectorInv'
  BY <1>2, <1>6 DEF VectorInv
<1> QED
  BY <1>7, <1>8, <1>9, <1>10, <1>11 DEF TodosInv

-----------------------------------------------------------------------------
(* The todos in memory.                                                    *)

\* In memory nobody is in a transaction.
LEMMA MemoryIsIdle ==
    ASSUME TodosInv, backend = "memory"
    PROVE  \A c \in Clients : todoTx[c].op = "none"
BY DEF TodosInv, TodoTxInv, TodoTxSound

\* A step in memory that leaves the types, the ids and the vector in order.
LEMMA MemoryKeepsInv ==
    ASSUME TodosInv, backend = "memory", UNCHANGED <<backend, todoTx>>,
           TodosTypeOK', IdInv', VectorInv'
    PROVE  TodosInv'
<1>1. \A c \in Clients : todoTx'[c].op = "none"
  BY MemoryIsIdle
<1>2. TodoTxInv' /\ TodoLockInv'
  BY <1>1 DEF TodoTxInv, TodoTxSound, TodoLockInv
<1> QED
  BY <1>2 DEF TodosInv

LEMMA SaveKeepsInv ==
    ASSUME TodosInv, NEW c \in Clients, NEW new \in Todo, Save(c, new)
    PROVE  TodosInv'
<1>1. /\ backend = "memory" /\ UNCHANGED <<backend, todoTx>>
      /\ nextId' = nextId + 1 /\ vector' = Append(vector, nextId)
      /\ rows' = [rows EXCEPT ![nextId] = new]
  BY DEF Save
<1>2. nextId \in TodoIds /\ nextId \in Nat /\ vector \in Seq(TodoIds) /\ Len(vector) \in Nat
  BY TodosAssumption DEF TodosInv, TodosTypeOK, Save, TodoIds
<1>3. /\ vector' \in Seq(TodoIds) /\ Len(vector') = Len(vector) + 1
      /\ \A n \in 1..Len(vector) : vector'[n] = vector[n]
      /\ vector'[Len(vector) + 1] = nextId
  BY <1>1, <1>2, AppendProperties
<1>4. \A n \in 1..Len(vector) : vector[n] \in TodoIds
  BY <1>2, ElementOfSeq
<1>5. /\ \A i \in TodoIds : i # nextId => rows'[i] = rows[i]
      /\ rows'[nextId] = new /\ new # Absent
      /\ rows' \in [TodoIds -> Todo \cup {Absent}]
  BY <1>1, <1>2, TodosAssumption DEF TodosInv, TodosTypeOK
<1>6. TodosTypeOK'
  <2>1. Reply(201, new) \in TodoReplies
    BY RepliesTyped DEF Status
  <2>2. todoAnswer' \in [Clients -> TodoReplies]
    BY <2>1 DEF TodosInv, TodosTypeOK, TodoReplies, Status, Save, Tell
  <2>3. nextId' \in 1..(MaxTodos + 1)
    BY <1>1, <1>2, TodosAssumption DEF TodoIds
  <2> QED
    BY <1>1, <1>3, <1>5, <2>2, <2>3 DEF TodosInv, TodosTypeOK, TodoReplies, Status
<1>7. \A i \in TodoIds : Present(i) => i < nextId
  BY DEF TodosInv, IdInv
<1>8. IdInv'
  BY <1>1, <1>2, <1>5, <1>7 DEF IdInv, Present, TodoIds
<1>9. VectorInv'
  <2>1. /\ \A n \in 1..Len(vector) : Present(vector[n]) /\ vector[n] < nextId
        /\ \A i \in TodoIds : Present(i) => \E n \in 1..Len(vector) : vector[n] = i
        /\ \A m, n \in 1..Len(vector) : m < n => vector[m] < vector[n]
    BY <1>1, <1>4, <1>7 DEF TodosInv, VectorInv
  <2>2. \A n \in 1..Len(vector') : n \in 1..Len(vector) \/ n = Len(vector) + 1
    BY <1>2, <1>3
  <2>3. \A n \in 1..Len(vector') : Present(vector[n])'
    <3>1. ASSUME NEW n \in 1..Len(vector') PROVE rows'[vector'[n]] # Absent
      <4>1. CASE n \in 1..Len(vector)
        <5>1. vector'[n] = vector[n] /\ vector[n] \in TodoIds /\ vector[n] # nextId
                /\ rows[vector[n]] # Absent
          BY <1>2, <1>3, <1>4, <2>1, <4>1 DEF Present, TodoIds
        <5> QED
          BY <1>5, <5>1
      <4>2. CASE n = Len(vector) + 1
        BY <1>3, <1>5, <4>2
      <4> QED
        BY <2>2, <4>1, <4>2
    <3> QED
      BY <3>1 DEF Present
  <2>4. \A i \in TodoIds : Present(i)' => \E n \in 1..Len(vector') : vector'[n] = i
    <3>1. ASSUME NEW i \in TodoIds, rows'[i] # Absent
          PROVE  \E n \in 1..Len(vector') : vector'[n] = i
      <4>1. CASE i = nextId
        <5>1. Len(vector) + 1 \in 1..Len(vector')
          BY <1>2, <1>3
        <5> QED
          BY <1>3, <4>1, <5>1
      <4>2. CASE i # nextId
        <5>1. PICK n \in 1..Len(vector) : vector[n] = i
          BY <1>5, <2>1, <3>1, <4>2 DEF Present
        <5>2. n \in 1..Len(vector')
          BY <1>2, <1>3
        <5> QED
          BY <1>3, <5>1, <5>2
      <4> QED
        BY <4>1, <4>2
    <3> QED
      BY <3>1 DEF Present
  <2>5. ASSUME NEW m \in 1..Len(vector'), NEW n \in 1..Len(vector'), m < n
        PROVE  vector'[m] < vector'[n]
    <3>1. m \in 1..Len(vector) /\ vector'[m] = vector[m]
      BY <1>2, <1>3, <2>5
    <3>2. CASE n \in 1..Len(vector)
      BY <1>3, <2>1, <2>5, <3>1, <3>2
    <3>3. CASE n = Len(vector) + 1
      BY <1>3, <2>1, <3>1, <3>3
    <3> QED
      BY <2>2, <3>2, <3>3
  <2> QED
    BY <2>3, <2>4, <2>5 DEF VectorInv
<1> QED
  BY <1>1, <1>6, <1>8, <1>9, MemoryKeepsInv

LEMMA UpdateKeepsInv ==
    ASSUME TodosInv, NEW c \in Clients, NEW i \in TodoIds, NEW change \in TodoChange,
           ValidUpdate(change), Update(c, i, change)
    PROVE  /\ TodosInv'
           /\ \A j \in TodoIds : Present(j)' <=> Present(j)
<1>1. backend = "memory" /\ UNCHANGED <<backend, vector, nextId, todoTx>>
  BY DEF Update
<1>2. rows \in [TodoIds -> Todo \cup {Absent}] /\ Absent \notin Todo
  BY TodosAssumption DEF TodosInv, TodosTypeOK
<1>3. Present(i) => rows[i] \in Todo /\ Merge(rows[i], change) \in Todo
  BY <1>2, MergeIsATodo DEF Present
<1>4. /\ rows' \in [TodoIds -> Todo \cup {Absent}]
      /\ \A j \in TodoIds : Present(j)' <=> Present(j)
  BY <1>2, <1>3 DEF Update, Present
<1>5. todoAnswer' \in [Clients -> TodoReplies]
  <2>1. Present(i) => Reply(200, Merge(rows[i], change)) \in TodoReplies
    BY <1>3, RepliesTyped DEF Status
  <2>2. Reply(404, Absent) \in TodoReplies
    BY RepliesTyped DEF Status
  <2> QED
    BY <2>1, <2>2 DEF TodosInv, TodosTypeOK, TodoReplies, Status, Update, Tell
<1>6. TodosTypeOK'
  BY <1>1, <1>4, <1>5 DEF TodosInv, TodosTypeOK, TodoReplies, Status
<1>7. IdInv'
  BY <1>1, <1>4 DEF TodosInv, IdInv
<1>8. VectorInv'
  <2>1. \A n \in 1..Len(vector) : vector[n] \in TodoIds
    BY ElementOfSeq DEF TodosInv, TodosTypeOK
  <2>2. \A n \in 1..Len(vector) : rows'[vector[n]] # Absent <=> rows[vector[n]] # Absent
    BY <1>4, <2>1 DEF Present
  <2> QED
    BY <1>1, <1>4, <2>2 DEF TodosInv, VectorInv, Present
<1> QED
  BY <1>1, <1>4, <1>6, <1>7, <1>8, MemoryKeepsInv

\* An element is taken out of a sequence, and those after it move up.
LEMMA RemovedAt ==
    ASSUME NEW S, NEW v \in Seq(S), NEW k \in 1..Len(v)
    PROVE  /\ Ext!RemoveAt(v, k) \in Seq(S)
           /\ Len(Ext!RemoveAt(v, k)) = Len(v) - 1
           /\ \A n \in 1..(Len(v) - 1) :
                 Ext!RemoveAt(v, k)[n] = IF n < k THEN v[n] ELSE v[n + 1]
<1> DEFINE head == SubSeq(v, 1, k - 1)
           tail == SubSeq(v, k + 1, Len(v))
<1>1. Len(v) \in Nat /\ k \in Nat /\ 1 <= k /\ k <= Len(v)
  BY LenProperties
<1>2. \A n \in 1..Len(v) : v[n] \in S
  BY ElementOfSeq
<1>3. \A n \in 1..(k - 1) : v[n] \in S
  BY <1>1, <1>2
<1>4. \A n \in (k + 1)..Len(v) : v[n] \in S
  BY <1>1, <1>2
<1>5. head \in Seq(S) /\ Len(head) = k - 1 /\ \A n \in 1..(k - 1) : head[n] = v[n]
  <2>1. /\ head \in Seq(S)
        /\ Len(head) = IF 1 <= k - 1 THEN (k - 1) - 1 + 1 ELSE 0
        /\ \A n \in 1..((k - 1) - 1 + 1) : head[n] = v[1 + n - 1]
    BY <1>1, <1>3, SubSeqProperties
  <2> HIDE DEF head
  <2> QED
    BY <1>1, <2>1
<1>6. tail \in Seq(S) /\ Len(tail) = Len(v) - k
         /\ \A n \in 1..(Len(v) - k) : tail[n] = v[k + n]
  <2>1. /\ tail \in Seq(S)
        /\ Len(tail) = IF k + 1 <= Len(v) THEN Len(v) - (k + 1) + 1 ELSE 0
        /\ \A n \in 1..(Len(v) - (k + 1) + 1) : tail[n] = v[(k + 1) + n - 1]
    BY <1>1, <1>4, SubSeqProperties
  <2> HIDE DEF tail
  <2> QED
    BY <1>1, <2>1
<1>7. Ext!RemoveAt(v, k) = head \o tail
  BY DEF Ext!RemoveAt
<1> HIDE DEF head, tail
<1>8. /\ head \o tail \in Seq(S)
      /\ Len(head \o tail) = Len(head) + Len(tail)
      /\ \A n \in 1..(Len(head) + Len(tail)) :
            (head \o tail)[n] = IF n <= Len(head) THEN head[n] ELSE tail[n - Len(head)]
  BY <1>5, <1>6, ConcatProperties
<1>9. ASSUME NEW n \in 1..(Len(v) - 1)
      PROVE  (head \o tail)[n] = IF n < k THEN v[n] ELSE v[n + 1]
  <2>1. n \in 1..(Len(head) + Len(tail)) /\ (n <= Len(head) <=> n < k)
    BY <1>1, <1>5, <1>6
  <2>2. CASE n < k
    BY <1>1, <1>5, <1>8, <2>1, <2>2
  <2>3. CASE ~(n < k)
    <3>1. n - (k - 1) \in 1..(Len(v) - k) /\ k + (n - (k - 1)) = n + 1
      BY <1>1, <2>3
    <3>2. (head \o tail)[n] = tail[n - (k - 1)]
      BY <1>5, <1>8, <2>1, <2>3
    <3>3. tail[n - (k - 1)] = v[k + (n - (k - 1))]
      BY <1>6, <3>1
    <3> QED
      BY <2>3, <3>1, <3>2, <3>3
  <2> QED
    BY <2>2, <2>3
<1> QED
  BY <1>1, <1>5, <1>6, <1>7, <1>8, <1>9

LEMMA RemoveKeepsInv ==
    ASSUME TodosInv, NEW c \in Clients, NEW i \in TodoIds, Remove(c, i)
    PROVE  /\ TodosInv'
           /\ \A j \in TodoIds : Present(j)' => Present(j)
<1>1. backend = "memory" /\ UNCHANGED <<backend, nextId, todoTx>>
  BY DEF Remove
<1>2. /\ rows \in [TodoIds -> Todo \cup {Absent}] /\ Absent \notin Todo
      /\ vector \in Seq(TodoIds) /\ Len(vector) \in Nat
      /\ \A n \in 1..Len(vector) : vector[n] \in TodoIds /\ vector[n] \in Nat
  <2>1. \A n \in 1..Len(vector) : vector[n] \in TodoIds
    BY ElementOfSeq DEF TodosInv, TodosTypeOK
  <2>2. TodoIds \subseteq Nat
    BY DEF TodoIds
  <2>3. Len(vector) \in Nat
    BY LenProperties DEF TodosInv, TodosTypeOK
  <2> QED
    BY <2>1, <2>2, <2>3, TodosAssumption DEF TodosInv, TodosTypeOK
<1>3. /\ \A n \in 1..Len(vector) : Present(vector[n])
      /\ \A j \in TodoIds : Present(j) => \E n \in 1..Len(vector) : vector[n] = j
      /\ \A m, n \in 1..Len(vector) : m < n => vector[m] < vector[n]
  BY <1>1 DEF TodosInv, VectorInv
<1>4. CASE ~Present(i)
  <2>1. Answers(c, Reply(404, Absent))
    BY <1>4 DEF Remove, Answers, Tell
  <2>2. Reply(404, Absent) \in TodoReplies
    BY RepliesTyped DEF Status
  <2> QED
    BY <2>1, <2>2, AnswersKeepsInv DEF Answers, Present
<1>5. CASE Present(i)
  <2> DEFINE k == CHOOSE n \in DOMAIN vector : vector[n] = i
             w == Ext!RemoveAt(vector, k)
             Old(n) == IF n < k THEN n ELSE n + 1
  <2>1. DOMAIN vector = 1..Len(vector)
    BY <1>2, LenProperties
  <2>2. k \in 1..Len(vector) /\ vector[k] = i
    BY <1>3, <1>5, <2>1
  <2>3. vector' = w
    BY <1>5 DEF Remove, Erased
  <2> HIDE DEF k
  <2>4. /\ w \in Seq(TodoIds) /\ Len(w) = Len(vector) - 1
        /\ \A n \in 1..(Len(vector) - 1) : w[n] = IF n < k THEN vector[n] ELSE vector[n + 1]
    BY <1>2, <2>2, RemovedAt
  <2> HIDE DEF w
  <2>5. \A n \in 1..Len(w) : /\ Old(n) \in 1..Len(vector) /\ Old(n) # k
                             /\ w[n] = vector[Old(n)]
    BY <1>2, <2>2, <2>4
  <2>6. \A m, n \in 1..Len(w) : m < n => Old(m) < Old(n)
    BY <1>2, <2>2, <2>4
  <2>7. \A o \in 1..Len(vector) : o # k => \E n \in 1..Len(w) : Old(n) = o
    <3>1. ASSUME NEW o \in 1..Len(vector), o # k PROVE \E n \in 1..Len(w) : Old(n) = o
      <4>1. CASE o < k
        BY <1>2, <2>2, <2>4, <4>1
      <4>2. CASE k < o
        <5>1. o - 1 \in 1..Len(w) /\ Old(o - 1) = o
          BY <1>2, <2>2, <2>4, <4>2
        <5> QED
          BY <5>1
      <4> QED
        BY <1>2, <2>2, <3>1, <4>1, <4>2
    <3> QED
      BY <3>1
  <2> HIDE DEF Old
  <2>8. \A n \in 1..Len(vector) : n # k => vector[n] # i
    BY <1>2, <1>3, <2>2
  <2>9. /\ rows' = [rows EXCEPT ![i] = Absent]
        /\ \A j \in TodoIds : Present(j)' <=> (Present(j) /\ j # i)
    BY <1>2, <1>5 DEF Remove, Present
  <2>10. VectorInv'
    <3>1. \A n \in 1..Len(w) : rows'[w[n]] # Absent
      <4>1. \A j \in TodoIds : rows'[j] # Absent <=> (Present(j) /\ j # i)
        BY <2>9 DEF Present
      <4> QED
        BY <1>2, <1>3, <2>5, <2>8, <4>1
    <3>2. \A j \in TodoIds : Present(j)' => \E n \in 1..Len(w) : w[n] = j
      <4>1. ASSUME NEW j \in TodoIds, Present(j), j # i PROVE \E n \in 1..Len(w) : w[n] = j
        <5>1. PICK o \in 1..Len(vector) : vector[o] = j
          BY <1>3, <4>1
        <5>2. PICK n \in 1..Len(w) : Old(n) = o
          BY <2>2, <2>7, <4>1, <5>1
        <5> QED
          BY <2>5, <5>1, <5>2
      <4> QED
        BY <2>9, <4>1
    <3>3. \A m, n \in 1..Len(w) : m < n => w[m] < w[n]
      BY <1>3, <2>5, <2>6
    <3> QED
      BY <2>3, <3>1, <3>2, <3>3 DEF VectorInv, Present
  <2>11. IdInv'
    BY <1>1, <2>9 DEF TodosInv, IdInv
  <2>12. TodosTypeOK'
    <3>1. Reply(200, Absent) \in TodoReplies
      BY RepliesTyped DEF Status
    <3>2. todoAnswer' \in [Clients -> TodoReplies]
      <4>1. todoAnswer' = [todoAnswer EXCEPT ![c] = Reply(200, Absent)]
        BY <1>5 DEF Remove, Tell
      <4>2. todoAnswer \in [Clients -> TodoReplies]
        BY DEF TodosInv, TodosTypeOK, TodoReplies, Status
      <4> QED
        BY <3>1, <4>1, <4>2
    <3>3. rows' \in [TodoIds -> Todo \cup {Absent}]
      BY <1>2, <2>9
    <3> QED
      BY <1>1, <2>3, <2>4, <3>2, <3>3 DEF TodosInv, TodosTypeOK, TodoReplies, Status
  <2> QED
    BY <1>1, <2>9, <2>10, <2>11, <2>12, MemoryKeepsInv
<1> QED
  BY <1>4, <1>5

-----------------------------------------------------------------------------
(* Every step of the todos is one of these.                                *)

\* What can be answered at once, to a request that leaves the todos alone.
PlainAnswer(a) ==
    \/ a \in {Reply(400, Absent), Reply(404, Absent)}
    \/ \E new \in Todo \cap TodoChange : ValidUpdate(new) /\ a = Reply(201, new)
    \/ \E i \in TodoIds : Present(i) /\ a = Reply(200, rows[i])

AnswersPlainly(c) == Idle(c) /\ \E a : PlainAnswer(a) /\ Answers(c, a)

LEMMA PlainAnswerTyped ==
    ASSUME TodosInv, NEW a, PlainAnswer(a)
    PROVE  a \in TodoReplies
<1>1. CASE a \in {Reply(400, Absent), Reply(404, Absent)}
  BY <1>1, RepliesTyped DEF Status
<1>2. CASE \E new \in Todo \cap TodoChange : ValidUpdate(new) /\ a = Reply(201, new)
  BY <1>2, RepliesTyped DEF Status
<1>3. CASE \E i \in TodoIds : Present(i) /\ a = Reply(200, rows[i])
  <2>1. PICK i \in TodoIds : a = Reply(200, rows[i])
    BY <1>3
  <2>2. rows[i] \in Todo \cup {Absent}
    BY DEF TodosInv, TodosTypeOK
  <2> QED
    BY <2>1, <2>2, RepliesTyped DEF Status
<1> QED
  BY <1>1, <1>2, <1>3 DEF PlainAnswer

\* An insertion draws an id that nobody has, and no transaction is at it.
LEMMA InsertStarts ==
    ASSUME TodosInv, NEW c \in Clients, NEW t \in Titles, NEW d \in Descriptions,
           Insert(c, NewTodo(t, d))
    PROVE  \E tx \in Tx : Starts(c, tx)
<1> DEFINE new == NewTodo(t, d)
           tx == [op |-> "create", key |-> nextId, change |-> new, saw |-> Absent]
<1>1. new \in Todo /\ new \in TodoChange /\ ValidUpdate(new)
  BY NewTodoIsATodo
<1> HIDE DEF new
<1>2. nextId \in Nat /\ MaxTodos \in Nat /\ nextId \in TodoIds /\ nextId' = nextId + 1
  BY TodosAssumption DEF TodosInv, TodosTypeOK, Insert, TodoIds
<1>3. tx \in Tx
  BY <1>1, <1>2 DEF Tx
<1>4. ~Present(nextId)
  BY <1>2 DEF TodosInv, IdInv
<1>5. ~Locked(nextId)
  <2>1. ASSUME NEW e \in Clients, todoTx[e].op # "none" PROVE todoTx[e].key # nextId
    <3>1. todoTx[e] \in Tx \cup {NoTx} /\ TodoTxSound(e)
      BY DEF TodosInv, TodosTypeOK, TodoTxInv
    <3>2. todoTx[e].op \in {"create", "update", "delete"} /\ todoTx[e].key \in TodoIds
      BY <2>1, <3>1, HeldTx
    <3>3. todoTx[e].op = "create" => todoTx[e].key < nextId
      BY <2>1, <3>1 DEF TodoTxSound
    <3>4. todoTx[e].op # "create" => Present(todoTx[e].key)
      BY <2>1, <3>1, <3>2 DEF TodoTxSound
    <3>5. todoTx[e].key < nextId
      BY <3>2, <3>3, <3>4 DEF TodosInv, IdInv
    <3> QED
      BY <1>2, <3>5
  <2> QED
    BY <2>1 DEF Locked
<1>6. /\ tx.op = "create" /\ tx.key = nextId /\ tx.change = new
      /\ Begin(c, tx) /\ rows' = rows /\ Idle(c) /\ backend = "database"
  BY DEF Insert, new
<1>7. nextId' \in nextId..(MaxTodos + 1) /\ nextId < nextId'
  BY <1>2 DEF TodoIds
<1> HIDE DEF tx
<1>8. Starts(c, tx)
  BY <1>1, <1>4, <1>5, <1>6, <1>7 DEF Starts
<1> QED
  BY <1>3, <1>8

\* An update takes the lock of its row and reads it, a deletion takes it.
LEMMA RowStarts ==
    ASSUME TodosInv, NEW c \in Clients, NEW i \in TodoIds, NEW change \in TodoChange,
           \/ ValidUpdate(change) /\ SelectForUpdate(c, i, change)
           \/ DeleteRow(c, i)
    PROVE  \E tx \in Tx : Starts(c, tx)
<1>1. nextId \in nextId..(MaxTodos + 1)
  BY TodosAssumption DEF TodosInv, TodosTypeOK
<1>2. CASE ValidUpdate(change) /\ SelectForUpdate(c, i, change)
  <2> DEFINE tx == [op |-> "update", key |-> i, change |-> change, saw |-> rows[i]]
  <2>1. rows[i] \in Todo \cup {Absent}
    BY DEF TodosInv, TodosTypeOK
  <2>2. tx \in Tx
    BY <2>1 DEF Tx
  <2>3. Starts(c, tx)
    BY <1>1, <1>2 DEF Starts, SelectForUpdate
  <2> QED
    BY <2>2, <2>3
<1>3. CASE DeleteRow(c, i)
  <2> DEFINE tx == [op |-> "delete", key |-> i]
  <2>1. tx \in Tx
    BY DEF Tx
  <2>2. Starts(c, tx)
    BY <1>1, <1>3 DEF Starts, DeleteRow
  <2> QED
    BY <2>1, <2>2
<1> QED
  BY <1>2, <1>3

LEMMA TodosSteps ==
    ASSUME TodosInv, TodosNext
    PROVE  \E c \in Clients :
              \/ AnswersPlainly(c)
              \/ \E tx \in Tx : Starts(c, tx)
              \/ Commit(c) \/ CommitFails(c)
              \/ \E new \in Todo \cap TodoChange : ValidUpdate(new) /\ Save(c, new)
              \/ \E i \in TodoIds, change \in TodoChange :
                    ValidUpdate(change) /\ Update(c, i, change)
              \/ \E i \in TodoIds : Remove(c, i)
<1>1. CASE \E c \in Clients : Commit(c) \/ CommitFails(c) \/ BadId(c)
  <2>1. \A c \in Clients : BadId(c) => Idle(c) /\ Answers(c, Reply(400, Absent))
    BY DEF BadId, Answers, Tell
  <2>2. PlainAnswer(Reply(400, Absent))
    BY DEF PlainAnswer
  <2> QED
    BY <1>1, <2>1, <2>2 DEF AnswersPlainly
<1>2. CASE \E c \in Clients, t \in Titles, d \in Descriptions :
              Insert(c, NewTodo(t, d)) \/ Save(c, NewTodo(t, d)) \/ NoDatabase(c, NewTodo(t, d))
  <2>1. PICK c \in Clients, t \in Titles, d \in Descriptions :
              Insert(c, NewTodo(t, d)) \/ Save(c, NewTodo(t, d)) \/ NoDatabase(c, NewTodo(t, d))
    BY <1>2
  <2> DEFINE new == NewTodo(t, d)
  <2>2. new \in Todo \cap TodoChange /\ ValidUpdate(new)
    BY NewTodoIsATodo
  <2>3. Insert(c, new) => \E tx \in Tx : Starts(c, tx)
    BY InsertStarts
  <2> HIDE DEF new
  <2>4. ASSUME NoDatabase(c, new) PROVE AnswersPlainly(c)
    <3>1. Idle(c) /\ (Answers(c, Reply(404, Absent)) \/ Answers(c, Reply(201, new)))
      BY <2>4 DEF NoDatabase, Answers, Tell
    <3>2. PlainAnswer(Reply(404, Absent)) /\ PlainAnswer(Reply(201, new))
      BY <2>2 DEF PlainAnswer
    <3> QED
      BY <3>1, <3>2 DEF AnswersPlainly
  <2>5. Insert(c, new) \/ Save(c, new) \/ NoDatabase(c, new)
    BY <2>1 DEF new
  <2> QED
    BY <2>2, <2>3, <2>4, <2>5
<1>3. CASE \E c \in Clients, change \in TodoChange : Refused(c, change)
  <2>1. \A c \in Clients, change \in TodoChange :
           Refused(c, change) => Idle(c) /\ Answers(c, Reply(400, Absent))
    BY DEF Refused, Answers, Tell
  <2>2. PlainAnswer(Reply(400, Absent))
    BY DEF PlainAnswer
  <2> QED
    BY <1>3, <2>1, <2>2 DEF AnswersPlainly
<1>4. CASE \E c \in Clients, i \in TodoIds, change \in {ch \in TodoChange : ValidUpdate(ch)} :
              SelectForUpdate(c, i, change) \/ Update(c, i, change)
  <2>1. PICK c \in Clients, i \in TodoIds, change \in TodoChange :
           ValidUpdate(change) /\ (SelectForUpdate(c, i, change) \/ Update(c, i, change))
    BY <1>4
  <2>2. SelectForUpdate(c, i, change) => \E tx \in Tx : Starts(c, tx)
    BY <2>1, RowStarts
  <2> QED
    BY <2>1, <2>2
<1>5. CASE \E c \in Clients, i \in TodoIds :
              DeleteRow(c, i) \/ NoSuchRow(c, i) \/ Remove(c, i) \/ Read(c, i)
  <2>1. PICK c \in Clients, i \in TodoIds :
           DeleteRow(c, i) \/ NoSuchRow(c, i) \/ Remove(c, i) \/ Read(c, i)
    BY <1>5
  <2>2. DeleteRow(c, i) => \E tx \in Tx : Starts(c, tx)
    <3>1. Empty \in TodoChange
      BY DEF Empty, TodoChange
    <3> QED
      BY <3>1, RowStarts
  <2>3. ASSUME NoSuchRow(c, i) \/ Read(c, i) PROVE AnswersPlainly(c)
    <3>1. CASE NoSuchRow(c, i) \/ ~Present(i)
      <4>1. Idle(c) /\ Answers(c, Reply(404, Absent))
        BY <2>3, <3>1 DEF NoSuchRow, Read, Present, Answers, Tell
      <4> QED
        BY <4>1 DEF PlainAnswer, AnswersPlainly
    <3>2. CASE Read(c, i) /\ Present(i)
      <4>1. Idle(c) /\ Answers(c, Reply(200, rows[i]))
        BY <3>2 DEF Read, Answers, Tell
      <4> QED
        BY <3>2, <4>1 DEF PlainAnswer, AnswersPlainly
    <3> QED
      BY <2>3, <3>1, <3>2
  <2> QED
    BY <2>1, <2>2, <2>3
<1> QED
  BY <1>1, <1>2, <1>3, <1>4, <1>5 DEF TodosNext

\* Either end of a transaction is an end, with a reply.
LEMMA CommitEnds ==
    ASSUME TodosInv, NEW c \in Clients, Commit(c) \/ CommitFails(c)
    PROVE  /\ ~Idle(c)
           /\ \E a \in TodoReplies : Ends(c, Outcome(todoTx[c]), a)
<1> DEFINE tx == todoTx[c]
           r == Outcome(tx)
<1>1. ~Idle(c)
  BY DEF Commit, CommitFails
<1>2. r \in Todo \cup {Absent} /\ (tx.op = "create" => r = tx.change)
  BY <1>1, OutcomeTyped
<1>3. tx.op = "create" => tx.change \in Todo
  BY <1>1 DEF TodosInv, TodoTxInv, TodoTxSound, Idle
<1> HIDE DEF r
<1>4. CASE Commit(c)
  <2>1. Reply(Success(tx.op), r) \in TodoReplies
    BY <1>2, RepliesTyped DEF Success, Status
  <2>2. Ends(c, r, Reply(Success(tx.op), r))
    BY <1>4 DEF Commit, Ends, Tell, r
  <2> QED
    BY <1>1, <2>1, <2>2 DEF r
<1>5. CASE CommitFails(c) /\ tx.op = "create"
  <2>1. Reply(201, tx.change) \in TodoReplies
    BY <1>3, <1>5, RepliesTyped DEF Status
  <2>2. Ends(c, r, Reply(201, tx.change))
    BY <1>5 DEF CommitFails, Ends, Tell, r
  <2> QED
    BY <1>1, <2>1, <2>2 DEF r
<1>6. CASE CommitFails(c) /\ tx.op # "create"
  <2>1. Reply(404, Absent) \in TodoReplies
    BY RepliesTyped DEF Status
  <2>2. Ends(c, r, Reply(404, Absent))
    BY <1>6 DEF CommitFails, Ends, Tell, r
  <2> QED
    BY <1>1, <2>1, <2>2 DEF r
<1> QED
  BY <1>4, <1>5, <1>6

LEMMA TodosInvInit ==
    ASSUME TodosInit
    PROVE  TodosInv
<1>1. PICK t \in Todo : rows = [i \in TodoIds |-> IF i <= Seeds THEN t ELSE Absent]
  BY DEF TodosInit
<1>2. /\ \A c \in Clients : todoTx[c].op = "none"
      /\ todoTx \in [Clients -> Tx \cup {NoTx}]
  BY DEF TodosInit, NoTx
<1>3. Seeds \in Nat /\ MaxTodos \in Nat /\ Seeds <= MaxTodos /\ Absent \notin Todo
  BY TodosAssumption
<1>4. \A i \in TodoIds : Present(i) <=> i <= Seeds
  BY <1>1, <1>3 DEF Present
<1>5. nextId = Seeds + 1
  BY DEF TodosInit
<1>6. vector \in Seq(TodoIds)
  <2>1. CASE backend = "memory"
    <3>1. vector = [i \in 1..Seeds |-> i]
      BY <2>1 DEF TodosInit
    <3>2. \A i \in 1..Seeds : i \in TodoIds
      BY <1>3 DEF TodoIds
    <3> QED
      BY <1>3, <3>1, <3>2
  <2>2. CASE backend # "memory"
    BY <2>2, EmptySeq DEF TodosInit
  <2> QED
    BY <2>1, <2>2
<1>7. TodosTypeOK
  <2>1. todoAnswer \in [Clients -> TodoReplies]
    <3>1. Reply(0, Absent) \in TodoReplies
      BY RepliesTyped DEF Status
    <3> QED
      BY <3>1 DEF TodosInit
  <2>2. rows \in [TodoIds -> Todo \cup {Absent}]
    BY <1>1
  <2>3. nextId \in 1..(MaxTodos + 1)
    BY <1>3, <1>5
  <2>4. backend \in {"database", "memory"}
    BY DEF TodosInit
  <2> QED
    BY <1>2, <1>6, <2>1, <2>2, <2>3, <2>4 DEF TodosTypeOK, TodoReplies, Status
<1>8. TodoTxInv /\ TodoLockInv
  BY <1>2 DEF TodoTxInv, TodoTxSound, TodoLockInv
<1>9. IdInv
  BY <1>3, <1>4, <1>5 DEF IdInv, TodoIds
<1>10. ASSUME backend = "memory"
       PROVE  /\ \A n \in 1..Len(vector) : Present(vector[n])
              /\ \A i \in TodoIds : Present(i) => \E n \in 1..Len(vector) : vector[n] = i
              /\ \A m, n \in 1..Len(vector) : m < n => vector[m] < vector[n]
  <2>1. vector = [i \in 1..Seeds |-> i]
    BY <1>10 DEF TodosInit
  <2>2. Len(vector) = Seeds
    BY <1>3, <2>1
  <2>3. \A n \in 1..Seeds : vector[n] = n /\ n \in TodoIds
    BY <1>3, <2>1 DEF TodoIds
  <2>4. \A i \in TodoIds : i <= Seeds => i \in 1..Seeds
    BY <1>3 DEF TodoIds
  <2> QED
    BY <1>3, <1>4, <2>2, <2>3, <2>4
<1> QED
  BY <1>7, <1>8, <1>9, <1>10 DEF TodosInv, VectorInv

\* Every step keeps the invariant, and only the end of a creation or a save
\* makes a todo of an id that has none.
LEMMA TodosNextKeepsInv ==
    ASSUME TodosInv, TodosNext
    PROVE  /\ TodosInv'
           /\ \A i \in TodoIds :
                 (i < nextId /\ ~Present(i) /\ Present(i)')
                    => \E c \in Clients : todoTx[c].op = "create" /\ todoTx[c].key = i
<1>1. PICK c \in Clients :
        \/ AnswersPlainly(c)
        \/ \E tx \in Tx : Starts(c, tx)
        \/ Commit(c) \/ CommitFails(c)
        \/ \E new \in Todo \cap TodoChange : ValidUpdate(new) /\ Save(c, new)
        \/ \E i \in TodoIds, change \in TodoChange : ValidUpdate(change) /\ Update(c, i, change)
        \/ \E i \in TodoIds : Remove(c, i)
  BY TodosSteps
<1>2. CASE AnswersPlainly(c)
  <2>1. PICK a : PlainAnswer(a) /\ Answers(c, a)
    BY <1>2 DEF AnswersPlainly
  <2>2. a \in TodoReplies
    BY <2>1, PlainAnswerTyped
  <2> QED
    BY <2>1, <2>2, AnswersKeepsInv DEF Answers, Present
<1>3. CASE \E tx \in Tx : Starts(c, tx)
  <2>1. PICK tx \in Tx : Starts(c, tx)
    BY <1>3
  <2> QED
    BY <2>1, StartsKeepsInv DEF Starts, Present
<1>4. CASE Commit(c) \/ CommitFails(c)
  <2> DEFINE tx == todoTx[c]
  <2>1. PICK a \in TodoReplies : ~Idle(c) /\ Ends(c, Outcome(tx), a)
    BY <1>4, CommitEnds
  <2>2. TodosInv'
    BY <2>1, EndsKeepsInv
  <2>3. tx \in Tx \cup {NoTx} /\ tx.op # "none" /\ TodoTxSound(c)
    BY <2>1 DEF TodosInv, TodosTypeOK, TodoTxInv, Idle
  <2>4. tx.op \in {"create", "update", "delete"} /\ tx.key \in TodoIds
    BY <2>3, HeldTx
  <2>5. tx.op # "create" => Present(tx.key)
    BY <2>3, <2>4 DEF TodoTxSound
  <2>6. \A i \in TodoIds : i # tx.key => rows'[i] = rows[i]
    BY <2>1, <2>4 DEF Ends, TodosInv, TodosTypeOK
  <2> QED
    BY <2>2, <2>5, <2>6 DEF Present
<1>5. CASE \E new \in Todo \cap TodoChange : ValidUpdate(new) /\ Save(c, new)
  <2>1. PICK new \in Todo : Save(c, new)
    BY <1>5
  <2>2. TodosInv'
    BY <2>1, SaveKeepsInv
  <2>3. \A i \in TodoIds : i < nextId => rows'[i] = rows[i]
    BY <2>1, TodosAssumption DEF Save, TodosInv, TodosTypeOK, TodoIds
  <2> QED
    BY <2>2, <2>3 DEF Present
<1>6. CASE \E i \in TodoIds, change \in TodoChange : ValidUpdate(change) /\ Update(c, i, change)
  BY <1>6, UpdateKeepsInv
<1>7. CASE \E i \in TodoIds : Remove(c, i)
  BY <1>7, RemoveKeepsInv
<1> QED
  BY <1>1, <1>2, <1>3, <1>4, <1>5, <1>6, <1>7

LEMMA TodosInvariant == TodosSpec => []TodosInv
<1>1. TodosInit => TodosInv
  BY TodosInvInit
<1>2. TodosInv /\ [TodosNext]_todoVars => TodosInv'
  <2>1. ASSUME TodosInv, UNCHANGED todoVars PROVE TodosInv'
    BY <2>1 DEF todoVars, TodosInv, TodosTypeOK, TodoTxInv, TodoTxSound, TodoLockInv, IdInv,
                VectorInv, Present
  <2> QED
    BY <2>1, TodosNextKeepsInv
<1> QED
  BY <1>1, <1>2, PTL DEF TodosSpec

\* The variables of the todos have their types, whatever the requests do to
\* each other: in particular what a transaction commits is a todo.
THEOREM TodosTyped == TodosSpec => []TodosTypeOK
<1>1. TodosInv => TodosTypeOK
  BY DEF TodosInv
<1> QED
  BY <1>1, TodosInvariant, PTL

\* A todo that is gone comes back only when its own creation is committed: no
\* update that waited restores it, and no later todo gets its id, in the table
\* and in memory.
THEOREM GoneTodosStayGone == TodosSpec => GoneStaysGone
<1> DEFINE Gone ==
      \A i \in TodoIds :
         (i < nextId /\ ~Present(i) /\ Present(i)')
            => \E c \in Clients : todoTx[c].op = "create" /\ todoTx[c].key = i
<1>1. TodosInv /\ [TodosNext]_todoVars => [Gone]_todoVars
  BY TodosNextKeepsInv
<1>2. GoneStaysGone <=> [][Gone]_todoVars
  BY DEF GoneStaysGone
<1> HIDE DEF Gone
<1> QED
  BY <1>1, <1>2, TodosInvariant, PTL DEF TodosSpec

\* The vector in memory is in the order in which the table is read: the ids of
\* the todos there are, each once, by id.
THEOREM VectorIsSorted == TodosSpec => []VectorInv
<1>1. TodosInv => VectorInv
  BY DEF TodosInv
<1> QED
  BY <1>1, TodosInvariant, PTL

-----------------------------------------------------------------------------
(* The todos are a RecordStore.                                            *)

ValidChanges == {ch \in TodoChange : ValidUpdate(ch)}

\* A step of the store on the todos, or none.
TodoStep == TodoStore!Next \/ UNCHANGED <<rows, AskedTodos, todoAnswer>>

\* A request is answered: with its effect, or with a failure.
LEMMA AnswerIsTodoStep ==
    ASSUME TodosInv, NEW c \in Clients, NEW r \in TodoStore!Request,
           AskedTodos[c] \in {NoTx, r},
           AskedTodos' = [AskedTodos EXCEPT ![c] = NoTx],
           \/ /\ todoAnswer' = [todoAnswer EXCEPT ![c] = TodoStore!Answer(r)]
              /\ rows' = [rows EXCEPT ![r.key] = TodoStore!After(r)]
           \/ /\ todoAnswer' = [todoAnswer EXCEPT ![c] = IF r.op = "create" THEN TodoStore!Answer(r)
                                                         ELSE Reply(404, Absent)]
              /\ rows' \in {rows, [rows EXCEPT ![r.key] = TodoStore!After(r)]}
    PROVE  TodoStep
<1>1. TodoStore!Reply(404, Absent) = Reply(404, Absent) /\ TodoStore!NoTx = NoTx
  BY DEF TodoStore!Reply, Reply, TodoStore!NoTx, NoTx
<1>2. TodoStore!Do(c, r) \/ TodoStore!Fail(c, r)
  BY <1>1 DEF TodoStore!Do, TodoStore!Fail
<1>3. r \in IF AskedTodos[c] = NoTx THEN TodoStore!Request ELSE {AskedTodos[c]}
  OBVIOUS
<1>4. CASE rows' # rows \/ AskedTodos'[c] # AskedTodos[c] \/ todoAnswer'[c] # todoAnswer[c]
  BY <1>1, <1>2, <1>3, <1>4 DEF TodoStep, TodoStore!Next
<1>5. CASE ~(rows' # rows \/ AskedTodos'[c] # AskedTodos[c] \/ todoAnswer'[c] # todoAnswer[c])
  <2>1. DOMAIN AskedTodos = Clients
    BY DEF AskedTodos
  <2>2. DOMAIN todoAnswer = Clients
    BY DEF TodosInv, TodosTypeOK
  <2>3. AskedTodos = [e \in Clients |-> AskedTodos[e]] /\ todoAnswer = [e \in Clients |-> todoAnswer[e]]
    BY <2>1, <2>2 DEF AskedTodos, TodosInv, TodosTypeOK
  <2>4. AskedTodos' = AskedTodos
    BY <1>5, <2>1, <2>3
  <2>5. todoAnswer' = todoAnswer
    BY <1>5, <2>2, <2>3
  <2> QED
    BY <1>5, <2>4, <2>5 DEF TodoStep
<1> QED
  BY <1>4, <1>5

\* A request that waits begins to: its client waited for nothing.
LEMMA AskIsTodoStep ==
    ASSUME NEW c \in Clients, NEW r \in TodoStore!Request, AskedTodos[c] = NoTx,
           AskedTodos' = [AskedTodos EXCEPT ![c] = r],
           UNCHANGED <<rows, todoAnswer>>
    PROVE  TodoStep
<1>1. TodoStore!NoTx = NoTx
  BY DEF TodoStore!NoTx, NoTx
<1>2. AskedTodos'[c] = r
  BY DEF AskedTodos
<1>3. r.op # "none" /\ NoTx.op = "none"
  BY DEF TodoStore!Request, NoTx
<1>4. AskedTodos'[c] # AskedTodos[c]
  BY <1>2, <1>3
<1>5. TodoStore!Ask(c)
  BY <1>1, <1>2 DEF TodoStore!Ask
<1> QED
  BY <1>4, <1>5 DEF TodoStep, TodoStore!Next

\* What the store sees of a transaction.
LEMMA RequestOfTx ==
    ASSUME NEW tx \in Tx, tx.op # "delete" => ValidUpdate(tx.change)
    PROVE  /\ tx.op # "delete"
                => RequestOf(tx) = [op |-> tx.op, key |-> tx.key, change |-> tx.change]
           /\ tx.op = "delete" => RequestOf(tx) = [op |-> "delete", key |-> tx.key]
           /\ RequestOf(tx) \in TodoStore!Request
           /\ RequestOf(tx).op = tx.op /\ RequestOf(tx).key = tx.key
           /\ tx.op # "none"
<1>1. /\ tx.op \in {"create", "update", "delete"} /\ tx.key \in TodoIds /\ tx.op # "none"
      /\ tx.op # "delete" => /\ tx.change \in TodoChange
                             /\ tx = [op |-> tx.op, key |-> tx.key,
                                      change |-> tx.change, saw |-> tx.saw]
      /\ tx.op = "delete" => tx = [op |-> "delete", key |-> tx.key]
  <2>1. tx \in Tx \cup {NoTx} /\ tx.op # "none"
    BY DEF Tx
  <2> QED
    BY <2>1, HeldTx
<1>2. CASE tx.op # "delete"
  <2>1. DOMAIN tx \ {"saw"} = {"op", "key", "change"}
    <3>1. DOMAIN tx = {"op", "key", "change", "saw"}
      BY <1>1, <1>2
    <3> QED
      BY <3>1
  <2>2. RequestOf(tx) = [f \in {"op", "key", "change"} |-> tx[f]]
    BY <1>1, <2>1 DEF RequestOf
  <2>3. RequestOf(tx) = [op |-> tx.op, key |-> tx.key, change |-> tx.change]
    BY <2>2
  <2>4. tx.change \in ValidChanges
    BY <1>1, <1>2 DEF ValidChanges
  <2> QED
    BY <1>1, <1>2, <2>3, <2>4 DEF TodoStore!Request, ValidChanges
<1>3. CASE tx.op = "delete"
  <2>1. DOMAIN tx \ {"saw"} = {"op", "key"}
    <3>1. DOMAIN tx = {"op", "key"}
      BY <1>1, <1>3
    <3> QED
      BY <3>1
  <2>2. RequestOf(tx) = [f \in {"op", "key"} |-> tx[f]]
    BY <1>1, <2>1 DEF RequestOf
  <2>3. RequestOf(tx) = [op |-> "delete", key |-> tx.key]
    BY <1>3, <2>2
  <2> QED
    BY <1>1, <1>3, <2>3 DEF TodoStore!Request
<1> QED
  BY <1>2, <1>3

LEMMA IdleAsksNothing ==
    ASSUME NEW c \in Clients, Idle(c)
    PROVE  AskedTodos[c] = NoTx
BY DEF AskedTodos, RequestOf, Idle

LEMMA AskedIsUnchanged ==
    ASSUME UNCHANGED todoTx
    PROVE  UNCHANGED AskedTodos
BY DEF AskedTodos

LEMMA PlainIsTodoStep ==
    ASSUME TodosInv, NEW c \in Clients, AnswersPlainly(c)
    PROVE  TodoStep
<1>1. PICK a : PlainAnswer(a) /\ Answers(c, a)
  BY DEF AnswersPlainly
<1>2. AskedTodos[c] = NoTx
  BY IdleAsksNothing DEF AnswersPlainly
<1>3. AskedTodos' = [AskedTodos EXCEPT ![c] = NoTx] /\ UNCHANGED AskedTodos
  <2>1. UNCHANGED AskedTodos
    BY <1>1, AskedIsUnchanged DEF Answers
  <2>2. AskedTodos = [AskedTodos EXCEPT ![c] = NoTx]
    BY <1>2 DEF AskedTodos
  <2> QED
    BY <2>1, <2>2
<1>4. todoAnswer' = [todoAnswer EXCEPT ![c] = a] /\ UNCHANGED rows
  BY <1>1 DEF Answers
<1>5. 1 \in TodoIds
  BY TodosAssumption DEF TodoIds
<1>6. CASE a = Reply(400, Absent)
  <2>1. TodoStore!Reply(400, Absent) = Reply(400, Absent) /\ TodoStore!NoTx = NoTx
    BY DEF TodoStore!Reply, Reply, TodoStore!NoTx, NoTx
  <2>2. TodoStore!Refuse(c)
    BY <1>2, <1>3, <1>4, <1>6, <2>1 DEF TodoStore!Refuse
  <2>3. CASE todoAnswer'[c] # todoAnswer[c]
    BY <2>2, <2>3 DEF TodoStep, TodoStore!Next
  <2>4. CASE todoAnswer'[c] = todoAnswer[c]
    <3>1. todoAnswer' = todoAnswer
      BY <1>4, <2>4 DEF TodosInv, TodosTypeOK
    <3> QED
      BY <1>3, <1>4, <3>1 DEF TodoStep
  <2> QED
    BY <2>3, <2>4
<1>7. CASE a = Reply(404, Absent)
  <2> DEFINE r == [op |-> "read", key |-> 1]
  <2>1. r \in TodoStore!Request /\ r.op # "create"
    BY <1>5 DEF TodoStore!Request
  <2> HIDE DEF r
  <2> QED
    BY <1>2, <1>3, <1>4, <1>7, <2>1, AnswerIsTodoStep
<1>8. CASE \E new \in Todo \cap TodoChange : ValidUpdate(new) /\ a = Reply(201, new)
  <2>1. PICK new \in TodoChange : ValidUpdate(new) /\ a = Reply(201, new)
    BY <1>8
  <2> DEFINE r == [op |-> "create", key |-> 1, change |-> new]
  <2>2. r \in TodoStore!Request /\ r.op = "create" /\ r.change = new
    BY <1>5, <2>1 DEF TodoStore!Request
  <2> HIDE DEF r
  <2>3. TodoStore!Answer(r) = a
    BY <2>1, <2>2 DEF TodoStore!Answer, TodoStore!Reply, Reply
  <2> QED
    BY <1>2, <1>3, <1>4, <2>2, <2>3, AnswerIsTodoStep
<1>9. CASE \E i \in TodoIds : Present(i) /\ a = Reply(200, rows[i])
  <2>1. PICK i \in TodoIds : Present(i) /\ a = Reply(200, rows[i])
    BY <1>9
  <2> DEFINE r == [op |-> "read", key |-> i]
  <2>2. r \in TodoStore!Request /\ r.op = "read" /\ r.key = i
    BY DEF TodoStore!Request
  <2> HIDE DEF r
  <2>3. TodoStore!Found(r)
    BY <2>1, <2>2 DEF TodoStore!Found, Present
  <2>4. TodoStore!After(r) = rows[i]
    BY <2>2 DEF TodoStore!After
  <2>5. TodoStore!Answer(r) = a
    BY <2>1, <2>2, <2>3, <2>4 DEF TodoStore!Answer, TodoStore!Reply, Reply
  <2>6. rows' = [rows EXCEPT ![r.key] = TodoStore!After(r)]
    BY <1>4, <2>2, <2>4 DEF TodosInv, TodosTypeOK
  <2> QED
    BY <1>2, <1>3, <1>4, <2>2, <2>5, <2>6, AnswerIsTodoStep
<1> QED
  BY <1>1, <1>6, <1>7, <1>8, <1>9 DEF PlainAnswer

LEMMA StartsIsTodoStep ==
    ASSUME TodosInv, NEW c \in Clients, NEW tx \in Tx, Starts(c, tx)
    PROVE  TodoStep
<1>1. tx.op # "delete" => ValidUpdate(tx.change)
  BY DEF Starts, Tx
<1>2. RequestOf(tx) \in TodoStore!Request
  BY <1>1, RequestOfTx
<1>3. AskedTodos[c] = NoTx
  BY IdleAsksNothing DEF Starts
<1>4. AskedTodos' = [AskedTodos EXCEPT ![c] = RequestOf(tx)]
  <2>1. todoTx' = [todoTx EXCEPT ![c] = tx]
    BY DEF Starts, Begin
  <2>2. \A d \in Clients : todoTx'[d] = IF d = c THEN tx ELSE todoTx[d]
    BY <2>1 DEF TodosInv, TodosTypeOK
  <2> QED
    BY <2>2 DEF AskedTodos
<1>5. UNCHANGED <<rows, todoAnswer>>
  BY DEF Starts, Begin
<1> QED
  BY <1>2, <1>3, <1>4, <1>5, AskIsTodoStep

LEMMA CommitIsTodoStep ==
    ASSUME TodosInv, NEW c \in Clients, Commit(c) \/ CommitFails(c)
    PROVE  TodoStep
<1> DEFINE tx == todoTx[c]
           r == RequestOf(tx)
<1>1. ~Idle(c) /\ tx.op # "none" /\ tx \in Tx
  BY DEF Commit, CommitFails, Idle, TodosInv, TodosTypeOK, NoTx
<1>2. TodoTxSound(c) /\ tx.op \in {"create", "update", "delete"} /\ tx.key \in TodoIds
  BY <1>1, HeldTx DEF TodosInv, TodoTxInv
<1>3. tx.op # "delete" => ValidUpdate(tx.change)
  BY <1>1, <1>2 DEF TodoTxSound
<1>4. /\ r \in TodoStore!Request /\ r.op = tx.op /\ r.key = tx.key
      /\ tx.op # "delete" => r.change = tx.change
  BY <1>1, <1>3, RequestOfTx
<1>5. AskedTodos[c] = r
  BY DEF AskedTodos
<1>6. AskedTodos' = [AskedTodos EXCEPT ![c] = NoTx]
  <2>1. todoTx' = [todoTx EXCEPT ![c] = NoTx]
    BY DEF Commit, CommitFails
  <2>2. \A d \in Clients : todoTx'[d] = IF d = c THEN NoTx ELSE todoTx[d]
    BY <2>1 DEF TodosInv, TodosTypeOK
  <2>3. RequestOf(NoTx) = NoTx
    BY DEF RequestOf, NoTx
  <2> QED
    BY <2>2, <2>3 DEF AskedTodos
<1>7. tx.op # "create" => TodoStore!Found(r)
  BY <1>1, <1>2, <1>4 DEF TodoTxSound, TodoStore!Found, Present
<1>8. TodoStore!After(r) = Outcome(tx)
  <2>1. CASE tx.op = "create"
    BY <1>1, <1>4, <2>1, OutcomeTyped DEF TodoStore!After
  <2>2. CASE tx.op = "update"
    <3>1. Outcome(tx) = Merge(rows[tx.key], tx.change)
      BY <1>1, <2>2, OutcomeTyped
    <3>2. TodoStore!Merge(rows[tx.key], tx.change) = Merge(rows[tx.key], tx.change)
      BY DEF TodoStore!Merge, Merge
    <3> HIDE DEF r
    <3> QED
      BY <1>4, <1>7, <2>2, <3>1, <3>2 DEF TodoStore!After
  <2>3. CASE tx.op = "delete"
    BY <1>1, <1>4, <2>3, OutcomeTyped DEF TodoStore!After
  <2> QED
    BY <1>2, <2>1, <2>2, <2>3
<1>9. /\ tx.op = "create" => TodoStore!Answer(r) = Reply(201, tx.change)
      /\ TodoStore!Answer(r) = Reply(Success(tx.op), Outcome(tx))
  <2>1. CASE tx.op = "create"
    <3>1. TodoStore!Answer(r) = Reply(201, tx.change)
      BY <1>4, <2>1 DEF TodoStore!Answer, TodoStore!Reply, Reply
    <3>2. Outcome(tx) = tx.change
      BY <1>1, <2>1, OutcomeTyped
    <3> QED
      BY <2>1, <3>1, <3>2 DEF Success
  <2>2. CASE tx.op # "create"
    <3> HIDE DEF r
    <3> QED
      BY <1>4, <1>7, <1>8, <2>2 DEF TodoStore!Answer, TodoStore!Reply, Reply, Success
  <2> QED
    BY <2>1, <2>2
<1> HIDE DEF r
<1>10. CASE Commit(c)
  <2>1. /\ rows' = [rows EXCEPT ![r.key] = TodoStore!After(r)]
        /\ todoAnswer' = [todoAnswer EXCEPT ![c] = TodoStore!Answer(r)]
    BY <1>4, <1>8, <1>9, <1>10 DEF Commit, Tell
  <2> QED
    BY <1>4, <1>5, <1>6, <2>1, AnswerIsTodoStep
<1>11. CASE CommitFails(c)
  <2>1. /\ rows' \in {rows, [rows EXCEPT ![r.key] = TodoStore!After(r)]}
        /\ todoAnswer' = [todoAnswer EXCEPT ![c] = IF r.op = "create" THEN TodoStore!Answer(r)
                                                   ELSE Reply(404, Absent)]
    BY <1>4, <1>8, <1>9, <1>11 DEF CommitFails, Tell
  <2> QED
    BY <1>4, <1>5, <1>6, <2>1, AnswerIsTodoStep
<1> QED
  BY <1>10, <1>11

\* In memory the client waits for nothing, before the step and after it.
LEMMA MemoryAsksNothing ==
    ASSUME TodosInv, NEW c \in Clients, backend = "memory", UNCHANGED todoTx
    PROVE  /\ AskedTodos[c] = NoTx
           /\ AskedTodos' = [AskedTodos EXCEPT ![c] = NoTx]
<1>1. AskedTodos[c] = NoTx
  BY MemoryIsIdle, IdleAsksNothing DEF Idle
<1>2. UNCHANGED AskedTodos
  BY AskedIsUnchanged
<1> QED
  BY <1>1, <1>2 DEF AskedTodos

LEMMA SaveIsTodoStep ==
    ASSUME TodosInv, NEW c \in Clients, NEW new \in TodoChange, ValidUpdate(new), Save(c, new)
    PROVE  TodoStep
<1> DEFINE r == [op |-> "create", key |-> nextId, change |-> new]
<1>1. nextId \in TodoIds
  BY TodosAssumption DEF Save, TodosInv, TodosTypeOK, TodoIds
<1>2. r \in TodoStore!Request /\ r.op = "create" /\ r.key = nextId /\ r.change = new
  BY <1>1 DEF TodoStore!Request
<1> HIDE DEF r
<1>3. TodoStore!After(r) = new /\ TodoStore!Answer(r) = Reply(201, new)
  BY <1>2 DEF TodoStore!After, TodoStore!Answer, TodoStore!Reply, Reply
<1>4. /\ rows' = [rows EXCEPT ![r.key] = TodoStore!After(r)]
      /\ todoAnswer' = [todoAnswer EXCEPT ![c] = TodoStore!Answer(r)]
      /\ backend = "memory" /\ UNCHANGED todoTx
  BY <1>2, <1>3 DEF Save, Tell
<1> QED
  BY <1>2, <1>4, MemoryAsksNothing, AnswerIsTodoStep

LEMMA UpdateIsTodoStep ==
    ASSUME TodosInv, NEW c \in Clients, NEW i \in TodoIds, NEW change \in TodoChange,
           ValidUpdate(change), Update(c, i, change)
    PROVE  TodoStep
<1> DEFINE r == [op |-> "update", key |-> i, change |-> change]
<1>1. r \in TodoStore!Request /\ r.op = "update" /\ r.key = i /\ r.change = change
  BY DEF TodoStore!Request
<1> HIDE DEF r
<1>2. TodoStore!Found(r) <=> Present(i)
  BY <1>1 DEF TodoStore!Found, Present
<1>3. backend = "memory" /\ UNCHANGED todoTx
  BY DEF Update
<1>4. TodoStore!Merge(rows[i], change) = Merge(rows[i], change)
  BY DEF TodoStore!Merge, Merge
<1>5. TodoStore!After(r) = IF Present(i) THEN Merge(rows[i], change) ELSE Absent
  BY <1>1, <1>2, <1>4 DEF TodoStore!After
<1>6. TodoStore!Answer(r) = IF Present(i) THEN Reply(200, Merge(rows[i], change))
                            ELSE Reply(404, Absent)
  BY <1>1, <1>2, <1>5 DEF TodoStore!Answer, TodoStore!Reply, Reply
<1>7. rows' = [rows EXCEPT ![r.key] = TodoStore!After(r)]
  BY <1>1, <1>5 DEF Update, Present, TodosInv, TodosTypeOK
<1>8. todoAnswer' = [todoAnswer EXCEPT ![c] = TodoStore!Answer(r)]
  BY <1>6 DEF Update, Tell
<1> QED
  BY <1>1, <1>3, <1>7, <1>8, MemoryAsksNothing, AnswerIsTodoStep

LEMMA RemoveIsTodoStep ==
    ASSUME TodosInv, NEW c \in Clients, NEW i \in TodoIds, Remove(c, i)
    PROVE  TodoStep
<1> DEFINE r == [op |-> "delete", key |-> i]
<1>1. r \in TodoStore!Request /\ r.op = "delete" /\ r.key = i
  BY DEF TodoStore!Request
<1> HIDE DEF r
<1>2. TodoStore!Found(r) <=> Present(i)
  BY <1>1 DEF TodoStore!Found, Present
<1>3. backend = "memory" /\ UNCHANGED todoTx
  BY DEF Remove
<1>4. TodoStore!After(r) = Absent
  BY <1>1 DEF TodoStore!After
<1>5. TodoStore!Answer(r) = IF Present(i) THEN Reply(200, Absent) ELSE Reply(404, Absent)
  BY <1>1, <1>2, <1>4 DEF TodoStore!Answer, TodoStore!Reply, Reply
<1>6. rows' = [rows EXCEPT ![r.key] = TodoStore!After(r)]
  BY <1>1, <1>4 DEF Remove, Present, TodosInv, TodosTypeOK
<1>7. todoAnswer' = [todoAnswer EXCEPT ![c] = TodoStore!Answer(r)]
  BY <1>5 DEF Remove, Tell
<1> QED
  BY <1>1, <1>3, <1>6, <1>7, MemoryAsksNothing, AnswerIsTodoStep

\* TodosImplementStore: the table, with its row locks and its transactions of
\* two statements, and the vector under its mutex both behave as a store in
\* which every request is one instant.
THEOREM TodosAreAStore == TodosSpec => TodosImplementStore
<1>1. TodosInit => TodoStore!Init
  <2>1. SUFFICES ASSUME TodosInit PROVE TodoStore!Init
    OBVIOUS
  <2>2. TodosInv
    BY <2>1, TodosInvInit
  <2>3. Todo \subseteq ValidChanges
    <3>1. \A t \in Todo : t.title \in Titles /\ t.description \in Descriptions /\ t \in TodoChange
      BY DEF Todo, TodoChange
    <3>2. \A t \in Todo : t # Empty
      BY <3>1, TodosAssumption DEF Empty
    <3> QED
      BY <3>1, <3>2, TodosAssumption DEF ValidChanges, ValidUpdate
  <2>4. rows \in [TodoIds -> ValidChanges \cup {Absent}]
    BY <2>2, <2>3 DEF TodosInv, TodosTypeOK
  <2>5. AskedTodos = [c \in Clients |-> NoTx]
    BY <2>1 DEF AskedTodos, RequestOf, TodosInit, NoTx
  <2>6. todoAnswer = [c \in Clients |-> Reply(0, Absent)]
    BY <2>1 DEF TodosInit
  <2> QED
    BY <2>4, <2>5, <2>6 DEF TodoStore!Init, TodoStore!NoTx, NoTx, TodoStore!Reply, Reply,
                            ValidChanges
<1>2. TodosInv /\ [TodosNext]_todoVars => [TodoStore!Next]_<<rows, AskedTodos, todoAnswer>>
  <2>1. ASSUME TodosInv, TodosNext PROVE TodoStep
    <3>1. PICK c \in Clients :
            \/ AnswersPlainly(c)
            \/ \E tx \in Tx : Starts(c, tx)
            \/ Commit(c) \/ CommitFails(c)
            \/ \E new \in Todo \cap TodoChange : ValidUpdate(new) /\ Save(c, new)
            \/ \E i \in TodoIds, change \in TodoChange :
                  ValidUpdate(change) /\ Update(c, i, change)
            \/ \E i \in TodoIds : Remove(c, i)
      BY <2>1, TodosSteps
    <3> QED
      BY <2>1, <3>1, PlainIsTodoStep, StartsIsTodoStep, CommitIsTodoStep, SaveIsTodoStep,
         UpdateIsTodoStep, RemoveIsTodoStep
  <2>2. ASSUME UNCHANGED todoVars PROVE UNCHANGED <<rows, AskedTodos, todoAnswer>>
    BY <2>2, AskedIsUnchanged DEF todoVars
  <2> QED
    BY <2>1, <2>2 DEF TodoStep
<1> QED
  BY <1>1, <1>2, TodosInvariant, PTL DEF TodosSpec, TodosImplementStore, TodoStore!Spec

-----------------------------------------------------------------------------
(* What a step of the documents does.                                      *)

DocReplies == [status : Status, body : [data : Data] \cup {Absent}]

\* The places in the order are numbers, and there is one for every uuid.
LEMMA DrawnIsFinite ==
    ASSUME NEW D \in SUBSET Uuids
    PROVE  /\ Cardinality(D) \in Nat
           /\ \A u \in Uuids \ D : /\ Cardinality(D \cup {u}) = Cardinality(D) + 1
                                   /\ Cardinality(D) + 1 \in 1..Cardinality(Uuids)
<1>1. IsFiniteSet(Uuids)
  BY DocumentsAssumption
<1>2. IsFiniteSet(D)
  BY <1>1, FS_Subset
<1>3. Cardinality(D) \in Nat /\ Cardinality(Uuids) \in Nat
  BY <1>1, <1>2, FS_CardinalityType
<1>4. ASSUME NEW u \in Uuids \ D
      PROVE  /\ Cardinality(D \cup {u}) = Cardinality(D) + 1
             /\ Cardinality(D) + 1 \in 1..Cardinality(Uuids)
  <2>1. Cardinality(D \cup {u}) = Cardinality(D) + 1
    BY <1>2, FS_AddElement
  <2>2. Cardinality(D \cup {u}) <= Cardinality(Uuids)
    <3>1. D \cup {u} \in SUBSET Uuids
      OBVIOUS
    <3> QED
      BY <1>1, <3>1, FS_Subset
  <2> QED
    BY <1>3, <2>1, <2>2
<1> QED
  BY <1>3, <1>4

\* What a client may hold, in the fields that matter.
LEMMA HeldDocTx ==
    ASSUME NEW tx \in DocTx \cup {NoTx}, tx.op # "none"
    PROVE  /\ tx \in DocTx
           /\ tx.op \in {"create", "update", "delete"}
           /\ tx.id \in Uuids
BY DEF DocTx, NoTx

LEMMA BodyTyped ==
    ASSUME NEW doc \in Document \cup {Absent}
    PROVE  /\ Body(doc) \in [data : Data] \cup {Absent}
           /\ doc # Absent => Body(doc) = [data |-> doc.data]
           /\ Body(doc) = Absent <=> doc = Absent
<1>1. Absent \notin Document \cup [data : Data]
  BY DocumentsAssumption
<1>2. doc # Absent => doc.data \in Data
  BY DEF Document
<1> QED
  BY <1>1, <1>2 DEF Body

LEMMA DocRepliesTyped ==
    ASSUME NEW status \in Status, NEW body \in [data : Data] \cup {Absent}
    PROVE  Reply(status, body) \in DocReplies
BY DEF Reply, DocReplies

\* It answers, and that is all.
DocAnswers(c, a) ==
    /\ docAnswer' = [docAnswer EXCEPT ![c] = a]
    /\ UNCHANGED <<documents, drawn, docTx>>

\* What can be answered at once, to a request that leaves the documents alone.
DocPlainAnswer(a) ==
    \/ a \in {Reply(400, Absent), Reply(404, Absent)}
    \/ \E d \in Data : a = Reply(201, [data |-> d])
    \/ \E coll \in Collections, u \in Uuids :
          InCollection(coll, u) /\ a = Reply(200, Body(documents[u]))

DocAnswersPlainly(c) == Free(c) /\ \E a : DocPlainAnswer(a) /\ DocAnswers(c, a)

\* It is the statement of a transaction: the row is nobody's.
DocStarts(c, tx) ==
    /\ Free(c)
    /\ docTx' = [docTx EXCEPT ![c] = tx]
    /\ UNCHANGED <<documents, docAnswer>>
    /\ tx.was = documents[tx.id]
    /\ \/ /\ tx.op = "create"
          /\ tx.id \in Uuids \ drawn /\ drawn' = drawn \cup {tx.id}
          /\ tx.doc \in Document /\ tx.doc.created = Cardinality(drawn) + 1
       \/ /\ tx.op = "update" /\ ~RowLocked(tx.id) /\ drawn' = drawn
          /\ tx.was \in Document /\ tx.doc \in Document
          /\ tx.doc.collection = tx.was.collection /\ tx.doc.created = tx.was.created
       \/ /\ tx.op = "delete" /\ ~RowLocked(tx.id) /\ drawn' = drawn
          /\ tx.was \in Document /\ tx.doc = Absent

\* It is the commit of a transaction, or its rollback.
DocEnds(c, a) ==
    /\ ~Free(c)
    /\ documents' \in {documents, [documents EXCEPT ![docTx[c].id] = docTx[c].doc]}
    /\ docTx' = [docTx EXCEPT ![c] = NoTx]
    /\ docAnswer' = [docAnswer EXCEPT ![c] = a]
    /\ UNCHANGED drawn

LEMMA DocPlainAnswerTyped ==
    ASSUME DocumentsInv, NEW a, DocPlainAnswer(a)
    PROVE  a \in DocReplies
<1>1. CASE a \in {Reply(400, Absent), Reply(404, Absent)}
  BY <1>1, DocRepliesTyped DEF Status
<1>2. CASE \E d \in Data : a = Reply(201, [data |-> d])
  BY <1>2, DocRepliesTyped DEF Status
<1>3. CASE \E coll \in Collections, u \in Uuids :
              InCollection(coll, u) /\ a = Reply(200, Body(documents[u]))
  <2>1. PICK u \in Uuids : a = Reply(200, Body(documents[u]))
    BY <1>3
  <2>2. documents[u] \in Document \cup {Absent}
    BY DEF DocumentsInv, DocumentsTypeOK
  <2> QED
    BY <2>1, <2>2, BodyTyped, DocRepliesTyped DEF Status
<1> QED
  BY <1>1, <1>2, <1>3 DEF DocPlainAnswer

LEMMA DocAnswersKeepsInv ==
    ASSUME DocumentsInv, NEW c \in Clients, NEW a \in DocReplies, DocAnswers(c, a)
    PROVE  DocumentsInv'
<1>1. DocumentsTypeOK'
  <2>1. docAnswer' \in [Clients -> DocReplies]
    BY DEF DocumentsInv, DocumentsTypeOK, DocReplies, Status, DocAnswers
  <2> QED
    BY <2>1 DEF DocumentsInv, DocumentsTypeOK, DocReplies, Status, DocAnswers
<1>2. UNCHANGED <<documents, drawn, docTx>>
  BY DEF DocAnswers
<1>3. DocTxInv' /\ DocLockInv'
  BY <1>2 DEF DocumentsInv, DocTxInv, DocTxSound, DocLockInv
<1>4. DrawnInv'
  BY <1>2 DEF DocumentsInv, DrawnInv
<1> QED
  BY <1>1, <1>3, <1>4 DEF DocumentsInv

LEMMA DocStartsKeepsInv ==
    ASSUME DocumentsInv, NEW c \in Clients, NEW tx \in DocTx, DocStarts(c, tx)
    PROVE  DocumentsInv'
<1> DEFINE n == Cardinality(drawn)
           m == Cardinality(drawn')
<1>1. docTx'[c] = tx /\ \A d \in Clients \ {c} : docTx'[d] = docTx[d]
  BY DEF DocStarts, DocumentsInv, DocumentsTypeOK
<1>2. UNCHANGED <<documents, docAnswer>>
  BY DEF DocStarts
<1>3. tx.op \in {"create", "update", "delete"} /\ tx.op # "none" /\ tx.id \in Uuids
  BY DEF DocTx
<1>4. drawn \in SUBSET Uuids /\ n \in Nat
  BY DrawnIsFinite DEF DocumentsInv, DocumentsTypeOK
<1>5. /\ drawn \subseteq drawn' /\ drawn' \in SUBSET Uuids /\ m \in Nat /\ n <= m
      /\ tx.op = "create" => m = n + 1
  <2>1. CASE tx.op = "create"
    <3>1. tx.id \in Uuids \ drawn /\ drawn' = drawn \cup {tx.id}
      BY <2>1 DEF DocStarts
    <3>2. m = n + 1
      BY <1>4, <3>1, DrawnIsFinite
    <3> QED
      BY <1>4, <3>1, <3>2
  <2>2. CASE tx.op # "create"
    <3>1. drawn' = drawn
      BY <2>2 DEF DocStarts
    <3> QED
      BY <1>4, <2>2, <3>1
  <2> QED
    BY <2>1, <2>2
<1> HIDE DEF n, m
<1>6. \A d \in Clients : docTx[d].op # "none" =>
        /\ docTx[d] \in DocTx /\ docTx[d].id \in drawn /\ DocTxSound(d)
        /\ docTx[d].op = "create" => docTx[d].doc.created \in Nat /\ docTx[d].doc.created <= n
  <2>1. ASSUME NEW d \in Clients, docTx[d].op # "none"
        PROVE  /\ docTx[d] \in DocTx /\ docTx[d].id \in drawn /\ DocTxSound(d)
               /\ docTx[d].op = "create"
                    => docTx[d].doc.created \in Nat /\ docTx[d].doc.created <= n
    <3>1. docTx[d] \in DocTx /\ DocTxSound(d)
      BY <2>1, HeldDocTx DEF DocumentsInv, DocumentsTypeOK, DocTxInv
    <3>2. docTx[d].op = "create" => docTx[d].doc.created \in Nat
      BY <2>1, <3>1 DEF DocTxSound, Document
    <3> QED
      BY <2>1, <3>1, <3>2 DEF DocTxSound, n
  <2> QED
    BY <2>1
<1>7. \A u \in Uuids : documents[u] # Absent =>
        documents[u].created \in Nat /\ documents[u].created <= n /\ u \in drawn
  <2>1. \A u \in Uuids : documents[u] # Absent => documents[u] \in Document
    BY DEF DocumentsInv, DocumentsTypeOK
  <2> QED
    BY <2>1 DEF Document, DocumentsInv, DrawnInv, n
<1>8. DocumentsTypeOK'
  BY <1>2, <1>5 DEF DocumentsInv, DocumentsTypeOK, DocStarts
<1>9. DocTxInv'
  <2>1. ASSUME NEW d \in Clients PROVE DocTxSound(d)'
    <3>1. CASE d # c
      <4>1. docTx'[d] = docTx[d]
        BY <1>1, <3>1
      <4>2. docTx[d].op # "none" =>
              /\ docTx[d].id \in drawn' /\ DocTxSound(d)
              /\ docTx[d].op = "create" => docTx[d].doc.created <= m
        BY <1>4, <1>5, <1>6
      <4> QED
        BY <1>2, <4>1, <4>2 DEF DocTxSound, m
    <3>2. CASE d = c /\ tx.op = "create"
      <4>1. tx.doc \in Document /\ tx.doc.created = n + 1 /\ tx.id \in Uuids \ drawn
              /\ tx.id \in drawn' /\ tx.was = documents[tx.id]
        BY <3>2 DEF DocStarts, n
      <4>2. tx.was = Absent
        BY <1>7, <4>1
      <4>3. tx.doc.created <= m
        BY <1>4, <1>5, <3>2, <4>1
      <4> QED
        BY <1>1, <1>2, <3>2, <4>1, <4>2, <4>3 DEF DocTxSound, m
    <3>3. CASE d = c /\ tx.op # "create"
      <4>1. /\ tx.was = documents[tx.id] /\ tx.was \in Document /\ drawn' = drawn
            /\ tx.op = "update" => /\ tx.doc \in Document
                                   /\ tx.doc.collection = tx.was.collection
                                   /\ tx.doc.created = tx.was.created
            /\ tx.op = "delete" => tx.doc = Absent
        BY <3>3 DEF DocStarts
      <4>2. tx.id \in drawn
        BY <1>3, <1>7, <4>1, DocumentsAssumption
      <4> QED
        BY <1>1, <1>2, <3>3, <4>1, <4>2 DEF DocTxSound
    <3> QED
      BY <3>1, <3>2, <3>3
  <2> QED
    BY <2>1 DEF DocTxInv
<1>10. DocLockInv'
  <2>1. \A d \in Clients \ {c} : docTx[d].op # "none" => docTx[d].id # tx.id
    <3>1. CASE tx.op = "create"
      BY <1>6, <3>1 DEF DocStarts
    <3>2. CASE tx.op # "create"
      BY <3>2 DEF DocStarts, RowLocked
    <3> QED
      BY <3>1, <3>2
  <2> QED
    BY <1>1, <2>1 DEF DocumentsInv, DocLockInv
<1>11. DrawnInv'
  <2>1. \A u \in Uuids : documents[u] # Absent => u \in drawn' /\ documents[u].created <= m
    BY <1>4, <1>5, <1>7
  <2> QED
    BY <1>2, <2>1 DEF DrawnInv, m
<1> QED
  BY <1>8, <1>9, <1>10, <1>11 DEF DocumentsInv

LEMMA DocEndsKeepsInv ==
    ASSUME DocumentsInv, NEW c \in Clients, NEW a \in DocReplies, DocEnds(c, a)
    PROVE  DocumentsInv'
<1> DEFINE tx == docTx[c]
<1>1. tx \in DocTx /\ tx.op \in {"create", "update", "delete"} /\ tx.id \in Uuids
         /\ tx.op # "none" /\ DocTxSound(c)
  BY HeldDocTx DEF DocEnds, Free, DocumentsInv, DocumentsTypeOK, DocTxInv
<1>2. tx.doc \in Document \cup {Absent}
  BY <1>1 DEF DocTx
<1>3. /\ docTx'[c] = NoTx /\ NoTx.op = "none"
      /\ \A d \in Clients \ {c} : docTx'[d] = docTx[d]
      /\ docTx' \in [Clients -> DocTx \cup {NoTx}]
  BY DEF DocEnds, NoTx, DocumentsInv, DocumentsTypeOK
<1>4. UNCHANGED drawn
  BY DEF DocEnds
<1>5. /\ \A u \in Uuids : u # tx.id => documents'[u] = documents[u]
      /\ documents'[tx.id] \in {documents[tx.id], tx.doc}
      /\ documents' \in [Uuids -> Document \cup {Absent}]
  BY <1>1, <1>2 DEF DocEnds, DocumentsInv, DocumentsTypeOK
<1>6. DocumentsTypeOK'
  <2>1. docAnswer' \in [Clients -> DocReplies]
    BY DEF DocumentsInv, DocumentsTypeOK, DocReplies, Status, DocEnds
  <2> QED
    BY <1>3, <1>4, <1>5, <2>1 DEF DocumentsInv, DocumentsTypeOK, DocReplies, Status
<1>7. \A d \in Clients : docTx'[d].op # "none" =>
        d # c /\ docTx'[d] = docTx[d] /\ docTx[d].id # tx.id /\ docTx[d].id \in Uuids
  BY <1>1, <1>3, HeldDocTx DEF DocumentsInv, DocumentsTypeOK, DocLockInv
<1>8. DocTxInv'
  <2>1. ASSUME NEW d \in Clients, docTx'[d].op # "none" PROVE DocTxSound(d)'
    <3>1. docTx'[d] = docTx[d] /\ DocTxSound(d) /\ documents'[docTx[d].id] = documents[docTx[d].id]
      BY <1>5, <1>7, <2>1 DEF DocumentsInv, DocTxInv
    <3> QED
      BY <1>4, <3>1 DEF DocTxSound
  <2> QED
    BY <2>1 DEF DocTxInv, DocTxSound
<1>9. DocLockInv'
  BY <1>3 DEF DocumentsInv, DocLockInv
<1>10. documents'[tx.id] # Absent => documents'[tx.id].created <= Cardinality(drawn)
  <2>1. CASE documents'[tx.id] = documents[tx.id]
    BY <1>1, <2>1 DEF DocumentsInv, DrawnInv
  <2>2. CASE documents'[tx.id] = tx.doc
    <3>1. CASE tx.op = "create"
      BY <1>1, <2>2, <3>1 DEF DocTxSound
    <3>2. CASE tx.op = "update"
      <4>1. documents[tx.id] \in Document /\ tx.doc.created = documents[tx.id].created
        BY <1>1, <3>2 DEF DocTxSound
      <4>2. documents[tx.id] # Absent
        BY <4>1, DocumentsAssumption
      <4>3. documents[tx.id].created <= Cardinality(drawn)
        BY <1>1, <4>2 DEF DocumentsInv, DrawnInv
      <4> QED
        BY <2>2, <4>1, <4>3
    <3>3. CASE tx.op = "delete"
      BY <1>1, <2>2, <3>3 DEF DocTxSound
    <3> QED
      BY <1>1, <3>1, <3>2, <3>3
  <2> QED
    BY <1>5, <2>1, <2>2
<1>11. DrawnInv'
  <2>1. tx.id \in drawn
    BY <1>1 DEF DocTxSound
  <2> QED
    BY <1>4, <1>5, <1>10, <2>1 DEF DocumentsInv, DrawnInv
<1> QED
  BY <1>6, <1>8, <1>9, <1>11 DEF DocumentsInv

-----------------------------------------------------------------------------
(* Every step of the documents is one of these.                            *)

LEMMA InsertDocumentStarts ==
    ASSUME DocumentsInv, NEW c \in Clients, NEW coll \in Collections,
           NEW d \in Data \cup {NoData}, InsertDocument(c, coll, d)
    PROVE  \E tx \in DocTx : DocStarts(c, tx)
<1>1. PICK u \in Uuids \ drawn :
         /\ drawn' = drawn \cup {u}
         /\ Execute(c, "create", u,
                    [collection |-> coll, data |-> d, created |-> Cardinality(drawn) + 1])
  BY DEF InsertDocument
<1> DEFINE doc == [collection |-> coll, data |-> d, created |-> Cardinality(drawn) + 1]
           tx  == [op |-> "create", id |-> u, was |-> documents[u], doc |-> doc]
<1>2. Free(c) /\ d \in Data
  BY DEF InsertDocument, Accepted
<1>3. Cardinality(drawn) + 1 \in 1..Cardinality(Uuids)
  BY DrawnIsFinite DEF DocumentsInv, DocumentsTypeOK
<1>4. doc \in Document /\ doc.created = Cardinality(drawn) + 1
  BY <1>2, <1>3 DEF Document
<1> HIDE DEF doc
<1>5. documents[u] \in Document \cup {Absent}
  BY DEF DocumentsInv, DocumentsTypeOK
<1>6. tx \in DocTx /\ tx.op = "create" /\ tx.id = u /\ tx.was = documents[u] /\ tx.doc = doc
  BY <1>4, <1>5 DEF DocTx
<1>7. docTx' = [docTx EXCEPT ![c] = tx] /\ UNCHANGED <<documents, docAnswer>>
  BY <1>1 DEF Execute, doc
<1> HIDE DEF tx
<1>8. DocStarts(c, tx)
  BY <1>1, <1>2, <1>4, <1>6, <1>7 DEF DocStarts
<1> QED
  BY <1>6, <1>8

LEMMA DocumentRowStarts ==
    ASSUME DocumentsInv, NEW c \in Clients, NEW coll \in Collections, NEW u \in Uuids,
           NEW d, UpdateDocument(c, coll, u, d) \/ DeleteDocument(c, coll, u)
    PROVE  \E tx \in DocTx : DocStarts(c, tx)
<1>1. documents[u] \in Document /\ documents[u] # Absent
  BY DEF DocumentsInv, DocumentsTypeOK, UpdateDocument, DeleteDocument, InCollection
<1>2. CASE UpdateDocument(c, coll, u, d)
  <2> DEFINE doc == [documents[u] EXCEPT !.data = d]
             tx  == [op |-> "update", id |-> u, was |-> documents[u], doc |-> doc]
  <2>1. d \in Data
    BY <1>2 DEF UpdateDocument, Accepted
  <2>2. /\ doc \in Document
        /\ doc.collection = documents[u].collection /\ doc.created = documents[u].created
    BY <1>1, <2>1 DEF Document
  <2> HIDE DEF doc
  <2>3. tx \in DocTx /\ tx.op = "update" /\ tx.id = u /\ tx.was = documents[u] /\ tx.doc = doc
    BY <1>1, <2>2 DEF DocTx
  <2>4. docTx' = [docTx EXCEPT ![c] = tx] /\ UNCHANGED <<documents, docAnswer, drawn>>
    BY <1>2 DEF UpdateDocument, Execute, doc
  <2> HIDE DEF tx
  <2>5. DocStarts(c, tx)
    BY <1>1, <1>2, <2>2, <2>3, <2>4 DEF DocStarts, UpdateDocument
  <2> QED
    BY <2>3, <2>5
<1>3. CASE DeleteDocument(c, coll, u)
  <2> DEFINE tx == [op |-> "delete", id |-> u, was |-> documents[u], doc |-> Absent]
  <2>1. tx \in DocTx /\ tx.op = "delete" /\ tx.id = u /\ tx.was = documents[u] /\ tx.doc = Absent
    BY <1>1 DEF DocTx
  <2>2. docTx' = [docTx EXCEPT ![c] = tx] /\ UNCHANGED <<documents, docAnswer, drawn>>
    BY <1>3 DEF DeleteDocument, Execute
  <2> HIDE DEF tx
  <2>3. DocStarts(c, tx)
    BY <1>1, <1>3, <2>1, <2>2 DEF DocStarts, DeleteDocument
  <2> QED
    BY <2>1, <2>3
<1> QED
  BY <1>2, <1>3

\* Either end of a transaction: a commit, with the answer of a success, or a
\* failure, that a creation answers as a success.
DocAnswerOf(tx, committed) ==
    IF tx.op = "create" THEN Reply(201, Body(tx.doc))
    ELSE IF committed THEN Reply(200, Body(tx.doc)) ELSE Reply(404, Absent)

LEMMA CommitDocumentEnds ==
    ASSUME DocumentsInv, NEW c \in Clients, CommitDocument(c) \/ DocumentFails(c)
    PROVE  \E committed \in BOOLEAN :
              /\ DocAnswerOf(docTx[c], committed) \in DocReplies
              /\ DocEnds(c, DocAnswerOf(docTx[c], committed))
              /\ committed => documents' = [documents EXCEPT ![docTx[c].id] = docTx[c].doc]
<1> DEFINE tx == docTx[c]
<1>1. ~Free(c)
  BY DEF CommitDocument, DocumentFails
<1>2. tx \in DocTx /\ tx.op \in {"create", "update", "delete"}
  BY <1>1, HeldDocTx DEF Free, DocumentsInv, DocumentsTypeOK
<1>3. Body(tx.doc) \in [data : Data] \cup {Absent}
  <2>1. tx.doc \in Document \cup {Absent}
    BY <1>2 DEF DocTx
  <2> QED
    BY <2>1, BodyTyped
<1>4. \A committed \in BOOLEAN : DocAnswerOf(tx, committed) \in DocReplies
  <2>1. /\ Reply(201, Body(tx.doc)) \in DocReplies /\ Reply(200, Body(tx.doc)) \in DocReplies
        /\ Reply(404, Absent) \in DocReplies
    BY <1>3, DocRepliesTyped DEF Status
  <2> QED
    BY <2>1 DEF DocAnswerOf
<1>5. CASE CommitDocument(c)
  <2>1. DocEnds(c, DocAnswerOf(tx, TRUE))
    BY <1>5 DEF CommitDocument, DocEnds, DocTell, DocAnswerOf, DocSuccess
  <2>2. documents' = [documents EXCEPT ![tx.id] = tx.doc]
    BY <1>5 DEF CommitDocument
  <2> QED
    BY <1>4, <2>1, <2>2
<1>6. CASE DocumentFails(c)
  <2>1. DocEnds(c, DocAnswerOf(tx, FALSE))
    BY <1>6 DEF DocumentFails, DocEnds, DocTell, DocAnswerOf
  <2> QED
    BY <1>4, <2>1
<1> QED
  BY <1>5, <1>6

LEMMA DocumentsSteps ==
    ASSUME DocumentsInv, DocumentsNext
    PROVE  \E c \in Clients :
              \/ DocAnswersPlainly(c)
              \/ \E tx \in DocTx : DocStarts(c, tx)
              \/ CommitDocument(c) \/ DocumentFails(c)
<1>1. DocPlainAnswer(Reply(400, Absent)) /\ DocPlainAnswer(Reply(404, Absent))
  BY DEF DocPlainAnswer
<1>2. CASE \E c \in Clients : CommitDocument(c) \/ DocumentFails(c)
  BY <1>2
<1>3. CASE \E c \in Clients, d \in Data \cup {NoData} : RefuseDocument(c, d) \/ NoDocuments(c, d)
  <2>1. PICK c \in Clients, d \in Data \cup {NoData} : RefuseDocument(c, d) \/ NoDocuments(c, d)
    BY <1>3
  <2>2. CASE RefuseDocument(c, d)
    <3>1. Free(c) /\ DocAnswers(c, Reply(400, Absent))
      BY <2>2 DEF RefuseDocument, DocAnswers, DocTell
    <3> QED
      BY <1>1, <3>1 DEF DocAnswersPlainly
  <2>3. CASE NoDocuments(c, d)
    <3>1. /\ Free(c) /\ d \in Data
          /\ DocAnswers(c, Reply(404, Absent)) \/ DocAnswers(c, Reply(201, [data |-> d]))
      BY <2>3 DEF NoDocuments, DocAnswers, DocTell, Accepted
    <3>2. DocPlainAnswer(Reply(201, [data |-> d]))
      BY <3>1 DEF DocPlainAnswer
    <3> QED
      BY <1>1, <3>1, <3>2 DEF DocAnswersPlainly
  <2> QED
    BY <2>1, <2>2, <2>3
<1>4. CASE \E c \in Clients, coll \in Collections, d \in Data \cup {NoData} :
              \/ InsertDocument(c, coll, d)
              \/ \E u \in Uuids : UpdateDocument(c, coll, u, d)
  BY <1>4, InsertDocumentStarts, DocumentRowStarts
<1>5. CASE \E c \in Clients, coll \in Collections, u \in Uuids :
              DeleteDocument(c, coll, u) \/ ReadDocument(c, coll, u)
  <2>1. PICK c \in Clients, coll \in Collections, u \in Uuids :
              DeleteDocument(c, coll, u) \/ ReadDocument(c, coll, u)
    BY <1>5
  <2>2. CASE DeleteDocument(c, coll, u)
    BY <2>2, DocumentRowStarts
  <2>3. CASE ReadDocument(c, coll, u)
    <3>1. Free(c) /\ DocAnswers(c, Reply(200, Body(documents[u])))
      BY <2>3 DEF ReadDocument, DocAnswers, DocTell
    <3>2. DocPlainAnswer(Reply(200, Body(documents[u])))
      BY <2>3 DEF ReadDocument, DocPlainAnswer
    <3> QED
      BY <3>1, <3>2 DEF DocAnswersPlainly
  <2> QED
    BY <2>1, <2>2, <2>3
<1>6. CASE \E c \in Clients, coll \in Collections, u \in Uuids \cup {NotUuid} :
              NoSuchDocument(c, coll, u)
  <2>1. PICK c \in Clients, coll \in Collections, u \in Uuids \cup {NotUuid} :
              NoSuchDocument(c, coll, u)
    BY <1>6
  <2>2. Free(c) /\ DocAnswers(c, Reply(404, Absent))
    BY <2>1 DEF NoSuchDocument, DocAnswers, DocTell
  <2> QED
    BY <1>1, <2>2 DEF DocAnswersPlainly
<1> QED
  BY <1>2, <1>3, <1>4, <1>5, <1>6 DEF DocumentsNext

LEMMA DocumentsNextKeepsInv ==
    ASSUME DocumentsInv, DocumentsNext
    PROVE  DocumentsInv'
<1>1. PICK c \in Clients :
        \/ DocAnswersPlainly(c)
        \/ \E tx \in DocTx : DocStarts(c, tx)
        \/ CommitDocument(c) \/ DocumentFails(c)
  BY DocumentsSteps
<1>2. CASE DocAnswersPlainly(c)
  <2>1. PICK a : DocPlainAnswer(a) /\ DocAnswers(c, a)
    BY <1>2 DEF DocAnswersPlainly
  <2>2. a \in DocReplies
    BY <2>1, DocPlainAnswerTyped
  <2> QED
    BY <2>1, <2>2, DocAnswersKeepsInv
<1>3. CASE \E tx \in DocTx : DocStarts(c, tx)
  BY <1>3, DocStartsKeepsInv
<1>4. CASE CommitDocument(c) \/ DocumentFails(c)
  <2>1. PICK committed \in BOOLEAN :
           /\ DocAnswerOf(docTx[c], committed) \in DocReplies
           /\ DocEnds(c, DocAnswerOf(docTx[c], committed))
    BY <1>4, CommitDocumentEnds
  <2> QED
    BY <2>1, DocEndsKeepsInv
<1> QED
  BY <1>1, <1>2, <1>3, <1>4

LEMMA DocumentsInvInit ==
    ASSUME DocumentsInit
    PROVE  DocumentsInv
<1>1. \A c \in Clients : docTx[c].op = "none"
  BY DEF DocumentsInit, NoTx
<1>2. \A u \in Uuids : documents[u] = Absent
  BY DEF DocumentsInit
<1>3. DocumentsTypeOK
  <2>1. Reply(0, Absent) \in DocReplies
    BY DocRepliesTyped DEF Status
  <2>2. docAnswer \in [Clients -> DocReplies]
    BY <2>1 DEF DocumentsInit
  <2> QED
    BY <2>2 DEF DocumentsInit, DocumentsTypeOK, DocReplies, Status
<1>4. DocTxInv /\ DocLockInv /\ DrawnInv
  BY <1>1, <1>2 DEF DocTxInv, DocTxSound, DocLockInv, DrawnInv
<1> QED
  BY <1>3, <1>4 DEF DocumentsInv

LEMMA DocumentsInvariant == DocumentsSpec => []DocumentsInv
<1>1. DocumentsInit => DocumentsInv
  BY DocumentsInvInit
<1>2. DocumentsInv /\ [DocumentsNext]_docVars => DocumentsInv'
  <2>1. ASSUME DocumentsInv, UNCHANGED docVars PROVE DocumentsInv'
    BY <2>1 DEF docVars, DocumentsInv, DocumentsTypeOK, DocTxInv, DocTxSound, DocLockInv,
                DrawnInv
  <2> QED
    BY <2>1, DocumentsNextKeepsInv
<1> QED
  BY <1>1, <1>2, PTL DEF DocumentsSpec

\* The variables of the documents have their types: the uuids and the places
\* in the order never run out of what the transactions need.
THEOREM DocumentsTyped == DocumentsSpec => []DocumentsTypeOK
<1>1. DocumentsInv => DocumentsTypeOK
  BY DEF DocumentsInv
<1> QED
  BY <1>1, DocumentsInvariant, PTL

-----------------------------------------------------------------------------
(* The documents are a RecordStore.                                        *)

\* A step of the store on the documents, or none.
DocStep == DocumentStore!Next \/ UNCHANGED <<Shelf, AskedDocuments, docAnswer>>

LEMMA AnswerIsDocStep ==
    ASSUME DocumentsInv, NEW c \in Clients, NEW r \in DocumentStore!Request,
           AskedDocuments[c] \in {NoTx, r},
           AskedDocuments' = [AskedDocuments EXCEPT ![c] = NoTx],
           \/ /\ docAnswer' = [docAnswer EXCEPT ![c] = DocumentStore!Answer(r)]
              /\ Shelf' = [Shelf EXCEPT ![r.key] = DocumentStore!After(r)]
           \/ /\ docAnswer' = [docAnswer EXCEPT ![c] = IF r.op = "create" THEN DocumentStore!Answer(r)
                                                       ELSE Reply(404, Absent)]
              /\ Shelf' \in {Shelf, [Shelf EXCEPT ![r.key] = DocumentStore!After(r)]}
    PROVE  DocStep
<1>1. DocumentStore!Reply(404, Absent) = Reply(404, Absent) /\ DocumentStore!NoTx = NoTx
  BY DEF DocumentStore!Reply, Reply, DocumentStore!NoTx, NoTx
<1>2. DocumentStore!Do(c, r) \/ DocumentStore!Fail(c, r)
  BY <1>1 DEF DocumentStore!Do, DocumentStore!Fail
<1>3. r \in IF AskedDocuments[c] = NoTx THEN DocumentStore!Request ELSE {AskedDocuments[c]}
  OBVIOUS
<1>4. CASE Shelf' # Shelf \/ AskedDocuments'[c] # AskedDocuments[c] \/ docAnswer'[c] # docAnswer[c]
  BY <1>1, <1>2, <1>3, <1>4 DEF DocStep, DocumentStore!Next
<1>5. CASE ~(Shelf' # Shelf \/ AskedDocuments'[c] # AskedDocuments[c]
                            \/ docAnswer'[c] # docAnswer[c])
  <2>1. /\ AskedDocuments = [e \in Clients |-> AskedDocuments[e]]
        /\ docAnswer = [e \in Clients |-> docAnswer[e]]
    BY DEF AskedDocuments, DocumentsInv, DocumentsTypeOK
  <2>2. AskedDocuments' = AskedDocuments
    BY <1>5, <2>1
  <2>3. docAnswer' = docAnswer
    BY <1>5, <2>1
  <2> QED
    BY <1>5, <2>2, <2>3 DEF DocStep
<1> QED
  BY <1>4, <1>5

LEMMA AskIsDocStep ==
    ASSUME NEW c \in Clients, NEW r \in DocumentStore!Request, AskedDocuments[c] = NoTx,
           AskedDocuments' = [AskedDocuments EXCEPT ![c] = r],
           UNCHANGED <<Shelf, docAnswer>>
    PROVE  DocStep
<1>1. DocumentStore!NoTx = NoTx
  BY DEF DocumentStore!NoTx, NoTx
<1>2. AskedDocuments'[c] = r
  BY DEF AskedDocuments
<1>3. r.op # "none" /\ NoTx.op = "none"
  BY DEF DocumentStore!Request, NoTx
<1>4. AskedDocuments'[c] # AskedDocuments[c]
  BY <1>2, <1>3
<1>5. DocumentStore!Ask(c)
  BY <1>1, <1>2 DEF DocumentStore!Ask
<1> QED
  BY <1>4, <1>5 DEF DocStep, DocumentStore!Next

\* What is on the shelf under a key.
LEMMA OnShelf ==
    ASSUME DocumentsInv
    PROVE  /\ Shelf \in [Keys -> [data : Data] \cup {Absent}]
           /\ \A coll \in Collections, u \in Uuids :
                /\ <<coll, u>> \in Keys
                /\ InCollection(coll, u) => /\ Shelf[<<coll, u>>] = [data |-> documents[u].data]
                                            /\ Shelf[<<coll, u>>] # Absent
                                            /\ Shelf[<<coll, u>>] = Body(documents[u])
                /\ ~InCollection(coll, u) => Shelf[<<coll, u>>] = Absent
<1>1. \A u \in Uuids : documents[u] \in Document \cup {Absent}
  BY DEF DocumentsInv, DocumentsTypeOK
<1>2. \A k \in Keys : k[1] \in Collections /\ k[2] \in Uuids
  BY DEF Keys
<1>3. \A u \in Uuids : /\ Body(documents[u]) \in [data : Data] \cup {Absent}
                       /\ documents[u] # Absent => Body(documents[u]) = [data |-> documents[u].data]
                       /\ documents[u] # Absent => Body(documents[u]) # Absent
  BY <1>1, BodyTyped
<1>4. Shelf \in [Keys -> [data : Data] \cup {Absent}]
  BY <1>2, <1>3 DEF Shelf
<1>5. ASSUME NEW coll \in Collections, NEW u \in Uuids
      PROVE  /\ <<coll, u>> \in Keys
             /\ Shelf[<<coll, u>>] = IF InCollection(coll, u) THEN Body(documents[u]) ELSE Absent
  <2>1. <<coll, u>> \in Keys /\ <<coll, u>>[1] = coll /\ <<coll, u>>[2] = u
    BY DEF Keys
  <2> QED
    BY <2>1 DEF Shelf
<1> QED
  BY <1>3, <1>4, <1>5 DEF InCollection

LEMMA DocPlainIsStep ==
    ASSUME DocumentsInv, NEW c \in Clients, DocAnswersPlainly(c)
    PROVE  DocStep
<1>1. PICK a : DocPlainAnswer(a) /\ DocAnswers(c, a)
  BY DEF DocAnswersPlainly
<1>2. AskedDocuments[c] = NoTx
  BY DEF DocAnswersPlainly, Free, AskedDocuments, AskedOf
<1>3. AskedDocuments' = [AskedDocuments EXCEPT ![c] = NoTx] /\ UNCHANGED <<Shelf, AskedDocuments>>
  <2>1. UNCHANGED <<Shelf, AskedDocuments>>
    BY <1>1 DEF DocAnswers, Shelf, AskedDocuments, InCollection
  <2>2. AskedDocuments = [AskedDocuments EXCEPT ![c] = NoTx]
    BY <1>2 DEF AskedDocuments
  <2> QED
    BY <2>1, <2>2
<1>4. docAnswer' = [docAnswer EXCEPT ![c] = a]
  BY <1>1 DEF DocAnswers
<1>5. PICK k : k \in Keys
  <2>1. PICK coll \in Collections : TRUE
    BY DocumentsAssumption
  <2>2. PICK u \in Uuids : TRUE
    BY DocumentsAssumption
  <2>3. <<coll, u>> \in Keys
    BY DEF Keys
  <2> QED
    BY <2>3
<1>6. CASE a = Reply(400, Absent)
  <2>1. DocumentStore!Reply(400, Absent) = Reply(400, Absent) /\ DocumentStore!NoTx = NoTx
    BY DEF DocumentStore!Reply, Reply, DocumentStore!NoTx, NoTx
  <2>2. DocumentStore!Refuse(c)
    BY <1>2, <1>3, <1>4, <1>6, <2>1 DEF DocumentStore!Refuse
  <2>3. CASE docAnswer'[c] # docAnswer[c]
    BY <2>2, <2>3 DEF DocStep, DocumentStore!Next
  <2>4. CASE docAnswer'[c] = docAnswer[c]
    <3>1. docAnswer' = docAnswer
      BY <1>4, <2>4 DEF DocumentsInv, DocumentsTypeOK
    <3> QED
      BY <1>3, <3>1 DEF DocStep
  <2> QED
    BY <2>3, <2>4
<1>7. CASE a = Reply(404, Absent)
  <2> DEFINE r == [op |-> "read", key |-> k]
  <2>1. r \in DocumentStore!Request /\ r.op # "create"
    BY <1>5 DEF DocumentStore!Request
  <2> HIDE DEF r
  <2> QED
    BY <1>2, <1>3, <1>4, <1>7, <2>1, AnswerIsDocStep
<1>8. CASE \E d \in Data : a = Reply(201, [data |-> d])
  <2>1. PICK d \in Data : a = Reply(201, [data |-> d])
    BY <1>8
  <2> DEFINE r == [op |-> "create", key |-> k, change |-> [data |-> d]]
  <2>2. r \in DocumentStore!Request /\ r.op = "create" /\ r.change = [data |-> d]
    BY <1>5 DEF DocumentStore!Request
  <2> HIDE DEF r
  <2>3. DocumentStore!Answer(r) = a
    BY <2>1, <2>2 DEF DocumentStore!Answer, DocumentStore!Reply, Reply
  <2> QED
    BY <1>2, <1>3, <1>4, <2>2, <2>3, AnswerIsDocStep
<1>9. CASE \E coll \in Collections, u \in Uuids :
              InCollection(coll, u) /\ a = Reply(200, Body(documents[u]))
  <2>1. PICK coll \in Collections, u \in Uuids :
           InCollection(coll, u) /\ a = Reply(200, Body(documents[u]))
    BY <1>9
  <2> DEFINE key == <<coll, u>>
             r   == [op |-> "read", key |-> key]
  <2>2. key \in Keys /\ Shelf[key] = Body(documents[u]) /\ Shelf[key] # Absent
    BY <2>1, OnShelf
  <2> HIDE DEF key
  <2>3. r \in DocumentStore!Request /\ r.op = "read" /\ r.key = key
    BY <2>2 DEF DocumentStore!Request
  <2> HIDE DEF r
  <2>4. DocumentStore!Found(r) /\ DocumentStore!After(r) = Shelf[key]
    BY <2>2, <2>3 DEF DocumentStore!Found, DocumentStore!After
  <2>5. DocumentStore!Answer(r) = a
    BY <2>1, <2>2, <2>3, <2>4 DEF DocumentStore!Answer, DocumentStore!Reply, Reply
  <2>6. Shelf' = [Shelf EXCEPT ![r.key] = DocumentStore!After(r)]
    BY <1>3, <2>2, <2>3, <2>4, OnShelf
  <2> QED
    BY <1>2, <1>3, <1>4, <2>3, <2>5, <2>6, AnswerIsDocStep
<1> QED
  BY <1>1, <1>6, <1>7, <1>8, <1>9 DEF DocPlainAnswer

\* What a transaction needs to be the request of a client.
DocTxKnows(tx) ==
    /\ tx.op \in {"create", "update", "delete"}
    /\ tx.op = "create" => tx.doc \in Document
    /\ tx.op = "update" => /\ tx.was \in Document /\ tx.doc \in Document
                           /\ tx.doc.collection = tx.was.collection
    /\ tx.op = "delete" => tx.was \in Document /\ tx.doc = Absent

CollectionOf(tx) == IF tx.op = "create" THEN tx.doc.collection ELSE tx.was.collection

LEMMA RequestOfDocTx ==
    ASSUME NEW tx \in DocTx, DocTxKnows(tx)
    PROVE  /\ AskedOf(tx) \in DocumentStore!Request
           /\ AskedOf(tx).op = tx.op
           /\ AskedOf(tx).key = <<CollectionOf(tx), tx.id>>
           /\ CollectionOf(tx) \in Collections
           /\ tx.op # "delete" => /\ AskedOf(tx).change = [data |-> tx.doc.data]
                                  /\ Body(tx.doc) = [data |-> tx.doc.data]
                                  /\ tx.doc.data \in Data
<1> DEFINE key == <<CollectionOf(tx), tx.id>>
<1>1. CollectionOf(tx) \in Collections /\ tx.id \in Uuids /\ tx.op # "none"
  BY DEF DocTxKnows, CollectionOf, DocTx, Document
<1>2. key \in Keys
  BY <1>1 DEF Keys
<1>3. CASE tx.op = "delete"
  <2>1. AskedOf(tx) = [op |-> "delete", key |-> key]
    BY <1>3 DEF AskedOf, CollectionOf
  <2> HIDE DEF key
  <2>2. AskedOf(tx) \in DocumentStore!Request /\ AskedOf(tx).op = "delete" /\ AskedOf(tx).key = key
    BY <1>2, <2>1 DEF DocumentStore!Request
  <2> QED
    BY <1>1, <1>3, <2>2 DEF key
<1>4. CASE tx.op # "delete"
  <2>1. tx.doc \in Document /\ tx.op \in {"create", "update"}
    BY <1>4 DEF DocTxKnows
  <2>2. tx.doc # Absent /\ tx.doc.data \in Data
    BY <2>1, DocumentsAssumption DEF Document
  <2>3. Body(tx.doc) = [data |-> tx.doc.data]
    BY <2>2 DEF Body
  <2>4. AskedOf(tx) = [op |-> tx.op, key |-> key, change |-> [data |-> tx.doc.data]]
    BY <1>1, <1>4, <2>3 DEF AskedOf, CollectionOf
  <2> HIDE DEF key
  <2>5. /\ AskedOf(tx) \in DocumentStore!Request /\ AskedOf(tx).op = tx.op
        /\ AskedOf(tx).key = key /\ AskedOf(tx).change = [data |-> tx.doc.data]
    BY <1>2, <2>1, <2>2, <2>4 DEF DocumentStore!Request
  <2> QED
    BY <1>1, <2>2, <2>3, <2>5 DEF key
<1> QED
  BY <1>3, <1>4

LEMMA DocStartsIsStep ==
    ASSUME DocumentsInv, NEW c \in Clients, NEW tx \in DocTx, DocStarts(c, tx)
    PROVE  DocStep
<1>1. DocTxKnows(tx)
  BY DEF DocStarts, DocTxKnows
<1>2. AskedOf(tx) \in DocumentStore!Request
  BY <1>1, RequestOfDocTx
<1>3. AskedDocuments[c] = NoTx
  BY DEF DocStarts, Free, AskedDocuments, AskedOf
<1>4. AskedDocuments' = [AskedDocuments EXCEPT ![c] = AskedOf(tx)]
  <2>1. \A d \in Clients : docTx'[d] = IF d = c THEN tx ELSE docTx[d]
    BY DEF DocStarts, DocumentsInv, DocumentsTypeOK
  <2> QED
    BY <2>1 DEF AskedDocuments
<1>5. UNCHANGED <<Shelf, docAnswer>>
  BY DEF DocStarts, Shelf, InCollection
<1> QED
  BY <1>2, <1>3, <1>4, <1>5, AskIsDocStep

\* The commit of a transaction changes what is on the shelf under its key, and
\* under no other.
LEMMA CommitOnShelf ==
    ASSUME DocumentsInv, DocumentsInv', NEW c \in Clients, docTx[c].op # "none",
           documents' = [documents EXCEPT ![docTx[c].id] = docTx[c].doc]
    PROVE  Shelf' = [Shelf EXCEPT ![AskedOf(docTx[c]).key] = Body(docTx[c].doc)]
<1> DEFINE tx  == docTx[c]
           key == <<CollectionOf(tx), tx.id>>
<1>1. tx \in DocTx /\ tx.op \in {"create", "update", "delete"} /\ DocTxSound(c)
  BY HeldDocTx DEF DocumentsInv, DocumentsTypeOK, DocTxInv
<1>2. DocTxKnows(tx)
  BY <1>1 DEF DocTxSound, DocTxKnows
<1>3. AskedOf(tx).key = key /\ CollectionOf(tx) \in Collections /\ tx.id \in Uuids
  BY <1>1, <1>2, RequestOfDocTx DEF DocTx
<1>4. /\ \A u \in Uuids : u # tx.id => documents'[u] = documents[u]
      /\ documents'[tx.id] = tx.doc
  BY <1>3 DEF DocumentsInv, DocumentsTypeOK
\* Only the key's collection ever has the document.
<1>5. \A coll \in Collections : coll # CollectionOf(tx) => ~InCollection(coll, tx.id)
  BY <1>1, <1>2 DEF DocTxSound, DocTxKnows, CollectionOf, InCollection
<1>6. \A coll \in Collections : coll # CollectionOf(tx)
         => ~(documents'[tx.id] # Absent /\ documents'[tx.id].collection = coll)
  BY <1>1, <1>2, <1>4 DEF DocTxKnows, CollectionOf
<1>7. tx.op # "delete" => tx.doc # Absent /\ tx.doc.collection = CollectionOf(tx)
  BY <1>2, DocumentsAssumption DEF DocTxKnows, CollectionOf
<1>8. tx.op = "delete" => tx.doc = Absent /\ Body(tx.doc) = Absent
  BY <1>2 DEF DocTxKnows, Body
<1>9. \A k \in Keys : /\ k[1] \in Collections /\ k[2] \in Uuids /\ k = <<k[1], k[2]>>
  BY DEF Keys
<1>10. Shelf' = [k \in Keys |-> IF documents'[k[2]] # Absent /\ documents'[k[2]].collection = k[1]
                                 THEN Body(documents'[k[2]]) ELSE Absent]
  BY DEF Shelf, InCollection, Body
<1> HIDE DEF tx
<1>11. ASSUME NEW k \in Keys
       PROVE  Shelf'[k] = IF k = key THEN Body(tx.doc) ELSE Shelf[k]
  <2>1. CASE k[2] # tx.id
    <3>1. k # key /\ documents'[k[2]] = documents[k[2]]
      BY <1>4, <1>9, <2>1
    <3> QED
      BY <1>10, <3>1 DEF Shelf, InCollection
  <2>2. CASE k[2] = tx.id /\ k[1] # CollectionOf(tx)
    <3>1. k # key
      BY <2>2
    <3>2. Shelf'[k] = Absent
      BY <1>6, <1>9, <1>10, <2>2
    <3>3. Shelf[k] = Absent
      BY <1>5, <1>9, <2>2 DEF Shelf
    <3> QED
      BY <3>1, <3>2, <3>3
  <2>3. CASE k[2] = tx.id /\ k[1] = CollectionOf(tx)
    <3>1. k = key
      BY <1>9, <2>3
    <3>2. Shelf'[k] = Body(tx.doc)
      BY <1>4, <1>7, <1>8, <1>10, <2>3
    <3> QED
      BY <3>1, <3>2
  <2> QED
    BY <2>1, <2>2, <2>3
<1>12. Shelf' = [k \in Keys |-> Shelf'[k]] /\ Shelf = [k \in Keys |-> Shelf[k]]
  BY DEF Shelf
<1> QED
  BY <1>3, <1>11, <1>12 DEF tx

LEMMA CommitIsDocStep ==
    ASSUME DocumentsInv, NEW c \in Clients, CommitDocument(c) \/ DocumentFails(c)
    PROVE  DocStep
<1> DEFINE tx == docTx[c]
           r  == AskedOf(tx)
<1>1. PICK committed \in BOOLEAN :
        /\ DocAnswerOf(tx, committed) \in DocReplies
        /\ DocEnds(c, DocAnswerOf(tx, committed))
        /\ committed => documents' = [documents EXCEPT ![tx.id] = tx.doc]
  BY CommitDocumentEnds
<1>2. DocumentsInv'
  BY <1>1, DocEndsKeepsInv
<1>3. tx \in DocTx /\ tx.op \in {"create", "update", "delete"} /\ tx.op # "none" /\ DocTxSound(c)
  BY <1>1, HeldDocTx DEF DocEnds, Free, DocumentsInv, DocumentsTypeOK, DocTxInv
<1>4. DocTxKnows(tx)
  BY <1>3 DEF DocTxSound, DocTxKnows
<1>5. /\ r \in DocumentStore!Request /\ r.op = tx.op
      /\ r.key = <<CollectionOf(tx), tx.id>> /\ CollectionOf(tx) \in Collections
      /\ tx.op # "delete" => /\ r.change = [data |-> tx.doc.data]
                             /\ Body(tx.doc) = [data |-> tx.doc.data] /\ tx.doc.data \in Data
  BY <1>3, <1>4, RequestOfDocTx
<1>6. AskedDocuments[c] = r
  BY DEF AskedDocuments
<1>7. AskedDocuments' = [AskedDocuments EXCEPT ![c] = NoTx]
  <2>1. \A d \in Clients : docTx'[d] = IF d = c THEN NoTx ELSE docTx[d]
    BY <1>1 DEF DocEnds, DocumentsInv, DocumentsTypeOK
  <2>2. AskedOf(NoTx) = NoTx
    BY DEF AskedOf, NoTx
  <2> QED
    BY <2>1, <2>2 DEF AskedDocuments
<1>8. tx.op # "create" =>
        /\ Shelf[r.key] = [data |-> tx.was.data] /\ Shelf[r.key] # Absent
  <2>1. ASSUME tx.op # "create"
        PROVE  Shelf[r.key] = [data |-> tx.was.data] /\ Shelf[r.key] # Absent
    <3>1. tx.id \in Uuids /\ tx.was = documents[tx.id] /\ tx.was \in Document /\ tx.was # Absent
      BY <1>3, <2>1, DocumentsAssumption DEF DocTx, DocTxSound
    <3>2. InCollection(CollectionOf(tx), tx.id)
      BY <2>1, <3>1 DEF InCollection, CollectionOf
    <3> QED
      BY <1>5, <3>1, <3>2, OnShelf
  <2> QED
    BY <2>1
<1> HIDE DEF r
<1>9. DocumentStore!After(r) = Body(tx.doc)
  <2>1. CASE tx.op = "create"
    BY <1>5, <2>1 DEF DocumentStore!After
  <2>2. CASE tx.op = "delete"
    BY <1>4, <1>5, <2>2 DEF DocumentStore!After, DocTxKnows, Body
  <2>3. CASE tx.op = "update"
    <3>1. DocumentStore!Found(r) /\ Shelf[r.key] = [data |-> tx.was.data]
      BY <1>8, <2>3 DEF DocumentStore!Found
    <3>2. tx.doc.data # Keep
      BY <1>5, <2>3, DocumentsAssumption
    <3>3. DocumentStore!Merge([data |-> tx.was.data], [data |-> tx.doc.data])
            = [data |-> tx.doc.data]
      BY <3>2 DEF DocumentStore!Merge
    <3> QED
      BY <1>5, <2>3, <3>1, <3>3 DEF DocumentStore!After
  <2> QED
    BY <1>3, <2>1, <2>2, <2>3
<1>10. DocumentStore!Answer(r) = IF tx.op = "create" THEN Reply(201, Body(tx.doc))
                                 ELSE Reply(200, Body(tx.doc))
  <2>1. tx.op # "create" => DocumentStore!Found(r)
    BY <1>8 DEF DocumentStore!Found
  <2> QED
    BY <1>5, <1>9, <2>1 DEF DocumentStore!Answer, DocumentStore!Reply, Reply
<1>11. /\ docAnswer' = [docAnswer EXCEPT ![c] = DocAnswerOf(tx, committed)]
       /\ documents' \in {documents, [documents EXCEPT ![tx.id] = tx.doc]}
  BY <1>1 DEF DocEnds
<1>12. documents' = [documents EXCEPT ![tx.id] = tx.doc]
          => Shelf' = [Shelf EXCEPT ![r.key] = DocumentStore!After(r)]
  BY <1>2, <1>3, <1>9, CommitOnShelf DEF r
<1>13. documents' = documents => Shelf' = Shelf
  BY DEF Shelf, InCollection
<1>14. CASE committed
  <2>1. docAnswer' = [docAnswer EXCEPT ![c] = DocumentStore!Answer(r)]
    BY <1>10, <1>11, <1>14 DEF DocAnswerOf
  <2> QED
    BY <1>1, <1>5, <1>6, <1>7, <1>12, <1>14, <2>1, AnswerIsDocStep
<1>15. CASE ~committed
  <2>1. docAnswer' = [docAnswer EXCEPT ![c] = IF r.op = "create" THEN DocumentStore!Answer(r)
                                              ELSE Reply(404, Absent)]
    BY <1>5, <1>10, <1>11, <1>15 DEF DocAnswerOf
  <2>2. Shelf' \in {Shelf, [Shelf EXCEPT ![r.key] = DocumentStore!After(r)]}
    BY <1>11, <1>12, <1>13
  <2> QED
    BY <1>5, <1>6, <1>7, <2>1, <2>2, AnswerIsDocStep
<1> QED
  BY <1>14, <1>15

\* DocumentsImplementStore: the statements that wait for row locks, their
\* commits and their failures behave as a store in which every request is one
\* instant, on the document of an id in a collection.
THEOREM DocumentsAreAStore == DocumentsSpec => DocumentsImplementStore
<1>1. ASSUME DocumentsInit PROVE DocumentStore!Init
  <2>1. Shelf = [k \in Keys |-> Absent]
    <3>1. \A k \in Keys : k[2] \in Uuids
      BY DEF Keys
    <3> QED
      BY <1>1, <3>1 DEF Shelf, InCollection, DocumentsInit
  <2>2. AskedDocuments = [c \in Clients |-> NoTx]
    BY <1>1 DEF AskedDocuments, AskedOf, DocumentsInit, NoTx
  <2>3. docAnswer = [c \in Clients |-> Reply(0, Absent)]
    BY <1>1 DEF DocumentsInit
  <2> QED
    BY <2>1, <2>2, <2>3 DEF DocumentStore!Init, DocumentStore!NoTx, NoTx, DocumentStore!Reply, Reply
<1>2. DocumentsInv /\ [DocumentsNext]_docVars
        => [DocumentStore!Next]_<<Shelf, AskedDocuments, docAnswer>>
  <2>1. ASSUME DocumentsInv, DocumentsNext PROVE DocStep
    <3>1. PICK c \in Clients :
            \/ DocAnswersPlainly(c)
            \/ \E tx \in DocTx : DocStarts(c, tx)
            \/ CommitDocument(c) \/ DocumentFails(c)
      BY <2>1, DocumentsSteps
    <3> QED
      BY <2>1, <3>1, DocPlainIsStep, DocStartsIsStep, CommitIsDocStep
  <2>2. ASSUME UNCHANGED docVars PROVE UNCHANGED <<Shelf, AskedDocuments, docAnswer>>
    BY <2>2 DEF docVars, Shelf, AskedDocuments, InCollection
  <2> QED
    BY <2>1, <2>2 DEF DocStep
<1> QED
  BY <1>1, <1>2, DocumentsInvariant, PTL DEF DocumentsSpec, DocumentsImplementStore,
                                             DocumentStore!Spec

-----------------------------------------------------------------------------
(* Lists: enumerations in ascending order, and the induction they need.    *)

\* A set of natural numbers that is not empty has a least member.
LEMMA LeastExists ==
    ASSUME NEW T, T \subseteq Nat, T # {}
    PROVE  \E x \in T : \A y \in T : x <= y
<1> DEFINE R == {p \in Nat \X Nat : p[1] < p[2]}
<1>1. IsWellFoundedOn(R, Nat)
  BY NatLessThanWellFounded DEF OpToRel
<1>2. PICK x \in T : \A y \in T : ~ (<<y, x>> \in R)
  <2> HIDE DEF R
  <2> QED
    BY <1>1, WFMin, Zenon
<1>3. ASSUME NEW y \in T
      PROVE  x <= y
  <2>1. x \in Nat /\ y \in Nat
    OBVIOUS
  <2>2. ~ (<<y, x>> \in R)
    BY <1>2
  <2>3. ~ (y < x)
    BY <2>1, <2>2
  <2> QED
    BY <2>1, <2>3
<1> QED
  BY <1>3

\* Induction, for a set of natural numbers.
LEMMA AllNumbers ==
    ASSUME NEW G, 0 \in G, \A n \in Nat : n \in G => n + 1 \in G
    PROVE  \A n \in Nat : n \in G
<1> DEFINE T == {n \in Nat : n \notin G}
<1> SUFFICES ASSUME T # {} PROVE FALSE
  OBVIOUS
<1>1. PICK x \in T : \A y \in T : x <= y
  <2>1. T \subseteq Nat
    OBVIOUS
  <2> HIDE DEF T
  <2> QED
    BY <2>1, LeastExists
<1>2. x - 1 \in Nat /\ x - 1 \notin T
  BY <1>1
<1>3. (x - 1) + 1 \in G
  BY <1>2
<1> QED
  BY <1>1, <1>3

\* s enumerates S in ascending order.
Ascends(s, S) ==
    /\ s \in Seq(S)
    /\ \A m, n \in 1..Len(s) : m < n => s[m] < s[n]
    /\ \A x \in S : \E n \in 1..Len(s) : s[n] = x

\* One function from a finite set to one of its size that repeats nothing
\* misses nothing.
LEMMA InjectionIsOnto ==
    ASSUME NEW S, IsFiniteSet(S), NEW s \in [1..Cardinality(S) -> S],
           \A m, n \in 1..Cardinality(S) : s[m] = s[n] => m = n
    PROVE  \A x \in S : \E n \in 1..Cardinality(S) : s[n] = x
<1> DEFINE D == 1..Cardinality(S)
<1>1. Cardinality(S) \in Nat
  BY FS_CardinalityType
<1>2. Cardinality(D) = Cardinality(S)
  BY <1>1, FS_Interval
<1>3. s \in Injection(D, S)
  BY Fun_IsInj
<1>4. s \in Surjection(D, S)
  BY <1>2, <1>3, FS_Injection
<1> HIDE DEF D
<1>5. \A x \in S : \E n \in D : s[n] = x
  BY <1>4, Fun_SurjectionProperties
<1> QED
  BY <1>5 DEF D

\* An enumeration that repeats nothing is as long as the set is large.
LEMMA AscendsLength ==
    ASSUME NEW S \in SUBSET Nat, NEW s, Ascends(s, S)
    PROVE  IsFiniteSet(S) /\ Cardinality(S) = Len(s)
<1>1. s \in [1..Len(s) -> S] /\ Len(s) \in Nat
  BY DEF Ascends
<1>2. \A m, n \in 1..Len(s) : s[m] = s[n] => m = n
  <2> SUFFICES ASSUME NEW m \in 1..Len(s), NEW n \in 1..Len(s), s[m] = s[n], m < n
               PROVE  FALSE
    BY <1>1
  <2>1. s[m] \in Nat /\ s[n] \in Nat
    BY <1>1
  <2>2. s[m] < s[n]
    BY DEF Ascends
  <2> QED
    BY <2>1, <2>2
<1>3. s \in Bijection(1..Len(s), S)
  BY <1>1, <1>2, Fun_IsBij DEF Ascends
<1>4. ExistsBijection(1..Len(s), S)
  BY <1>3, Fun_ExistsBij
<1>5. IsFiniteSet(1..Len(s)) /\ Cardinality(1..Len(s)) = Len(s)
  <2> DEFINE k == Len(s)
  <2>1. k \in Nat
    BY <1>1
  <2> HIDE DEF k
  <2>2. IsFiniteSet(1..k) /\ Cardinality(1..k) = IF 1 > k THEN 0 ELSE k - 1 + 1
    BY <2>1, FS_Interval
  <2> QED
    BY <2>1, <2>2 DEF k
<1> QED
  BY <1>4, <1>5, FS_Bijection

\* There is one such enumeration only.
LEMMA AscendsOnce ==
    ASSUME NEW S \in SUBSET Nat, NEW s, NEW t, Ascends(s, S), Ascends(t, S)
    PROVE  s = t
<1> DEFINE k == Len(s)
<1>1. Len(t) = k /\ k \in Nat
  BY AscendsLength DEF Ascends
<1>2. s \in [1..k -> S] /\ t \in [1..k -> S]
  BY <1>1 DEF Ascends
<1>3. /\ \A m, n \in 1..k : m < n => s[m] < s[n] /\ t[m] < t[n]
      /\ \A x \in S : \E n \in 1..k : s[n] = x
      /\ \A x \in S : \E n \in 1..k : t[n] = x
  BY <1>1 DEF Ascends
<1> HIDE DEF k
<1>4. \A n \in 1..k : s[n] = t[n]
  <2> DEFINE T == {n \in 1..k : s[n] # t[n]}
  <2> SUFFICES ASSUME T # {} PROVE FALSE
    OBVIOUS
  <2>1. PICK d \in T : \A y \in T : d <= y
    <3>1. T \subseteq Nat
      BY <1>1
    <3> HIDE DEF T
    <3> QED
      BY <3>1, LeastExists
  <2>2. \A n \in 1..k : s[n] \in Nat /\ t[n] \in Nat
    BY <1>2
  <2>3. d \in 1..k /\ d \in Nat /\ s[d] # t[d] /\ \A n \in 1..k : n < d => s[n] = t[n]
    BY <1>1, <2>1
  <2>4. PICK i \in 1..k : s[i] = t[d]
    BY <1>2, <1>3, <2>3
  <2>5. PICK j \in 1..k : t[j] = s[d]
    BY <1>2, <1>3, <2>3
  <2>6. i \in Nat /\ j \in Nat
    BY <1>1
  <2>7. ~ (i < d)
    \* Otherwise t[i] = s[i] = t[d] with i < d.
    <3> SUFFICES ASSUME i < d PROVE FALSE
      OBVIOUS
    <3>1. t[i] < t[d] /\ t[i] = t[d]
      BY <1>3, <2>3, <2>4
    <3> QED
      BY <2>2, <2>3, <3>1
  <2>8. ~ (j < d)
    <3> SUFFICES ASSUME j < d PROVE FALSE
      OBVIOUS
    <3>1. s[j] < s[d] /\ s[j] = s[d]
      BY <1>3, <2>3, <2>5
    <3> QED
      BY <2>2, <2>3, <3>1
  <2>9. d < i /\ d < j
    BY <2>3, <2>4, <2>5, <2>6, <2>7, <2>8
  <2>10. s[d] < t[d] /\ t[d] < s[d]
    BY <1>3, <2>3, <2>4, <2>5, <2>9
  <2> QED
    BY <2>2, <2>3, <2>10
<1>5. s = [n \in 1..k |-> s[n]] /\ t = [n \in 1..k |-> t[n]]
  BY <1>2
<1> QED
  BY <1>4, <1>5

\* One more at the end.
LEMMA AscendsOn ==
    ASSUME NEW S \in SUBSET Nat, NEW s, Ascends(s, S), NEW x \in Nat, \A y \in S : y < x
    PROVE  Ascends(Append(s, x), S \cup {x})
<1> DEFINE t == Append(s, x)
           k == Len(s)
<1>1. k \in Nat /\ s \in Seq(S) /\ s \in Seq(S \cup {x})
  BY DEF Ascends
<1>2. t \in Seq(S \cup {x}) /\ Len(t) = k + 1 /\ t[k + 1] = x
         /\ \A n \in 1..k : t[n] = s[n] /\ s[n] \in S
  BY <1>1, AppendProperties
<1> HIDE DEF t, k
<1>3. ASSUME NEW m \in 1..Len(t), NEW n \in 1..Len(t), m < n
      PROVE  t[m] < t[n]
  <2>1. CASE n = k + 1
    <3>1. m \in 1..k
      BY <1>1, <1>2, <1>3, <2>1
    <3> QED
      BY <1>2, <2>1, <3>1
  <2>2. CASE n # k + 1
    <3>1. m \in 1..k /\ n \in 1..k
      BY <1>1, <1>2, <1>3, <2>2
    <3> QED
      BY <1>2, <1>3, <3>1 DEF Ascends, k
  <2> QED
    BY <2>1, <2>2
<1>4. ASSUME NEW y \in S \cup {x}
      PROVE  \E n \in 1..Len(t) : t[n] = y
  <2>1. CASE y = x
    BY <1>1, <1>2, <2>1
  <2>2. CASE y \in S
    <3>1. PICK n \in 1..k : s[n] = y
      BY <2>2 DEF Ascends, k
    <3>2. n \in 1..Len(t)
      BY <1>1, <1>2
    <3> QED
      BY <1>2, <3>1, <3>2
  <2> QED
    BY <2>1, <2>2
<1> QED
  BY <1>2, <1>3, <1>4 DEF Ascends, t

\* A finite set of numbers has one.
LEMMA AscendsExists ==
    ASSUME NEW k \in Nat, NEW S \in SUBSET (1..k)
    PROVE  \E s : Ascends(s, S)
<1> DEFINE G == {n \in Nat : \A T \in SUBSET (1..n) : \E s : Ascends(s, T)}
<1>1. 0 \in G
  <2>1. Ascends(<<>>, {})
    BY DEF Ascends
  <2>2. \A T \in SUBSET (1..0) : T = {}
    OBVIOUS
  <2> QED
    BY <2>1, <2>2
<1>2. ASSUME NEW n \in Nat, n \in G
      PROVE  n + 1 \in G
  <2> SUFFICES ASSUME NEW T \in SUBSET (1..(n + 1))
               PROVE  \E s : Ascends(s, T)
    BY <1>2
  <2> DEFINE U == T \ {n + 1}
  <2>1. U \in SUBSET (1..n) /\ U \in SUBSET Nat /\ \A y \in U : y < n + 1
    OBVIOUS
  <2>2. PICK s : Ascends(s, U)
    BY <1>2, <2>1
  <2>3. CASE n + 1 \in T
    <3>1. U \cup {n + 1} = T
      BY <2>3
    <3>2. Ascends(Append(s, n + 1), U \cup {n + 1})
      <4> HIDE DEF U
      <4> QED
        BY <2>1, <2>2, AscendsOn
    <3> QED
      BY <3>1, <3>2
  <2>4. CASE n + 1 \notin T
    <3>1. U = T
      BY <2>4
    <3> QED
      BY <2>2, <3>1
  <2> QED
    BY <2>3, <2>4
<1> HIDE DEF G
<1>3. k \in G
  BY <1>1, <1>2, AllNumbers
<1> QED
  BY <1>3 DEF G

\* The database's order by id is one.
LEMMA ByIdAscends ==
    ASSUME NEW k \in Nat, NEW S \in SUBSET (1..k)
    PROVE  Ascends(ById(S), S)
<1> DEFINE Found(s) == \A m, n \in DOMAIN s : m < n => s[m] < s[n]
           F == [1..Cardinality(S) -> S]
           o == ById(S)
<1>1. PICK t : Ascends(t, S)
  BY AscendsExists
<1>2. S \in SUBSET Nat
  OBVIOUS
<1>3. IsFiniteSet(S) /\ Cardinality(S) = Len(t) /\ Len(t) \in Nat
  BY <1>1, <1>2, AscendsLength DEF Ascends
<1>4. t \in F /\ Found(t)
  BY <1>1, <1>3 DEF Ascends
<1>5. o = CHOOSE s \in F : Found(s)
  BY DEF ById, InOrder
<1>6. o \in F /\ Found(o)
  <2> HIDE DEF F, Found, o
  <2> QED
    BY <1>4, <1>5
<1>7. \A m, n \in 1..Cardinality(S) : o[m] = o[n] => m = n
  <2> HIDE DEF o
  <2> SUFFICES ASSUME NEW m \in 1..Cardinality(S), NEW n \in 1..Cardinality(S), o[m] = o[n], m < n
               PROVE  FALSE
    BY <1>3
  <2>1. o[m] \in Nat /\ o[n] \in Nat /\ o[m] < o[n]
    BY <1>2, <1>6
  <2> QED
    BY <2>1
<1> HIDE DEF o
<1>8. \A x \in S : \E n \in 1..Cardinality(S) : o[n] = x
  BY <1>3, <1>6, <1>7, InjectionIsOnto
<1>9. o \in Seq(S) /\ Len(o) = Cardinality(S)
  BY <1>3, <1>6, SeqDef
<1> QED
  BY <1>6, <1>8, <1>9 DEF Ascends, o

-----------------------------------------------------------------------------
(* Both repositories list the same todos.                                  *)

\* The loop of List after n rounds.
Round(all, completed, f, n) ==
    IF n = 0 THEN <<>>
    ELSE IF Passes(all[n], completed) THEN Append(f[n - 1], all[n])
    ELSE f[n - 1]

\* f has what the loop has kept after each of its rounds up to k.
Loop(all, completed, k, f) == f = [n \in 0..k |-> Round(all, completed, f, n)]

LEMMA LoopExists ==
    ASSUME NEW all, NEW completed, NEW k \in Nat
    PROVE  \E f : Loop(all, completed, k, f)
<1> DEFINE G == {n \in Nat : \E f : Loop(all, completed, n, f)}
<1>1. 0 \in G
  <2>1. Loop(all, completed, 0, [n \in 0..0 |-> <<>>])
    BY DEF Loop, Round
  <2> QED
    BY <2>1
<1>2. ASSUME NEW n \in Nat, n \in G
      PROVE  n + 1 \in G
  <2>1. PICK f : Loop(all, completed, n, f)
    BY <1>2
  <2> DEFINE g == [m \in 0..(n + 1) |-> IF m = n + 1 THEN Round(all, completed, f, m) ELSE f[m]]
  <2>2. \A m \in 0..n : f[m] = Round(all, completed, f, m)
    BY <2>1 DEF Loop
  <2>3. \A m \in 0..n : g[m] = f[m]
    OBVIOUS
  <2>4. g[n + 1] = Round(all, completed, f, n + 1)
    OBVIOUS
  <2>5. ASSUME NEW m \in 0..(n + 1)
        PROVE  g[m] = Round(all, completed, g, m)
    <3>1. Round(all, completed, g, m) = Round(all, completed, f, m)
      <4>1. CASE m = 0
        BY <4>1 DEF Round
      <4>2. CASE m # 0
        <5>1. m - 1 \in 0..n
          BY <4>2
        <5>2. g[m - 1] = f[m - 1]
          BY <2>3, <5>1
        <5> HIDE DEF g
        <5> QED
          BY <5>2 DEF Round
      <4> QED
        BY <4>1, <4>2
    <3>2. g[m] = Round(all, completed, f, m)
      <4>1. CASE m = n + 1
        BY <2>4, <4>1
      <4>2. CASE m # n + 1
        <5>1. m \in 0..n
          BY <4>2
        <5> HIDE DEF g
        <5> QED
          BY <2>2, <2>3, <5>1
      <4> QED
        BY <4>1, <4>2
    <3> QED
      BY <3>1, <3>2
  <2>6. g = [m \in 0..(n + 1) |-> g[m]]
    OBVIOUS
  <2> HIDE DEF g
  <2>7. g = [m \in 0..(n + 1) |-> Round(all, completed, g, m)]
    BY <2>5, <2>6
  <2> QED
    BY <2>7 DEF Loop
<1> HIDE DEF G
<1>3. k \in G
  BY <1>1, <1>2, AllNumbers
<1> QED
  BY <1>3 DEF G

\* What the loop keeps of an ascending sequence is what passes, ascending.
LEMMA LoopKeeps ==
    ASSUME NEW P \in SUBSET Nat, NEW all, Ascends(all, P), NEW completed,
           NEW f, Loop(all, completed, Len(all), f)
    PROVE  Ascends(f[Len(all)], {x \in P : Passes(x, completed)})
<1> DEFINE Seen(n) == {x \in P : Passes(x, completed) /\ \E m \in 1..n : all[m] = x}
           G == {n \in Nat : n <= Len(all) => Ascends(f[n], Seen(n))}
<1>1. Len(all) \in Nat /\ all \in [1..Len(all) -> P]
  BY DEF Ascends
<1>2. \A n \in 0..Len(all) : f[n] = Round(all, completed, f, n)
  BY DEF Loop
<1>3. 0 \in G
  <2>1. Ascends(<<>>, {})
    BY DEF Ascends
  <2>2. Seen(0) = {}
    OBVIOUS
  <2>3. f[0] = <<>>
    BY <1>1, <1>2 DEF Round
  <2> QED
    BY <2>1, <2>2, <2>3
<1>4. ASSUME NEW n \in Nat, n \in G
      PROVE  n + 1 \in G
  <2> SUFFICES ASSUME n + 1 <= Len(all)
               PROVE  Ascends(f[n + 1], Seen(n + 1))
    OBVIOUS
  <2> DEFINE x == all[n + 1]
  <2>1. Ascends(f[n], Seen(n))
    BY <1>1, <1>4
  <2>2. x \in P /\ x \in Nat
    <3>1. n + 1 \in 1..Len(all)
      BY <1>1
    <3>2. \A m \in 1..Len(all) : all[m] \in P
      BY <1>1
    <3> QED
      BY <3>1, <3>2
  <2>3. \A y \in Seen(n) : y < x
    BY <1>1 DEF Ascends
  <2>4. f[n + 1] = IF Passes(x, completed) THEN Append(f[n], x) ELSE f[n]
    <3>1. n + 1 \in 0..Len(all) /\ n + 1 # 0 /\ (n + 1) - 1 = n
      BY <1>1
    <3>2. f[n + 1] = Round(all, completed, f, n + 1)
      BY <1>2, <3>1
    <3> QED
      BY <3>1, <3>2 DEF Round
  <2>5. CASE Passes(x, completed)
    <3>1. Seen(n + 1) = Seen(n) \cup {x}
      BY <2>2, <2>5
    <3>2. Seen(n) \in SUBSET Nat
      OBVIOUS
    <3>3. Ascends(Append(f[n], x), Seen(n) \cup {x})
      <4> HIDE DEF Seen, x
      <4> QED
        BY <2>1, <2>2, <2>3, <3>2, AscendsOn
    <3> QED
      BY <2>4, <2>5, <3>1, <3>3
  <2>6. CASE ~Passes(x, completed)
    <3>1. Seen(n + 1) = Seen(n)
      BY <2>2, <2>6
    <3> QED
      BY <2>1, <2>4, <2>6, <3>1
  <2> QED
    BY <2>5, <2>6
<1>5. Len(all) \in G
  <2> HIDE DEF G
  <2> QED
    BY <1>1, <1>3, <1>4, AllNumbers
<1>6. Seen(Len(all)) = {x \in P : Passes(x, completed)}
  BY DEF Ascends
<1>7. Ascends(f[Len(all)], Seen(Len(all)))
  <2> HIDE DEF Seen
  <2>1. \A n \in G : n <= Len(all) => Ascends(f[n], Seen(n))
    OBVIOUS
  <2>2. Len(all) <= Len(all)
    BY <1>1
  <2> HIDE DEF G
  <2> QED
    BY <1>5, <2>1, <2>2, Zenon
<1> HIDE DEF Seen, G
<1> QED
  BY <1>6, <1>7, Zenon

\* The repository's own order is that of the ids.
LEMMA FindAllAscends ==
    ASSUME TodosInv
    PROVE  Ascends(FindAll, {i \in TodoIds : Present(i)})
<1> DEFINE P == {i \in TodoIds : Present(i)}
<1>1. CASE backend = "memory"
  <2>1. FindAll = vector /\ vector \in Seq(TodoIds) /\ VectorInv
    BY <1>1 DEF FindAll, TodosInv, TodosTypeOK
  <2>2. \A n \in 1..Len(vector) : vector[n] \in P
    BY <1>1, <2>1 DEF VectorInv
  <2>3. Len(vector) \in Nat /\ vector \in [1..Len(vector) -> P]
    BY <2>1, <2>2
  <2>4. vector \in Seq(P)
    <3> HIDE DEF P
    <3> QED
      BY <2>3, SeqDef
  <2> QED
    BY <1>1, <2>1, <2>4 DEF VectorInv, Ascends
<1>2. CASE backend # "memory"
  <2>1. FindAll = ById(P)
    BY <1>2 DEF FindAll
  <2>2. MaxTodos \in Nat /\ P \in SUBSET (1..MaxTodos)
    BY TodosAssumption DEF TodoIds
  <2> HIDE DEF P
  <2> QED
    BY <2>1, <2>2, ByIdAscends DEF P
<1> QED
  BY <1>1, <1>2

\* With any filter, both repositories list every todo that passes it once, and
\* no other, by id.
THEOREM BothListTheSame == TodosSpec => []ListsAgree
<1>1. ASSUME TodosInv
      PROVE  ListsAgree
  <2> SUFFICES ASSUME NEW completed \in Filters
               PROVE  List(completed)
                        = ById({i \in TodoIds : Present(i) /\ Passes(i, completed)})
    BY DEF ListsAgree
  <2> DEFINE P == {i \in TodoIds : Present(i)}
             F == {i \in TodoIds : Present(i) /\ Passes(i, completed)}
             all == FindAll
             g == CHOOSE f : Loop(all, completed, Len(all), f)
  <2>1. Ascends(all, P)
    BY <1>1, FindAllAscends
  <2>2. Len(all) \in Nat
    BY <2>1 DEF Ascends
  <2>3. Loop(all, completed, Len(all), g)
    BY <2>2, LoopExists
  <2>4. List(completed) = g[Len(all)]
    BY Zenon DEF List, Loop, Round
  <2>5. P \in SUBSET Nat /\ F \in SUBSET (1..MaxTodos) /\ F \in SUBSET Nat /\ MaxTodos \in Nat
    BY TodosAssumption DEF TodoIds
  <2>6. {x \in P : Passes(x, completed)} = F
    OBVIOUS
  <2> HIDE DEF P, F, g, all
  <2>7. Ascends(g[Len(all)], F)
    BY <2>1, <2>3, <2>5, <2>6, LoopKeeps
  <2>8. Ascends(ById(F), F)
    BY <2>5, ByIdAscends
  <2>9. List(completed) = ById(F)
    BY <2>4, <2>5, <2>7, <2>8, AscendsOnce
  <2> QED
    BY <2>9 DEF F
<1> QED
  BY <1>1, TodosInvariant, PTL

-----------------------------------------------------------------------------
(* A page shows the newest documents.                                      *)

\* The place in the order of creation that a document has, or will have when
\* its insertion is committed.
HasPlace(u, n) ==
    \/ documents[u] # Absent /\ documents[u].created = n
    \/ \E c \in Clients : /\ docTx[c].op = "create"
                          /\ docTx[c].id = u
                          /\ docTx[c].doc.created = n

\* No two documents have one place.
OnePlace == \A u, v \in Uuids : \A n \in Nat : HasPlace(u, n) /\ HasPlace(v, n) => u = v

\* A place that is taken was drawn.
LEMMA PlacesAreDrawn ==
    ASSUME DocumentsInv, NEW u \in Uuids, NEW n, HasPlace(u, n)
    PROVE  u \in drawn /\ n <= Cardinality(drawn)
<1>1. CASE documents[u] # Absent /\ documents[u].created = n
  BY <1>1 DEF DocumentsInv, DrawnInv
<1>2. CASE \E c \in Clients : /\ docTx[c].op = "create"
                              /\ docTx[c].id = u
                              /\ docTx[c].doc.created = n
  BY <1>2 DEF DocumentsInv, DocTxInv, DocTxSound
<1> QED
  BY <1>1, <1>2 DEF HasPlace

\* The statement of an insertion takes the next place, no other one takes any.
LEMMA StartsKeepPlaces ==
    ASSUME DocumentsInv, OnePlace, NEW c \in Clients, NEW tx \in DocTx, DocStarts(c, tx)
    PROVE  OnePlace'
<1> DEFINE next == Cardinality(drawn) + 1
<1>1. /\ docTx'[c] = tx
      /\ \A d \in Clients \ {c} : docTx'[d] = docTx[d]
      /\ UNCHANGED documents
  BY DEF DocStarts, DocumentsInv, DocumentsTypeOK
<1>2. Cardinality(drawn) \in Nat
  BY DrawnIsFinite DEF DocumentsInv, DocumentsTypeOK
<1>3. ASSUME NEW u \in Uuids, NEW n, HasPlace(u, n)'
      PROVE  HasPlace(u, n) \/ (tx.op = "create" /\ u = tx.id /\ n = next)
  <2>1. CASE documents'[u] # Absent /\ documents'[u].created = n
    BY <1>1, <2>1 DEF HasPlace
  <2>2. CASE \E d \in Clients : /\ docTx'[d].op = "create"
                                /\ docTx'[d].id = u
                                /\ docTx'[d].doc.created = n
    <3>1. PICK d \in Clients : /\ docTx'[d].op = "create"
                               /\ docTx'[d].id = u
                               /\ docTx'[d].doc.created = n
      BY <2>2
    <3>2. CASE d = c
      BY <1>1, <3>1, <3>2 DEF DocStarts
    <3>3. CASE d # c
      BY <1>1, <3>1, <3>3 DEF HasPlace
    <3> QED
      BY <3>2, <3>3
  <2> QED
    BY <1>3, <2>1, <2>2 DEF HasPlace
<1>4. \A u \in Uuids : ~HasPlace(u, next)
  BY <1>2, PlacesAreDrawn
<1> QED
  BY <1>3, <1>4 DEF OnePlace

\* A commit gives a document the place that its transaction had, or leaves it
\* the one it has.
LEMMA EndsKeepPlaces ==
    ASSUME DocumentsInv, OnePlace, NEW c \in Clients, NEW a, DocEnds(c, a)
    PROVE  OnePlace'
<1> DEFINE tx == docTx[c]
<1>1. tx \in DocTx /\ tx.op \in {"create", "update", "delete"} /\ tx.id \in Uuids /\ DocTxSound(c)
  BY HeldDocTx DEF DocEnds, Free, DocumentsInv, DocumentsTypeOK, DocTxInv
<1>2. /\ docTx'[c].op = "none"
      /\ \A d \in Clients \ {c} : docTx'[d] = docTx[d]
  BY DEF DocEnds, NoTx, DocumentsInv, DocumentsTypeOK
<1>3. /\ \A u \in Uuids : u # tx.id => documents'[u] = documents[u]
      /\ documents'[tx.id] \in {documents[tx.id], tx.doc}
  BY <1>1 DEF DocEnds, DocumentsInv, DocumentsTypeOK
<1>4. ASSUME NEW u \in Uuids, NEW n, HasPlace(u, n)'
      PROVE  HasPlace(u, n)
  <2>1. CASE documents'[u] # Absent /\ documents'[u].created = n
    <3>1. CASE documents'[u] = documents[u]
      BY <2>1, <3>1 DEF HasPlace
    <3>2. CASE u = tx.id /\ documents'[u] = tx.doc
      <4>1. CASE tx.op = "create"
        BY <2>1, <3>2, <4>1 DEF HasPlace
      <4>2. CASE tx.op = "update"
        <5>1. documents[u] \in Document /\ tx.doc.created = documents[u].created
          BY <1>1, <3>2, <4>2 DEF DocTxSound
        <5>2. documents[u] # Absent
          BY <5>1, DocumentsAssumption
        <5> QED
          BY <2>1, <3>2, <5>1, <5>2 DEF HasPlace
      <4>3. CASE tx.op = "delete"
        BY <1>1, <2>1, <3>2, <4>3 DEF DocTxSound
      <4> QED
        BY <1>1, <4>1, <4>2, <4>3
    <3> QED
      BY <1>3, <3>1, <3>2
  <2>2. CASE \E d \in Clients : /\ docTx'[d].op = "create"
                                /\ docTx'[d].id = u
                                /\ docTx'[d].doc.created = n
    BY <1>2, <2>2 DEF HasPlace
  <2> QED
    BY <1>4, <2>1, <2>2 DEF HasPlace
<1> QED
  BY <1>4 DEF OnePlace

LEMMA PlacesInvariant == DocumentsSpec => []OnePlace
<1>1. ASSUME DocumentsInit
      PROVE  OnePlace
  <2>1. \A c \in Clients : docTx[c].op = "none"
    BY <1>1 DEF DocumentsInit, NoTx
  <2>2. \A u \in Uuids : documents[u] = Absent
    BY <1>1 DEF DocumentsInit
  <2> QED
    BY <2>1, <2>2 DEF OnePlace, HasPlace
<1>2. ASSUME DocumentsInv, OnePlace, [DocumentsNext]_docVars
      PROVE  OnePlace'
  <2>1. CASE UNCHANGED docVars
    BY <1>2, <2>1 DEF docVars, OnePlace, HasPlace
  <2>2. CASE DocumentsNext
    <3>1. PICK c \in Clients :
             \/ DocAnswersPlainly(c)
             \/ \E tx \in DocTx : DocStarts(c, tx)
             \/ CommitDocument(c) \/ DocumentFails(c)
      BY <1>2, <2>2, DocumentsSteps
    <3>2. CASE DocAnswersPlainly(c)
      BY <1>2, <3>2 DEF DocAnswersPlainly, DocAnswers, OnePlace, HasPlace
    <3>3. CASE \E tx \in DocTx : DocStarts(c, tx)
      BY <1>2, <3>3, StartsKeepPlaces
    <3>4. CASE CommitDocument(c) \/ DocumentFails(c)
      <4>1. \E a : DocEnds(c, a)
        BY <1>2, <3>4, CommitDocumentEnds
      <4> QED
        BY <1>2, <4>1, EndsKeepPlaces
    <3> QED
      BY <3>1, <3>2, <3>3, <3>4
  <2> QED
    BY <1>2, <2>1, <2>2
<1> QED
  BY <1>1, <1>2, DocumentsInvariant, PTL DEF DocumentsSpec

\* The documents of a set have an order, the newest first.
LEMMA NewestOrder ==
    ASSUME DocumentsInv, OnePlace, NEW M \in SUBSET Uuids, \A u \in M : documents[u] # Absent
    PROVE  /\ Cardinality(M) \in Nat
           /\ NewestFirst(M) \in [1..Cardinality(M) -> M]
           /\ \A m, n \in 1..Cardinality(M) : m < n => Newer(NewestFirst(M)[m], NewestFirst(M)[n])
           /\ \A u \in M : \E n \in 1..Cardinality(M) : NewestFirst(M)[n] = u
<1> DEFINE k == Cardinality(M)
           place == [u \in M |-> documents[u].created]
           C == {place[u] : u \in M}
           Found(s) == \A m, n \in DOMAIN s : m < n => Newer(s[m], s[n])
           F == [1..k -> M]
           o == NewestFirst(M)
<1>1. IsFiniteSet(M) /\ k \in Nat
  BY DocumentsAssumption, FS_Subset, FS_CardinalityType
<1>2. \A u \in M : documents[u] \in Document /\ documents[u].created \in 1..Cardinality(Uuids)
  BY DEF DocumentsInv, DocumentsTypeOK, Document
<1>3. Cardinality(Uuids) \in Nat
  BY DocumentsAssumption, FS_CardinalityType
<1>4. \A u, v \in M : place[u] = place[v] => u = v
  <2> SUFFICES ASSUME NEW u \in M, NEW v \in M, documents[u].created = documents[v].created
               PROVE  u = v
    OBVIOUS
  <2>1. documents[u].created \in Nat
    BY <1>2, <1>3
  <2>2. HasPlace(u, documents[u].created) /\ HasPlace(v, documents[u].created)
    BY DEF HasPlace
  <2> QED
    BY <2>1, <2>2 DEF OnePlace
<1>5. C \in SUBSET (1..Cardinality(Uuids)) /\ C \in SUBSET Nat /\ place \in [M -> C]
  BY <1>2, <1>3
<1>6. \A x \in C : \E u \in M : place[u] = x
  OBVIOUS
<1> HIDE DEF C, place
<1>7. PICK t : Ascends(t, C)
  BY <1>3, <1>5, AscendsExists
<1>8. Len(t) = k
  <2>1. place \in Bijection(M, C)
    BY <1>4, <1>5, <1>6, Fun_IsBij
  <2>2. Cardinality(C) = Cardinality(M)
    BY <1>1, <2>1, Fun_ExistsBij, FS_Bijection
  <2> QED
    BY <1>5, <1>7, <2>2, AscendsLength
<1>9. /\ \A n \in 1..k : t[n] \in C
      /\ \A m, n \in 1..k : m < n => t[m] < t[n]
  BY <1>7, <1>8 DEF Ascends
<1> DEFINE At(n) == CHOOSE u \in M : place[u] = t[k + 1 - n]
           s == [n \in 1..k |-> At(n)]
<1>10. ASSUME NEW n \in 1..k
       PROVE  At(n) \in M /\ place[At(n)] = t[k + 1 - n]
  <2>1. k + 1 - n \in 1..k
    BY <1>1
  <2>2. \E u \in M : place[u] = t[k + 1 - n]
    BY <1>6, <1>9, <2>1
  <2> QED
    BY <2>2
<1>11. s \in F
  BY <1>10
<1>12. Found(s)
  <2> SUFFICES ASSUME NEW m \in 1..k, NEW n \in 1..k, m < n
               PROVE  Newer(At(m), At(n))
    OBVIOUS
  <2>1. k + 1 - n \in 1..k /\ k + 1 - m \in 1..k /\ k + 1 - n < k + 1 - m
    BY <1>1
  <2>2. t[k + 1 - n] < t[k + 1 - m] /\ t[k + 1 - n] \in Nat /\ t[k + 1 - m] \in Nat
    BY <1>5, <1>9, <2>1
  <2>3. place[At(n)] < place[At(m)] /\ place[At(n)] \in Nat /\ place[At(m)] \in Nat
    BY <1>10, <2>2
  <2>4. place[At(n)] = documents[At(n)].created /\ place[At(m)] = documents[At(m)].created
    BY <1>10 DEF place
  <2> HIDE DEF At
  <2> QED
    BY <2>3, <2>4 DEF Newer
<1>13. o = CHOOSE x \in F : Found(x)
  BY DEF NewestFirst, InOrder
<1>14. o \in F /\ Found(o)
  <2> HIDE DEF F, Found, o, s
  <2> QED
    BY <1>11, <1>12, <1>13
<1>15. \A m, n \in 1..k : o[m] = o[n] => m = n
  <2> HIDE DEF o
  <2> SUFFICES ASSUME NEW m \in 1..k, NEW n \in 1..k, o[m] = o[n], m < n
               PROVE  FALSE
    BY <1>1
  <2>1. Newer(o[m], o[n]) /\ o[m] \in M /\ o[n] \in M
    BY <1>14
  <2>2. documents[o[m]].created \in Nat /\ documents[o[m]].created > documents[o[m]].created
    BY <1>2, <1>3, <2>1 DEF Newer
  <2> QED
    BY <2>2
<1>16. \A u \in M : \E n \in 1..k : o[n] = u
  <2> HIDE DEF o
  <2> QED
    BY <1>1, <1>14, <1>15, InjectionIsOnto
<1> QED
  BY <1>1, <1>14, <1>16

\* A query answers no more than a page, and leaves a match out only when the
\* page is full of newer ones.
THEOREM PagesShowTheNewest == DocumentsSpec => []PagesAreNewest
<1>1. ASSUME DocumentsInv, OnePlace
      PROVE  PagesAreNewest
  <2> SUFFICES ASSUME NEW coll \in Collections, NEW filter \in Data
               PROVE  LET page  == Page(coll, filter)
                          shown == {page[n] : n \in 1..Len(page)}
                      IN  /\ Len(page) <= PageLimit
                          /\ shown \subseteq Matches(coll, filter)
                          /\ \A u \in Matches(coll, filter) \ shown :
                                /\ Len(page) = PageLimit
                                /\ \A v \in shown : documents[v].created > documents[u].created
    BY DEF PagesAreNewest
  <2> DEFINE M == Matches(coll, filter)
             k == Cardinality(M)
             s == NewestFirst(M)
             size == IF k < PageLimit THEN k ELSE PageLimit
             page == Page(coll, filter)
  <2>1. M \in SUBSET Uuids /\ \A u \in M : documents[u] # Absent
    BY DEF Matches, InCollection
  <2>2. /\ k \in Nat
        /\ s \in [1..k -> M]
        /\ \A m, n \in 1..k : m < n => Newer(s[m], s[n])
        /\ \A u \in M : \E n \in 1..k : s[n] = u
    <3> HIDE DEF M
    <3> QED
      BY <1>1, <2>1, NewestOrder
  <2>3. s \in Seq(M) /\ Len(s) = k
    <3> HIDE DEF M, s
    <3> QED
      BY <2>2, SeqDef
  <2>4. page = SubSeq(s, 1, size)
    BY <2>3 DEF Page
  <2>5. PageLimit \in Nat /\ size \in 0..k /\ size <= PageLimit
    BY <2>2, DocumentsAssumption
  <2> HIDE DEF M, s, page, k
  <2>6. Len(page) = size /\ \A n \in 1..size : page[n] = s[n]
    <3> HIDE DEF size
    <3>1. size \in Nat /\ \A n \in 1..size : n \in 1..Len(s)
      BY <2>2, <2>3, <2>5
    <3> QED
      BY <2>2, <2>3, <2>4, <2>5, <3>1, SubSeqProperties
  <2>7. \A n \in 1..size : page[n] \in M
    BY <2>2, <2>5, <2>6
  <2>8. ASSUME NEW u \in M, \A n \in 1..size : page[n] # u
        PROVE  /\ size = PageLimit
               /\ \A n \in 1..size : Newer(page[n], u)
    <3>1. PICK j \in 1..k : s[j] = u
      BY <2>2
    <3>2. j \notin 1..size
      BY <2>6, <2>8, <3>1
    <3>3. size = PageLimit
      BY <2>2, <2>5, <3>2
    <3>4. ASSUME NEW n \in 1..size PROVE Newer(page[n], u)
      <4>1. n < j /\ n \in 1..k
        BY <2>2, <2>5, <3>2
      <4> QED
        BY <2>2, <2>6, <3>1, <4>1
    <3> QED
      BY <3>3, <3>4
  <2> HIDE DEF size
  <2> QED
    BY <2>5, <2>6, <2>7, <2>8 DEF Newer, M, page
<1> QED
  BY <1>1, DocumentsInvariant, PlacesInvariant, PTL
=============================================================================
