------------------------------- MODULE Todos -------------------------------
(***************************************************************************)
(* The todos: the use cases of TodoUseCases on either ITodoRepository, the *)
(* table that the server runs on (PostgresTodoRepository) and the vector   *)
(* in memory that its tests run on (InMemoryTodoRepository).               *)
(*                                                                         *)
(* In the database an operation is a transaction, and a transaction is two *)
(* steps: its first statement, that takes the lock of its row, and the     *)
(* rest with the commit and the answer.  In memory it is one step under    *)
(* the mutex.                                                              *)
(***************************************************************************)
EXTENDS Integers, Sequences, ContentClients

CONSTANTS Titles,        \* 1 to 255 bytes, not all of them blanks
          Descriptions,  \* at most 1000 bytes
          BadText,       \* a text that is too long, or blank, or no string
          Seeds,         \* the todos that are there at the beginning
          MaxTodos       \* bound on the ids

TodoIds == 1..MaxTodos
Todo    == [title : Titles, description : Descriptions, completed : BOOLEAN]

\* UpdateTodoRequest: a field that the body does not have is Keep.
TodoChange == [title       : Titles \cup {BadText, Keep},
               description : Descriptions \cup {BadText, Keep},
               completed   : BOOLEAN \cup {Keep}]

ASSUME TodosAssumption ==
    /\ Seeds \in Nat /\ MaxTodos \in Nat \ {0} /\ Seeds <= MaxTodos
    /\ Absent \notin Todo
    /\ {BadText, Keep} \cap (Titles \cup Descriptions \cup BOOLEAN) = {}

VARIABLES backend,    \* which repository is there
          rows,       \* the committed todo of each id
          vector,     \* the ids in m_todos, in its order
          nextId,     \* the sequence of the column id, or m_nextId
          todoTx,     \* the transaction of each client
          todoAnswer  \* the last answer to each client

todoVars == <<backend, rows, vector, nextId, todoTx, todoAnswer>>

Tx == [op : {"create", "update"}, key : TodoIds, change : TodoChange, saw : Todo \cup {Absent}]
         \cup [op : {"delete"}, key : TodoIds]

TodosTypeOK ==
    /\ backend \in {"database", "memory"}
    /\ rows \in [TodoIds -> Todo \cup {Absent}]
    /\ vector \in Seq(TodoIds)
    /\ nextId \in 1..(MaxTodos + 1)
    /\ todoTx \in [Clients -> Tx \cup {NoTx}]
    /\ todoAnswer \in [Clients -> [status : {0, 200, 201, 400, 404}, body : Todo \cup {Absent}]]

TodosInit ==
    /\ backend \in {"database", "memory"}
    /\ \E t \in Todo : rows = [i \in TodoIds |-> IF i <= Seeds THEN t ELSE Absent]
    /\ vector = IF backend = "memory" THEN [i \in 1..Seeds |-> i] ELSE <<>>
    /\ nextId = Seeds + 1
    /\ todoTx = [c \in Clients |-> NoTx]
    /\ todoAnswer = [c \in Clients |-> Reply(0, Absent)]

-----------------------------------------------------------------------------
Present(i) == rows[i] # Absent
Locked(i)  == \E c \in Clients : todoTx[c].op # "none" /\ todoTx[c].key = i
Idle(c)    == todoTx[c].op = "none"

Tell(c, status, body) == todoAnswer' = [todoAnswer EXCEPT ![c] = Reply(status, body)]

Begin(c, tx) ==
    /\ todoTx' = [todoTx EXCEPT ![c] = tx]
    /\ UNCHANGED <<backend, vector, todoAnswer>>

\* The optionals that are given replace their fields.
Merge(todo, change) == [f \in DOMAIN todo |-> IF change[f] = Keep THEN todo[f] ELSE change[f]]

Empty == [title |-> Keep, description |-> Keep, completed |-> Keep]

\* validateCreate: the title is required, the description may be left out.
ValidTodo(new) == new.title \in Titles /\ new.description \in Descriptions

\* Mutant: the title of an update is not looked at.
MutValidUpdate(change) ==
    /\ change # Empty
    /\ change.description # BadText

\* validateUpdate: there is something to change, and it is valid.
ValidUpdate(change) ==
    /\ change # Empty
    /\ change.title # BadText
    /\ change.description # BadText

\* parseCreateTodoRequest and CreateTodoUseCase: the new todo is not completed.
NewTodo(title, description) ==
    [title |-> title, description |-> description, completed |-> FALSE]

Refused(c, change) ==
    /\ Idle(c)
    /\ ~ValidTodo(NewTodo(change.title, change.description)) \/ ~ValidUpdate(change)
    /\ Tell(c, 400, Absent)
    /\ UNCHANGED <<backend, rows, vector, nextId, todoTx>>

\* The controller answers 400 to the id 0, whatever is asked of it.
BadId(c) ==
    /\ Idle(c)
    /\ Tell(c, 400, Absent)
    /\ UNCHANGED <<backend, rows, vector, nextId, todoTx>>

\* findById
Read(c, i) ==
    /\ Idle(c)
    /\ Tell(c, IF Present(i) THEN 200 ELSE 404, rows[i])
    /\ UNCHANGED <<backend, rows, vector, nextId, todoTx>>

-----------------------------------------------------------------------------
(* PostgresTodoRepository.                                                 *)

\* INSERT ... RETURNING id
Insert(c, new) ==
    /\ backend = "database" /\ Idle(c)
    /\ nextId <= MaxTodos
    /\ nextId' = nextId + 1
    /\ Begin(c, [op |-> "create", key |-> nextId, change |-> new, saw |-> Absent])
    /\ UNCHANGED rows

\* Mutant: SELECT without FOR UPDATE.
MutSelectForUpdate(c, i, change) ==
    /\ backend = "database" /\ Idle(c)
    /\ Present(i)
    /\ Begin(c, [op |-> "update", key |-> i, change |-> change, saw |-> rows[i]])
    /\ UNCHANGED <<rows, nextId>>

\* SELECT ... WHERE id = $1 FOR UPDATE waits for the row's lock.
SelectForUpdate(c, i, change) ==
    /\ backend = "database" /\ Idle(c)
    /\ Present(i) /\ ~Locked(i)
    /\ Begin(c, [op |-> "update", key |-> i, change |-> change, saw |-> rows[i]])
    /\ UNCHANGED <<rows, nextId>>

\* DELETE ... WHERE id = $1
DeleteRow(c, i) ==
    /\ backend = "database" /\ Idle(c)
    /\ Present(i) /\ ~Locked(i)
    /\ Begin(c, [op |-> "delete", key |-> i])
    /\ UNCHANGED <<rows, nextId>>

\* Mutant: the UPDATE is an upsert, and needs no row to have been found.
MutNoSuchRow(c, i) ==
    /\ backend = "database" /\ Idle(c)
    /\ ~Present(i) /\ i < nextId
    /\ \E t \in Todo : rows' = [rows EXCEPT ![i] = t] /\ Tell(c, 200, t)
    /\ UNCHANGED <<backend, vector, nextId, todoTx>>

\* An update or a deletion finds no row.
NoSuchRow(c, i) ==
    /\ backend = "database" /\ Idle(c)
    /\ ~Present(i)
    /\ Tell(c, 404, Absent)
    /\ UNCHANGED <<backend, rows, vector, nextId, todoTx>>

\* What the transaction makes of its row.
Outcome(tx) ==
    CASE tx.op = "create" -> tx.change
      [] tx.op = "update" -> Merge(tx.saw, tx.change)
      [] tx.op = "delete" -> Absent

\* The status that the use cases give when the repository did it.
Success(op) == IF op = "create" THEN 201 ELSE 200

\* The UPDATE of an update, the commit, and the answer.
Commit(c) ==
    LET tx == todoTx[c] IN
    /\ ~Idle(c)
    /\ rows' = [rows EXCEPT ![tx.key] = Outcome(tx)]
    /\ todoTx' = [todoTx EXCEPT ![c] = NoTx]
    /\ Tell(c, Success(tx.op), Outcome(tx))
    /\ UNCHANGED <<backend, vector, nextId>>

\* An exception before the commit or after it.  save returns the todo all the
\* same, update and remove say that there is none.
CommitFails(c) ==
    LET tx == todoTx[c] IN
    /\ ~Idle(c)
    /\ rows' \in {rows, [rows EXCEPT ![tx.key] = Outcome(tx)]}
    /\ todoTx' = [todoTx EXCEPT ![c] = NoTx]
    /\ IF tx.op = "create" THEN Tell(c, 201, tx.change) ELSE Tell(c, 404, Absent)
    /\ UNCHANGED <<backend, vector, nextId>>

\* An exception before the first statement: there is no connection.
NoDatabase(c, new) ==
    /\ backend = "database" /\ Idle(c)
    /\ Tell(c, 404, Absent) \/ Tell(c, 201, new)
    /\ UNCHANGED <<backend, rows, vector, nextId, todoTx>>

-----------------------------------------------------------------------------
(* InMemoryTodoRepository.                                                 *)

\* Mutant: the new todo is put in front.
MutSave(c, new) ==
    /\ backend = "memory"
    /\ nextId <= MaxTodos
    /\ rows' = [rows EXCEPT ![nextId] = new]
    /\ vector' = <<nextId>> \o vector
    /\ nextId' = nextId + 1
    /\ Tell(c, 201, new)
    /\ UNCHANGED <<backend, todoTx>>

\* save
Save(c, new) ==
    /\ backend = "memory"
    /\ nextId <= MaxTodos
    /\ rows' = [rows EXCEPT ![nextId] = new]
    /\ vector' = Append(vector, nextId)
    /\ nextId' = nextId + 1
    /\ Tell(c, 201, new)
    /\ UNCHANGED <<backend, todoTx>>

Update(c, i, change) ==
    /\ backend = "memory"
    /\ IF Present(i)
         THEN /\ rows' = [rows EXCEPT ![i] = Merge(@, change)]
              /\ Tell(c, 200, Merge(rows[i], change))
         ELSE Tell(c, 404, Absent) /\ UNCHANGED rows
    /\ UNCHANGED <<backend, vector, nextId, todoTx>>

\* find_if and m_todos.erase: an id is in the vector once.
Erased(i) == Ext!RemoveAt(vector, CHOOSE n \in DOMAIN vector : vector[n] = i)

Remove(c, i) ==
    /\ backend = "memory"
    /\ IF Present(i)
         THEN /\ rows' = [rows EXCEPT ![i] = Absent]
              /\ vector' = Erased(i)
              /\ Tell(c, 200, Absent)
         ELSE Tell(c, 404, Absent) /\ UNCHANGED <<rows, vector>>
    /\ UNCHANGED <<backend, nextId, todoTx>>

\* ORDER BY id ASC
ById(ids) == InOrder(ids, <)

\* findAll: in this order, or the vector as it is.
FindAll == IF backend = "memory" THEN vector
           ELSE ById({i \in TodoIds : Present(i)})

\* The query parameter completed: true, false, or not there.
Filters == BOOLEAN \cup {Keep}

\* ListTodosUseCase keeps those that pass the filter.
Passes(i, completed) == completed = Keep \/ rows[i].completed = completed

List(completed) ==
    LET all == FindAll
        kept[n \in 0..Len(all)] ==
            IF n = 0 THEN <<>>
            ELSE IF Passes(all[n], completed) THEN Append(kept[n - 1], all[n])
            ELSE kept[n - 1]
    IN  kept[Len(all)]

TodosNext ==
    \/ \E c \in Clients : Commit(c) \/ CommitFails(c) \/ BadId(c)
    \/ \E c \in Clients, t \in Titles, d \in Descriptions :
          Insert(c, NewTodo(t, d)) \/ Save(c, NewTodo(t, d)) \/ NoDatabase(c, NewTodo(t, d))
    \/ \E c \in Clients, change \in TodoChange : Refused(c, change)
    \/ \E c \in Clients, i \in TodoIds, change \in {ch \in TodoChange : ValidUpdate(ch)} :
          SelectForUpdate(c, i, change) \/ Update(c, i, change)
    \/ \E c \in Clients, i \in TodoIds :
          DeleteRow(c, i) \/ NoSuchRow(c, i) \/ Remove(c, i) \/ Read(c, i)

TodosSpec == TodosInit /\ [][TodosNext]_todoVars

-----------------------------------------------------------------------------
(* Properties.                                                             *)

\* The transaction as the request that it carries out.
RequestOf(tx) == IF tx.op = "none" THEN NoTx ELSE [f \in DOMAIN tx \ {"saw"} |-> tx[f]]
AskedTodos    == [c \in Clients |-> RequestOf(todoTx[c])]

TodoStore == INSTANCE RecordStore WITH
    Keys    <- TodoIds,
    Changes <- {ch \in TodoChange : ValidUpdate(ch)},
    records <- rows,
    asked   <- AskedTodos,
    answer  <- todoAnswer

\* Whichever repository is there, overlapping requests behave as if each were
\* one instant: of two partial updates of one todo neither undoes the other,
\* and every answer shows the todo as it was at that instant.
TodosImplementStore == TodoStore!Spec

\* A todo that has been deleted, or whose creation was rolled back, does not
\* come back: an update that waited for the deletion does not restore it, and
\* no later todo gets its id.
GoneStaysGone ==
    [][\A i \in TodoIds :
          (i < nextId /\ ~Present(i) /\ Present(i)')
             => \E c \in Clients : todoTx[c].op = "create" /\ todoTx[c].key = i]_todoVars

\* Both repositories list the same: with any filter, every todo that passes it
\* once and no other, by id, whatever was deleted in between.
ListsAgree ==
    \A completed \in Filters :
        List(completed) = ById({i \in TodoIds : Present(i) /\ Passes(i, completed)})
=============================================================================
