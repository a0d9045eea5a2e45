----------------------------- MODULE Documents -----------------------------
(***************************************************************************)
(* The documents: DocumentUseCases on PostgresDocumentRepository.  Every   *)
(* operation is one statement and its commit: the statement waits for the  *)
(* lock of its row and then holds it, the commit shows what it did to the  *)
(* others and answers.                                                     *)
(*                                                                         *)
(* A document is the set of the fields that it has, and a filter that of   *)
(* the fields that it asks for.  The order of creation stands for          *)
(* created_at: no two documents are created in the same microsecond.       *)
(***************************************************************************)
EXTENDS Integers, Sequences, FiniteSets, ContentClients

CONSTANTS Collections,
          Uuids,       \* what gen_random_uuid returns, each once
          NotUuid,     \* a path that is no uuid
          Data,        \* the documents, each the set of the fields that it has
          NoData,      \* a body that is empty, or no JSON
          PageLimit    \* LIMIT 100

Document == [collection : Collections, data : Data, created : 1..Cardinality(Uuids)]

ASSUME DocumentsAssumption ==
    /\ IsFiniteSet(Uuids) /\ NotUuid \notin Uuids
    /\ Collections # {} /\ Uuids # {}
    /\ Absent \notin Document \cup [data : Data]
    /\ {NoData, Keep} \cap Data = {}
    /\ PageLimit \in Nat \ {0}

VARIABLES documents,  \* the committed document of each uuid
          drawn,      \* the uuids that an insertion has drawn, committed or not
          docTx,      \* the transaction of each client
          docAnswer   \* the last answer to each client

docVars == <<documents, drawn, docTx, docAnswer>>

\* doc is what the transaction makes of its row.
DocTx == [op : {"create", "update", "delete"}, id : Uuids, was : Document \cup {Absent},
          doc : Document \cup {Absent}]

DocumentsTypeOK ==
    /\ documents \in [Uuids -> Document \cup {Absent}]
    /\ drawn \in SUBSET Uuids
    /\ docTx \in [Clients -> DocTx \cup {NoTx}]
    /\ docAnswer \in [Clients -> [status : {0, 200, 201, 400, 404}, body : [data : Data] \cup {Absent}]]

DocumentsInit ==
    /\ documents = [u \in Uuids |-> Absent]
    /\ drawn = {}
    /\ docTx = [c \in Clients |-> NoTx]
    /\ docAnswer = [c \in Clients |-> Reply(0, Absent)]

-----------------------------------------------------------------------------
Free(c)        == docTx[c].op = "none"
RowLocked(u)   == \E c \in Clients : docTx[c].op # "none" /\ docTx[c].id = u
DocTell(c, status, body) == docAnswer' = [docAnswer EXCEPT ![c] = Reply(status, body)]

\* What DocumentResponse shows of a document.
Body(doc) == IF doc = Absent THEN Absent ELSE [data |-> doc.data]

Execute(c, op, u, doc) ==
    /\ docTx' = [docTx EXCEPT ![c] = [op |-> op, id |-> u, was |-> documents[u], doc |-> doc]]
    /\ UNCHANGED <<documents, docAnswer>>

\* Mutant: WHERE id = $2::uuid.
MutInCollection(coll, u) == documents[u] # Absent

\* WHERE collection_name = $1 AND id = $2::uuid
InCollection(coll, u) == documents[u] # Absent /\ documents[u].collection = coll

\* Mutant: the body is not looked at.
MutAccepted(d) == TRUE

\* The controller refuses what is no JSON, the use case what is empty.
Accepted(d) == d \in Data

RefuseDocument(c, d) ==
    /\ Free(c) /\ ~Accepted(d)
    /\ DocTell(c, 400, Absent)
    /\ UNCHANGED <<documents, drawn, docTx>>

\* INSERT ... RETURNING id::text
InsertDocument(c, coll, d) ==
    /\ Free(c) /\ Accepted(d)
    /\ \E u \in Uuids \ drawn :
          /\ drawn' = drawn \cup {u}
          /\ Execute(c, "create", u,
                     [collection |-> coll, data |-> d, created |-> Cardinality(drawn) + 1])

\* UPDATE documents SET data = $1::jsonb ... RETURNING
UpdateDocument(c, coll, u, d) ==
    /\ Free(c) /\ Accepted(d)
    /\ InCollection(coll, u) /\ ~RowLocked(u)
    /\ Execute(c, "update", u, [documents[u] EXCEPT !.data = d])
    /\ UNCHANGED drawn

\* DELETE FROM documents ...
DeleteDocument(c, coll, u) ==
    /\ Free(c)
    /\ InCollection(coll, u) /\ ~RowLocked(u)
    /\ Execute(c, "delete", u, Absent)
    /\ UNCHANGED drawn

\* An update or a deletion finds no row, or its id is no uuid and the cast throws.
NoSuchDocument(c, coll, u) ==
    /\ Free(c)
    /\ u \in Uuids => ~InCollection(coll, u)
    /\ DocTell(c, 404, Absent)
    /\ UNCHANGED <<documents, drawn, docTx>>

ReadDocument(c, coll, u) ==
    /\ Free(c) /\ InCollection(coll, u)
    /\ DocTell(c, 200, Body(documents[u]))
    /\ UNCHANGED <<documents, drawn, docTx>>

\* The status that the use cases give when the repository did it.
DocSuccess(op) == IF op = "create" THEN 201 ELSE 200

CommitDocument(c) ==
    LET tx == docTx[c] IN
    /\ ~Free(c)
    /\ documents' = [documents EXCEPT ![tx.id] = tx.doc]
    /\ docTx' = [docTx EXCEPT ![c] = NoTx]
    /\ DocTell(c, DocSuccess(tx.op), Body(tx.doc))
    /\ UNCHANGED drawn

\* An exception before the commit or after it.  insert returns the document
\* all the same, update and remove say that there is none.
DocumentFails(c) ==
    LET tx == docTx[c] IN
    /\ ~Free(c)
    /\ documents' \in {documents, [documents EXCEPT ![tx.id] = tx.doc]}
    /\ docTx' = [docTx EXCEPT ![c] = NoTx]
    /\ IF tx.op = "create" THEN DocTell(c, 201, Body(tx.doc)) ELSE DocTell(c, 404, Absent)
    /\ UNCHANGED drawn

\* There is no connection.
NoDocuments(c, d) ==
    /\ Free(c) /\ Accepted(d)
    /\ DocTell(c, 404, Absent) \/ DocTell(c, 201, [data |-> d])
    /\ UNCHANGED <<documents, drawn, docTx>>

DocumentsNext ==
    \/ \E c \in Clients : CommitDocument(c) \/ DocumentFails(c)
    \/ \E c \in Clients, d \in Data \cup {NoData} :
          RefuseDocument(c, d) \/ NoDocuments(c, d)
    \/ \E c \in Clients, coll \in Collections, d \in Data \cup {NoData} :
          \/ InsertDocument(c, coll, d)
          \/ \E u \in Uuids : UpdateDocument(c, coll, u, d)
    \/ \E c \in Clients, coll \in Collections, u \in Uuids :
          DeleteDocument(c, coll, u) \/ ReadDocument(c, coll, u)
    \/ \E c \in Clients, coll \in Collections, u \in Uuids \cup {NotUuid} :
          NoSuchDocument(c, coll, u)

DocumentsSpec == DocumentsInit /\ [][DocumentsNext]_docVars

-----------------------------------------------------------------------------
(* queryByFilter.                                                          *)

\* WHERE collection_name = $1 AND data @> $2::jsonb; an empty filter asks for
\* nothing.
Matches(coll, filter) ==
    {u \in Uuids : InCollection(coll, u) /\ filter \subseteq documents[u].data}

\* Mutant: ORDER BY created_at.
MutNewer(u, v) == documents[u].created < documents[v].created

\* ORDER BY created_at DESC
Newer(u, v) == documents[u].created > documents[v].created

NewestFirst(uuids) == InOrder(uuids, Newer)

Page(coll, filter) ==
    LET sorted == NewestFirst(Matches(coll, filter))
    IN  SubSeq(sorted, 1, IF Len(sorted) < PageLimit THEN Len(sorted) ELSE PageLimit)

-----------------------------------------------------------------------------
(* Properties.                                                             *)

Keys == Collections \X Uuids

\* The transaction as the request that it carries out.
AskedOf(tx) ==
    IF tx.op = "none" THEN NoTx
    ELSE LET key == <<IF tx.op = "create" THEN tx.doc.collection ELSE tx.was.collection, tx.id>>
         IN  IF tx.op = "delete" THEN [op |-> "delete", key |-> key]
             ELSE [op |-> tx.op, key |-> key, change |-> Body(tx.doc)]

AskedDocuments == [c \in Clients |-> AskedOf(docTx[c])]

\* What is in a collection under an id.
Shelf == [k \in Keys |-> IF InCollection(k[1], k[2]) THEN Body(documents[k[2]]) ELSE Absent]

DocumentStore == INSTANCE RecordStore WITH
    Keys    <- Keys,
    Changes <- [data : Data],
    records <- Shelf,
    asked   <- AskedDocuments,
    answer  <- docAnswer

\* Overlapping requests behave as if each were one instant, on the document of
\* that id in that collection: what is asked of one collection never shows or
\* changes a document of another, an update that waited for a deletion does
\* not bring the document back, and every answer shows what its request left.
DocumentsImplementStore == DocumentStore!Spec

\* A query answers no more than a page.  It leaves a match out only when the
\* page is full of newer ones.
PagesAreNewest ==
    \A coll \in Collections, filter \in Data :
        LET page  == Page(coll, filter)
            shown == {page[n] : n \in 1..Len(page)}
        IN  /\ Len(page) <= PageLimit
            /\ shown \subseteq Matches(coll, filter)
            /\ \A u \in Matches(coll, filter) \ shown :
                  /\ Len(page) = PageLimit
                  /\ \A v \in shown : documents[v].created > documents[u].created
=============================================================================
