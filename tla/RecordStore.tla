---------------------------- MODULE RecordStore ----------------------------
(***************************************************************************)
(* What a store of records promises to clients that use it at the same     *)
(* time: every request takes effect at one instant between its beginning   *)
(* and its answer, on the record as it is at that instant, and the answer  *)
(* tells what it did.  A request that fails inside may have had its effect *)
(* or not: a creation is answered 201 all the same, anything else 404.     *)
(***************************************************************************)
EXTENDS ContentClients

CONSTANTS Keys,
          Changes    \* functions from field names to values

VARIABLES records,   \* the record of each key
          asked,     \* the request of each client that is not yet answered
          answer     \* its last answer

Request == [op : {"create", "update"}, key : Keys, change : Changes]
              \cup [op : {"read", "delete"}, key : Keys]

Merge(r, change) == [f \in DOMAIN r |-> IF change[f] = Keep THEN r[f] ELSE change[f]]

Init ==
    /\ records \in [Keys -> Changes \cup {Absent}]
    /\ asked = [c \in Clients |-> NoTx]
    /\ answer = [c \in Clients |-> Reply(0, Absent)]

Found(r) == records[r.key] # Absent

\* The record after a request, and its answer.
After(r) ==
    CASE r.op = "create" -> r.change
      [] r.op = "delete" -> Absent
      [] r.op = "read"   -> records[r.key]
      [] r.op = "update" -> IF Found(r) THEN Merge(records[r.key], r.change) ELSE Absent

Answer(r) ==
    CASE r.op = "create"              -> Reply(201, r.change)
      [] r.op # "create" /\ Found(r)  -> Reply(200, After(r))
      [] r.op # "create" /\ ~Found(r) -> Reply(404, Absent)

Ask(c) ==
    /\ asked[c] = NoTx
    /\ asked'[c] \in Request
    /\ asked' = [asked EXCEPT ![c] = asked'[c]]
    /\ UNCHANGED <<records, answer>>

Do(c, r) ==
    /\ answer' = [answer EXCEPT ![c] = Answer(r)]
    /\ asked' = [asked EXCEPT ![c] = NoTx]
    /\ records' = [records EXCEPT ![r.key] = After(r)]

Fail(c, r) ==
    /\ answer' = [answer EXCEPT ![c] = IF r.op = "create" THEN Answer(r) ELSE Reply(404, Absent)]
    /\ asked' = [asked EXCEPT ![c] = NoTx]
    /\ records' \in {records, [records EXCEPT ![r.key] = After(r)]}

Refuse(c) ==
    /\ asked[c] = NoTx
    /\ answer' = [answer EXCEPT ![c] = Reply(400, Absent)]
    /\ UNCHANGED <<records, asked>>

\* What is answered is the request that waits, or one that has not waited.
Next == \E c \in Clients :
    /\ records' # records \/ asked'[c] # asked[c] \/ answer'[c] # answer[c]
    /\ \/ Ask(c) \/ Refuse(c)
       \/ \E r \in IF asked[c] = NoTx THEN Request ELSE {asked[c]} : Do(c, r) \/ Fail(c, r)

Spec == Init /\ [][Next]_<<records, asked, answer>>
=============================================================================
