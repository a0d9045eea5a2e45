-------------------------- MODULE AtMostOnceQueue --------------------------
(***************************************************************************)
(* What the queue promises to its clients: every request takes effect at   *)
(* one instant, on a message as it is at that instant.  A message waits    *)
(* from its publication until it is handed to one consumer or finished,    *)
(* and never waits again.  A request that fails inside may have had its    *)
(* effect or not: this is how a message can be taken and nobody has it.    *)
(***************************************************************************)
EXTENDS Integers, Sequences

CONSTANTS Producers, Consumers,
          Messages,
          NoMessage   \* what a publication is answered with that went wrong

VARIABLES stage,      \* of each message
          accepted,   \* the messages that publications were answered with
          handed,     \* what consumers were given, in order
          answer      \* the last answer to each client

Clients == Producers \cup Consumers

Init ==
    /\ stage = [i \in Messages |-> "none"]
    /\ accepted = {}
    /\ handed = <<>>
    /\ answer = [c \in Clients |-> "none"]

Moves(i, to) == stage' = [stage EXCEPT ![i] = to]
Tell(c, a)   == answer' = [answer EXCEPT ![c] = a]

Ask(c) == Tell(c, "none") /\ UNCHANGED <<stage, accepted, handed>>

Accept(c, i) ==
    /\ stage[i] = "none" /\ Moves(i, "waiting")
    /\ accepted' = accepted \cup {i}
    /\ Tell(c, "ok")
    /\ UNCHANGED handed

Hand(c, i) ==
    /\ stage[i] = "waiting" /\ Moves(i, "taken")
    /\ handed' = Append(handed, [to |-> c, id |-> i])
    /\ Tell(c, "ok")
    /\ UNCHANGED accepted

\* Acknowledged or failed, whatever became of it before.
Finish(c, i) ==
    /\ stage[i] # "none" /\ Moves(i, "finished")
    /\ Tell(c, "ok")
    /\ UNCHANGED <<accepted, handed>>

\* A publication that fails is answered with no message, and success.
AcceptFails(c) ==
    /\ \/ UNCHANGED stage
       \/ \E i \in Messages : stage[i] = "none" /\ Moves(i, "waiting")
    /\ accepted' = accepted \cup {NoMessage}
    /\ Tell(c, "ok")
    /\ UNCHANGED handed

Fail(c) ==
    /\ \/ UNCHANGED stage
       \/ \E i \in Messages : stage[i] = "waiting" /\ Moves(i, "taken")
       \/ \E i \in Messages : stage[i] # "none"    /\ Moves(i, "finished")
    /\ Tell(c, "error")
    /\ UNCHANGED <<accepted, handed>>

Next ==
    \/ \E c \in Clients : Ask(c)
    \/ \E c \in Producers : AcceptFails(c) \/ \E i \in Messages : Accept(c, i)
    \/ \E c \in Consumers : Fail(c) \/ \E i \in Messages : Hand(c, i) \/ Finish(c, i)

Spec == Init /\ [][Next]_<<stage, accepted, handed, answer>>
=============================================================================
