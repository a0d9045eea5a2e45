---------------------------- MODULE ExpiringMap ----------------------------
(***************************************************************************)
(* What the cache promises: a map whose entries count down and are gone    *)
(* at zero.  An entry leaves the map only by a deletion of its key or by   *)
(* the passing of its time, and a lookup gives the entry's value of that   *)
(* moment, or nothing.  Expired rows, and their removal, do not exist here *)
(* at all.                                                                 *)
(***************************************************************************)
EXTENDS Integers

CONSTANTS Keys, Values, None, Clients, MaxTtl

VARIABLES map,   \* the entry of each key; an absent one has the value None
          got    \* the result of the last lookup of each client

Absent == [value |-> None, left |-> 0]

Init ==
    /\ map = [k \in Keys |-> Absent]
    /\ got = [c \in Clients |-> None]

\* A client may drop what its last lookup gave.
Drop == got' = got \/ \E c \in Clients : got' = [got EXCEPT ![c] = None]

Put(k, v) ==
    /\ \E t \in 1..MaxTtl : map' = [map EXCEPT ![k] = [value |-> v, left |-> t]]
    /\ Drop

Delete(k) ==
    /\ map' = [map EXCEPT ![k] = Absent]
    /\ UNCHANGED got

Lookup(c, k) ==
    /\ \E v \in {map[k].value, None} : got' = [got EXCEPT ![c] = v]
    /\ UNCHANGED map

Older(e) == IF e.left > 1 THEN [e EXCEPT !.left = @ - 1] ELSE Absent

Tick ==
    /\ map' = [k \in Keys |-> Older(map[k])]
    /\ UNCHANGED got

Next ==
    \/ \E k \in Keys, v \in Values : Put(k, v)
    \/ \E k \in Keys : Delete(k)
    \/ \E c \in Clients, k \in Keys : Lookup(c, k)
    \/ Tick

Spec == Init /\ [][Next]_<<map, got>>
=============================================================================
