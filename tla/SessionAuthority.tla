-------------------------- MODULE SessionAuthority --------------------------
(***************************************************************************)
(* What the sessions promise: one authority that knows which sessions are  *)
(* open, whose they are and which accounts are active, and lets visitors   *)
(* in.  It has no tokens, no hashes, no blacklist and no clock.  A visitor *)
(* passes two doors, each at one instant, on what is true at that instant, *)
(* and what the visit was for is done at a third one.  Nobody ends a       *)
(* session but its user, in a visit or by presenting a token that is not   *)
(* the current one, and administrators.  An ended session stays ended.     *)
(***************************************************************************)
CONSTANTS Visitors, Users, Nobody, Sessions, NoSession,
          Admins,
          Lossy     \* whether what a visit was for may be left undone

VARIABLES state,    \* "none", "open" or "ended", of each session
          owner,    \* its user
          active,   \* of each user: the account may be used
          visit     \* of each visitor

Routes == {"list", "logout", "logoutAll", "revoke", "adminRevoke", "adminRevokeAll"}

Visit(stage, op, u, s) == [stage |-> stage, op |-> op, user |-> u, sid |-> s, reply |-> "none"]

\* A visitor that is not there, and the answer that the last visit ended with.
Away(answer) == [stage |-> "away", op |-> "none", user |-> Nobody, sid |-> NoSession,
                 reply |-> answer]

Init ==
    /\ state = [s \in Sessions |-> "none"]
    /\ owner = [s \in Sessions |-> Nobody]
    /\ active = [u \in Users |-> TRUE]
    /\ visit = [v \in Visitors |-> Away("none")]

At(v, stage) == visit[v].stage = stage

Turns(v, x)  == visit' = [visit EXCEPT ![v] = x]
Leaves(v, a) == Turns(v, Away(a))
NoneEnds     == UNCHANGED <<state, owner>>

-----------------------------------------------------------------------------
(* The doors.                                                              *)

\* A token names a user and a session; it is not believed yet.
Come(v, op, u, s) ==
    /\ At(v, "away")
    /\ Turns(v, Visit("named", op, u, s))
    /\ NoneEnds /\ UNCHANGED active

Enter(v) ==
    LET x == visit[v] IN
    /\ At(v, "named")
    /\ state[x.sid] = "open" /\ owner[x.sid] = x.user
    /\ Turns(v, Visit("entered", x.op, x.user, x.sid))
    /\ NoneEnds /\ UNCHANGED active

\* A refresh token leads through the first door at once ...
EnterToRefresh(v, s) ==
    /\ At(v, "away")
    /\ state[s] = "open"
    /\ Turns(v, Visit("entered", "refresh", owner[s], s))
    /\ NoneEnds /\ UNCHANGED active

\* ... or, if it is not what the session has now, sets off the alarm.
RaiseAlarm(v, s) ==
    /\ At(v, "away")
    /\ state[s] # "none"
    /\ Turns(v, Visit("alarm", "refresh", owner[s], s))
    /\ NoneEnds /\ UNCHANGED active

Admit(v) ==
    LET x == visit[v] IN
    /\ At(v, "entered")
    /\ active[x.user]
    /\ Turns(v, Visit("admitted", x.op, x.user, x.sid))
    /\ NoneEnds /\ UNCHANGED active

SignIn(v, u) ==
    /\ At(v, "away")
    /\ active[u]
    /\ Turns(v, Visit("admitted", "login", u, NoSession))
    /\ NoneEnds /\ UNCHANGED active

-----------------------------------------------------------------------------
(* What visits are for.                                                    *)

Open(v, s) ==
    /\ At(v, "admitted") /\ visit[v].op = "login"
    /\ state[s] = "none"
    /\ state' = [state EXCEPT ![s] = "open"]
    /\ owner' = [owner EXCEPT ![s] = visit[v].user]
    /\ Leaves(v, "ok")
    /\ UNCHANGED active

\* New tokens, for a session that is open when they are made.
Renew(v) ==
    /\ At(v, "admitted") /\ visit[v].op = "refresh"
    /\ state[visit[v].sid] = "open"
    /\ Leaves(v, "ok")
    /\ NoneEnds /\ UNCHANGED active

List(v) ==
    /\ At(v, "admitted") /\ visit[v].op = "list"
    /\ Leaves(v, "ok")
    /\ NoneEnds /\ UNCHANGED active

Of(u) == {s \in Sessions : owner[s] = u}

\* The sets of sessions that a visit may end.
Targets(x) ==
    CASE x.op = "logout"                   -> {{x.sid}}
      [] x.op = "revoke"                   -> {{s} : s \in Of(x.user)}
      [] x.op \in {"logoutAll", "refresh"} -> {Of(x.user)}
      [] x.op = "adminRevoke"              -> {{s} : s \in {t \in Sessions : x.user \in Admins}}
      [] x.op = "adminRevokeAll"           -> {Of(u) : u \in {t \in Users : x.user \in Admins}}
      [] x.op \in {"list", "login", "none"} -> {}

\* All of them end at one instant.  The alarm is answered with a refusal, and a
\* logout is answered with success only if it was this one that ended it.
End(v, S) ==
    LET x == visit[v] IN
    /\ IF x.op = "refresh" THEN At(v, "alarm") ELSE At(v, "admitted")
    /\ state' = [s \in Sessions |-> IF s \in S /\ state[s] = "open" THEN "ended" ELSE state[s]]
    /\ \/ /\ x.op # "refresh" /\ Leaves(v, "ok")
          /\ x.op = "logout" => state[x.sid] = "open"
       \/ x.op \in {"logout", "refresh"} /\ Leaves(v, "refused")
    /\ UNCHANGED <<owner, active>>

\* Answered with success all the same.
LeaveUndone(v) ==
    LET x == visit[v] IN
    /\ Lossy
    /\ At(v, "admitted") /\ x.op \notin {"refresh", "logout"}
    /\ x.op = "login" \/ Targets(x) # {}
    /\ Leaves(v, "ok")
    /\ NoneEnds /\ UNCHANGED active

Refuse(v) == Leaves(v, "refused") /\ NoneEnds /\ UNCHANGED active

SetActive(u) ==
    /\ active' = [active EXCEPT ![u] = ~active[u]]
    /\ NoneEnds /\ UNCHANGED visit

\* What a visitor may do, by where it is.  Whom it claims to be, and for what it
\* comes, is read from x, where it is afterwards; any route, user and session will do.
Does(v) ==
    LET stage == visit[v].stage
        x     == visit'[v]
    IN
    \/ Refuse(v)
    \/ /\ stage = "away"
       /\ \/ /\ x.op \in Routes /\ x.user \in Users /\ x.sid \in Sessions
             /\ Come(v, x.op, x.user, x.sid)
          \/ \E u \in Users : SignIn(v, u)
          \/ \E s \in Sessions : EnterToRefresh(v, s) \/ RaiseAlarm(v, s)
    \/ stage = "named"   /\ Enter(v)
    \/ stage = "entered" /\ Admit(v)
    \/ /\ stage \in {"admitted", "alarm"}
       /\ \/ \E s \in Sessions : Open(v, s)
          \/ Renew(v) \/ List(v) \/ LeaveUndone(v)
          \/ \E S \in Targets(visit[v]) : End(v, S)

\* Every step but SetActive is one of a visitor, whose visit it changes.
Next ==
    \/ \E v \in Visitors : visit'[v] # visit[v] /\ Does(v)
    \/ \E u \in Users : SetActive(u)

Spec == Init /\ [][Next]_<<state, owner, active, visit>>
=============================================================================
