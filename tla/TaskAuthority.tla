---------------------------- MODULE TaskAuthority ----------------------------
(***************************************************************************)
(* What the hub promises about who may write a task, whichever of its two  *)
(* coordination mechanisms is used: at any time a task has one authority.  *)
(* It is open to ordinary writers, or under one hold of the reservation    *)
(* ledger, or managed by a team between attempts, or under one assignment  *)
(* attempt.  Authority moves only                                          *)
(*                                                                         *)
(*    hold <-> open -> attempt <-> team -> open                            *)
(*                                                                         *)
(* so a hold and a team never take a task from each other, an attempt is   *)
(* the authority once, and a fence that was an authority is never one      *)
(* again.  Taking authority does not touch the task, so whoever takes it   *)
(* owns exactly the revision it saw; giving a hold up, or a task back to   *)
(* its ordinary writers, always makes a new revision.                      *)
(***************************************************************************)
EXTENDS Naturals

CONSTANTS Tasks, Teams, Attempts

VARIABLES
    authority,  \* who may write the task
    revision,   \* the task's revision
    fence,      \* steps taken by the holds of the task
    used        \* attempts that have been an authority

vars == <<authority, revision, fence, used>>

Open == [kind |-> "open"]
Hold(n) == [kind |-> "hold", of |-> n]
Team(m) == [kind |-> "team", of |-> m]
Attempt(a, m) == [kind |-> "attempt", of |-> a, team |-> m]

Init ==
    /\ authority = [t \in Tasks |-> Open]
    /\ revision = [t \in Tasks |-> 0]
    /\ fence = [t \in Tasks |-> 0]
    /\ used = {}

Moves(t, to) == authority' = [authority EXCEPT ![t] = to]
NewRevision(t) == revision' = [revision EXCEPT ![t] = @ + 1]
NewFence(t) == fence' = [fence EXCEPT ![t] = @ + 1]

\* The authority writes the task; a hold's write counts.
Write(t) ==
    /\ NewRevision(t)
    /\ IF authority[t].kind = "hold" THEN NewFence(t) ELSE UNCHANGED fence
    /\ UNCHANGED <<authority, used>>

Claim(t) ==
    /\ authority[t] = Open
    /\ NewFence(t)
    /\ Moves(t, Hold(fence[t] + 1))
    /\ UNCHANGED <<revision, used>>

\* The hold passes to the worker it was taken for.
Pass(t) ==
    /\ authority[t].kind = "hold"
    /\ NewFence(t)
    /\ UNCHANGED <<authority, revision, used>>

CloseHold(t) ==
    /\ authority[t].kind = "hold"
    /\ NewRevision(t) /\ NewFence(t)
    /\ Moves(t, Open)
    /\ UNCHANGED used

Offer(t, m, a) ==
    /\ authority[t] \in {Open, Team(m)}
    /\ a \notin used
    /\ used' = used \cup {a}
    /\ Moves(t, Attempt(a, m))
    /\ UNCHANGED <<revision, fence>>

\* A refused or withdrawn offer leaves the task as it was; any other end writes it.
EndAttempt(t) ==
    /\ authority[t].kind = "attempt"
    /\ Moves(t, Team(authority[t].team))
    /\ NewRevision(t) \/ UNCHANGED revision
    /\ UNCHANGED <<fence, used>>

Unmanage(t) ==
    /\ authority[t].kind = "team"
    /\ Moves(t, Open)
    /\ NewRevision(t)
    /\ UNCHANGED <<fence, used>>

Next ==
    \E t \in Tasks :
        \/ Write(t) \/ Claim(t) \/ Pass(t) \/ CloseHold(t)
        \/ \E m \in Teams, a \in Attempts : Offer(t, m, a)
        \/ EndAttempt(t) \/ Unmanage(t)

Spec == Init /\ [][Next]_vars
=============================================================================
