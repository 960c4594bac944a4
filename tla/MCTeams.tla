------------------------------- MODULE MCTeams -------------------------------
(***************************************************************************)
(* Team coordination over a store with no reservation ledger: the hold of  *)
(* every task stays free.  The instance with the ledger is MCHub.          *)
(*                                                                         *)
(* Three small scenarios, each with bounds of its own below those of the   *)
(* cfg:                                                                    *)
(*   sessions: three sessions over changing configurations, revoked        *)
(*     tokens and the switch, and no tasks;                                *)
(*   work: one task with two attempts, a coordinator and a worker;         *)
(*   pool: two tasks with two attempts, a coordinator and a worker.        *)
(***************************************************************************)
EXTENDS TeamCoordination, TLC

CONSTANTS u1, u2, k1, k2, k3

MCUserOf == k1 :> u1 @@ k2 :> u2 @@ k3 :> u2

\* Configurations: both users designated; one only a member; one not enrolled at all.
BothDesignated == [u \in Users |-> "coordinator"]
OneDesignated == [u \in Users |-> IF u = u1 THEN "coordinator" ELSE "member"]
FirstRemoved == [u \in Users |-> IF u = u1 THEN "none" ELSE "coordinator"]
MCConfigurations == {BothDesignated, OneDesignated, FirstRemoved}

\* One content per state that a client writes; no dependencies.
MCContents ==
    {[state |-> s, archived |-> FALSE, deps |-> {}] : s \in {"READY", "REVIEW", "DONE"}}

FreeHolds == hold = [t \in Tasks |-> [id |-> NoHold]]

VARIABLE scenario

FixedTeam ==
    /\ enabled
    /\ \A team \in Teams :
          /\ enrollment[team] \in {[u \in Users |-> "none"], OneDesignated}
          /\ control[team] <= 1
    /\ liveTokens = Tokens
    /\ \A s \in Sessions : sessions[s].profile <= 1
    /\ Cardinality({s \in Sessions : sessions[s].state # "unused"}) <= 2

Present == {t \in Tasks : Exists(t)}

Bounds ==
    \/ /\ scenario = "sessions"
       /\ Present = {}
       /\ \A s \in Sessions : sessions[s].generation <= 2
    \/ scenario = "work" /\ FixedTeam /\ Cardinality(Present) <= 1
    \/ /\ scenario = "pool" /\ FixedTeam
       /\ \A t \in Present : tasks[t].revision <= 2
       /\ \A s \in Sessions : sessions[s].generation <= 2

MCInit ==
    /\ scenario \in {"sessions", "work", "pool"}
    /\ StoreInit /\ FreeHolds /\ TeamInit /\ Bounds

MCNext == UNCHANGED scenario /\ ((StoreNext /\ UNCHANGED teamVars) \/ TeamNext) /\ Bounds'

MCSpec == MCInit /\ [][MCNext]_<<storeVars, teamVars, scenario>>

Symmetry == Permutations(Sessions) \cup Permutations(Attempts) \cup Permutations(Tasks)
=============================================================================
