--------------------------- MODULE HubCoordination ---------------------------
(***************************************************************************)
(* One project of the hub with everything that writes its tasks: ordinary  *)
(* clients (TaskStore), team coordination and the reservation ledger, over *)
(* the same task rows.  Each mechanism checks the other's table inside its *)
(* own transaction; nothing else keeps them apart.                         *)
(***************************************************************************)
EXTENDS TeamCoordination, ReservationLedger

hubVars == <<storeVars, teamVars, ledgerVars>>

HubInit == StoreInit /\ TeamInit /\ LedgerInit

HubNext ==
    \/ StoreNext /\ UNCHANGED <<teamVars, ledgerVars>>
    \/ TeamNext /\ UNCHANGED ledgerVars
    \/ LedgerNext /\ UNCHANGED teamVars

HubSpec == HubInit /\ [][HubNext]_hubVars

(***************************************************************************)
(* The authority of a task, read off the three tables.                     *)
(***************************************************************************)
AuthorityOf(t) ==
    IF Held(t) THEN [kind |-> "hold", of |-> hold[t].id]
    ELSE IF ReservedAttempts(t) # {}
         THEN LET a == CHOOSE x \in Attempts : x \in ReservedAttempts(t)
              IN [kind |-> "attempt", of |-> a, team |-> attempts[a].team]
    ELSE IF managed[t] # NoTeam THEN [kind |-> "team", of |-> managed[t]]
    ELSE [kind |-> "open"]

Authority == INSTANCE TaskAuthority WITH
    authority <- [t \in Tasks |-> AuthorityOf(t)],
    revision <- [t \in Tasks |-> tasks[t].revision],
    fence <- [t \in Tasks |-> hold[t].fence],
    used <- {a \in Attempts : attempts[a].state # "unused"}

(***************************************************************************)
(* The hub keeps the promise of TaskAuthority: whatever commands the two   *)
(* mechanisms and the ordinary clients interleave, each task has one       *)
(* authority at a time, it moves only along the allowed edges, and every   *)
(* write is a new revision.                                                *)
(***************************************************************************)
ImplementsTaskAuthority == Authority!Spec

(***************************************************************************)
(* The ledger and a team never own the same task: a task under a hold is   *)
(* not managed, and has no reserved attempt.                               *)
(***************************************************************************)
OneCoordinator ==
    \A t \in Tasks : Held(t) => managed[t] = NoTeam /\ ReservedAttempts(t) = {}

=============================================================================
