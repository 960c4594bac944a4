------------------------------ MODULE TaskStore ------------------------------
(***************************************************************************)
(* The task tables of one project store (internal/store/tasks.go) and the  *)
(* two tables that decide who may write a task:                            *)
(*                                                                         *)
(*   tasks    one row per task: its content and its revision;              *)
(*   managed  team_managed_tasks: the team that manages the task, if any   *)
(*            (a row whose managed column is 0 is NoTeam here);            *)
(*   hold     task_reservations: the hold of the reservation ledger, whose *)
(*            fence outlives the hold (id = NoHold is active_id = '');     *)
(*   enabled  the project's metadata key "tasks".                          *)
(*                                                                         *)
(* Every project store has one connection and opens its transactions with  *)
(* BEGIN IMMEDIATE, so a transaction is one atomic step: an action below   *)
(* is a whole transaction, and a command whose check fails, or whose       *)
(* expected revision is no longer the task's, is no step at all.           *)
(*                                                                         *)
(* A task's text, references and history are left out; what is kept of its *)
(* content is its state, its archive flag and its dependencies.            *)
(***************************************************************************)
EXTENDS Naturals, FiniteSets

CONSTANTS
    Tasks,          \* task IDs
    Teams,          \* team IDs
    NoTeam,         \* no managing team
    Contents,       \* the contents clients submit
    Switches,       \* the values an admin gives the metadata key "tasks"
    MaxRevision     \* bound: revisions explored per task

TaskStates ==
    {"BACKLOG", "READY", "IN_PROGRESS", "REVIEW", "BLOCKED", "DONE", "CANCELLED"}
TerminalStates == {"DONE", "CANCELLED"}

ContentType == [state : TaskStates, archived : BOOLEAN, deps : SUBSET Tasks]

ASSUME StoreAssumption ==
    /\ NoTeam \notin Teams
    /\ Contents \subseteq ContentType
    /\ Switches \subseteq BOOLEAN
    /\ MaxRevision \in Nat

VARIABLES tasks, managed, hold, enabled

storeVars == <<tasks, managed, hold, enabled>>

(***************************************************************************)
(* TaskContent.validate: any state may follow any other; only a terminal   *)
(* task can be archived.                                                   *)
(***************************************************************************)
ValidContent(c) == c.archived => c.state \in TerminalStates

NoHold == 0

Exists(t) == tasks[t].revision > 0

Content(t) == [state |-> tasks[t].state, archived |-> tasks[t].archived,
               deps |-> tasks[t].deps]

(***************************************************************************)
(* writeTask: the row, its history entry and its next revision.  saveTask  *)
(* adds the reservation check; the ledger, which has checked ID and fence, *)
(* calls writeTask alone (saveReservedTask).                               *)
(***************************************************************************)
WriteTask(t, c) ==
    /\ tasks[t].revision < MaxRevision
    /\ tasks' = [tasks EXCEPT ![t] =
                    [state |-> c.state, archived |-> c.archived, deps |-> c.deps,
                     revision |-> tasks[t].revision + 1]]

RejectActiveReservation(t) == hold[t].id = NoHold

SaveTask(t, c) == RejectActiveReservation(t) /\ WriteTask(t, c)

SetState(t, s) == SaveTask(t, [Content(t) EXCEPT !.state = s])

(***************************************************************************)
(* The generic task writes.  They never test `enabled`: the server reads   *)
(* that key before the transaction, so a write it admitted may commit      *)
(* after the project was switched off.                                     *)
(***************************************************************************)
\* Mutant: the check for a managing team is missing.
GenericWriteAllowed_Unmanaged(t) == RejectActiveReservation(t)

GenericWriteAllowed(t) == managed[t] = NoTeam /\ RejectActiveReservation(t)

CreateTask(t, c) ==
    /\ ~Exists(t)
    /\ ValidContent(c)
    /\ WriteTask(t, c)
    /\ UNCHANGED <<managed, hold, enabled>>

UpdateTask(t, c) ==
    /\ Exists(t)
    /\ ValidContent(c)
    /\ GenericWriteAllowed(t)
    /\ SaveTask(t, c)
    /\ UNCHANGED <<managed, hold, enabled>>

\* A triage that names only next_action keeps the state, whatever it is: to = tasks[t].state.
TriageTask(t, to) ==
    /\ Exists(t)
    /\ GenericWriteAllowed(t)
    /\ ~tasks[t].archived
    /\ \/ to = tasks[t].state
       \/ {to, tasks[t].state} \subseteq {"BACKLOG", "READY"}
    /\ SetState(t, to)
    /\ UNCHANGED <<managed, hold, enabled>>

SetTasksEnabled(on) ==
    /\ enabled # on
    /\ enabled' = on
    /\ UNCHANGED <<tasks, managed, hold>>

StoreInit ==
    /\ tasks = [t \in Tasks |-> [state |-> "BACKLOG", archived |-> FALSE,
                                 deps |-> {}, revision |-> 0]]
    /\ managed = [t \in Tasks |-> NoTeam]
    /\ enabled = TRUE

StoreNext ==
    \/ \E t \in Tasks, c \in Contents : CreateTask(t, c) \/ UpdateTask(t, c)
    \/ \E t \in Tasks, s \in TaskStates : TriageTask(t, s)
    \/ \E on \in Switches : SetTasksEnabled(on)

StoreTypeOK ==
    /\ tasks \in [Tasks -> [state : TaskStates, archived : BOOLEAN,
                            deps : SUBSET Tasks, revision : 0..MaxRevision]]
    /\ managed \in [Tasks -> Teams \cup {NoTeam}]
    /\ enabled \in BOOLEAN
==============================================================================
