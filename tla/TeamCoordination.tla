--------------------------- MODULE TeamCoordination ---------------------------
(***************************************************************************)
(* Team coordination of a project's tasks: sessions with fenced handles,   *)
(* the single coordinator slot of a team, and assignment attempts, which   *)
(* reserve one worker and one task from the offer to the closing decision  *)
(* (internal/store/team_*.go).                                             *)
(*                                                                         *)
(* A session's handle is its ID and its generation; a coordinator's        *)
(* command also carries the generation of the slot (`control`).  A command *)
(* whose handle, slot generation or task revision is not the current one   *)
(* is refused and changes nothing, so each action states what the accepted *)
(* command does.  An action is one transaction, with everything it writes  *)
(* except the audit events and the messages it queues for its              *)
(* counterparts.                                                           *)
(*                                                                         *)
(* The uniqueness indexes of the schema (one active coordinator per team,  *)
(* one reserved attempt per task and per worker) are not assumed: the      *)
(* invariants say the operations keep them.                                *)
(***************************************************************************)
EXTENDS TaskStore

CONSTANTS
    Users, Tokens,
    UserOf,             \* [Tokens -> Users]: the owner of each access token
    Sessions, Attempts, \* session and attempt IDs, fresh when first used
    NoUser, NoToken, NoSession, NoTask,
    Configurations,     \* the enrollments an admin submits
    RevocableTokens,    \* the tokens an admin may revoke
    SessionLimit,       \* the operator's cap on active sessions per team
    MaxGeneration,      \* bound: session generations explored
    MaxSlotGeneration,  \* bound: coordinator generations explored
    MaxProfile          \* bound: profile revisions explored

Enrollments == {"none", "member", "coordinator"}

ASSUME TeamAssumption ==
    /\ UserOf \in [Tokens -> Users]
    /\ Configurations \subseteq [Users -> Enrollments]
    /\ RevocableTokens \subseteq Tokens
    /\ NoUser \notin Users /\ NoToken \notin Tokens
    /\ NoSession \notin Sessions /\ NoTask \notin Tasks
    /\ SessionLimit \in Nat \ {0}
    /\ MaxGeneration \in Nat /\ MaxSlotGeneration \in Nat /\ MaxProfile \in Nat

VARIABLES
    enrollment,  \* [Teams -> [Users -> Enrollments]]: the team's configuration
    liveTokens,  \* tokens the access database accepts for writes to the project
    control,     \* [Teams -> Nat]: team_session_control.coordinator_generation
    sessions,    \* [Sessions -> SessionType]: team_sessions
    attempts     \* [Attempts -> AttemptType]: team_assignments

teamVars == <<enrollment, liveTokens, control, sessions, attempts>>

Roles == {"worker", "reviewer", "coordinator"}
ReservedStates ==
    {"OFFERED", "RUNNING", "SUBMITTED", "BLOCKED", "STOP_REQUESTED", "STOPPED"}
ClosedStates ==
    {"DECLINED", "WITHDRAWN", "CANCELLED", "ACCEPTED", "RETURNED", "RECOVERED"}

SessionType ==
    [team : Teams \cup {NoTeam}, user : Users \cup {NoUser}, token : Tokens \cup {NoToken},
     generation : 0..MaxGeneration, role : Roles, state : {"unused", "active", "left"},
     availability : {"available", "unavailable"}, coordGen : 0..MaxSlotGeneration,
     profile : 0..MaxProfile]

AttemptType ==
    [team : Teams \cup {NoTeam}, task : Tasks \cup {NoTask},
     state : {"unused"} \cup ReservedStates \cup ClosedStates,
     worker : Sessions \cup {NoSession}, workerGen : 0..MaxGeneration,
     taskRevision : 0..MaxRevision, profile : 0..MaxProfile, result : BOOLEAN]

UnusedSession ==
    [team |-> NoTeam, user |-> NoUser, token |-> NoToken, generation |-> 0,
     role |-> "worker", state |-> "unused", availability |-> "unavailable",
     coordGen |-> 0, profile |-> 0]

UnusedAttempt ==
    [team |-> NoTeam, task |-> NoTask, state |-> "unused", worker |-> NoSession,
     workerGen |-> 0, taskRevision |-> 0, profile |-> 0, result |-> FALSE]

TeamInit ==
    /\ enrollment = [team \in Teams |-> [u \in Users |-> "none"]]
    /\ liveTokens = Tokens
    /\ control = [team \in Teams |-> 0]
    /\ sessions = [s \in Sessions |-> UnusedSession]
    /\ attempts = [a \in Attempts |-> UnusedAttempt]

-----------------------------------------------------------------------------
(* Who may act. *)

\* requireTeamMember: enrolled, and designated where the coordinator role is asked for.
RequireTeamMember(team, user, coordinator) ==
    /\ enabled
    /\ enrollment[team][user] \in (IF coordinator THEN {"coordinator"}
                                   ELSE {"member", "coordinator"})

\* boundTeamSession and currentMessageSession, for the live token bound to the session.
CurrentSession(s) ==
    /\ sessions[s].state = "active"
    /\ sessions[s].token \in liveTokens
    /\ RequireTeamMember(sessions[s].team, sessions[s].user, sessions[s].role = "coordinator")

CurrentCoordinator(s) ==
    /\ CurrentSession(s)
    /\ sessions[s].role = "coordinator"
    /\ sessions[s].coordGen = control[sessions[s].team]

ReservedAttempts(t) == {a \in Attempts : attempts[a].task = t /\ attempts[a].state \in ReservedStates}

ReservesWorker(a, s) == attempts[a].worker = s /\ attempts[a].state \in ReservedStates

\* Mutant: only work under way counts.
WorkerFree_RunningOnly(w) ==
    \A x \in Attempts : ~(attempts[x].worker = w /\ attempts[x].state = "RUNNING")

\* No attempt reserves the worker.
WorkerFree(w) == \A x \in Attempts : ~ReservesWorker(x, w)

\* The attempt's worker, with the handle the attempt records.
CommandingWorker(a) ==
    LET s == attempts[a].worker IN
    /\ CurrentSession(s)
    /\ sessions[s].role = "worker"
    /\ attempts[a].workerGen = sessions[s].generation

\* assignmentWorker: may take an offer now.
AssignmentWorker(team, w) ==
    /\ sessions[w].team = team
    /\ sessions[w].role = "worker"
    /\ sessions[w].state = "active"
    /\ sessions[w].availability = "available"
    /\ RequireTeamMember(team, sessions[w].user, FALSE)
    /\ sessions[w].token \in liveTokens

AssignmentReady(t) ==
    /\ Exists(t)
    /\ RejectActiveReservation(t)
    /\ tasks[t].state = "READY" /\ ~tasks[t].archived
    /\ \A d \in tasks[t].deps : Exists(d) /\ tasks[d].state = "DONE"

\* assignmentTask: the task side of an attempt's transition.
AssignmentTask(a, prior) ==
    LET t == attempts[a].task IN
    /\ tasks[t].state = prior /\ ~tasks[t].archived
    /\ managed[t] = attempts[a].team
    /\ ReservedAttempts(t) = {a}

\* managedTask: managed by this team, with no reserved attempt.
ManagedTask(team, t) == Exists(t) /\ managed[t] = team /\ ReservedAttempts(t) = {}

-----------------------------------------------------------------------------
(* Sessions. *)

ConfigureTeam(team, e) ==
    /\ enabled
    /\ enrollment[team] # e
    /\ enrollment' = [enrollment EXCEPT ![team] = e]
    /\ UNCHANGED <<storeVars, liveTokens, control, sessions, attempts>>

\* Mutant: the slot keeps its generation.
NextCoordinatorGeneration_Same(team) ==
    control[team] < MaxSlotGeneration /\ UNCHANGED control

\* nextCoordinatorGeneration: every new holder of the slot, and every new handle of it.
NextCoordinatorGeneration(team) ==
    /\ control[team] < MaxSlotGeneration
    /\ control' = [control EXCEPT ![team] = @ + 1]

JoinTeam(s, team, tok, role) ==
    LET active == {x \in Sessions : sessions[x].team = team /\ sessions[x].state = "active"}
    IN
    /\ sessions[s].state = "unused"
    /\ tok \in liveTokens
    /\ RequireTeamMember(team, UserOf[tok], role = "coordinator")
    /\ Cardinality(active) < SessionLimit
    /\ MaxGeneration > 0 /\ MaxProfile > 0
    /\ IF role = "coordinator"
       THEN /\ \A x \in active : sessions[x].role # "coordinator"
            /\ NextCoordinatorGeneration(team)
       ELSE UNCHANGED control
    /\ sessions' = [sessions EXCEPT ![s] =
            [team |-> team, user |-> UserOf[tok], token |-> tok, generation |-> 1,
             role |-> role, state |-> "active", availability |-> "available",
             coordGen |-> IF role = "coordinator" THEN control'[team] ELSE 0,
             profile |-> 1]]
    /\ UNCHANGED <<storeVars, enrollment, liveTokens, attempts>>

UpdateProfile(s) ==
    /\ CurrentSession(s)
    /\ sessions[s].profile < MaxProfile
    /\ sessions' = [sessions EXCEPT ![s].profile = @ + 1]
    /\ UNCHANGED <<storeVars, enrollment, liveTokens, control, attempts>>

Heartbeat(s, availability) ==
    /\ CurrentSession(s)
    /\ sessions' = [sessions EXCEPT ![s].availability = availability]
    /\ UNCHANGED <<storeVars, enrollment, liveTokens, control, attempts>>

\* Mutant: the attempt keeps the generation it was accepted under.
RebindReservedAssignment_Skipped(s, generation) == UNCHANGED attempts

Rebound(r, generation) == [r EXCEPT !.workerGen = generation]

\* rebindReservedAssignment: the reserved attempt of a worker follows its new
\* generation; an offer stays with the generation that received it.
RebindReservedAssignment(s, generation) ==
    attempts' = [a \in Attempts |->
        IF ReservesWorker(a, s) /\ attempts[a].state # "OFFERED"
        THEN Rebound(attempts[a], generation)
        ELSE attempts[a]]

Reissued(r, tok, coordGen) ==
    [r EXCEPT !.token = tok, !.generation = r.generation + 1, !.coordGen = coordGen]

\* A new generation for an active session, bound to token tok (resume keeps the token).
ReissueHandle(s, tok) ==
    LET r == sessions[s] IN
    /\ r.generation < MaxGeneration
    /\ IF r.role = "coordinator" THEN NextCoordinatorGeneration(r.team) ELSE UNCHANGED control
    /\ sessions' = [sessions EXCEPT ![s] = Reissued(r, tok,
            IF r.role = "coordinator" THEN control'[r.team] ELSE r.coordGen)]
    /\ IF r.role = "worker" THEN RebindReservedAssignment(s, r.generation + 1)
       ELSE UNCHANGED attempts

Resume(s) ==
    /\ CurrentSession(s)
    /\ ReissueHandle(s, sessions[s].token)
    /\ UNCHANGED <<storeVars, enrollment, liveTokens>>

\* The admin's token replacement; authorize accepts a live token of the same user.
RebindTeamSessionToken(s, tok) ==
    LET r == sessions[s] IN
    /\ r.state = "active"
    /\ tok # r.token /\ tok \in liveTokens /\ UserOf[tok] = r.user
    /\ RequireTeamMember(r.team, r.user, r.role = "coordinator")
    /\ ReissueHandle(s, tok)
    /\ UNCHANGED <<storeVars, enrollment, liveTokens>>

\* Mutant: the session stays active.
Left_Active(r) == [r EXCEPT !.availability = "unavailable", !.generation = r.generation + 1]

Left(r) == [r EXCEPT !.state = "left", !.availability = "unavailable",
                     !.generation = r.generation + 1]

\* Mutant: leaving withdraws the worker's offers.
Leave_Withdraws(s) ==
    /\ CurrentSession(s)
    /\ sessions[s].generation < MaxGeneration
    /\ sessions' = [sessions EXCEPT ![s] = Left(sessions[s])]
    /\ attempts' = [a \in Attempts |->
            IF ReservesWorker(a, s) /\ attempts[a].state = "OFFERED"
            THEN [attempts[a] EXCEPT !.state = "WITHDRAWN"] ELSE attempts[a]]
    /\ UNCHANGED <<storeVars, enrollment, liveTokens, control>>

Leave(s) ==
    /\ CurrentSession(s)
    /\ sessions[s].generation < MaxGeneration
    /\ sessions' = [sessions EXCEPT ![s] = Left(sessions[s])]
    /\ UNCHANGED <<storeVars, enrollment, liveTokens, control, attempts>>

\* outgoingCoordinator: the coordinator itself, or an admin naming the slot as it stands.
OutgoingCoordinator(from, admin) ==
    IF admin
    THEN /\ enabled
         /\ sessions[from].role = "coordinator" /\ sessions[from].state = "active"
         /\ sessions[from].coordGen = control[sessions[from].team]
    ELSE CurrentCoordinator(from)

Promoted(r, coordGen) == [r EXCEPT !.role = "coordinator", !.coordGen = coordGen]

HandoffTeamCoordinator(from, to, admin) ==
    LET team == sessions[from].team IN
    /\ from # to
    /\ OutgoingCoordinator(from, admin)
    /\ sessions[to].team = team
    /\ sessions[to].state = "active"
    /\ RequireTeamMember(team, sessions[to].user, TRUE)
    /\ WorkerFree(to)
    /\ sessions[from].generation < MaxGeneration
    /\ NextCoordinatorGeneration(team)
    /\ sessions' = [sessions EXCEPT
            ![from] = Left(sessions[from]),
            ![to] = Promoted(sessions[to], control'[team])]
    /\ UNCHANGED <<storeVars, enrollment, liveTokens, attempts>>

\* The access database revokes a token; nothing in the project store changes.
RevokeToken(tok) ==
    /\ tok \in liveTokens
    /\ liveTokens' = liveTokens \ {tok}
    /\ UNCHANGED <<storeVars, enrollment, control, sessions, attempts>>
-----------------------------------------------------------------------------
(* Assignment attempts. *)

OfferTeamAssignment(s, a, t, w) ==
    LET team == sessions[s].team IN
    /\ CurrentCoordinator(s)
    /\ attempts[a].state = "unused"
    /\ AssignmentReady(t)
    /\ managed[t] = NoTeam \/ ManagedTask(team, t)
    /\ AssignmentWorker(team, w)
    /\ WorkerFree(w)
    /\ managed' = [managed EXCEPT ![t] = team]
    /\ attempts' = [attempts EXCEPT ![a] =
            [team |-> team, task |-> t, state |-> "OFFERED", worker |-> w,
             workerGen |-> sessions[w].generation, taskRevision |-> tasks[t].revision,
             profile |-> sessions[w].profile, result |-> FALSE]]
    /\ UNCHANGED <<tasks, hold, enabled, enrollment, liveTokens, control, sessions>>

\* The attempt's transition alone, and with the task's new state.
MoveAttempt(a, to) == attempts' = [attempts EXCEPT ![a].state = to]

MoveBoth(a, to, taskState) ==
    /\ MoveAttempt(a, to)
    /\ SetState(attempts[a].task, taskState)
    /\ UNCHANGED <<managed, hold, enabled, enrollment, liveTokens, control, sessions>>

AcceptAssignment(a) ==
    LET t == attempts[a].task IN
    /\ attempts[a].state = "OFFERED"
    /\ CommandingWorker(a)
    /\ AssignmentWorker(attempts[a].team, attempts[a].worker)
    /\ AssignmentReady(t)
    /\ tasks[t].revision = attempts[a].taskRevision
    /\ MoveBoth(a, "RUNNING", "IN_PROGRESS")

DeclineAssignment(a) ==
    /\ attempts[a].state = "OFFERED"
    /\ CommandingWorker(a)
    /\ MoveAttempt(a, "DECLINED")
    /\ UNCHANGED <<storeVars, enrollment, liveTokens, control, sessions>>

WithdrawAssignment(s, a) ==
    /\ attempts[a].state = "OFFERED" /\ attempts[a].team = sessions[s].team
    /\ CurrentCoordinator(s)
    /\ MoveAttempt(a, "WITHDRAWN")
    /\ UNCHANGED <<storeVars, enrollment, liveTokens, control, sessions>>

\* Mutant: closing a stop does not make the task READY again.
WorkTransition_StaysBlocked(op, state) ==
    CASE op = "block" /\ state = "RUNNING"                   -> <<"BLOCKED", "BLOCKED">>
      [] op = "resume-work" /\ state = "BLOCKED"             -> <<"RUNNING", "IN_PROGRESS">>
      [] op = "cancel" /\ state \in {"RUNNING", "BLOCKED"}   -> <<"STOP_REQUESTED", "BLOCKED">>
      [] op = "stopped" /\ state = "STOP_REQUESTED"          -> <<"STOPPED", "BLOCKED">>
      [] op = "close-stop" /\ state = "STOPPED"              -> <<"CANCELLED", "BLOCKED">>
      [] OTHER                                              -> <<>>

\* workTransition: [attempt state, task state] that an operation reaches from an attempt state.
WorkTransition(op, state) ==
    CASE op = "block" /\ state = "RUNNING"                   -> <<"BLOCKED", "BLOCKED">>
      [] op = "resume-work" /\ state = "BLOCKED"             -> <<"RUNNING", "IN_PROGRESS">>
      [] op = "cancel" /\ state \in {"RUNNING", "BLOCKED"}   -> <<"STOP_REQUESTED", "BLOCKED">>
      [] op = "stopped" /\ state = "STOP_REQUESTED"          -> <<"STOPPED", "BLOCKED">>
      [] op = "close-stop" /\ state = "STOPPED"              -> <<"CANCELLED", "READY">>
      [] OTHER                                              -> <<>>

\* The task state every executing attempt goes with.
PriorTaskState(state) ==
    IF state \in {"BLOCKED", "STOP_REQUESTED", "STOPPED"} THEN "BLOCKED" ELSE "IN_PROGRESS"

ChangeWork(op, a) ==
    LET next == WorkTransition(op, attempts[a].state) IN
    /\ next # <<>>
    /\ AssignmentTask(a, PriorTaskState(attempts[a].state))
    /\ MoveBoth(a, next[1], next[2])

WorkerChangesWork(op, a) ==
    /\ op \in {"block", "resume-work", "stopped"}
    /\ attempts[a].state \in ReservedStates
    /\ CommandingWorker(a)
    /\ ChangeWork(op, a)

CoordinatorChangesWork(op, s, a) ==
    /\ op \in {"cancel", "close-stop"}
    /\ attempts[a].state \in ReservedStates /\ attempts[a].team = sessions[s].team
    /\ CurrentCoordinator(s)
    /\ ChangeWork(op, a)

SubmitTeamResult(a) ==
    /\ attempts[a].state = "RUNNING" /\ ~attempts[a].result
    /\ CommandingWorker(a)
    /\ AssignmentTask(a, "IN_PROGRESS")
    /\ attempts' = [attempts EXCEPT ![a].state = "SUBMITTED", ![a].result = TRUE]
    /\ SetState(attempts[a].task, "REVIEW")
    /\ UNCHANGED <<managed, hold, enabled, enrollment, liveTokens, control, sessions>>

\* Acceptance leaves the task in REVIEW; rework returns it to READY.
ReviewTeamResult(s, a, accept) ==
    /\ attempts[a].state = "SUBMITTED" /\ attempts[a].result
    /\ attempts[a].team = sessions[s].team
    /\ CurrentCoordinator(s)
    /\ AssignmentTask(a, "REVIEW")
    /\ IF accept THEN MoveBoth(a, "ACCEPTED", "REVIEW") ELSE MoveBoth(a, "RETURNED", "READY")

\* Mutant: the recovered task goes straight back to ordinary writers.
RecoverTeamAssignment_Unmanages(a) ==
    /\ enabled
    /\ attempts[a].state \in {"RUNNING", "BLOCKED", "STOP_REQUESTED", "STOPPED"}
    /\ ~attempts[a].result
    /\ AssignmentTask(a, PriorTaskState(attempts[a].state))
    /\ MoveAttempt(a, "RECOVERED")
    /\ SetState(attempts[a].task, "READY")
    /\ managed' = [managed EXCEPT ![attempts[a].task] = NoTeam]
    /\ UNCHANGED <<hold, enabled, enrollment, liveTokens, control, sessions>>

\* The operator closes execution that was abandoned; a submitted result is not recoverable.
RecoverTeamAssignment(a) ==
    /\ enabled
    /\ attempts[a].state \in {"RUNNING", "BLOCKED", "STOP_REQUESTED", "STOPPED"}
    /\ ~attempts[a].result
    /\ AssignmentTask(a, PriorTaskState(attempts[a].state))
    /\ MoveBoth(a, "RECOVERED", "READY")

-----------------------------------------------------------------------------
(* Managed tasks between attempts. *)

EditManagedTask(s, t, c) ==
    /\ CurrentCoordinator(s)
    /\ ManagedTask(sessions[s].team, t)
    /\ ValidContent(c) /\ ~c.archived
    /\ ~tasks[t].archived
    /\ c.state = tasks[t].state
    /\ SaveTask(t, c)
    /\ UNCHANGED <<managed, hold, enabled, teamVars>>

FinalizeManagedTask(s, t, a) ==
    /\ CurrentCoordinator(s)
    /\ ManagedTask(sessions[s].team, t)
    /\ tasks[t].state = "REVIEW" /\ ~tasks[t].archived
    /\ attempts[a].team = sessions[s].team
    /\ attempts[a].task = t /\ attempts[a].state = "ACCEPTED"
    /\ SetState(t, "DONE")
    /\ UNCHANGED <<managed, hold, enabled, teamVars>>

\* Mutant: the release leaves the task row as it is.
UnmanageTask_SameRevision(team, t) ==
    /\ enabled
    /\ ManagedTask(team, t)
    /\ managed' = [managed EXCEPT ![t] = NoTeam]
    /\ UNCHANGED <<tasks, hold, enabled, teamVars>>

\* The admin's release: the revision advances although the content does not change.
UnmanageTask(team, t) ==
    /\ enabled
    /\ ManagedTask(team, t)
    /\ managed' = [managed EXCEPT ![t] = NoTeam]
    /\ SaveTask(t, Content(t))
    /\ UNCHANGED <<hold, enabled, teamVars>>
-----------------------------------------------------------------------------
SessionNext ==
    \/ \E team \in Teams, e \in Configurations : ConfigureTeam(team, e)
    \/ \E s \in Sessions, team \in Teams, tok \in Tokens, role \in Roles : JoinTeam(s, team, tok, role)
    \/ \E s \in Sessions : UpdateProfile(s) \/ Resume(s) \/ Leave(s)
    \/ \E s \in Sessions, v \in {"available", "unavailable"} : Heartbeat(s, v)
    \/ \E s \in Sessions, tok \in Tokens : RebindTeamSessionToken(s, tok)
    \/ \E from, to \in Sessions, admin \in BOOLEAN : HandoffTeamCoordinator(from, to, admin)
    \/ \E tok \in RevocableTokens : RevokeToken(tok)

AttemptNext ==
    \/ \E s, w \in Sessions, a \in Attempts, t \in Tasks : OfferTeamAssignment(s, a, t, w)
    \/ \E a \in Attempts : AcceptAssignment(a) \/ DeclineAssignment(a)
    \/ \E s \in Sessions, a \in Attempts : WithdrawAssignment(s, a)
    \/ \E op \in {"block", "resume-work", "stopped"}, a \in Attempts : WorkerChangesWork(op, a)
    \/ \E op \in {"cancel", "close-stop"}, s \in Sessions, a \in Attempts :
          CoordinatorChangesWork(op, s, a)
    \/ \E a \in Attempts : SubmitTeamResult(a) \/ RecoverTeamAssignment(a)
    \/ \E s \in Sessions, a \in Attempts, accept \in BOOLEAN : ReviewTeamResult(s, a, accept)

ManagedNext ==
    \/ \E s \in Sessions, t \in Tasks, c \in Contents : EditManagedTask(s, t, c)
    \/ \E s \in Sessions, t \in Tasks, a \in Attempts : FinalizeManagedTask(s, t, a)
    \/ \E team \in Teams, t \in Tasks : UnmanageTask(team, t)

TeamNext == SessionNext \/ AttemptNext \/ ManagedNext

-----------------------------------------------------------------------------
(* Invariants. *)

TeamTypeOK ==
    /\ enrollment \in [Teams -> [Users -> Enrollments]]
    /\ liveTokens \subseteq Tokens
    /\ control \in [Teams -> 0..MaxSlotGeneration]
    /\ sessions \in [Sessions -> SessionType]
    /\ attempts \in [Attempts -> AttemptType]

HoldsSlot(s) == sessions[s].state = "active" /\ sessions[s].role = "coordinator"

(***************************************************************************)
(* Join, resume, token replacement and both kinds of handoff hand out the  *)
(* slot: a team never has two active coordinators, and the one it has      *)
(* carries the slot's current generation, so it can always command; no     *)
(* session carries a generation the slot has not reached.                  *)
(***************************************************************************)
CoordinatorSlot ==
    /\ \A s, x \in Sessions :
          HoldsSlot(s) /\ HoldsSlot(x) /\ sessions[s].team = sessions[x].team => s = x
    /\ \A s \in Sessions : HoldsSlot(s) => sessions[s].coordGen = control[sessions[s].team]
    /\ \A s \in Sessions :
          sessions[s].state # "unused" => sessions[s].coordGen <= control[sessions[s].team]

(***************************************************************************)
(* One reserved attempt per task and per worker, from the checks in the    *)
(* operations alone (the unique indexes would turn a miss into an error).  *)
(***************************************************************************)
ExclusiveReservation ==
    \A a, b \in Attempts :
        /\ attempts[a].state \in ReservedStates /\ attempts[b].state \in ReservedStates
        /\ attempts[a].task = attempts[b].task \/ attempts[a].worker = attempts[b].worker
        => a = b

\* The task state an attempt's state stands for.
TaskStateOf(state) ==
    CASE state = "OFFERED" -> "READY"
      [] state = "RUNNING" -> "IN_PROGRESS"
      [] state = "SUBMITTED" -> "REVIEW"
      [] OTHER -> "BLOCKED"

(***************************************************************************)
(* The two rows every transition writes together never disagree: a task    *)
(* under a reserved attempt is managed by the attempt's team, is in the    *)
(* state the attempt stands for, is not archived and is not under a        *)
(* reservation of the ledger; while the attempt is an offer, the task is   *)
(* still at the revision that was offered.  No generic write, edit or      *)
(* claim gets between the two.                                             *)
(***************************************************************************)
AttemptTaskAgreement ==
    \A a \in Attempts :
        attempts[a].state \in ReservedStates =>
            LET t == attempts[a].task IN
            /\ t \in Tasks /\ Exists(t)
            /\ managed[t] = attempts[a].team
            /\ tasks[t].state = TaskStateOf(attempts[a].state) /\ ~tasks[t].archived
            /\ RejectActiveReservation(t)
            /\ attempts[a].state = "OFFERED" => tasks[t].revision = attempts[a].taskRevision

(***************************************************************************)
(* A worker that still has its session can always command the work it      *)
(* accepted: after any number of resumes and token replacements the        *)
(* attempt records the session's current generation.  Only an offer, and   *)
(* the attempt of a session that left, may hold an older one.              *)
(***************************************************************************)
WorkerHandleFollows ==
    \A a \in Attempts :
        attempts[a].state \in ReservedStates =>
            LET s == attempts[a].worker IN
            /\ s \in Sessions /\ sessions[s].team = attempts[a].team
            /\ sessions[s].role = "worker"
            /\ attempts[a].workerGen <= sessions[s].generation
            /\ attempts[a].state # "OFFERED" /\ sessions[s].state = "active"
               => attempts[a].workerGen = sessions[s].generation

(***************************************************************************)
(* A managed task between attempts is READY for the next one, or in REVIEW *)
(* or DONE on the strength of a result its team accepted.  In particular   *)
(* no path leaves it IN_PROGRESS or BLOCKED with nobody working on it.     *)
(***************************************************************************)
ManagedIdleShape ==
    \A t \in Tasks :
        managed[t] # NoTeam /\ ReservedAttempts(t) = {} =>
            /\ ~tasks[t].archived
            /\ \/ tasks[t].state = "READY"
               \/ /\ tasks[t].state \in {"REVIEW", "DONE"}
                  /\ \E a \in Attempts : /\ attempts[a].task = t
                                         /\ attempts[a].team = managed[t]
                                         /\ attempts[a].state = "ACCEPTED"

-----------------------------------------------------------------------------
(* Action properties. *)

(***************************************************************************)
(* Whoever becomes able to command as coordinator, by joining, resuming,   *)
(* a replaced token or a handoff, does so under a slot generation nobody   *)
(* has used before: commands of an earlier holder, or under an earlier     *)
(* handle of the same one, stay refused for good.                          *)
(***************************************************************************)
SlotHandle(s) == <<s, sessions[s].token, sessions[s].generation>>

FreshSlotGeneration ==
    [][\A s \in Sessions :
          HoldsSlot(s)' /\ (~HoldsSlot(s) \/ SlotHandle(s)' # SlotHandle(s))
          => /\ control'[sessions'[s].team] > control[sessions'[s].team]
             /\ sessions'[s].coordGen = control'[sessions'[s].team]]_<<storeVars, teamVars>>

(***************************************************************************)
(* Reserved work survives everything that happens to sessions: only a      *)
(* decision on the attempt itself (decline, withdraw, review, close-stop   *)
(* or the operator's recovery) frees the worker and the task, and a closed *)
(* attempt never changes again.                                            *)
(***************************************************************************)
ReservedWorkSurvives ==
    [][\A a \in Attempts :
          /\ attempts[a].state \in ClosedStates => attempts'[a] = attempts[a]
          /\ attempts[a].state \in ReservedStates /\ attempts'[a].state # attempts[a].state
             => UNCHANGED <<enrollment, liveTokens, control, sessions>>]_<<storeVars, teamVars>>

(***************************************************************************)
(* A change of what the team manages or of a managed task's state moves    *)
(* its revision on, except that an offer may take a task over as it is: a  *)
(* command decided on an older revision can no longer apply.               *)
(***************************************************************************)
RevisionMarksChange ==
    [][\A t \in Tasks :
          /\ tasks'[t] # tasks[t] => tasks'[t].revision = tasks[t].revision + 1
          /\ managed[t] # NoTeam /\ managed'[t] # managed[t] => tasks'[t] # tasks[t]]_<<storeVars, teamVars>>
=============================================================================
