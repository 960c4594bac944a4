------------------------ MODULE HubCoordination_proofs ------------------------
(***************************************************************************)
(* Theorems about HubCoordination, for every value of its constants: who   *)
(* owns a task, a worker, a slot and a hold, and what the reservation      *)
(* ledger says of its holds.  HubTeams_proofs goes on from here.           *)
(***************************************************************************)
EXTENDS HubCoordination, TLAPS

HubTypeOK == StoreTypeOK /\ TeamTypeOK /\ LedgerTypeOK

-----------------------------------------------------------------------------
(* Type correctness. *)

\* The initial state of all three mechanisms is well-typed.
LEMMA TypeInit == HubInit => HubTypeOK
<1> SUFFICES ASSUME HubInit PROVE HubTypeOK
  OBVIOUS
<1> USE StoreAssumption, TeamAssumption, LedgerAssumption
<1>1. StoreTypeOK
  BY DEF HubInit, StoreInit, StoreTypeOK, TaskStates
<1>2. TeamTypeOK
  BY DEF HubInit, TeamInit, TeamTypeOK, SessionType, AttemptType, UnusedSession, UnusedAttempt,
         Enrollments, Roles
<1>3. LedgerTypeOK
  BY DEF HubInit, LedgerInit, LedgerTypeOK, HoldType, FreeHold, ServiceRow, NoRow, NoEvidence, NoHold
<1> QED BY <1>1, <1>2, <1>3 DEF HubTypeOK

\* WriteTask keeps the task rows well-typed when it writes a state of the table.
LEMMA WriteTaskType ==
    ASSUME StoreTypeOK, NEW t \in Tasks, NEW c \in ContentType, WriteTask(t, c)
    PROVE  /\ tasks' \in [Tasks -> [state : TaskStates, archived : BOOLEAN,
                                    deps : SUBSET Tasks, revision : 0..MaxRevision]]
           /\ tasks'[t] = [state |-> c.state, archived |-> c.archived, deps |-> c.deps,
                           revision |-> tasks[t].revision + 1]
           /\ \A x \in Tasks \ {t} : tasks'[x] = tasks[x]
  BY StoreAssumption DEF StoreTypeOK, WriteTask, ContentType

\* A task's own content, with any state of the table, is content a writer could submit.
LEMMA ContentOfTask ==
    ASSUME StoreTypeOK, NEW t \in Tasks
    PROVE  /\ Content(t) \in ContentType
           /\ \A s \in TaskStates : [Content(t) EXCEPT !.state = s] \in ContentType
  BY DEF StoreTypeOK, Content, ContentType

\* Ordinary writes and the switch keep the store's types.
LEMMA StoreStepType ==
    ASSUME StoreTypeOK, StoreNext
    PROVE  StoreTypeOK'
<1> USE StoreAssumption
<1>1. ASSUME NEW t \in Tasks, NEW c \in Contents, CreateTask(t, c) \/ UpdateTask(t, c)
      PROVE  StoreTypeOK'
  <2>1. c \in ContentType /\ WriteTask(t, c)
    BY <1>1 DEF CreateTask, UpdateTask, SaveTask
  <2>2. UNCHANGED <<managed, enabled>>
    BY <1>1 DEF CreateTask, UpdateTask
  <2> QED BY <2>1, <2>2, WriteTaskType DEF StoreTypeOK
<1>2. ASSUME NEW t \in Tasks, NEW s \in TaskStates, TriageTask(t, s)
      PROVE  StoreTypeOK'
  <2>1. WriteTask(t, [Content(t) EXCEPT !.state = s])
    BY <1>2 DEF TriageTask, SetState, SaveTask
  <2>2. [Content(t) EXCEPT !.state = s] \in ContentType
    BY ContentOfTask
  <2>3. UNCHANGED <<managed, enabled>>
    BY <1>2 DEF TriageTask
  <2> QED BY <2>1, <2>2, <2>3, WriteTaskType DEF StoreTypeOK
<1>3. ASSUME NEW on \in Switches, SetTasksEnabled(on)
      PROVE  StoreTypeOK'
  BY <1>3 DEF SetTasksEnabled, StoreTypeOK
<1> QED BY <1>1, <1>2, <1>3 DEF StoreNext

\* A write of a task by a team step, whatever it does to the managing team.
LEMMA SaveTaskType ==
    ASSUME StoreTypeOK, NEW t \in Tasks, NEW c \in ContentType, SaveTask(t, c),
           managed' \in [Tasks -> Teams \cup {NoTeam}], UNCHANGED enabled
    PROVE  StoreTypeOK'
  BY WriteTaskType DEF SaveTask, StoreTypeOK

\* The same for a write that only sets the task's state.
LEMMA SetStateType ==
    ASSUME StoreTypeOK, NEW t \in Tasks, NEW s \in TaskStates, SetState(t, s),
           managed' \in [Tasks -> Teams \cup {NoTeam}], UNCHANGED enabled
    PROVE  StoreTypeOK'
  BY SaveTaskType, ContentOfTask DEF SetState

\* The states an attempt's row can have.
AttemptStates == {"unused"} \cup ReservedStates \cup ClosedStates

\* A transition of one attempt changes its state and nothing else of any attempt.
LEMMA MoveAttemptType ==
    ASSUME TeamTypeOK, NEW a \in Attempts, NEW s \in AttemptStates, MoveAttempt(a, s)
    PROVE  /\ attempts' \in [Attempts -> AttemptType]
           /\ attempts'[a].state = s /\ attempts'[a].task = attempts[a].task
           /\ attempts'[a].team = attempts[a].team /\ attempts'[a].worker = attempts[a].worker
           /\ attempts'[a].workerGen = attempts[a].workerGen
           /\ attempts'[a].taskRevision = attempts[a].taskRevision
           /\ \A x \in Attempts \ {a} : attempts'[x] = attempts[x]
  BY DEF TeamTypeOK, MoveAttempt, AttemptType, AttemptStates

-----------------------------------------------------------------------------
(***************************************************************************)
(* Sessions and attempts in use refer to rows that exist.  The types alone *)
(* are not inductive: a command reads the rows its session or attempt      *)
(* names.                                                                  *)
(***************************************************************************)
Anchored ==
    /\ \A s \in Sessions : sessions[s].state # "unused" => sessions[s].team \in Teams
    /\ \A a \in Attempts :
          attempts[a].state # "unused" =>
             attempts[a].task \in Tasks /\ attempts[a].team \in Teams
             /\ attempts[a].worker \in Sessions

TeamOK == TeamTypeOK /\ Anchored

\* The row of a session that gets a new handle.
LEMMA ReissuedRow ==
    ASSUME NEW r \in SessionType, r.generation < MaxGeneration, NEW tok \in Tokens,
           NEW c \in 0..MaxSlotGeneration, NEW n, n = Reissued(r, tok, c)
    PROVE  /\ n \in SessionType
           /\ n.state = r.state /\ n.team = r.team /\ n.role = r.role /\ n.user = r.user
           /\ n.token = tok /\ n.generation = r.generation + 1 /\ n.coordGen = c
<1>1. r.generation + 1 \in 0..MaxGeneration
  BY TeamAssumption DEF SessionType
<1> QED BY <1>1, Zenon DEF SessionType, Reissued

\* The row of a session that leaves: the slot generation stays, the handle's moves on.
LEMMA LeftRow ==
    ASSUME NEW r \in SessionType, r.generation < MaxGeneration
    PROVE  /\ Left(r) \in SessionType
           /\ Left(r).state = "left" /\ Left(r).team = r.team /\ Left(r).role = r.role
           /\ Left(r).coordGen = r.coordGen /\ Left(r).generation = r.generation + 1
<1>1. r.generation + 1 \in 0..MaxGeneration
  BY TeamAssumption DEF SessionType
<1> QED BY <1>1, Zenon DEF SessionType, Left

\* The row of the session a handoff promotes: its own handle stays.
LEMMA PromotedRow ==
    ASSUME NEW r \in SessionType, NEW c \in 0..MaxSlotGeneration, NEW n, n = Promoted(r, c)
    PROVE  /\ n \in SessionType
           /\ n.state = r.state /\ n.team = r.team /\ n.role = "coordinator" /\ n.coordGen = c
           /\ n.generation = r.generation
  BY Zenon DEF SessionType, Roles, Promoted

\* The row of an attempt that follows its worker's new generation.
LEMMA ReboundRow ==
    ASSUME NEW r \in AttemptType, NEW g \in 0..MaxGeneration
    PROVE  /\ Rebound(r, g) \in AttemptType
           /\ Rebound(r, g).state = r.state /\ Rebound(r, g).task = r.task
           /\ Rebound(r, g).team = r.team /\ Rebound(r, g).worker = r.worker
           /\ Rebound(r, g).taskRevision = r.taskRevision /\ Rebound(r, g).workerGen = g
  BY Zenon DEF AttemptType, Rebound

\* A join keeps the types, whatever role it asks for.
LEMMA JoinType ==
    ASSUME TeamOK, NEW s \in Sessions, NEW team \in Teams, NEW tok \in Tokens, NEW role \in Roles,
           JoinTeam(s, team, tok, role)
    PROVE  TeamOK'
<1> USE TeamAssumption
<1>1. control' \in [Teams -> 0..MaxSlotGeneration]
  BY DEF TeamOK, TeamTypeOK, JoinTeam, NextCoordinatorGeneration
<1>2. UserOf[tok] \in Users
  OBVIOUS
<1>3. sessions' \in [Sessions -> SessionType]
  BY <1>1, <1>2 DEF TeamOK, TeamTypeOK, JoinTeam, SessionType, Roles
<1>4. UNCHANGED <<enrollment, liveTokens, attempts>>
  BY DEF JoinTeam
<1>5. TeamTypeOK'
  BY <1>1, <1>3, <1>4 DEF TeamOK, TeamTypeOK
<1>6. Anchored'
  BY <1>4 DEF TeamOK, TeamTypeOK, Anchored, JoinTeam
<1> QED BY <1>5, <1>6 DEF TeamOK

(***************************************************************************)
(* Resume and token replacement: the session's row, the slot of its team   *)
(* and the generation of its reserved attempt are all that moves.          *)
(***************************************************************************)
LEMMA Reissue ==
    ASSUME TeamOK, NEW s \in Sessions, NEW tok \in Tokens, sessions[s].state = "active",
           ReissueHandle(s, tok)
    PROVE  \E c \in 0..MaxSlotGeneration :
              LET r == sessions[s] IN
              /\ sessions' = [sessions EXCEPT ![s] = Reissued(r, tok, c)]
              /\ r.generation < MaxGeneration
              /\ r.role = "coordinator" =>
                    control' = [control EXCEPT ![r.team] = @ + 1] /\ c = control[r.team] + 1
              /\ r.role # "coordinator" => UNCHANGED control /\ c = r.coordGen
              /\ control' \in [Teams -> 0..MaxSlotGeneration]
              /\ attempts' \in [Attempts -> AttemptType]
              /\ \A a \in Attempts :
                    /\ attempts'[a].state = attempts[a].state
                    /\ attempts'[a].task = attempts[a].task
                    /\ attempts'[a].team = attempts[a].team
                    /\ attempts'[a].worker = attempts[a].worker
                    /\ attempts'[a].taskRevision = attempts[a].taskRevision
<1> USE TeamAssumption
<1> DEFINE r == sessions[s]
           c == IF r.role = "coordinator" THEN control'[r.team] ELSE r.coordGen
<1>1. r \in SessionType /\ r.team \in Teams
  BY DEF TeamOK, TeamTypeOK, Anchored
<1>2. control' \in [Teams -> 0..MaxSlotGeneration]
  BY DEF TeamOK, TeamTypeOK, ReissueHandle, NextCoordinatorGeneration
<1>3. r.generation < MaxGeneration /\ r.generation + 1 \in 0..MaxGeneration
  BY <1>1 DEF ReissueHandle, SessionType
<1>4. c \in 0..MaxSlotGeneration
  BY <1>1, <1>2 DEF SessionType
<1>5. sessions' = [sessions EXCEPT ![s] = Reissued(r, tok, c)]
  BY DEF ReissueHandle
<1>6. /\ r.role = "coordinator" => /\ control' = [control EXCEPT ![r.team] = @ + 1]
                                   /\ c = control[r.team] + 1
      /\ r.role # "coordinator" => UNCHANGED control /\ c = r.coordGen
  BY <1>1 DEF ReissueHandle, NextCoordinatorGeneration, TeamOK, TeamTypeOK
<1>7. /\ attempts' \in [Attempts -> AttemptType]
      /\ \A a \in Attempts : /\ attempts'[a].state = attempts[a].state
                             /\ attempts'[a].task = attempts[a].task
                             /\ attempts'[a].team = attempts[a].team
                             /\ attempts'[a].worker = attempts[a].worker
                             /\ attempts'[a].taskRevision = attempts[a].taskRevision
  <2>1. CASE UNCHANGED attempts
    BY <2>1 DEF TeamOK, TeamTypeOK
  <2>2. CASE RebindReservedAssignment(s, r.generation + 1)
    <3>1. \A a \in Attempts : attempts[a] \in AttemptType
      BY DEF TeamOK, TeamTypeOK
    <3>2. \A a \in Attempts : /\ Rebound(attempts[a], r.generation + 1) \in AttemptType
                              /\ Rebound(attempts[a], r.generation + 1).state = attempts[a].state
                              /\ Rebound(attempts[a], r.generation + 1).task = attempts[a].task
                              /\ Rebound(attempts[a], r.generation + 1).team = attempts[a].team
                              /\ Rebound(attempts[a], r.generation + 1).worker = attempts[a].worker
                              /\ Rebound(attempts[a], r.generation + 1).taskRevision
                                    = attempts[a].taskRevision
      BY <1>3, <3>1, ReboundRow
    <3> QED BY <2>2, <3>1, <3>2 DEF RebindReservedAssignment
  <2>3. UNCHANGED attempts \/ RebindReservedAssignment(s, r.generation + 1)
    BY DEF ReissueHandle
  <2> QED BY <2>1, <2>2, <2>3
<1> HIDE DEF c
<1> QED BY <1>2, <1>3, <1>4, <1>5, <1>6, <1>7

\* So a new handle keeps the types.
LEMMA ReissueType ==
    ASSUME TeamOK, NEW s \in Sessions, NEW tok \in Tokens, sessions[s].state = "active",
           ReissueHandle(s, tok), UNCHANGED <<enrollment, liveTokens>>
    PROVE  TeamOK'
<1>1. PICK c \in 0..MaxSlotGeneration :
        /\ sessions' = [sessions EXCEPT ![s] = Reissued(sessions[s], tok, c)]
        /\ sessions[s].generation < MaxGeneration
        /\ control' \in [Teams -> 0..MaxSlotGeneration]
        /\ attempts' \in [Attempts -> AttemptType]
        /\ \A a \in Attempts :
              /\ attempts'[a].state = attempts[a].state
              /\ attempts'[a].task = attempts[a].task
              /\ attempts'[a].team = attempts[a].team
              /\ attempts'[a].worker = attempts[a].worker
  BY Reissue
<1>2. sessions \in [Sessions -> SessionType]
  BY DEF TeamOK, TeamTypeOK
<1>3. /\ Reissued(sessions[s], tok, c) \in SessionType
      /\ Reissued(sessions[s], tok, c).state = sessions[s].state
      /\ Reissued(sessions[s], tok, c).team = sessions[s].team
  BY <1>1, <1>2, ReissuedRow
<1>4. sessions' \in [Sessions -> SessionType]
  BY <1>1, <1>2, <1>3
<1>5. \A x \in Sessions : sessions'[x].state = sessions[x].state
                          /\ sessions'[x].team = sessions[x].team
  BY <1>1, <1>2, <1>3
<1>6. TeamTypeOK'
  BY <1>1, <1>4 DEF TeamOK, TeamTypeOK
<1>7. Anchored'
  BY <1>1, <1>5 DEF TeamOK, Anchored
<1> QED BY <1>6, <1>7 DEF TeamOK

\* The steps of sessions: the rows of the store are untouched.
LEMMA SessionStepType ==
    ASSUME TeamOK, SessionNext
    PROVE  TeamOK' /\ UNCHANGED storeVars
<1> USE TeamAssumption
<1>0. /\ sessions \in [Sessions -> SessionType] /\ liveTokens \subseteq Tokens
      /\ \A s \in Sessions : sessions[s] \in SessionType
      /\ \A s \in Sessions : sessions[s].state # "unused" => sessions[s].team \in Teams
  BY DEF TeamOK, TeamTypeOK, Anchored
<1>1. ASSUME NEW team \in Teams, NEW e \in Configurations, ConfigureTeam(team, e)
      PROVE  TeamOK' /\ UNCHANGED storeVars
  BY <1>1 DEF ConfigureTeam, TeamOK, TeamTypeOK, Anchored
<1>2. ASSUME NEW s \in Sessions, NEW team \in Teams, NEW tok \in Tokens, NEW role \in Roles,
             JoinTeam(s, team, tok, role)
      PROVE  TeamOK' /\ UNCHANGED storeVars
  BY <1>2, JoinType DEF JoinTeam
<1>3. ASSUME NEW s \in Sessions, UpdateProfile(s)
      PROVE  TeamOK' /\ UNCHANGED storeVars
  <2>1. /\ sessions' \in [Sessions -> SessionType]
        /\ \A x \in Sessions : sessions'[x].state = sessions[x].state
                              /\ sessions'[x].team = sessions[x].team
    BY <1>0, <1>3 DEF UpdateProfile, SessionType
  <2> QED BY <2>1, <1>3 DEF UpdateProfile, TeamOK, TeamTypeOK, Anchored
<1>4. ASSUME NEW s \in Sessions, Resume(s)
      PROVE  TeamOK' /\ UNCHANGED storeVars
  <2>1. sessions[s].state = "active" /\ sessions[s].token \in Tokens
    BY <1>0, <1>4 DEF Resume, CurrentSession
  <2> QED BY <2>1, <1>4, ReissueType DEF Resume
<1>5. ASSUME NEW s \in Sessions, Leave(s)
      PROVE  TeamOK' /\ UNCHANGED storeVars
  <2>1. /\ sessions' \in [Sessions -> SessionType]
        /\ \A x \in Sessions : sessions'[x].team = sessions[x].team
        /\ sessions[s].state = "active"
        /\ \A x \in Sessions \ {s} : sessions'[x] = sessions[x]
    BY <1>0, <1>5, LeftRow DEF Leave, CurrentSession
  <2> QED BY <2>1, <1>0, <1>5 DEF Leave, TeamOK, TeamTypeOK, Anchored
<1>6. ASSUME NEW s \in Sessions, NEW v \in {"available", "unavailable"}, Heartbeat(s, v)
      PROVE  TeamOK' /\ UNCHANGED storeVars
  <2>1. /\ sessions' \in [Sessions -> SessionType]
        /\ \A x \in Sessions : sessions'[x].state = sessions[x].state
                              /\ sessions'[x].team = sessions[x].team
    BY <1>0, <1>6 DEF Heartbeat, SessionType
  <2> QED BY <2>1, <1>6 DEF Heartbeat, TeamOK, TeamTypeOK, Anchored
<1>7. ASSUME NEW s \in Sessions, NEW tok \in Tokens, RebindTeamSessionToken(s, tok)
      PROVE  TeamOK' /\ UNCHANGED storeVars
  BY <1>7, ReissueType DEF RebindTeamSessionToken
<1>8. ASSUME NEW from \in Sessions, NEW to \in Sessions, NEW admin \in BOOLEAN,
             HandoffTeamCoordinator(from, to, admin)
      PROVE  TeamOK' /\ UNCHANGED storeVars
  <2>1. sessions[from].state = "active" /\ sessions[from].team \in Teams
    BY <1>0, <1>8 DEF HandoffTeamCoordinator, OutgoingCoordinator, CurrentCoordinator, CurrentSession
  <2>2. control' \in [Teams -> 0..MaxSlotGeneration]
    BY <1>8, <2>1 DEF HandoffTeamCoordinator, NextCoordinatorGeneration, TeamOK, TeamTypeOK
  <2>3. PICK c \in 0..MaxSlotGeneration : c = control'[sessions[from].team]
    BY <2>1, <2>2
  <2>4. /\ Left(sessions[from]) \in SessionType
        /\ Left(sessions[from]).team = sessions[from].team
    BY <1>0, <1>8, LeftRow DEF HandoffTeamCoordinator
  <2>5. /\ Promoted(sessions[to], c) \in SessionType
        /\ Promoted(sessions[to], c).team = sessions[to].team
    BY <1>0, PromotedRow
  <2>6. /\ sessions' = [sessions EXCEPT ![from] = Left(sessions[from]),
                                        ![to] = Promoted(sessions[to], c)]
        /\ UNCHANGED <<storeVars, enrollment, liveTokens, attempts>>
        /\ sessions[to].team = sessions[from].team
    BY <1>8, <2>3 DEF HandoffTeamCoordinator
  <2>7. /\ sessions' \in [Sessions -> SessionType]
        /\ \A x \in Sessions : sessions'[x].team \in Teams \/ sessions'[x] = sessions[x]
    BY <1>0, <2>1, <2>4, <2>5, <2>6
  <2>8. TeamTypeOK'
    BY <2>2, <2>6, <2>7 DEF TeamOK, TeamTypeOK
  <2>9. Anchored'
    BY <2>6, <2>7 DEF TeamOK, Anchored
  <2> QED BY <2>6, <2>8, <2>9 DEF TeamOK
<1>9. ASSUME NEW tok \in RevocableTokens, RevokeToken(tok)
      PROVE  TeamOK' /\ UNCHANGED storeVars
  BY <1>9 DEF RevokeToken, TeamOK, TeamTypeOK, Anchored
<1> QED BY <1>1, <1>2, <1>3, <1>4, <1>5, <1>6, <1>7, <1>8, <1>9 DEF SessionNext

\* A transition of an attempt that is in use leaves it anchored.
LEMMA MoveAttemptOK ==
    ASSUME TeamOK, NEW a \in Attempts, NEW s \in AttemptStates, MoveAttempt(a, s),
           attempts[a].state # "unused", UNCHANGED <<enrollment, liveTokens, control, sessions>>
    PROVE  TeamOK'
<1>1. TeamTypeOK'
  BY MoveAttemptType DEF TeamOK, TeamTypeOK
<1>2. Anchored'
  BY MoveAttemptType DEF TeamOK, Anchored
<1> QED BY <1>1, <1>2 DEF TeamOK

\* The transition that writes the task as well.
LEMMA MoveBothOK ==
    ASSUME TeamOK, StoreTypeOK, NEW a \in Attempts, NEW s \in AttemptStates,
           NEW ts \in TaskStates, MoveBoth(a, s, ts), attempts[a].state # "unused"
    PROVE  TeamOK' /\ StoreTypeOK'
<1>1. TeamOK'
  BY MoveAttemptOK DEF MoveBoth
<1>2. attempts[a].task \in Tasks
  BY DEF TeamOK, Anchored
<1>3. managed' \in [Tasks -> Teams \cup {NoTeam}]
  BY DEF MoveBoth, StoreTypeOK
<1> QED BY <1>1, <1>2, <1>3, SetStateType DEF MoveBoth

\* The states an operation on work under way can reach.
LEMMA WorkTransitionStates ==
    ASSUME NEW op, NEW state, WorkTransition(op, state) # <<>>
    PROVE  /\ WorkTransition(op, state)[1] \in AttemptStates
           /\ WorkTransition(op, state)[2] \in TaskStates
           /\ state \in {"RUNNING", "BLOCKED", "STOP_REQUESTED", "STOPPED"}
  BY DEF WorkTransition, AttemptStates, ReservedStates, ClosedStates, TaskStates

\* Block, resume, cancel, stopped and close-stop keep the types.
LEMMA ChangeWorkOK ==
    ASSUME TeamOK, StoreTypeOK, NEW a \in Attempts, NEW op, ChangeWork(op, a)
    PROVE  TeamOK' /\ StoreTypeOK'
<1> DEFINE next == WorkTransition(op, attempts[a].state)
<1>1. next # <<>> /\ MoveBoth(a, next[1], next[2])
  BY DEF ChangeWork
<1>2. next[1] \in AttemptStates /\ next[2] \in TaskStates /\ attempts[a].state # "unused"
  BY <1>1, WorkTransitionStates
<1> HIDE DEF next
<1> QED BY <1>1, <1>2, MoveBothOK

\* Every step of an attempt, from the offer to its end, keeps the types.
LEMMA AttemptStepType ==
    ASSUME TeamOK, StoreTypeOK, AttemptNext
    PROVE  TeamOK' /\ StoreTypeOK'
<1> USE TeamAssumption
<1> USE DEF AttemptStates, ReservedStates, ClosedStates, TaskStates
<1>1. ASSUME NEW s \in Sessions, NEW w \in Sessions, NEW a \in Attempts, NEW t \in Tasks,
             OfferTeamAssignment(s, a, t, w)
      PROVE  TeamOK' /\ StoreTypeOK'
  <2>1. sessions[s].team \in Teams /\ sessions[w] \in SessionType /\ tasks[t].revision \in 0..MaxRevision
    BY <1>1 DEF TeamOK, TeamTypeOK, Anchored, StoreTypeOK, OfferTeamAssignment, CurrentCoordinator,
                CurrentSession
  <2> DEFINE n == [team |-> sessions[s].team, task |-> t, state |-> "OFFERED", worker |-> w,
                   workerGen |-> sessions[w].generation, taskRevision |-> tasks[t].revision,
                   profile |-> sessions[w].profile, result |-> FALSE]
  <2>2. n \in AttemptType
    BY <2>1 DEF AttemptType, SessionType
  <2>3. /\ attempts' = [attempts EXCEPT ![a] = n]
        /\ managed' = [managed EXCEPT ![t] = sessions[s].team]
        /\ UNCHANGED <<tasks, hold, enabled, enrollment, liveTokens, control, sessions>>
    BY <1>1 DEF OfferTeamAssignment
  <2>4. n.task = t /\ n.team = sessions[s].team /\ n.worker = w
    OBVIOUS
  <2> HIDE DEF n
  <2>5. TeamTypeOK'
    BY <2>2, <2>3 DEF TeamOK, TeamTypeOK
  <2>6. Anchored'
    BY <2>1, <2>3, <2>4 DEF TeamOK, TeamTypeOK, Anchored
  <2>7. StoreTypeOK'
    BY <2>1, <2>3 DEF StoreTypeOK
  <2> QED BY <2>5, <2>6, <2>7 DEF TeamOK
<1>2. ASSUME NEW a \in Attempts, AcceptAssignment(a)
      PROVE  TeamOK' /\ StoreTypeOK'
  BY <1>2, MoveBothOK DEF AcceptAssignment
<1>3. ASSUME NEW a \in Attempts, DeclineAssignment(a)
      PROVE  TeamOK' /\ StoreTypeOK'
  BY <1>3, MoveAttemptOK DEF DeclineAssignment, storeVars, StoreTypeOK
<1>4. ASSUME NEW s \in Sessions, NEW a \in Attempts, WithdrawAssignment(s, a)
      PROVE  TeamOK' /\ StoreTypeOK'
  BY <1>4, MoveAttemptOK DEF WithdrawAssignment, storeVars, StoreTypeOK
<1>5. ASSUME NEW op, NEW a \in Attempts, WorkerChangesWork(op, a)
      PROVE  TeamOK' /\ StoreTypeOK'
  BY <1>5, ChangeWorkOK DEF WorkerChangesWork
<1>6. ASSUME NEW op, NEW s \in Sessions, NEW a \in Attempts, CoordinatorChangesWork(op, s, a)
      PROVE  TeamOK' /\ StoreTypeOK'
  BY <1>6, ChangeWorkOK DEF CoordinatorChangesWork
<1>7. ASSUME NEW a \in Attempts, SubmitTeamResult(a)
      PROVE  TeamOK' /\ StoreTypeOK'
  <2>1. attempts[a].task \in Tasks
    BY <1>7 DEF SubmitTeamResult, TeamOK, Anchored
  <2>2. StoreTypeOK'
    BY <1>7, <2>1, SetStateType DEF SubmitTeamResult, StoreTypeOK
  <2>3. attempts' \in [Attempts -> AttemptType]
    BY <1>7 DEF SubmitTeamResult, TeamOK, TeamTypeOK, AttemptType
  <2>4. TeamTypeOK'
    BY <1>7, <2>3 DEF SubmitTeamResult, TeamOK, TeamTypeOK
  <2>5. Anchored'
    BY <1>7 DEF SubmitTeamResult, TeamOK, TeamTypeOK, Anchored
  <2> QED BY <2>2, <2>4, <2>5 DEF TeamOK
<1>8. ASSUME NEW a \in Attempts, RecoverTeamAssignment(a)
      PROVE  TeamOK' /\ StoreTypeOK'
  BY <1>8, MoveBothOK DEF RecoverTeamAssignment
<1>9. ASSUME NEW s \in Sessions, NEW a \in Attempts, NEW accept \in BOOLEAN,
             ReviewTeamResult(s, a, accept)
      PROVE  TeamOK' /\ StoreTypeOK'
  BY <1>9, MoveBothOK DEF ReviewTeamResult
<1> QED BY <1>1, <1>2, <1>3, <1>4, <1>5, <1>6, <1>7, <1>8, <1>9 DEF AttemptNext

\* Edits, finalization and release of a managed task keep the types.
LEMMA ManagedStepType ==
    ASSUME TeamOK, StoreTypeOK, ManagedNext
    PROVE  TeamOK' /\ StoreTypeOK'
<1> USE StoreAssumption
<1>1. UNCHANGED teamVars => TeamOK'
  BY DEF teamVars, TeamOK, TeamTypeOK, Anchored
<1>2. ASSUME NEW s \in Sessions, NEW t \in Tasks, NEW c \in Contents, EditManagedTask(s, t, c)
      PROVE  TeamOK' /\ StoreTypeOK'
  BY <1>1, <1>2, SaveTaskType DEF EditManagedTask, StoreTypeOK
<1>3. ASSUME NEW s \in Sessions, NEW t \in Tasks, NEW a \in Attempts, FinalizeManagedTask(s, t, a)
      PROVE  TeamOK' /\ StoreTypeOK'
  BY <1>1, <1>3, SetStateType DEF FinalizeManagedTask, StoreTypeOK, TaskStates
<1>4. ASSUME NEW team \in Teams, NEW t \in Tasks, UnmanageTask(team, t)
      PROVE  TeamOK' /\ StoreTypeOK'
  BY <1>1, <1>4, SaveTaskType, ContentOfTask DEF UnmanageTask, StoreTypeOK
<1> QED BY <1>2, <1>3, <1>4 DEF ManagedNext

\* The evidence rows follow the hold; their numbers are the fences of holds.
LEMMA TrackType ==
    ASSUME LedgerTypeOK, hold' \in [Tasks -> HoldType], NEW t \in Tasks, TrackServiceReservation(t)
    PROVE  services' \in [Tasks -> [Services -> ServiceRow]]
<1> DEFINE Row(v) ==
        CASE /\ hold'[t].id # NoHold /\ hold'[t].by.mode = "team" /\ hold'[t].by.service = v
             /\ \/ hold'[t].id # hold[t].id
                \/ hold[t].by.mode # "team" \/ hold[t].by.service # v
                -> [id |-> hold'[t].id, closing |-> 0]
          [] /\ hold'[t].id = NoHold
             /\ hold[t].by.mode = "team" /\ hold[t].by.service = v /\ services[t][v].id = hold[t].id
                -> [services[t][v] EXCEPT !.closing = hold'[t].fence]
          [] OTHER -> services[t][v]
<1>1. services' = [services EXCEPT ![t] = [v \in Services |-> Row(v)]]
  BY DEF TrackServiceReservation, LedgerTypeOK
<1>2. ASSUME NEW v \in Services
      PROVE  Row(v) \in ServiceRow
  <2>1. /\ services[t][v] \in ServiceRow
        /\ hold'[t].id \in 0..MaxFence /\ hold'[t].fence \in 0..MaxFence
    BY DEF LedgerTypeOK, HoldType
  <2>2. \A n \in 0..MaxFence : [services[t][v] EXCEPT !.closing = n] \in ServiceRow
    BY <2>1, Zenon DEF ServiceRow
  <2>3. [id |-> hold'[t].id, closing |-> 0] \in ServiceRow
    BY <2>1, LedgerAssumption DEF ServiceRow
  <2> QED BY <2>1, <2>2, <2>3
<1> HIDE DEF Row
<1> QED BY <1>1, <1>2 DEF LedgerTypeOK

\* A step of the ledger on one hold: the whole of it is well-typed when its new parts are.
LEMMA AdvanceType ==
    ASSUME LedgerTypeOK, NEW t \in Tasks, hold[t].fence < MaxFence, NEW id \in 0..MaxFence,
           NEW ref \in Refs \cup {NoRef}, NEW by \in Members \cup {NoMember},
           NEW intended \in Workers \cup {NoWorker},
           AdvanceReservation(t, id, ref, by, intended), TrackServiceReservation(t),
           UNCHANGED <<selection, stopped>>,
           evidence' \in [Tasks -> [id : 0..MaxFence, ref : AttemptRefs \cup {NoRef}]]
    PROVE  LedgerTypeOK'
<1>1. hold[t].fence + 1 \in 0..MaxFence
  BY LedgerAssumption DEF LedgerTypeOK, HoldType
<1>2. hold' \in [Tasks -> HoldType]
  BY <1>1 DEF LedgerTypeOK, AdvanceReservation, HoldType
<1> QED BY <1>2, TrackType DEF LedgerTypeOK

\* Each kind of claim writes a well-typed hold.
LEMMA ClaimType ==
    ASSUME LedgerTypeOK, StoreTypeOK, NEW t \in Tasks, NEW m \in Members,
           NEW ref \in Refs \cup {NoRef}, NEW intended \in Workers \cup {NoWorker},
           ClaimTaskReservation(t, m, ref, intended)
    PROVE  LedgerTypeOK' /\ StoreTypeOK'
<1>1. hold[t].fence + 1 \in 0..MaxFence /\ hold[t].fence < MaxFence
  BY LedgerAssumption DEF LedgerTypeOK, HoldType, ClaimTaskReservation, Transition
<1>2. LedgerTypeOK'
  BY <1>1, AdvanceType DEF ClaimTaskReservation, LedgerTypeOK
<1> QED BY <1>2 DEF ClaimTaskReservation, StoreTypeOK

\* Release, finalization and recovery write a well-typed free hold.
LEMMA CloseType ==
    ASSUME LedgerTypeOK, StoreTypeOK, NEW t \in Tasks, NEW c \in Contents, CloseReservation(t, c),
           evidence' \in [Tasks -> [id : 0..MaxFence, ref : AttemptRefs \cup {NoRef}]]
    PROVE  LedgerTypeOK' /\ StoreTypeOK'
<1>1. hold[t].fence < MaxFence /\ NoHold \in 0..MaxFence
  BY LedgerAssumption DEF CloseReservation, Transition, NoHold
<1>2. LedgerTypeOK'
  BY <1>1, AdvanceType DEF CloseReservation
<1> QED BY <1>2, WriteTaskType, StoreAssumption DEF CloseReservation, StoreTypeOK

\* Every step of the ledger keeps its types and the store's.
LEMMA LedgerStepType ==
    ASSUME LedgerTypeOK, StoreTypeOK, LedgerNext
    PROVE  LedgerTypeOK' /\ StoreTypeOK'
<1> USE LedgerAssumption
<1>0. /\ \A t \in Tasks : /\ hold[t] \in HoldType
                          /\ hold[t].id \in 0..MaxFence
                          /\ hold[t].ref \in Refs \cup {NoRef}
                          /\ hold[t].by \in Members \cup {NoMember}
                          /\ hold[t].intended \in Workers \cup {NoWorker}
      /\ NoEvidence \in [id : 0..MaxFence, ref : AttemptRefs \cup {NoRef}]
      /\ \A m \in Members : m.user \in Workers
  BY DEF LedgerTypeOK, HoldType, NoEvidence, NoHold, Workers
<1>1. ASSUME NEW t \in Tasks, NEW m \in Members, ClaimPersonal(t, m)
      PROVE  LedgerTypeOK' /\ StoreTypeOK'
  BY <1>1, ClaimType DEF ClaimPersonal
<1>2. ASSUME NEW t \in Tasks, NEW m \in Members, NEW ref \in OfferRefs, NEW w \in Workers,
             NEW pin \in Processes, ClaimOffer(t, m, ref, w, pin)
      PROVE  LedgerTypeOK' /\ StoreTypeOK'
  BY <1>2, ClaimType DEF ClaimOffer, Refs
<1>3. ASSUME NEW t \in Tasks, NEW m \in Members, NEW ref \in AttemptRefs, NEW pin \in Processes,
             ClaimIndependent(t, m, ref, pin)
      PROVE  LedgerTypeOK' /\ StoreTypeOK'
  BY <1>3, ClaimType DEF ClaimIndependent, Refs
<1>4. ASSUME NEW t \in Tasks, NEW m \in Members, NEW o \in OfferRefs, NEW a \in AttemptRefs,
             NEW pin \in Processes, TransferReservation(t, m, o, a, pin)
      PROVE  LedgerTypeOK' /\ StoreTypeOK'
  <2>1. hold[t].fence < MaxFence /\ a \in Refs
    BY <1>4 DEF TransferReservation, Transition, Refs
  <2>2. LedgerTypeOK'
    BY <1>0, <1>4, <2>1, AdvanceType DEF TransferReservation, LedgerTypeOK
  <2> QED BY <1>4, <2>2 DEF TransferReservation, StoreTypeOK
<1>5. ASSUME NEW t \in Tasks, NEW m \in Members, NEW c \in Contents, UpdateReserved(t, m, c)
      PROVE  LedgerTypeOK' /\ StoreTypeOK'
  <2>1. hold[t].fence < MaxFence
    BY <1>5 DEF UpdateReserved, Transition
  <2>2. LedgerTypeOK'
    BY <1>0, <1>5, <2>1, AdvanceType DEF UpdateReserved, LedgerTypeOK
  <2>3. StoreTypeOK'
    BY <1>5, WriteTaskType, StoreAssumption DEF UpdateReserved, StoreTypeOK
  <2> QED BY <2>2, <2>3
<1>6. ASSUME NEW t \in Tasks, NEW m \in Members, NEW c \in Contents, NEW ref \in Refs \cup {NoRef},
             ReleaseReservation(t, m, c, ref) \/ FinalizeReservation(t, m, c, ref)
      PROVE  LedgerTypeOK' /\ StoreTypeOK'
  BY <1>6, CloseType DEF ReleaseReservation, FinalizeReservation, LedgerTypeOK
<1>7. ASSUME NEW t \in Tasks, VerifyStopEvidence(t) \/ EvidenceExpires(t)
      PROVE  LedgerTypeOK' /\ StoreTypeOK'
  BY <1>0, <1>7 DEF VerifyStopEvidence, EvidenceExpires, storeVars, LedgerTypeOK, StoreTypeOK
<1>8. ASSUME NEW t \in Tasks, NEW c \in Contents, RecoverByAttestation(t, c) \/ RecoverByStop(t, c)
      PROVE  LedgerTypeOK' /\ StoreTypeOK'
  <2>1. evidence' \in [Tasks -> [id : 0..MaxFence, ref : AttemptRefs \cup {NoRef}]]
    BY <1>0, <1>8 DEF RecoverByAttestation, RecoverByStop, LedgerTypeOK
  <2> QED BY <1>8, <2>1, CloseType DEF RecoverByAttestation, RecoverByStop
<1>9. ASSUME NEW ref \in AttemptRefs, AttemptStops(ref)
      PROVE  LedgerTypeOK' /\ StoreTypeOK'
  BY <1>9 DEF AttemptStops, storeVars, LedgerTypeOK, StoreTypeOK
<1>10. ASSUME NEW p \in Processes \cup {NoProcess}, SelectProcess(p)
       PROVE  LedgerTypeOK' /\ StoreTypeOK'
  BY <1>10 DEF SelectProcess, storeVars, LedgerTypeOK, StoreTypeOK
<1> QED BY <1>1, <1>2, <1>3, <1>4, <1>5, <1>6, <1>7, <1>8, <1>9, <1>10
        DEF LedgerNext, HoldNext, RecoveryNext

-----------------------------------------------------------------------------
\* What every step preserves of the types.
TypeInv == HubTypeOK /\ Anchored

\* The type invariant holds initially.
LEMMA TypeInvInit == HubInit => TypeInv
  BY TypeInit DEF TypeInv, HubInit, TeamInit, Anchored, UnusedSession, UnusedAttempt

\* The type invariant is inductive: every step of the hub preserves it.
LEMMA TypeInvStep == TypeInv /\ [HubNext]_hubVars => TypeInv'
<1> SUFFICES ASSUME TypeInv, [HubNext]_hubVars
             PROVE  TypeInv'
  OBVIOUS
<1>1. TeamOK /\ StoreTypeOK /\ LedgerTypeOK
  BY DEF TypeInv, HubTypeOK, TeamOK
<1>2. UNCHANGED teamVars => TeamOK'
  BY <1>1 DEF teamVars, TeamOK, TeamTypeOK, Anchored
<1>3. UNCHANGED ledgerVars /\ UNCHANGED hold => LedgerTypeOK'
  BY <1>1 DEF ledgerVars, LedgerTypeOK
<1>4. UNCHANGED storeVars => StoreTypeOK' /\ UNCHANGED hold
  BY <1>1 DEF storeVars, StoreTypeOK
<1>5. CASE StoreNext /\ UNCHANGED <<teamVars, ledgerVars>>
  <2>1. UNCHANGED hold
    BY <1>5 DEF StoreNext, CreateTask, UpdateTask, TriageTask, SetTasksEnabled
  <2> QED BY <1>1, <1>2, <1>3, <1>5, <2>1, StoreStepType DEF TypeInv, HubTypeOK, TeamOK
<1>6. CASE TeamNext /\ UNCHANGED ledgerVars
  <2>1. CASE SessionNext
    BY <1>1, <1>3, <1>4, <1>6, <2>1, SessionStepType DEF TypeInv, HubTypeOK, TeamOK
  <2>2. CASE AttemptNext
    <3>1. UNCHANGED hold
      BY <2>2 DEF AttemptNext, OfferTeamAssignment, AcceptAssignment, DeclineAssignment,
         WithdrawAssignment, WorkerChangesWork, CoordinatorChangesWork, ChangeWork,
         SubmitTeamResult, RecoverTeamAssignment, ReviewTeamResult, MoveBoth, storeVars
    <3> QED BY <1>1, <1>3, <1>6, <2>2, <3>1, AttemptStepType DEF TypeInv, HubTypeOK, TeamOK
  <2>3. CASE ManagedNext
    <3>1. UNCHANGED hold
      BY <2>3 DEF ManagedNext, EditManagedTask, FinalizeManagedTask, UnmanageTask
    <3> QED BY <1>1, <1>3, <1>6, <2>3, <3>1, ManagedStepType DEF TypeInv, HubTypeOK, TeamOK
  <2> QED BY <1>6, <2>1, <2>2, <2>3 DEF TeamNext
<1>7. CASE LedgerNext /\ UNCHANGED teamVars
  BY <1>1, <1>2, <1>7, LedgerStepType DEF TypeInv, HubTypeOK, TeamOK
<1>8. CASE UNCHANGED hubVars
  BY <1>1, <1>2, <1>3, <1>4, <1>8 DEF hubVars, TypeInv, HubTypeOK, TeamOK
<1> QED BY <1>5, <1>6, <1>7, <1>8 DEF HubNext

(***************************************************************************)
(* Every reachable state of the hub is well-typed: the rows of the store,  *)
(* of the teams and of the ledger hold values their tables admit.          *)
(***************************************************************************)
THEOREM Typing == HubSpec => [](StoreTypeOK /\ TeamTypeOK /\ LedgerTypeOK)
<1>1. TypeInv => StoreTypeOK /\ TeamTypeOK /\ LedgerTypeOK
  BY DEF TypeInv, HubTypeOK
<1> QED BY TypeInvInit, TypeInvStep, <1>1, PTL DEF HubSpec

-----------------------------------------------------------------------------
(***************************************************************************)
(* One authority over a task.  Neither table's invariant is inductive by   *)
(* itself: an offer is safe because a claim refuses a managed task, a      *)
(* claim is safe because a reserved attempt keeps its task managed, and    *)
(* both rest on one reserved attempt per task.                             *)
(***************************************************************************)
LiveHold(t) ==
    Held(t) => /\ Exists(t) /\ managed[t] = NoTeam
               /\ tasks[t].state \notin TerminalStates /\ ~tasks[t].archived

Agrees(a) ==
    attempts[a].state \in ReservedStates =>
        LET t == attempts[a].task IN
        /\ t \in Tasks /\ Exists(t)
        /\ managed[t] = attempts[a].team
        /\ tasks[t].state = TaskStateOf(attempts[a].state) /\ ~tasks[t].archived
        /\ RejectActiveReservation(t)
        /\ attempts[a].state = "OFFERED" => tasks[t].revision = attempts[a].taskRevision

SafeInv ==
    /\ TypeInv
    /\ ExclusiveReservation
    /\ \A a \in Attempts : Agrees(a)
    /\ \A t \in Tasks : LiveHold(t)

\* What the named invariants say, and that they follow.
LEMMA SafeInvMeans ==
    ASSUME SafeInv
    PROVE  AttemptTaskAgreement /\ OneCoordinator /\ HeldTaskIsLive /\ ExclusiveReservation
<1>1. AttemptTaskAgreement /\ HeldTaskIsLive /\ ExclusiveReservation
  BY DEF SafeInv, Agrees, LiveHold, AttemptTaskAgreement, HeldTaskIsLive
<1>2. OneCoordinator
  BY DEF SafeInv, Agrees, LiveHold, OneCoordinator, ReservedAttempts, Held, RejectActiveReservation
<1> QED BY <1>1, <1>2

\* A task nobody's team manages has no reserved attempt.
LEMMA UnmanagedIsFree ==
    ASSUME SafeInv, NEW t \in Tasks, managed[t] = NoTeam \/ ~Exists(t) \/ Held(t)
    PROVE  ReservedAttempts(t) = {}
<1>1. ASSUME NEW a \in ReservedAttempts(t)
      PROVE  FALSE
  <2>1. a \in Attempts /\ attempts[a].task = t /\ attempts[a].state \in ReservedStates
    BY DEF ReservedAttempts
  <2>2. attempts[a].state # "unused"
    BY <2>1 DEF ReservedStates
  <2>3. attempts[a].team # NoTeam
    BY <2>1, <2>2, StoreAssumption DEF SafeInv, TypeInv, Anchored
  <2> QED BY <2>1, <2>3 DEF SafeInv, Agrees, Held, RejectActiveReservation
<1> QED BY <1>1

\* What session steps and the store's and ledger's steps keep of the attempts.
SameAttempts ==
    \A a \in Attempts :
        /\ attempts'[a].state = attempts[a].state /\ attempts'[a].task = attempts[a].task
        /\ attempts'[a].team = attempts[a].team /\ attempts'[a].worker = attempts[a].worker
        /\ attempts'[a].taskRevision = attempts[a].taskRevision

\* A step that changes at most a task without a reserved attempt.
LEMMA FreeTaskStep ==
    ASSUME SafeInv, TypeInv', SameAttempts,
           NEW t \in Tasks, ReservedAttempts(t) = {}, LiveHold(t)',
           \A x \in Tasks \ {t} : /\ tasks'[x] = tasks[x] /\ managed'[x] = managed[x]
                                  /\ hold'[x] = hold[x]
    PROVE  SafeInv'
<1>1. ExclusiveReservation'
  BY DEF SafeInv, ExclusiveReservation, SameAttempts
<1>2. ASSUME NEW a \in Attempts
      PROVE  Agrees(a)'
  <2>1. attempts[a].state \in ReservedStates => attempts[a].task # t
    BY DEF ReservedAttempts
  <2> QED BY <2>1 DEF SafeInv, Agrees, SameAttempts, Exists, RejectActiveReservation
<1>3. ASSUME NEW x \in Tasks
      PROVE  LiveHold(x)'
  BY DEF SafeInv, LiveHold, Held, Exists
<1> QED BY <1>1, <1>2, <1>3 DEF SafeInv

\* A step that leaves tasks, holds and the attempts' assignments alone.
LEMMA QuietStep ==
    ASSUME SafeInv, TypeInv', SameAttempts, UNCHANGED <<tasks, managed, hold>>
    PROVE  SafeInv'
  BY DEF SafeInv, SameAttempts, ExclusiveReservation, Agrees, LiveHold, Held, Exists,
         RejectActiveReservation

\* A step of a reserved attempt, with or without its task.
LEMMA AttemptMoves ==
    ASSUME SafeInv, TypeInv', NEW a \in Attempts, attempts[a].state \in ReservedStates,
           /\ attempts'[a].task = attempts[a].task /\ attempts'[a].team = attempts[a].team
           /\ attempts'[a].worker = attempts[a].worker
           /\ \A x \in Attempts \ {a} : attempts'[x] = attempts[x],
           \A x \in Tasks \ {attempts[a].task} : tasks'[x] = tasks[x],
           UNCHANGED <<managed, hold>>,
           attempts'[a].state \in ReservedStates =>
              /\ attempts'[a].state # "OFFERED"
              /\ tasks'[attempts[a].task].revision > 0
              /\ ~tasks'[attempts[a].task].archived
              /\ tasks'[attempts[a].task].state = TaskStateOf(attempts'[a].state)
    PROVE  SafeInv'
<1>1. ExclusiveReservation'
  <2>1. \A x \in Attempts : /\ attempts'[x].task = attempts[x].task
                            /\ attempts'[x].worker = attempts[x].worker
                            /\ attempts'[x].state \in ReservedStates
                                  => attempts[x].state \in ReservedStates
    OBVIOUS
  <2> QED BY <2>1 DEF SafeInv, ExclusiveReservation
<1>2. Agrees(a) /\ attempts[a].task \in Tasks
  BY DEF SafeInv, Agrees
<1>3. ASSUME NEW b \in Attempts, b # a
      PROVE  Agrees(b)'
  <2>1. attempts[b].state \in ReservedStates => attempts[b].task # attempts[a].task
    BY <1>3 DEF SafeInv, ExclusiveReservation
  <2>2. Agrees(b) /\ attempts'[b] = attempts[b]
    BY <1>3 DEF SafeInv
  <2> QED BY <2>1, <2>2 DEF Agrees, Exists, RejectActiveReservation
<1>4. Agrees(a)'
  BY <1>2 DEF Agrees, RejectActiveReservation, Exists
<1>5. ASSUME NEW x \in Tasks
      PROVE  LiveHold(x)'
  <2>1. CASE x = attempts[a].task
    BY <1>2, <2>1 DEF Agrees, RejectActiveReservation, LiveHold, Held
  <2>2. CASE x # attempts[a].task
    BY <2>2 DEF SafeInv, LiveHold, Held, Exists
  <2> QED BY <2>1, <2>2
<1> QED BY <1>1, <1>3, <1>4, <1>5 DEF SafeInv

\* Whatever happens to sessions, no attempt moves.
LEMMA SessionSafe ==
    ASSUME SafeInv, TypeInv', SessionNext
    PROVE  SafeInv'
<1>0. TeamOK
  BY DEF SafeInv, TypeInv, HubTypeOK, TeamOK
<1>1. UNCHANGED <<tasks, managed, hold>>
  BY <1>0, SessionStepType DEF storeVars
<1>2. ASSUME NEW s \in Sessions, NEW tok \in Tokens, sessions[s].state = "active",
             ReissueHandle(s, tok)
      PROVE  SameAttempts
  <2>1. PICK c \in 0..MaxSlotGeneration :
            \A a \in Attempts : /\ attempts'[a].state = attempts[a].state
                                /\ attempts'[a].task = attempts[a].task
                                /\ attempts'[a].team = attempts[a].team
                                /\ attempts'[a].worker = attempts[a].worker
                                /\ attempts'[a].taskRevision = attempts[a].taskRevision
    BY <1>0, <1>2, Reissue
  <2> QED BY <2>1 DEF SameAttempts
<1>3. ASSUME NEW s \in Sessions, Resume(s)
      PROVE  SameAttempts
  <2>1. sessions[s].state = "active" /\ sessions[s].token \in Tokens
    BY <1>0, <1>3 DEF Resume, CurrentSession, TeamOK, TeamTypeOK
  <2> QED BY <1>2, <1>3, <2>1 DEF Resume
<1>4. ASSUME NEW s \in Sessions, NEW tok \in Tokens, RebindTeamSessionToken(s, tok)
      PROVE  SameAttempts
  BY <1>2, <1>4 DEF RebindTeamSessionToken
<1>5. UNCHANGED attempts => SameAttempts
  BY DEF SameAttempts
<1>6. SameAttempts
  BY <1>3, <1>4, <1>5 DEF SessionNext, ConfigureTeam, JoinTeam, UpdateProfile, Leave, Heartbeat,
     HandoffTeamCoordinator, RevokeToken
<1> QED BY <1>1, <1>6, QuietStep

\* An ordinary write finds no team on the task, and no hold.
LEMMA StoreSafe ==
    ASSUME SafeInv, TypeInv', StoreNext, UNCHANGED attempts
    PROVE  SafeInv'
<1>0. StoreTypeOK /\ SameAttempts
  BY DEF SafeInv, TypeInv, HubTypeOK, SameAttempts
<1>1. ASSUME NEW t \in Tasks, NEW c \in ContentType, WriteTask(t, c), UNCHANGED <<managed, hold>>,
             ~Held(t), ReservedAttempts(t) = {}
      PROVE  SafeInv'
  <2>1. \A x \in Tasks \ {t} : tasks'[x] = tasks[x]
    BY <1>0, <1>1, WriteTaskType
  <2>2. LiveHold(t)'
    BY <1>1 DEF LiveHold, Held
  <2> QED BY <1>0, <1>1, <2>1, <2>2, FreeTaskStep
<1>2. ASSUME NEW t \in Tasks, NEW c \in Contents, CreateTask(t, c)
      PROVE  SafeInv'
  <2>1. ~Held(t)
    BY <1>2 DEF CreateTask, SafeInv, LiveHold
  <2> QED BY <1>1, <1>2, <2>1, UnmanagedIsFree, StoreAssumption DEF CreateTask
<1>3. ASSUME NEW t \in Tasks, NEW c \in Contents, UpdateTask(t, c)
      PROVE  SafeInv'
  BY <1>1, <1>3, UnmanagedIsFree, StoreAssumption
     DEF UpdateTask, GenericWriteAllowed, SaveTask, RejectActiveReservation, Held
<1>4. ASSUME NEW t \in Tasks, NEW s \in TaskStates, TriageTask(t, s)
      PROVE  SafeInv'
  <2>1. [Content(t) EXCEPT !.state = s] \in ContentType
    BY <1>0, ContentOfTask
  <2> QED BY <1>1, <1>4, <2>1, UnmanagedIsFree
          DEF TriageTask, GenericWriteAllowed, SetState, SaveTask, RejectActiveReservation, Held
<1>5. ASSUME NEW on \in Switches, SetTasksEnabled(on)
      PROVE  SafeInv'
  BY <1>0, <1>5, QuietStep DEF SetTasksEnabled
<1> QED BY <1>2, <1>3, <1>4, <1>5 DEF StoreNext

\* What a transition that writes attempt and task does to both rows.
LEMMA MoveBothSafe ==
    ASSUME SafeInv, TypeInv', NEW a \in Attempts, attempts[a].state \in ReservedStates,
           NEW to \in AttemptStates, NEW ts \in TaskStates, MoveBoth(a, to, ts),
           to \in ReservedStates => to # "OFFERED" /\ ts = TaskStateOf(to)
    PROVE  SafeInv'
<1>0. StoreTypeOK /\ TeamTypeOK /\ Agrees(a)
  BY DEF SafeInv, TypeInv, HubTypeOK
<1> DEFINE t == attempts[a].task
           c == [Content(t) EXCEPT !.state = ts]
<1>1. t \in Tasks /\ Exists(t) /\ ~tasks[t].archived
  BY <1>0 DEF Agrees
<1>2. c \in ContentType /\ WriteTask(t, c) /\ c.state = ts /\ ~c.archived
  BY <1>0, <1>1, ContentOfTask DEF MoveBoth, SetState, SaveTask, Content
<1> HIDE DEF c
<1>3. /\ \A x \in Tasks \ {t} : tasks'[x] = tasks[x]
      /\ tasks'[t].state = ts /\ ~tasks'[t].archived
      /\ tasks'[t].revision > 0
  <2>1. /\ \A x \in Tasks \ {t} : tasks'[x] = tasks[x]
        /\ tasks'[t] = [state |-> c.state, archived |-> c.archived, deps |-> c.deps,
                        revision |-> tasks[t].revision + 1]
    BY <1>0, <1>1, <1>2, WriteTaskType
  <2>2. tasks[t].revision \in Nat
    BY <1>0, <1>1, StoreAssumption DEF StoreTypeOK
  <2> QED BY <1>2, <2>1, <2>2 DEF Exists
<1>4. /\ attempts'[a].state = to /\ attempts'[a].task = t
      /\ attempts'[a].team = attempts[a].team /\ attempts'[a].worker = attempts[a].worker
      /\ \A x \in Attempts \ {a} : attempts'[x] = attempts[x]
  BY <1>0, MoveAttemptType DEF MoveBoth
<1>5. UNCHANGED <<managed, hold>>
  BY DEF MoveBoth
<1>6. attempts'[a].state \in ReservedStates =>
         /\ attempts'[a].state # "OFFERED"
         /\ tasks'[t].revision > 0 /\ ~tasks'[t].archived
         /\ tasks'[t].state = TaskStateOf(attempts'[a].state)
  BY <1>3, <1>4
<1> QED BY <1>3, <1>4, <1>5, <1>6, AttemptMoves

\* An attempt that closes by itself.
LEMMA CloseSafe ==
    ASSUME SafeInv, TypeInv', NEW a \in Attempts, attempts[a].state \in ReservedStates,
           NEW to \in ClosedStates, MoveAttempt(a, to), UNCHANGED storeVars
    PROVE  SafeInv'
<1>1. TeamTypeOK /\ to \in AttemptStates /\ to \notin ReservedStates
  BY DEF SafeInv, TypeInv, HubTypeOK, AttemptStates, ClosedStates, ReservedStates
<1>2. /\ attempts'[a].state = to /\ attempts'[a].task = attempts[a].task
      /\ attempts'[a].team = attempts[a].team /\ attempts'[a].worker = attempts[a].worker
      /\ \A x \in Attempts \ {a} : attempts'[x] = attempts[x]
  BY <1>1, MoveAttemptType
<1> QED BY <1>1, <1>2, AttemptMoves DEF storeVars

\* Work under way moves to the pair of states its transition table names.
LEMMA ChangeWorkSafe ==
    ASSUME SafeInv, TypeInv', NEW op, NEW a \in Attempts, ChangeWork(op, a)
    PROVE  SafeInv'
<1> DEFINE next == WorkTransition(op, attempts[a].state)
<1>1. next # <<>> /\ MoveBoth(a, next[1], next[2])
  BY DEF ChangeWork
<1>2. /\ next[1] \in AttemptStates /\ next[2] \in TaskStates
      /\ attempts[a].state \in ReservedStates
  BY <1>1, WorkTransitionStates DEF ReservedStates
<1>3. next[1] \in ReservedStates => next[1] # "OFFERED" /\ next[2] = TaskStateOf(next[1])
  BY <1>1 DEF WorkTransition, TaskStateOf, ReservedStates
<1> HIDE DEF next
<1> QED BY <1>1, <1>2, <1>3, MoveBothSafe

\* The steps of attempts: the offer takes a task nobody holds, every later step keeps the pair.
LEMMA AttemptSafe ==
    ASSUME SafeInv, TypeInv', AttemptNext
    PROVE  SafeInv'
<1> USE DEF AttemptStates, ReservedStates, ClosedStates, TaskStates, TaskStateOf
<1>0. StoreTypeOK /\ TeamTypeOK /\ Anchored
  BY DEF SafeInv, TypeInv, HubTypeOK
<1>1. ASSUME NEW s \in Sessions, NEW w \in Sessions, NEW a \in Attempts, NEW t \in Tasks,
             OfferTeamAssignment(s, a, t, w)
      PROVE  SafeInv'
  <2> DEFINE team == sessions[s].team
             n == [team |-> team, task |-> t, state |-> "OFFERED", worker |-> w,
                   workerGen |-> sessions[w].generation, taskRevision |-> tasks[t].revision,
                   profile |-> sessions[w].profile, result |-> FALSE]
  <2>1. /\ attempts' = [attempts EXCEPT ![a] = n]
        /\ managed' = [managed EXCEPT ![t] = team]
        /\ UNCHANGED <<tasks, hold, enabled, enrollment, liveTokens, control, sessions>>
        /\ attempts[a].state = "unused"
        /\ AssignmentReady(t) /\ WorkerFree(w)
        /\ managed[t] = NoTeam \/ ManagedTask(team, t)
    BY <1>1 DEF OfferTeamAssignment
  <2>2. ReservedAttempts(t) = {}
    BY <2>1, UnmanagedIsFree DEF ManagedTask
  <2>3. /\ n.task = t /\ n.worker = w /\ n.team = team /\ n.state = "OFFERED"
        /\ n.taskRevision = tasks[t].revision
    OBVIOUS
  <2> HIDE DEF n, team
  <2>4. attempts'[a] = n /\ \A x \in Attempts \ {a} : attempts'[x] = attempts[x]
    BY <1>0, <2>1 DEF TeamTypeOK
  <2>5. managed'[t] = team /\ \A x \in Tasks \ {t} : managed'[x] = managed[x]
    BY <1>0, <2>1 DEF StoreTypeOK
  <2>6. ASSUME NEW b \in Attempts, b # a, attempts[b].state \in ReservedStates
        PROVE  attempts[b].task # t /\ attempts[b].worker # w
    BY <2>1, <2>2, <2>6 DEF ReservedAttempts, WorkerFree, ReservesWorker
  <2>7. ExclusiveReservation'
    BY <2>3, <2>4, <2>6 DEF SafeInv, ExclusiveReservation
  <2>8. Agrees(a)'
    BY <2>1, <2>3, <2>4, <2>5 DEF Agrees, AssignmentReady, Exists, RejectActiveReservation
  <2>9. ASSUME NEW b \in Attempts, b # a
        PROVE  Agrees(b)'
    BY <2>1, <2>4, <2>5, <2>6, <2>9 DEF SafeInv, Agrees, Exists, RejectActiveReservation
  <2>10. ASSUME NEW x \in Tasks
         PROVE  LiveHold(x)'
    BY <2>1, <2>5 DEF SafeInv, LiveHold, Held, Exists, AssignmentReady, RejectActiveReservation
  <2> QED BY <2>7, <2>8, <2>9, <2>10 DEF SafeInv
<1>2. ASSUME NEW a \in Attempts, AcceptAssignment(a)
      PROVE  SafeInv'
  BY <1>2, MoveBothSafe DEF AcceptAssignment
<1>3. ASSUME NEW a \in Attempts, DeclineAssignment(a)
      PROVE  SafeInv'
  BY <1>3, CloseSafe DEF DeclineAssignment
<1>4. ASSUME NEW s \in Sessions, NEW a \in Attempts, WithdrawAssignment(s, a)
      PROVE  SafeInv'
  BY <1>4, CloseSafe DEF WithdrawAssignment
<1>5. ASSUME NEW op, NEW a \in Attempts, WorkerChangesWork(op, a)
      PROVE  SafeInv'
  BY <1>5, ChangeWorkSafe DEF WorkerChangesWork
<1>6. ASSUME NEW op, NEW s \in Sessions, NEW a \in Attempts, CoordinatorChangesWork(op, s, a)
      PROVE  SafeInv'
  BY <1>6, ChangeWorkSafe DEF CoordinatorChangesWork
<1>7. ASSUME NEW a \in Attempts, SubmitTeamResult(a)
      PROVE  SafeInv'
  <2> DEFINE c == [Content(attempts[a].task) EXCEPT !.state = "REVIEW"]
  <2>1. /\ attempts' = [attempts EXCEPT ![a].state = "SUBMITTED", ![a].result = TRUE]
        /\ attempts[a].state = "RUNNING"
        /\ SaveTask(attempts[a].task, c)
        /\ UNCHANGED <<managed, hold>>
    BY <1>7 DEF SubmitTeamResult, SetState
  <2>2. attempts[a].task \in Tasks /\ ~tasks[attempts[a].task].archived
    BY <2>1 DEF SafeInv, Agrees
  <2>3. c \in ContentType /\ c.state = "REVIEW" /\ ~c.archived
    BY <1>0, <2>2, ContentOfTask DEF Content
  <2> HIDE DEF c
  <2>4. /\ \A x \in Tasks \ {attempts[a].task} : tasks'[x] = tasks[x]
        /\ tasks'[attempts[a].task] =
              [state |-> c.state, archived |-> c.archived, deps |-> c.deps,
               revision |-> tasks[attempts[a].task].revision + 1]
    BY <1>0, <2>1, <2>2, <2>3, WriteTaskType DEF SaveTask
  <2>5. tasks[attempts[a].task].revision \in Nat
    BY <1>0, <2>2, StoreAssumption DEF StoreTypeOK
  <2>6. /\ attempts'[a].state = "SUBMITTED" /\ attempts'[a].task = attempts[a].task
        /\ attempts'[a].team = attempts[a].team /\ attempts'[a].worker = attempts[a].worker
        /\ \A x \in Attempts \ {a} : attempts'[x] = attempts[x]
    BY <1>0, <2>1 DEF TeamTypeOK, AttemptType
  <2>7. /\ tasks'[attempts[a].task].revision > 0 /\ ~tasks'[attempts[a].task].archived
        /\ tasks'[attempts[a].task].state = "REVIEW"
    BY <2>3, <2>4, <2>5
  <2> QED BY <2>1, <2>4, <2>6, <2>7, AttemptMoves
<1>8. ASSUME NEW a \in Attempts, RecoverTeamAssignment(a)
      PROVE  SafeInv'
  BY <1>8, MoveBothSafe DEF RecoverTeamAssignment
<1>9. ASSUME NEW s \in Sessions, NEW a \in Attempts, NEW accept \in BOOLEAN,
             ReviewTeamResult(s, a, accept)
      PROVE  SafeInv'
  BY <1>9, MoveBothSafe DEF ReviewTeamResult
<1> QED BY <1>1, <1>2, <1>3, <1>4, <1>5, <1>6, <1>7, <1>8, <1>9 DEF AttemptNext

\* Between attempts the team's own writes meet no reserved attempt, and no hold.
LEMMA ManagedSafe ==
    ASSUME SafeInv, TypeInv', ManagedNext
    PROVE  SafeInv'
<1>0. StoreTypeOK
  BY DEF SafeInv, TypeInv, HubTypeOK
<1>1. ASSUME NEW t \in Tasks, NEW c \in ContentType, SaveTask(t, c), ReservedAttempts(t) = {},
             UNCHANGED <<hold, attempts>>,
             \A x \in Tasks \ {t} : managed'[x] = managed[x]
      PROVE  SafeInv'
  <2>1. \A x \in Tasks \ {t} : tasks'[x] = tasks[x] /\ hold'[x] = hold[x]
    BY <1>0, <1>1, WriteTaskType DEF SaveTask
  <2>2. LiveHold(t)'
    BY <1>1 DEF LiveHold, Held, SaveTask, RejectActiveReservation
  <2>3. SameAttempts
    BY <1>1 DEF SameAttempts
  <2> QED BY <1>1, <2>1, <2>2, <2>3, FreeTaskStep
<1>2. ASSUME NEW s \in Sessions, NEW t \in Tasks, NEW c \in Contents, EditManagedTask(s, t, c)
      PROVE  SafeInv'
  BY <1>1, <1>2, StoreAssumption DEF EditManagedTask, ManagedTask, teamVars
<1>3. ASSUME NEW s \in Sessions, NEW t \in Tasks, NEW a \in Attempts, FinalizeManagedTask(s, t, a)
      PROVE  SafeInv'
  <2>1. [Content(t) EXCEPT !.state = "DONE"] \in ContentType
    BY <1>0, ContentOfTask DEF TaskStates
  <2> QED BY <1>1, <1>3, <2>1 DEF FinalizeManagedTask, ManagedTask, SetState, teamVars
<1>4. ASSUME NEW team \in Teams, NEW t \in Tasks, UnmanageTask(team, t)
      PROVE  SafeInv'
  <2>1. \A x \in Tasks \ {t} : managed'[x] = managed[x]
    BY <1>0, <1>4 DEF UnmanageTask, StoreTypeOK
  <2> QED BY <1>0, <1>1, <1>4, <2>1, ContentOfTask DEF UnmanageTask, ManagedTask, teamVars
<1> QED BY <1>2, <1>3, <1>4 DEF ManagedNext

\* The ledger takes a task no team manages, and then writes only what it holds.
LEMMA LedgerSafe ==
    ASSUME SafeInv, TypeInv', LedgerNext, UNCHANGED attempts
    PROVE  SafeInv'
<1>0. StoreTypeOK /\ LedgerTypeOK /\ SameAttempts
  BY DEF SafeInv, TypeInv, HubTypeOK, SameAttempts
<1>1. ASSUME NEW t \in Tasks, NEW id, NEW ref, NEW by, NEW intended,
             AdvanceReservation(t, id, ref, by, intended)
      PROVE  hold'[t].id = id /\ \A x \in Tasks \ {t} : hold'[x] = hold[x]
  BY <1>0, <1>1 DEF AdvanceReservation, LedgerTypeOK
<1>2. ASSUME NEW t \in Tasks, NEW m, NEW ref, NEW intended, ClaimTaskReservation(t, m, ref, intended)
      PROVE  SafeInv'
  <2>1. /\ \A x \in Tasks \ {t} : hold'[x] = hold[x]
        /\ UNCHANGED <<tasks, managed>>
        /\ Exists(t) /\ Claimable(t)
    BY <1>1, <1>2 DEF ClaimTaskReservation, Transition
  <2>2. LiveHold(t)'
    BY <2>1 DEF LiveHold, Exists, Claimable, TerminalStates
  <2> QED BY <1>0, <2>1, <2>2, UnmanagedIsFree, FreeTaskStep DEF Claimable
<1>3. ASSUME NEW t \in Tasks, NEW c \in Contents, WriteTask(t, c), UNCHANGED managed, Held(t),
             \A x \in Tasks \ {t} : hold'[x] = hold[x],
             hold'[t].id = NoHold \/ (c.state \notin TerminalStates /\ ~c.archived)
      PROVE  SafeInv'
  <2>1. /\ \A x \in Tasks \ {t} : tasks'[x] = tasks[x]
        /\ tasks'[t] = [state |-> c.state, archived |-> c.archived, deps |-> c.deps,
                        revision |-> tasks[t].revision + 1]
    BY <1>0, <1>3, WriteTaskType, StoreAssumption
  <2>2. tasks[t].revision \in Nat
    BY <1>0, StoreAssumption DEF StoreTypeOK
  <2>3. managed[t] = NoTeam
    BY <1>3 DEF SafeInv, LiveHold
  <2>4. LiveHold(t)'
    BY <1>3, <2>1, <2>2, <2>3 DEF LiveHold, Held, Exists
  <2> QED BY <1>0, <1>3, <2>1, <2>4, UnmanagedIsFree, FreeTaskStep
<1>4. ASSUME NEW t \in Tasks, NEW c \in Contents, CloseReservation(t, c)
      PROVE  SafeInv'
  BY <1>1, <1>3, <1>4 DEF CloseReservation
<1>5. ASSUME NEW t \in Tasks, NEW m \in Members, NEW c \in Contents, UpdateReserved(t, m, c)
      PROVE  SafeInv'
  BY <1>1, <1>3, <1>5 DEF UpdateReserved, ValidContent
<1>6. ASSUME NEW t \in Tasks, NEW m, NEW o, NEW a, NEW pin, TransferReservation(t, m, o, a, pin)
      PROVE  SafeInv'
  <2>1. /\ \A x \in Tasks \ {t} : hold'[x] = hold[x]
        /\ UNCHANGED <<tasks, managed>> /\ Held(t)
    BY <1>1, <1>6 DEF TransferReservation
  <2>2. LiveHold(t)'
    BY <2>1 DEF SafeInv, LiveHold, Exists
  <2> QED BY <1>0, <2>1, <2>2, UnmanagedIsFree, FreeTaskStep
<1>7. ASSUME UNCHANGED storeVars
      PROVE  SafeInv'
  BY <1>0, <1>7, QuietStep DEF storeVars
<1>8. CASE HoldNext
  BY <1>2, <1>4, <1>5, <1>6, <1>8 DEF HoldNext, ClaimPersonal, ClaimOffer, ClaimIndependent,
     ReleaseReservation, FinalizeReservation
<1>9. CASE RecoveryNext
  BY <1>4, <1>7, <1>9 DEF RecoveryNext, VerifyStopEvidence, EvidenceExpires, RecoverByAttestation,
     RecoverByStop, AttemptStops, SelectProcess
<1> QED BY <1>8, <1>9 DEF LedgerNext

\* Nothing is held, offered or managed at the start.
LEMMA SafeInvInit == HubInit => SafeInv
<1> SUFFICES ASSUME HubInit PROVE SafeInv
  OBVIOUS
<1>1. TypeInv
  BY TypeInvInit
<1>2. \A a \in Attempts : attempts[a].state = "unused"
  BY DEF HubInit, TeamInit, UnusedAttempt
<1>3. \A t \in Tasks : ~Held(t)
  BY DEF HubInit, LedgerInit, FreeHold, Held
<1> QED BY <1>1, <1>2, <1>3 DEF SafeInv, ExclusiveReservation, Agrees, LiveHold, ReservedStates

\* The invariant is inductive over the three mechanisms.
LEMMA SafeInvStep == SafeInv /\ [HubNext]_hubVars => SafeInv'
<1> SUFFICES ASSUME SafeInv, [HubNext]_hubVars
             PROVE  SafeInv'
  OBVIOUS
<1>1. TypeInv'
  BY TypeInvStep DEF SafeInv
<1>2. CASE StoreNext /\ UNCHANGED <<teamVars, ledgerVars>>
  BY <1>1, <1>2, StoreSafe DEF teamVars
<1>3. CASE TeamNext /\ UNCHANGED ledgerVars
  BY <1>1, <1>3, SessionSafe, AttemptSafe, ManagedSafe DEF TeamNext
<1>4. CASE LedgerNext /\ UNCHANGED teamVars
  BY <1>1, <1>4, LedgerSafe DEF teamVars
<1>5. CASE UNCHANGED hubVars
  BY <1>1, <1>5, QuietStep DEF hubVars, storeVars, teamVars, SameAttempts
<1> QED BY <1>2, <1>3, <1>4, <1>5 DEF HubNext

(***************************************************************************)
(* However ordinary writers, sessions, attempts and the ledger interleave, *)
(* a reserved attempt and its task never disagree: no write reaches a task *)
(* under an attempt but the attempt's own transitions.                     *)
(***************************************************************************)
THEOREM AttemptTaskAgreementHolds == HubSpec => []AttemptTaskAgreement
<1>1. SafeInv => AttemptTaskAgreement
  BY SafeInvMeans
<1> QED BY SafeInvInit, SafeInvStep, <1>1, PTL DEF HubSpec

(***************************************************************************)
(* The unique indexes of team_assignments are never needed: the checks of  *)
(* the operations alone leave at most one reserved attempt per task and    *)
(* per worker.                                                             *)
(***************************************************************************)
THEOREM ExclusiveReservationHolds == HubSpec => []ExclusiveReservation
<1>1. SafeInv => ExclusiveReservation
  BY SafeInvMeans
<1> QED BY SafeInvInit, SafeInvStep, <1>1, PTL DEF HubSpec

(***************************************************************************)
(* A hold of the ledger and a team's management never meet on a task, for  *)
(* any number of teams, members and tasks.                                 *)
(***************************************************************************)
THEOREM OneCoordinatorHolds == HubSpec => []OneCoordinator
<1>1. SafeInv => OneCoordinator
  BY SafeInvMeans
<1> QED BY SafeInvInit, SafeInvStep, <1>1, PTL DEF HubSpec

(***************************************************************************)
(* A held task is live and unmanaged: nothing closes or archives a task    *)
(* and leaves its hold behind.                                             *)
(***************************************************************************)
THEOREM HeldTaskIsLiveHolds == HubSpec => []HeldTaskIsLive
<1>1. SafeInv => HeldTaskIsLive
  BY SafeInvMeans
<1> QED BY SafeInvInit, SafeInvStep, <1>1, PTL DEF HubSpec

-----------------------------------------------------------------------------
(***************************************************************************)
(* The coordinator slot.  Only session steps touch it; each of them either *)
(* leaves the slots alone or gives the slot of one team to one session     *)
(* under its next generation.                                              *)
(***************************************************************************)
SlotInv == TypeInv /\ CoordinatorSlot

\* A step that creates no holder and moves no generation.
LEMMA SlotKept ==
    ASSUME CoordinatorSlot, UNCHANGED control,
           \A x \in Sessions :
              /\ sessions'[x].team = sessions[x].team
              /\ sessions'[x].coordGen = sessions[x].coordGen
              /\ HoldsSlot(x)' => HoldsSlot(x)
              /\ sessions[x].state = "unused" => sessions'[x].state = "unused"
    PROVE  CoordinatorSlot'
  BY DEF CoordinatorSlot

\* A step that gives the slot of a team to session h.
LEMMA SlotGiven ==
    ASSUME SlotInv, NEW team \in Teams, NEW h \in Sessions,
           control' = [control EXCEPT ![team] = @ + 1],
           sessions'[h].team = team, sessions'[h].coordGen = control[team] + 1,
           \A x \in Sessions \ {h} :
              /\ sessions'[x].team = sessions[x].team
              /\ sessions'[x].coordGen = sessions[x].coordGen
              /\ HoldsSlot(x)' => HoldsSlot(x) /\ sessions[x].team # team
              /\ sessions[x].state = "unused" => sessions'[x].state = "unused"
    PROVE  CoordinatorSlot'
<1>1. /\ \A m \in Teams : control[m] \in Nat
      /\ control'[team] = control[team] + 1
      /\ \A m \in Teams \ {team} : control'[m] = control[m]
  BY TeamAssumption DEF SlotInv, TypeInv, HubTypeOK, TeamTypeOK
<1>2. \A x \in Sessions : /\ sessions[x].coordGen \in Nat
                          /\ sessions[x].state # "unused" => sessions[x].team \in Teams
  BY TeamAssumption DEF SlotInv, TypeInv, HubTypeOK, TeamTypeOK, SessionType, Anchored
<1>3. \A s, x \in Sessions :
         HoldsSlot(s)' /\ HoldsSlot(x)' /\ sessions'[s].team = sessions'[x].team => s = x
  BY DEF SlotInv, CoordinatorSlot
<1>4. \A s \in Sessions : HoldsSlot(s)' => sessions'[s].coordGen = control'[sessions'[s].team]
  BY <1>1, <1>2 DEF SlotInv, CoordinatorSlot, HoldsSlot
<1>5. \A s \in Sessions :
         sessions'[s].state # "unused" => sessions'[s].coordGen <= control'[sessions'[s].team]
  BY <1>1, <1>2 DEF SlotInv, CoordinatorSlot
<1> QED BY <1>3, <1>4, <1>5 DEF CoordinatorSlot

\* A new handle for an active session: of the slot too, when it is a coordinator's.
LEMMA ReissueSlot ==
    ASSUME SlotInv, NEW s \in Sessions, NEW tok \in Tokens, sessions[s].state = "active",
           ReissueHandle(s, tok)
    PROVE  CoordinatorSlot'
<1>0. TeamOK /\ CoordinatorSlot
  BY DEF SlotInv, TypeInv, HubTypeOK, TeamOK
<1>1. PICK c \in 0..MaxSlotGeneration :
        /\ sessions' = [sessions EXCEPT ![s] = Reissued(sessions[s], tok, c)]
        /\ sessions[s].generation < MaxGeneration
        /\ sessions[s].role = "coordinator" =>
              /\ control' = [control EXCEPT ![sessions[s].team] = @ + 1]
              /\ c = control[sessions[s].team] + 1
        /\ sessions[s].role # "coordinator" => UNCHANGED control /\ c = sessions[s].coordGen
  BY <1>0, Reissue
<1>2. sessions \in [Sessions -> SessionType] /\ sessions[s].team \in Teams
  BY <1>0 DEF TeamOK, TeamTypeOK, Anchored
<1> DEFINE n == Reissued(sessions[s], tok, c)
<1>3. /\ n.state = sessions[s].state /\ n.team = sessions[s].team /\ n.role = sessions[s].role
      /\ n.coordGen = c
  BY <1>1, <1>2, ReissuedRow
<1> HIDE DEF n
<1>4. sessions'[s] = n /\ \A x \in Sessions \ {s} : sessions'[x] = sessions[x]
  BY <1>1, <1>2 DEF n
<1>5. CASE sessions[s].role = "coordinator"
  <2>1. \A x \in Sessions \ {s} : HoldsSlot(x)' => HoldsSlot(x) /\ sessions[x].team # sessions[s].team
    BY <1>0, <1>4, <1>5 DEF CoordinatorSlot, HoldsSlot
  <2> QED BY <1>1, <1>2, <1>3, <1>4, <1>5, <2>1, SlotGiven
<1>6. CASE sessions[s].role # "coordinator"
  BY <1>0, <1>1, <1>3, <1>4, <1>6, SlotKept DEF HoldsSlot
<1> QED BY <1>5, <1>6

\* Every session step keeps the slots, by one of the two lemmas above.
LEMMA SessionSlot ==
    ASSUME SlotInv, SessionNext
    PROVE  CoordinatorSlot'
<1>0. /\ TeamOK /\ CoordinatorSlot
      /\ sessions \in [Sessions -> SessionType] /\ control \in [Teams -> 0..MaxSlotGeneration]
      /\ \A s \in Sessions : sessions[s].state # "unused" => sessions[s].team \in Teams
  BY DEF SlotInv, TypeInv, HubTypeOK, TeamOK, TeamTypeOK, Anchored
<1>1. ASSUME UNCHANGED <<control, sessions>>
      PROVE  CoordinatorSlot'
  BY <1>0, <1>1, SlotKept DEF HoldsSlot
<1>2. ASSUME NEW s \in Sessions, NEW team \in Teams, NEW tok \in Tokens, NEW role \in Roles,
             JoinTeam(s, team, tok, role)
      PROVE  CoordinatorSlot'
  <2>1. sessions[s].state = "unused" /\ \A x \in Sessions \ {s} : sessions'[x] = sessions[x]
    BY <1>0, <1>2 DEF JoinTeam
  <2>2. CASE role = "coordinator"
    <3>1. /\ control' = [control EXCEPT ![team] = @ + 1]
          /\ sessions'[s].team = team /\ sessions'[s].coordGen = control'[team]
          /\ \A x \in Sessions : sessions[x].team = team /\ sessions[x].state = "active"
                                    => sessions[x].role # "coordinator"
      BY <1>0, <1>2, <2>2 DEF JoinTeam, NextCoordinatorGeneration
    <3>2. \A x \in Sessions \ {s} :
             /\ sessions'[x].team = sessions[x].team
             /\ sessions'[x].coordGen = sessions[x].coordGen
             /\ HoldsSlot(x)' => HoldsSlot(x) /\ sessions[x].team # team
             /\ sessions[x].state = "unused" => sessions'[x].state = "unused"
      BY <2>1, <3>1 DEF HoldsSlot
    <3>3. /\ control' = [control EXCEPT ![team] = @ + 1]
          /\ sessions'[s].team = team /\ sessions'[s].coordGen = control[team] + 1
      BY <1>0, <3>1
    <3> QED BY <3>2, <3>3, SlotGiven
  <2>3. CASE role # "coordinator"
    <3>1. /\ UNCHANGED control
          /\ sessions'[s].role = role /\ sessions'[s].coordGen = 0 /\ sessions'[s].team = team
      BY <1>0, <1>2, <2>3 DEF JoinTeam
    <3>2. control[team] \in Nat
      BY <1>0, TeamAssumption
    <3> QED BY <1>0, <2>1, <2>3, <3>1, <3>2 DEF CoordinatorSlot, HoldsSlot
  <2> QED BY <2>2, <2>3
<1>3. ASSUME NEW s \in Sessions, UpdateProfile(s)
      PROVE  CoordinatorSlot'
  <2>1. /\ UNCHANGED control
        /\ \A x \in Sessions : /\ sessions'[x].team = sessions[x].team
                               /\ sessions'[x].coordGen = sessions[x].coordGen
                               /\ sessions'[x].role = sessions[x].role
                               /\ sessions'[x].state = sessions[x].state
    BY <1>0, <1>3 DEF UpdateProfile, SessionType
  <2> QED BY <1>0, <2>1, SlotKept DEF HoldsSlot
<1>4. ASSUME NEW s \in Sessions, NEW v \in {"available", "unavailable"}, Heartbeat(s, v)
      PROVE  CoordinatorSlot'
  <2>1. /\ UNCHANGED control
        /\ \A x \in Sessions : /\ sessions'[x].team = sessions[x].team
                               /\ sessions'[x].coordGen = sessions[x].coordGen
                               /\ sessions'[x].role = sessions[x].role
                               /\ sessions'[x].state = sessions[x].state
    BY <1>0, <1>4 DEF Heartbeat, SessionType
  <2> QED BY <1>0, <2>1, SlotKept DEF HoldsSlot
<1>5. ASSUME NEW s \in Sessions, Resume(s)
      PROVE  CoordinatorSlot'
  <2>1. sessions[s].state = "active" /\ sessions[s].token \in Tokens
    BY <1>0, <1>5 DEF Resume, CurrentSession, TeamOK, TeamTypeOK
  <2> QED BY <1>5, <2>1, ReissueSlot DEF Resume
<1>6. ASSUME NEW s \in Sessions, NEW tok \in Tokens, RebindTeamSessionToken(s, tok)
      PROVE  CoordinatorSlot'
  BY <1>6, ReissueSlot DEF RebindTeamSessionToken
<1>7. ASSUME NEW s \in Sessions, Leave(s)
      PROVE  CoordinatorSlot'
  <2>1. /\ UNCHANGED control /\ sessions[s].state = "active"
        /\ sessions' = [sessions EXCEPT ![s] = Left(sessions[s])]
        /\ sessions[s].generation < MaxGeneration
    BY <1>7 DEF Leave, CurrentSession
  <2>2. /\ Left(sessions[s]).state = "left" /\ Left(sessions[s]).team = sessions[s].team
        /\ Left(sessions[s]).coordGen = sessions[s].coordGen
    BY <1>0, <2>1, LeftRow
  <2> QED BY <1>0, <2>1, <2>2, SlotKept DEF HoldsSlot
<1>8. ASSUME NEW from \in Sessions, NEW to \in Sessions, NEW admin \in BOOLEAN,
             HandoffTeamCoordinator(from, to, admin)
      PROVE  CoordinatorSlot'
  <2> DEFINE team == sessions[from].team
  <2>1. /\ from # to /\ sessions[from].state = "active" /\ sessions[from].role = "coordinator"
        /\ sessions[to].team = team /\ sessions[to].state = "active"
        /\ sessions[from].generation < MaxGeneration
        /\ control' = [control EXCEPT ![team] = @ + 1]
        /\ sessions' = [sessions EXCEPT ![from] = Left(sessions[from]),
                                        ![to] = Promoted(sessions[to], control'[team])]
    BY <1>8 DEF HandoffTeamCoordinator, OutgoingCoordinator, CurrentCoordinator, CurrentSession,
                NextCoordinatorGeneration
  <2>2. team \in Teams /\ control'[team] = control[team] + 1
    BY <1>0, <2>1
  <2>3. control[team] + 1 \in 0..MaxSlotGeneration
    BY <1>0, <1>8, <2>2, TeamAssumption DEF HandoffTeamCoordinator, NextCoordinatorGeneration
  <2>4. PICK c \in 0..MaxSlotGeneration : c = control'[team]
    BY <2>2, <2>3
  <2>5. /\ Left(sessions[from]).state = "left" /\ Left(sessions[from]).team = team
        /\ Left(sessions[from]).coordGen = sessions[from].coordGen
    BY <1>0, <2>1, LeftRow
  <2>6. /\ Promoted(sessions[to], c).team = sessions[to].team
        /\ Promoted(sessions[to], c).coordGen = c
    BY <1>0, PromotedRow
  <2>7. /\ sessions'[from] = Left(sessions[from]) /\ sessions'[to] = Promoted(sessions[to], c)
        /\ \A x \in Sessions \ {from, to} : sessions'[x] = sessions[x]
    BY <1>0, <2>1, <2>4
  <2>8. \A x \in Sessions \ {to} :
           /\ sessions'[x].team = sessions[x].team
           /\ sessions'[x].coordGen = sessions[x].coordGen
           /\ HoldsSlot(x)' => HoldsSlot(x) /\ sessions[x].team # team
           /\ sessions[x].state = "unused" => sessions'[x].state = "unused"
    BY <1>0, <2>1, <2>5, <2>7 DEF CoordinatorSlot, HoldsSlot
  <2> HIDE DEF team
  <2>9. sessions'[to].team = team /\ sessions'[to].coordGen = control[team] + 1
    BY <2>1, <2>2, <2>4, <2>6, <2>7
  <2> QED BY <2>1, <2>2, <2>8, <2>9, SlotGiven
<1> QED BY <1>1, <1>2, <1>3, <1>4, <1>5, <1>6, <1>7, <1>8
        DEF SessionNext, ConfigureTeam, RevokeToken

(***************************************************************************)
(* A team has at most one coordinator able to command, and the one it has  *)
(* holds the slot's current generation, whatever sequence of joins,        *)
(* resumes, token replacements and handoffs made it the coordinator.       *)
(***************************************************************************)
THEOREM CoordinatorSlotHolds == HubSpec => []CoordinatorSlot
<1>1. HubInit => SlotInv
  BY TypeInvInit DEF SlotInv, HubInit, TeamInit, CoordinatorSlot, HoldsSlot, UnusedSession
<1>2. SlotInv /\ [HubNext]_hubVars => SlotInv'
  <2> SUFFICES ASSUME SlotInv, [HubNext]_hubVars
               PROVE  SlotInv'
    OBVIOUS
  <2>1. TypeInv'
    BY TypeInvStep DEF SlotInv
  <2>2. UNCHANGED <<control, sessions>> => CoordinatorSlot'
    BY SlotKept DEF SlotInv, HoldsSlot
  <2>3. CASE SessionNext
    BY <2>3, SessionSlot, <2>1 DEF SlotInv
  <2>4. CASE AttemptNext \/ ManagedNext
    BY <2>1, <2>2, <2>4 DEF SlotInv, AttemptNext, OfferTeamAssignment, AcceptAssignment,
       DeclineAssignment, WithdrawAssignment, WorkerChangesWork, CoordinatorChangesWork,
       ChangeWork, SubmitTeamResult, RecoverTeamAssignment, ReviewTeamResult, MoveBoth,
       ManagedNext, EditManagedTask, FinalizeManagedTask, UnmanageTask, teamVars
  <2>5. CASE UNCHANGED teamVars
    BY <2>1, <2>2, <2>5 DEF SlotInv, teamVars
  <2> QED BY <2>3, <2>4, <2>5 DEF HubNext, TeamNext, hubVars
<1>3. SlotInv => CoordinatorSlot
  BY DEF SlotInv
<1> QED BY <1>1, <1>2, <1>3, PTL DEF HubSpec

-----------------------------------------------------------------------------
(***************************************************************************)
(* A ledger step moves at most one hold.  It takes a free one, passes an   *)
(* offered one to the worker it names, works under one, or frees one; the  *)
(* task is written in the last two.                                        *)
(***************************************************************************)
TakesHold(t) ==
    /\ ~Held(t) /\ Exists(t) /\ Claimable(t)
    /\ hold'[t].id = hold[t].fence + 1 /\ hold'[t].by \in Members
    /\ \/ /\ hold'[t].by.mode = "personal"
          /\ hold'[t].ref = NoRef /\ hold'[t].intended = NoWorker
       \/ /\ hold'[t].by.role = "coordinator"
          /\ hold'[t].ref \in OfferRefs /\ hold'[t].intended \in Workers
       \/ /\ hold'[t].by.role = "independent"
          /\ hold'[t].ref \in AttemptRefs /\ hold'[t].intended = NoWorker
    /\ UNCHANGED tasks

PassesHold(t) ==
    /\ Held(t) /\ hold[t].ref \in OfferRefs
    /\ hold'[t].id = hold[t].id /\ hold'[t].by \in Members
    /\ hold'[t].by.role = "worker" /\ SameTeam(hold[t].by, hold'[t].by)
    /\ hold[t].intended = hold'[t].by.user
    /\ hold'[t].ref \in AttemptRefs /\ hold'[t].intended = NoWorker
    /\ UNCHANGED tasks

WorksHold(t) ==
    /\ Held(t)
    /\ hold'[t].id = hold[t].id /\ hold'[t].by = hold[t].by
    /\ hold'[t].ref = hold[t].ref /\ hold'[t].intended = hold[t].intended
    /\ \E c \in Contents : WriteTask(t, c)

FreesHold(t) ==
    /\ Held(t)
    /\ hold'[t] = FreeHold(hold[t].fence + 1)
    /\ \E c \in Contents : WriteTask(t, c)

HoldStep(t) ==
    /\ TakesHold(t) \/ PassesHold(t) \/ WorksHold(t) \/ FreesHold(t)
    /\ hold'[t].fence = hold[t].fence + 1
    /\ \A x \in Tasks \ {t} : hold'[x] = hold[x] /\ tasks'[x] = tasks[x]
    /\ TrackServiceReservation(t)

\* What a write of the ledger's row does to the holds.
LEMMA AdvancedHold ==
    ASSUME LedgerTypeOK, NEW t \in Tasks, NEW id, NEW ref, NEW by, NEW intended,
           AdvanceReservation(t, id, ref, by, intended)
    PROVE  /\ hold'[t] = [fence |-> hold[t].fence + 1, id |-> id, ref |-> ref, by |-> by,
                          intended |-> intended]
           /\ \A x \in Tasks \ {t} : hold'[x] = hold[x]
  BY DEF AdvanceReservation, LedgerTypeOK

\* Every kind of claim takes a free hold of a task that exists.
LEMMA ClaimTakes ==
    ASSUME LedgerTypeOK, NEW t \in Tasks, NEW m \in Members, NEW ref, NEW intended,
           ClaimTaskReservation(t, m, ref, intended),
           \/ m.mode = "personal" /\ ref = NoRef /\ intended = NoWorker
           \/ m.role = "coordinator" /\ ref \in OfferRefs /\ intended \in Workers
           \/ m.role = "independent" /\ ref \in AttemptRefs /\ intended = NoWorker
    PROVE  HoldStep(t)
<1>1. /\ hold'[t] = [fence |-> hold[t].fence + 1, id |-> hold[t].fence + 1, ref |-> ref,
                     by |-> m, intended |-> intended]
      /\ \A x \in Tasks \ {t} : hold'[x] = hold[x]
  BY AdvancedHold DEF ClaimTaskReservation
<1>2. /\ ~Held(t) /\ Exists(t) /\ Claimable(t)
      /\ UNCHANGED tasks /\ TrackServiceReservation(t)
  BY DEF ClaimTaskReservation, Transition, Claimable
<1>3. TakesHold(t)
  BY <1>1, <1>2 DEF TakesHold
<1> QED BY <1>1, <1>2, <1>3 DEF HoldStep

\* Release, finalization and both recoveries free the hold they close.
LEMMA CloseFrees ==
    ASSUME LedgerTypeOK, StoreTypeOK, NEW t \in Tasks, NEW c \in Contents, CloseReservation(t, c)
    PROVE  HoldStep(t) /\ FreesHold(t)
<1>1. /\ hold'[t] = [fence |-> hold[t].fence + 1, id |-> NoHold, ref |-> NoRef,
                     by |-> NoMember, intended |-> NoWorker]
      /\ \A x \in Tasks \ {t} : hold'[x] = hold[x]
  BY AdvancedHold DEF CloseReservation
<1>2. Held(t) /\ WriteTask(t, c) /\ TrackServiceReservation(t)
  BY DEF CloseReservation
<1>3. \A x \in Tasks \ {t} : tasks'[x] = tasks[x]
  BY <1>2, WriteTaskType, StoreAssumption
<1>4. FreesHold(t)
  BY <1>1, <1>2 DEF FreesHold, FreeHold
<1> QED BY <1>1, <1>2, <1>3, <1>4 DEF HoldStep

\* An accepted command of the ledger is one of the four steps, or leaves holds and tasks alone.
LEMMA LedgerSteps ==
    ASSUME LedgerTypeOK, StoreTypeOK, LedgerNext
    PROVE  /\ UNCHANGED managed
           /\ \/ UNCHANGED <<tasks, hold, services>>
              \/ \E t \in Tasks : HoldStep(t)
<1>1. ASSUME NEW t \in Tasks, NEW m \in Members, ClaimPersonal(t, m)
      PROVE  UNCHANGED managed /\ HoldStep(t)
  BY <1>1, ClaimTakes DEF ClaimPersonal, ClaimTaskReservation
<1>2. ASSUME NEW t \in Tasks, NEW m \in Members, NEW ref \in OfferRefs, NEW w \in Workers,
             NEW pin \in Processes, ClaimOffer(t, m, ref, w, pin)
      PROVE  UNCHANGED managed /\ HoldStep(t)
  BY <1>2, ClaimTakes DEF ClaimOffer, ClaimTaskReservation
<1>3. ASSUME NEW t \in Tasks, NEW m \in Members, NEW ref \in AttemptRefs, NEW pin \in Processes,
             ClaimIndependent(t, m, ref, pin)
      PROVE  UNCHANGED managed /\ HoldStep(t)
  BY <1>3, ClaimTakes DEF ClaimIndependent, ClaimTaskReservation
<1>4. ASSUME NEW t \in Tasks, NEW m \in Members, NEW o \in OfferRefs, NEW a \in AttemptRefs,
             NEW pin \in Processes, TransferReservation(t, m, o, a, pin)
      PROVE  UNCHANGED managed /\ HoldStep(t)
  <2>1. /\ hold'[t] = [fence |-> hold[t].fence + 1, id |-> hold[t].id, ref |-> a, by |-> m,
                       intended |-> NoWorker]
        /\ \A x \in Tasks \ {t} : hold'[x] = hold[x]
    BY <1>4, AdvancedHold DEF TransferReservation
  <2>2. PassesHold(t)
    BY <1>4, <2>1 DEF TransferReservation, PassesHold
  <2> QED BY <1>4, <2>1, <2>2 DEF TransferReservation, HoldStep
<1>5. ASSUME NEW t \in Tasks, NEW m \in Members, NEW c \in Contents, UpdateReserved(t, m, c)
      PROVE  UNCHANGED managed /\ HoldStep(t)
  <2>1. /\ hold'[t] = [fence |-> hold[t].fence + 1, id |-> hold[t].id, ref |-> hold[t].ref,
                       by |-> hold[t].by, intended |-> hold[t].intended]
        /\ \A x \in Tasks \ {t} : hold'[x] = hold[x]
    BY <1>5, AdvancedHold DEF UpdateReserved
  <2>2. WorksHold(t)
    BY <1>5, <2>1 DEF UpdateReserved, WorksHold
  <2>3. \A x \in Tasks \ {t} : tasks'[x] = tasks[x]
    BY <1>5, WriteTaskType, StoreAssumption DEF UpdateReserved
  <2> QED BY <1>5, <2>1, <2>2, <2>3 DEF UpdateReserved, HoldStep
<1>6. ASSUME NEW t \in Tasks, NEW c \in Contents, CloseReservation(t, c)
      PROVE  UNCHANGED managed /\ HoldStep(t)
  BY <1>6, CloseFrees DEF CloseReservation
<1>7. CASE HoldNext
  BY <1>1, <1>2, <1>3, <1>4, <1>5, <1>6, <1>7
     DEF HoldNext, ReleaseReservation, FinalizeReservation
<1>8. CASE RecoveryNext
  BY <1>6, <1>8 DEF RecoveryNext, VerifyStopEvidence, EvidenceExpires, RecoverByAttestation,
     RecoverByStop, AttemptStops, SelectProcess, storeVars
<1> QED BY <1>7, <1>8 DEF LedgerNext

-----------------------------------------------------------------------------
(***************************************************************************)
(* The invariant of the holds.  HoldStage is not inductive by itself: that *)
(* a hold's holder is a member, and that its ID is a fence it has reached, *)
(* is what makes a new ID different from every earlier one.                *)
(***************************************************************************)
Staged(t) ==
    IF Held(t)
    THEN LET h == hold[t] IN
         /\ h.by \in Members
         /\ \/ /\ h.by.role = "coordinator" /\ h.ref \in OfferRefs
               /\ h.intended \in Workers
            \/ /\ h.by.role \in {"worker", "independent"} /\ h.ref \in AttemptRefs
               /\ h.intended = NoWorker
            \/ h.by.mode = "personal" /\ h.ref = NoRef /\ h.intended = NoWorker
    ELSE hold[t] = FreeHold(hold[t].fence)

\* The hold of t is bound to service v.
Serves(t, v) == Held(t) /\ hold[t].by.mode = "team" /\ hold[t].by.service = v

RowTells(t, v) ==
    /\ Serves(t, v) => services[t][v] = [id |-> hold[t].id, closing |-> 0]
    /\ ~Serves(t, v) /\ services[t][v] # NoRow
       => services[t][v].id < services[t][v].closing /\ services[t][v].closing <= hold[t].fence

HoldInv ==
    /\ SafeInv
    /\ \A t \in Tasks : hold[t].id <= hold[t].fence /\ Staged(t)
    /\ \A t \in Tasks, v \in Services : RowTells(t, v)
    /\ \A t \in Tasks : evidence[t] # NoEvidence => evidence[t].ref \in stopped

\* What the named invariants say, and that they follow.
LEMMA HoldInvMeans == HoldInv => HoldStage /\ ServiceEvidence
<1> SUFFICES ASSUME HoldInv PROVE HoldStage /\ ServiceEvidence
  OBVIOUS
<1>1. HoldStage
  BY DEF HoldInv, Staged, HoldStage
<1>2. ServiceEvidence
  BY DEF HoldInv, RowTells, Serves, ServiceEvidence
<1> QED BY <1>1, <1>2

\* The row of service v after a step of the hold of t, as trackServiceReservation writes it.
LEMMA TrackedRow ==
    ASSUME LedgerTypeOK, NEW t \in Tasks, TrackServiceReservation(t), NEW v \in Services
    PROVE  /\ Serves(t, v)' /\ (hold'[t].id # hold[t].id \/ ~Serves(t, v))
              => services'[t][v] = [id |-> hold'[t].id, closing |-> 0]
           /\ Serves(t, v)' /\ Serves(t, v) /\ hold'[t].id = hold[t].id
              => services'[t][v] = services[t][v]
           /\ ~Serves(t, v)' /\ Held(t)' => services'[t][v] = services[t][v]
           /\ ~Held(t)' /\ Held(t) /\ ~Serves(t, v) => services'[t][v] = services[t][v]
           /\ ~Held(t)' /\ Serves(t, v) /\ services[t][v].id = hold[t].id
              => services'[t][v] = [services[t][v] EXCEPT !.closing = hold'[t].fence]
           /\ \A x \in Tasks \ {t} : services'[x] = services[x]
<1> DEFINE Row(w) ==
        CASE /\ hold'[t].id # NoHold /\ hold'[t].by.mode = "team" /\ hold'[t].by.service = w
             /\ \/ hold'[t].id # hold[t].id
                \/ hold[t].by.mode # "team" \/ hold[t].by.service # w
                -> [id |-> hold'[t].id, closing |-> 0]
          [] /\ hold'[t].id = NoHold
             /\ hold[t].by.mode = "team" /\ hold[t].by.service = w /\ services[t][w].id = hold[t].id
                -> [services[t][w] EXCEPT !.closing = hold'[t].fence]
          [] OTHER -> services[t][w]
<1>1. services' = [services EXCEPT ![t] = [w \in Services |-> Row(w)]]
  BY DEF TrackServiceReservation, LedgerTypeOK
<1>2. services'[t][v] = Row(v) /\ \A x \in Tasks \ {t} : services'[x] = services[x]
  <2> HIDE DEF Row
  <2> QED BY <1>1 DEF LedgerTypeOK
<1>3. Serves(t, v)' /\ (hold'[t].id # hold[t].id \/ ~Serves(t, v))
      => Row(v) = [id |-> hold'[t].id, closing |-> 0]
  BY DEF Serves, Held
<1>4. /\ Serves(t, v)' /\ Serves(t, v) /\ hold'[t].id = hold[t].id => Row(v) = services[t][v]
      /\ ~Serves(t, v)' /\ Held(t)' => Row(v) = services[t][v]
      /\ ~Held(t)' /\ Held(t) /\ ~Serves(t, v) => Row(v) = services[t][v]
  BY DEF Serves, Held
<1>5. ~Held(t)' /\ Serves(t, v) /\ services[t][v].id = hold[t].id
      => Row(v) = [services[t][v] EXCEPT !.closing = hold'[t].fence]
  BY DEF Serves, Held
<1> HIDE DEF Row
<1> QED BY <1>2, <1>3, <1>4, <1>5

\* A step of one hold keeps what it says of itself, and its ID below its fence.
LEMMA HoldStepStaged ==
    ASSUME HoldInv, NEW t \in Tasks, HoldStep(t)
    PROVE  \A x \in Tasks : hold'[x].id <= hold'[x].fence /\ Staged(x)'
<1>0. /\ hold[t].id <= hold[t].fence /\ Staged(t)
      /\ hold[t].id \in Nat /\ hold[t].fence \in Nat
      /\ hold'[t].fence = hold[t].fence + 1
  BY LedgerAssumption DEF HoldInv, SafeInv, TypeInv, HubTypeOK, LedgerTypeOK, HoldType, HoldStep
<1>1. hold'[t].id <= hold'[t].fence /\ Staged(t)'
  <2>1. CASE TakesHold(t)
    BY <1>0, <2>1 DEF TakesHold, Staged, Held, NoHold
  <2>2. CASE PassesHold(t)
    BY <1>0, <2>2 DEF PassesHold, Staged, Held
  <2>3. CASE WorksHold(t)
    BY <1>0, <2>3 DEF WorksHold, Staged, Held
  <2>4. CASE FreesHold(t)
    <3>1. hold'[t] = FreeHold(hold'[t].fence) /\ hold'[t].id = NoHold
      BY <1>0, <2>4 DEF FreesHold, FreeHold
    <3> QED BY <1>0, <3>1 DEF Staged, Held, NoHold
  <2> QED BY <2>1, <2>2, <2>3, <2>4 DEF HoldStep
<1>2. \A x \in Tasks \ {t} : hold'[x].id <= hold'[x].fence /\ Staged(x)'
  BY DEF HoldStep, HoldInv, Staged, Held
<1> QED BY <1>1, <1>2

(***************************************************************************)
(* The row of every service follows.  The cases are those of the hold: one *)
(* taken opens a row, one passed stays in its service, one freed closes    *)
(* the row of the service that had it, at a fence above its ID.            *)
(***************************************************************************)
LEMMA HoldStepRows ==
    ASSUME HoldInv, NEW t \in Tasks, HoldStep(t)
    PROVE  \A x \in Tasks, v \in Services : RowTells(x, v)'
<1>0. LedgerTypeOK /\ TrackServiceReservation(t)
  BY DEF HoldInv, SafeInv, TypeInv, HubTypeOK, HoldStep
<1>1. /\ hold[t].id \in Nat /\ hold[t].fence \in Nat /\ hold[t].id <= hold[t].fence
      /\ hold'[t].fence = hold[t].fence + 1
  BY <1>0, LedgerAssumption DEF HoldInv, LedgerTypeOK, HoldType, HoldStep
<1>2. ASSUME NEW x \in Tasks \ {t}, NEW v \in Services
      PROVE  RowTells(x, v)'
  <2>1. hold'[x] = hold[x] /\ services'[x] = services[x] /\ RowTells(x, v)
    BY <1>0, TrackedRow DEF HoldStep, HoldInv
  <2> QED BY <2>1 DEF RowTells, Serves, Held
<1>3. ASSUME NEW v \in Services
      PROVE  RowTells(t, v)'
  <2>1. /\ RowTells(t, v) /\ services[t][v] \in ServiceRow
        /\ services[t][v].id \in Nat /\ services[t][v].closing \in Nat
    BY <1>0, LedgerAssumption DEF HoldInv, LedgerTypeOK, ServiceRow
  <2>2. services'[t][v] = services[t][v] /\ ~Serves(t, v) /\ ~Serves(t, v)' => RowTells(t, v)'
    BY <1>1, <2>1 DEF RowTells
  <2>3. CASE TakesHold(t)
    <3>1. ~Held(t) /\ ~Serves(t, v) /\ Held(t)'
      BY <1>1, <2>3 DEF TakesHold, Serves, Held, NoHold
    <3>2. CASE Serves(t, v)'
      BY <1>0, <3>1, <3>2, TrackedRow DEF RowTells
    <3>3. CASE ~Serves(t, v)'
      BY <1>0, <2>2, <3>1, <3>3, TrackedRow
    <3> QED BY <3>2, <3>3
  <2>4. CASE PassesHold(t) \/ WorksHold(t)
    <3>1. /\ Held(t) /\ Held(t)' /\ hold'[t].id = hold[t].id
          /\ Serves(t, v)' <=> Serves(t, v)
      BY <2>4 DEF PassesHold, WorksHold, Serves, Held, SameTeam
    <3>2. services'[t][v] = services[t][v]
      BY <1>0, <3>1, TrackedRow
    <3> QED BY <2>1, <2>2, <3>1, <3>2 DEF RowTells
  <2>5. CASE FreesHold(t)
    <3>1. Held(t) /\ ~Held(t)' /\ ~Serves(t, v)'
      BY <2>5 DEF FreesHold, FreeHold, Serves, Held
    <3>2. CASE Serves(t, v)
      <4>1. services[t][v].id = hold[t].id
        BY <2>1, <3>2 DEF RowTells
      <4>2. services'[t][v] = [services[t][v] EXCEPT !.closing = hold'[t].fence]
        BY <1>0, <3>1, <3>2, <4>1, TrackedRow
      <4>3. services'[t][v].id = hold[t].id /\ services'[t][v].closing = hold'[t].fence
        BY <2>1, <4>1, <4>2 DEF ServiceRow
      <4> QED BY <1>1, <3>1, <4>3 DEF RowTells
    <3>3. CASE ~Serves(t, v)
      BY <1>0, <2>2, <3>1, <3>3, TrackedRow
    <3> QED BY <3>2, <3>3
  <2> QED BY <2>3, <2>4, <2>5 DEF HoldStep
<1> QED BY <1>2, <1>3

(***************************************************************************)
(* The stop a recovery has verified: it names stopped work, stops are for  *)
(* good, and only RecoverByStop consumes it in the step that closes a hold.*)
(***************************************************************************)
LEMMA EvidenceStep ==
    ASSUME HoldInv, LedgerNext, NEW t \in Tasks
    PROVE  /\ evidence'[t] # NoEvidence => evidence'[t].ref \in stopped'
           /\ evidence[t] # NoEvidence /\ evidence'[t] = NoEvidence /\ Held(t) /\ ~Held(t)'
              => hold[t].ref = evidence[t].ref
<1>0. /\ LedgerTypeOK /\ StoreTypeOK
      /\ \A x \in Tasks : evidence[x] # NoEvidence => evidence[x].ref \in stopped
  BY DEF HoldInv, SafeInv, TypeInv, HubTypeOK
<1> DEFINE Goal ==
        /\ evidence'[t] # NoEvidence => evidence'[t].ref \in stopped'
        /\ evidence[t] # NoEvidence /\ evidence'[t] = NoEvidence /\ Held(t) /\ ~Held(t)'
           => hold[t].ref = evidence[t].ref
<1>1. UNCHANGED evidence /\ stopped \subseteq stopped' => Goal
  BY <1>0
<1>2. ASSUME NEW x \in Tasks, NEW c \in Contents, CloseReservation(x, c)
      PROVE  UNCHANGED stopped /\ \A y \in Tasks \ {x} : hold'[y] = hold[y]
  BY <1>0, <1>2, CloseFrees DEF CloseReservation, HoldStep
<1>3. CASE HoldNext
  <2>1. UNCHANGED <<evidence, stopped>>
    BY <1>3 DEF HoldNext, ClaimPersonal, ClaimOffer, ClaimIndependent, ClaimTaskReservation,
       TransferReservation, UpdateReserved, ReleaseReservation, FinalizeReservation, CloseReservation
  <2> QED BY <1>1, <2>1
<1>4. ASSUME NEW x \in Tasks, VerifyStopEvidence(x)
      PROVE  Goal
  <2>1. /\ evidence' = [evidence EXCEPT ![x] = [id |-> hold[x].id, ref |-> hold[x].ref]]
        /\ hold[x].ref \in stopped /\ UNCHANGED <<hold, stopped>>
    BY <1>4 DEF VerifyStopEvidence, storeVars
  <2> QED BY <1>0, <2>1 DEF LedgerTypeOK, Held
<1>5. ASSUME NEW x \in Tasks, EvidenceExpires(x)
      PROVE  Goal
  <2>1. /\ evidence' = [evidence EXCEPT ![x] = NoEvidence]
        /\ UNCHANGED <<hold, stopped>>
    BY <1>5 DEF EvidenceExpires, storeVars
  <2> QED BY <1>0, <2>1 DEF LedgerTypeOK, Held
<1>6. ASSUME NEW x \in Tasks, NEW c \in Contents, RecoverByAttestation(x, c)
      PROVE  Goal
  BY <1>1, <1>2, <1>6 DEF RecoverByAttestation
<1>7. ASSUME NEW x \in Tasks, NEW c \in Contents, RecoverByStop(x, c)
      PROVE  Goal
  <2>1. /\ evidence' = [evidence EXCEPT ![x] = NoEvidence]
        /\ hold[x].ref = evidence[x].ref
        /\ UNCHANGED stopped /\ \A y \in Tasks \ {x} : hold'[y] = hold[y]
    BY <1>2, <1>7 DEF RecoverByStop
  <2> QED BY <1>0, <2>1 DEF LedgerTypeOK, Held
<1>8. CASE RecoveryNext
  <2>1. ASSUME NEW ref \in AttemptRefs, AttemptStops(ref)
        PROVE  Goal
    BY <1>1, <2>1 DEF AttemptStops
  <2>2. ASSUME NEW p \in Processes \cup {NoProcess}, SelectProcess(p)
        PROVE  Goal
    BY <1>1, <2>2 DEF SelectProcess
  <2> QED BY <1>4, <1>5, <1>6, <1>7, <1>8, <2>1, <2>2 DEF RecoveryNext
<1> QED BY <1>1, <1>3, <1>8 DEF LedgerNext

\* Nothing is held, recorded or verified at the start.
LEMMA HoldInvInit == HubInit => HoldInv
<1> SUFFICES ASSUME HubInit PROVE HoldInv
  OBVIOUS
<1>1. /\ \A t \in Tasks : hold[t] = FreeHold(0) /\ evidence[t] = NoEvidence
      /\ \A t \in Tasks, v \in Services : services[t][v] = NoRow
  BY DEF HubInit, LedgerInit
<1>2. ASSUME NEW t \in Tasks
      PROVE  /\ hold[t].fence = 0 /\ hold[t].id = NoHold
             /\ ~Held(t) /\ Staged(t)
  BY <1>1 DEF FreeHold, Held, Staged
<1> QED BY <1>1, <1>2, SafeInvInit DEF HoldInv, RowTells, Serves, NoHold

\* A step that leaves the ledger's tables alone keeps its invariant.
LEMMA HoldsAlone ==
    ASSUME HoldInv, SafeInv', UNCHANGED <<hold, services, evidence, stopped>>
    PROVE  HoldInv'
  BY DEF HoldInv, Staged, Held, RowTells, Serves

\* Ordinary writers and teams do not touch a hold.
LEMMA OthersKeepHolds ==
    ASSUME StoreNext \/ TeamNext, TeamOK
    PROVE  UNCHANGED hold
<1>1. CASE StoreNext
  BY <1>1 DEF StoreNext, CreateTask, UpdateTask, TriageTask, SetTasksEnabled
<1>2. CASE SessionNext
  BY <1>2, SessionStepType DEF storeVars
<1>3. CASE AttemptNext
  BY <1>3 DEF AttemptNext, OfferTeamAssignment, AcceptAssignment, DeclineAssignment,
     WithdrawAssignment, WorkerChangesWork, CoordinatorChangesWork, ChangeWork,
     SubmitTeamResult, RecoverTeamAssignment, ReviewTeamResult, MoveBoth, storeVars
<1>4. CASE ManagedNext
  BY <1>4 DEF ManagedNext, EditManagedTask, FinalizeManagedTask, UnmanageTask
<1> QED BY <1>1, <1>2, <1>3, <1>4 DEF TeamNext

\* The invariant of the holds is inductive.
LEMMA HoldInvStep == HoldInv /\ [HubNext]_hubVars => HoldInv'
<1> SUFFICES ASSUME HoldInv, [HubNext]_hubVars
             PROVE  HoldInv'
  OBVIOUS
<1>0. SafeInv /\ SafeInv' /\ TeamOK /\ LedgerTypeOK /\ StoreTypeOK
  BY SafeInvStep DEF HoldInv, SafeInv, TypeInv, HubTypeOK, TeamOK
<1>1. CASE (StoreNext \/ TeamNext) /\ UNCHANGED ledgerVars
  BY <1>0, <1>1, OthersKeepHolds, HoldsAlone DEF ledgerVars
<1>2. CASE LedgerNext
  <2>1. \A t \in Tasks : evidence'[t] # NoEvidence => evidence'[t].ref \in stopped'
    BY <1>2, EvidenceStep
  <2>2. CASE UNCHANGED <<tasks, hold, services>>
    BY <1>0, <2>1, <2>2 DEF HoldInv, Staged, Held, RowTells, Serves
  <2>3. ASSUME NEW t \in Tasks, HoldStep(t)
        PROVE  HoldInv'
    BY <1>0, <2>1, <2>3, HoldStepStaged, HoldStepRows DEF HoldInv
  <2> QED BY <1>0, <1>2, <2>2, <2>3, LedgerSteps
<1>3. CASE UNCHANGED hubVars
  BY <1>0, <1>3, HoldsAlone DEF hubVars, storeVars, ledgerVars
<1> QED BY <1>1, <1>2, <1>3 DEF HubNext

(***************************************************************************)
(* A hold that names an intended worker is a coordinator's offer, and one  *)
(* without is at work or personal: a fact about an offer nobody accepted   *)
(* never matches the hold of a worker that took it over.                   *)
(***************************************************************************)
THEOREM HoldStageHolds == HubSpec => []HoldStage
<1>1. HoldInv => HoldStage
  BY HoldInvMeans
<1> QED BY HoldInvInit, HoldInvStep, <1>1, PTL DEF HubSpec

(***************************************************************************)
(* What ServiceHoldStatus tells a service is true of the hold: held while  *)
(* it is, and afterwards the fence that closed the service's last one.     *)
(***************************************************************************)
THEOREM ServiceEvidenceHolds == HubSpec => []ServiceEvidence
<1>1. HoldInv => ServiceEvidence
  BY HoldInvMeans
<1> QED BY HoldInvInit, HoldInvStep, <1>1, PTL DEF HubSpec

-----------------------------------------------------------------------------
(***************************************************************************)
(* What a step of the hub may do to a hold, and to the task under it.      *)
(* Ordinary writers and teams do not write a held task: that is OneCoor-   *)
(* dinator for teams, and the reservation check for the others.            *)
(***************************************************************************)
LEMMA HeldTaskKept ==
    ASSUME SafeInv, StoreNext \/ TeamNext, NEW t \in Tasks, Held(t)
    PROVE  tasks'[t] = tasks[t]
<1>0. /\ StoreTypeOK /\ TeamOK
      /\ managed[t] = NoTeam /\ Exists(t)
      /\ \A a \in Attempts : Agrees(a)
  BY DEF SafeInv, LiveHold, TypeInv, HubTypeOK, TeamOK
<1>1. ASSUME NEW x \in Tasks, NEW c \in ContentType, SaveTask(x, c)
      PROVE  tasks'[t] = tasks[t]
  <2>1. x # t
    BY <1>1 DEF SaveTask, RejectActiveReservation, Held
  <2> QED BY <1>0, <1>1, <2>1, WriteTaskType DEF SaveTask
<1>2. ASSUME NEW x \in Tasks, NEW s \in TaskStates, SetState(x, s)
      PROVE  tasks'[t] = tasks[t]
  BY <1>0, <1>1, <1>2, ContentOfTask DEF SetState
<1>3. CASE StoreNext
  <2>1. ASSUME NEW x \in Tasks, NEW c \in Contents, CreateTask(x, c)
        PROVE  tasks'[t] = tasks[t]
    <3>1. x # t /\ WriteTask(x, c) /\ c \in ContentType
      BY <1>0, <2>1, StoreAssumption DEF CreateTask
    <3> QED BY <1>0, <3>1, WriteTaskType
  <2>2. ASSUME NEW x \in Tasks, NEW c \in Contents, UpdateTask(x, c)
        PROVE  tasks'[t] = tasks[t]
    BY <1>1, <2>2, StoreAssumption DEF UpdateTask
  <2>3. ASSUME NEW x \in Tasks, NEW s \in TaskStates, TriageTask(x, s)
        PROVE  tasks'[t] = tasks[t]
    BY <1>2, <2>3 DEF TriageTask
  <2> QED BY <1>3, <2>1, <2>2, <2>3 DEF StoreNext, SetTasksEnabled
<1>4. CASE SessionNext
  BY <1>0, <1>4, SessionStepType DEF storeVars
<1>5. CASE AttemptNext
  <2>1. ASSUME NEW a \in Attempts, NEW to \in AttemptStates, NEW s \in TaskStates,
               attempts[a].state # "unused", MoveBoth(a, to, s)
        PROVE  tasks'[t] = tasks[t]
    BY <1>0, <1>2, <2>1 DEF MoveBoth, TeamOK, Anchored
  <2>2. ASSUME NEW op, NEW a \in Attempts, ChangeWork(op, a)
        PROVE  tasks'[t] = tasks[t]
    <3> DEFINE next == WorkTransition(op, attempts[a].state)
    <3>1. next # <<>> /\ MoveBoth(a, next[1], next[2])
      BY <2>2 DEF ChangeWork
    <3>2. /\ next[1] \in AttemptStates /\ next[2] \in TaskStates
          /\ attempts[a].state # "unused"
      BY <3>1, WorkTransitionStates
    <3> HIDE DEF next
    <3> QED BY <2>1, <3>1, <3>2
  <2>3. ASSUME NEW a \in Attempts, SubmitTeamResult(a)
        PROVE  tasks'[t] = tasks[t]
    BY <1>0, <1>2, <2>3 DEF SubmitTeamResult, TeamOK, Anchored, TaskStates
  <2>4. ASSUME NEW a \in Attempts,
               AcceptAssignment(a) \/ RecoverTeamAssignment(a)
        PROVE  tasks'[t] = tasks[t]
    BY <2>1, <2>4 DEF AcceptAssignment, RecoverTeamAssignment, AttemptStates, ReservedStates,
       ClosedStates, TaskStates
  <2>5. ASSUME NEW s \in Sessions, NEW a \in Attempts, NEW accept \in BOOLEAN,
               ReviewTeamResult(s, a, accept)
        PROVE  tasks'[t] = tasks[t]
    BY <2>1, <2>5 DEF ReviewTeamResult, AttemptStates, ClosedStates, TaskStates
  <2> QED BY <1>5, <2>2, <2>3, <2>4, <2>5 DEF AttemptNext, OfferTeamAssignment, DeclineAssignment,
          WithdrawAssignment, WorkerChangesWork, CoordinatorChangesWork, storeVars
<1>6. CASE ManagedNext
  <2>1. ASSUME NEW s \in Sessions, NEW x \in Tasks, NEW c \in Contents, EditManagedTask(s, x, c)
        PROVE  tasks'[t] = tasks[t]
    BY <1>1, <2>1, StoreAssumption DEF EditManagedTask
  <2>2. ASSUME NEW s \in Sessions, NEW x \in Tasks, NEW a \in Attempts, FinalizeManagedTask(s, x, a)
        PROVE  tasks'[t] = tasks[t]
    BY <1>2, <2>2 DEF FinalizeManagedTask, TaskStates
  <2>3. ASSUME NEW team \in Teams, NEW x \in Tasks, UnmanageTask(team, x)
        PROVE  tasks'[t] = tasks[t]
    BY <1>0, <1>1, <2>3, ContentOfTask DEF UnmanageTask
  <2> QED BY <1>6, <2>1, <2>2, <2>3 DEF ManagedNext
<1> QED BY <1>3, <1>4, <1>5, <1>6 DEF TeamNext

\* The step of the fence: FenceMarksChange, for one task.
FenceMarks(t) ==
    /\ hold'[t] # hold[t] => hold'[t].fence = hold[t].fence + 1
    /\ Held(t) /\ tasks'[t] # tasks[t] => hold'[t].fence = hold[t].fence + 1

(***************************************************************************)
(* A command that was decided on an earlier state of a hold, or of the     *)
(* task under it, names a fence that is no longer current: nothing in the  *)
(* hub changes either without advancing the fence.                         *)
(***************************************************************************)
THEOREM FenceMarksChangeHolds == HubSpec => FenceMarksChange
<1>1. HoldInv /\ [HubNext]_hubVars => [\A t \in Tasks : FenceMarks(t)]_<<storeVars, ledgerVars>>
  <2> SUFFICES ASSUME HoldInv, [HubNext]_hubVars, NEW t \in Tasks,
                      ~UNCHANGED <<storeVars, ledgerVars>>
               PROVE  FenceMarks(t)
    OBVIOUS
  <2>0. SafeInv /\ TeamOK /\ LedgerTypeOK /\ StoreTypeOK
    BY DEF HoldInv, SafeInv, TypeInv, HubTypeOK, TeamOK
  <2>1. CASE StoreNext \/ TeamNext
    BY <2>0, <2>1, OthersKeepHolds, HeldTaskKept DEF FenceMarks
  <2>2. CASE LedgerNext
    BY <2>0, <2>2, LedgerSteps DEF FenceMarks, HoldStep
  <2> QED BY <2>1, <2>2 DEF HubNext, hubVars
<1> QED BY HoldInvInit, HoldInvStep, <1>1, PTL DEF HubSpec, FenceMarksChange, FenceMarks

\* The step of a hold that keeps its ID: HoldChangesHandsOnce, for one task.
ChangesHands(t) ==
    /\ Held(t) /\ hold'[t].id = hold[t].id /\ hold'[t].by # hold[t].by
    => /\ hold[t].by.role = "coordinator" /\ hold'[t].by.role = "worker"
       /\ hold[t].intended = hold'[t].by.user
       /\ SameTeam(hold[t].by, hold'[t].by)
       /\ hold'[t].intended = NoWorker

(***************************************************************************)
(* The only change of hands is from a coordinator's offer to the worker it *)
(* names.  That the hold is a coordinator's follows from HoldStage: the    *)
(* transfer itself only compares the offer and the intended worker.        *)
(***************************************************************************)
THEOREM HoldChangesHandsOnceHolds == HubSpec => HoldChangesHandsOnce
<1>1. HoldInv /\ [HubNext]_hubVars => [\A t \in Tasks : ChangesHands(t)]_<<storeVars, ledgerVars>>
  <2> SUFFICES ASSUME HoldInv, [HubNext]_hubVars, NEW t \in Tasks,
                      ~UNCHANGED <<storeVars, ledgerVars>>
               PROVE  ChangesHands(t)
    OBVIOUS
  <2>0. TeamOK /\ LedgerTypeOK /\ StoreTypeOK /\ Staged(t)
    BY DEF HoldInv, SafeInv, TypeInv, HubTypeOK, TeamOK
  <2>1. CASE StoreNext \/ TeamNext
    BY <2>0, <2>1, OthersKeepHolds DEF ChangesHands
  <2>2. ASSUME HoldStep(t)
        PROVE  ChangesHands(t)
    <3>1. CASE PassesHold(t)
      BY <2>0, <3>1, LedgerAssumption DEF PassesHold, Staged, ChangesHands, Refs
    <3>2. CASE TakesHold(t) \/ WorksHold(t) \/ FreesHold(t)
      BY <3>2 DEF TakesHold, WorksHold, FreesHold, FreeHold, Held, ChangesHands
    <3> QED BY <2>2, <3>1, <3>2 DEF HoldStep
  <2>3. CASE LedgerNext
    BY <2>0, <2>2, <2>3, LedgerSteps DEF ChangesHands, HoldStep
  <2> QED BY <2>1, <2>3 DEF HubNext, hubVars
<1> QED BY HoldInvInit, HoldInvStep, <1>1, PTL DEF HubSpec, HoldChangesHandsOnce, ChangesHands

(***************************************************************************)
(* A recovery on a verified stop closes only work that has stopped: ID and *)
(* work are compared inside the transaction, and a stop is for good.       *)
(***************************************************************************)
THEOREM StopEvidenceClosesStoppedWorkHolds == HubSpec => StopEvidenceClosesStoppedWork
<1>1. HoldInv /\ [HubNext]_hubVars
      => [\A t \in Tasks :
            evidence[t] # NoEvidence /\ evidence'[t] = NoEvidence /\ Held(t) /\ hold'[t].id = NoHold
            => hold[t].ref \in stopped]_<<storeVars, ledgerVars>>
  <2> SUFFICES ASSUME HoldInv, [HubNext]_hubVars, NEW t \in Tasks,
                      evidence[t] # NoEvidence, evidence'[t] = NoEvidence,
                      Held(t), hold'[t].id = NoHold
               PROVE  hold[t].ref \in stopped
    OBVIOUS
  <2>1. TeamOK
    BY DEF HoldInv, SafeInv, TypeInv, HubTypeOK, TeamOK
  <2>2. ~UNCHANGED hold
    BY DEF Held
  <2>3. LedgerNext
    BY <2>1, <2>2, OthersKeepHolds DEF HubNext, hubVars, storeVars
  <2>4. hold[t].ref = evidence[t].ref
    BY <2>3, EvidenceStep DEF Held
  <2> QED BY <2>4 DEF HoldInv
<1> QED BY HoldInvInit, HoldInvStep, <1>1, PTL DEF HubSpec, StopEvidenceClosesStoppedWork
=============================================================================
