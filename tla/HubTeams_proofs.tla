---------------------------- MODULE HubTeams_proofs ----------------------------
(***************************************************************************)
(* Theorems about team coordination inside the hub: the handle of a worker *)
(* and of the coordinator, the life of an attempt, the tasks a team        *)
(* manages between attempts, and the abstract specification of who may     *)
(* write a task.                                                           *)
(***************************************************************************)
EXTENDS HubCoordination_proofs

-----------------------------------------------------------------------------
(***************************************************************************)
(* The steps of one attempt: its offer, a move that keeps its worker and   *)
(* task reserved, and its end.  WritesTask says what else a step writes.   *)
(***************************************************************************)
WritesTask(t, s) == \E c \in ContentType : c.state = s /\ ~c.archived /\ WriteTask(t, c)

OffersWork(a, t) ==
    LET n == attempts'[a]  w == attempts'[a].worker IN
    /\ attempts[a].state = "unused"
    /\ Exists(t) /\ ~Held(t) /\ tasks[t].state = "READY" /\ ~tasks[t].archived
    /\ ReservedAttempts(t) = {} /\ managed[t] \in {NoTeam, n.team}
    /\ n.state = "OFFERED" /\ n.task = t /\ n.team \in Teams
    /\ w \in Sessions /\ WorkerFree(w)
    /\ sessions[w].team = n.team /\ sessions[w].role = "worker" /\ sessions[w].state = "active"
    /\ n.workerGen = sessions[w].generation
    /\ managed' = [managed EXCEPT ![t] = n.team]
    /\ UNCHANGED tasks

\* The parts of an attempt's row that no step after the offer writes.
SameAssignment(a) ==
    /\ attempts'[a].task = attempts[a].task /\ attempts'[a].team = attempts[a].team
    /\ attempts'[a].worker = attempts[a].worker
    /\ attempts'[a].workerGen = attempts[a].workerGen

MovesWork(a) ==
    /\ attempts[a].state \in ReservedStates
    /\ attempts'[a].state \in ReservedStates \ {"OFFERED"}
    /\ SameAssignment(a)
    /\ attempts[a].state = "OFFERED"
       => attempts[a].workerGen = sessions[attempts[a].worker].generation
    /\ WritesTask(attempts[a].task, TaskStateOf(attempts'[a].state))
    /\ UNCHANGED managed

EndsWork(a) ==
    /\ attempts[a].state \in ReservedStates
    /\ attempts'[a].state \in ClosedStates
    /\ SameAssignment(a)
    /\ \/ attempts[a].state = "OFFERED" /\ UNCHANGED tasks
       \/ WritesTask(attempts[a].task, "READY")
       \/ attempts'[a].state = "ACCEPTED" /\ WritesTask(attempts[a].task, "REVIEW")
    /\ UNCHANGED managed

WorkStep(a) ==
    /\ (\E t \in Tasks : OffersWork(a, t)) \/ MovesWork(a) \/ EndsWork(a)
    /\ \A x \in Attempts \ {a} : attempts'[x] = attempts[x]
    /\ UNCHANGED <<hold, enrollment, liveTokens, control, sessions>>

\* A transition that sets attempt and task is a move or an end, by the state it reaches.
LEMMA BothMove ==
    ASSUME SafeInv, NEW a \in Attempts, attempts[a].state \in ReservedStates,
           NEW to \in AttemptStates, NEW ts \in TaskStates, MoveBoth(a, to, ts),
           \/ /\ to \in ReservedStates \ {"OFFERED"} /\ ts = TaskStateOf(to)
              /\ attempts[a].state = "OFFERED"
                 => attempts[a].workerGen = sessions[attempts[a].worker].generation
           \/ to \in ClosedStates /\ ts = "READY"
           \/ to = "ACCEPTED" /\ ts = "REVIEW"
    PROVE  WorkStep(a)
<1>0. StoreTypeOK /\ TeamTypeOK /\ Agrees(a)
  BY DEF SafeInv, TypeInv, HubTypeOK
<1> DEFINE t == attempts[a].task
           c == [Content(t) EXCEPT !.state = ts]
<1>1. t \in Tasks /\ ~tasks[t].archived
  BY <1>0 DEF Agrees
<1>2. c \in ContentType /\ WriteTask(t, c) /\ c.state = ts /\ ~c.archived
  BY <1>0, <1>1, ContentOfTask DEF MoveBoth, SetState, SaveTask, Content
<1>3. WritesTask(t, ts)
  <2> HIDE DEF c
  <2> QED BY <1>2 DEF WritesTask
<1>4. /\ attempts'[a].state = to /\ SameAssignment(a)
      /\ \A x \in Attempts \ {a} : attempts'[x] = attempts[x]
  BY <1>0, MoveAttemptType DEF MoveBoth, SameAssignment
<1>5. UNCHANGED <<managed, hold, enrollment, liveTokens, control, sessions>>
  BY DEF MoveBoth
<1> HIDE DEF c, t
<1>6. MovesWork(a) \/ EndsWork(a)
  BY <1>3, <1>4, <1>5 DEF MovesWork, EndsWork, t, ClosedStates
<1> QED BY <1>4, <1>5, <1>6 DEF WorkStep

\* A refused or withdrawn offer ends by itself.
LEMMA OfferEnds ==
    ASSUME SafeInv, NEW a \in Attempts, attempts[a].state = "OFFERED",
           NEW to \in {"DECLINED", "WITHDRAWN"}, MoveAttempt(a, to),
           UNCHANGED <<storeVars, enrollment, liveTokens, control, sessions>>
    PROVE  WorkStep(a)
<1>1. TeamTypeOK /\ to \in AttemptStates /\ to \in ClosedStates
  BY DEF SafeInv, TypeInv, HubTypeOK, AttemptStates, ClosedStates
<1>2. /\ attempts'[a].state = to /\ SameAssignment(a)
      /\ \A x \in Attempts \ {a} : attempts'[x] = attempts[x]
  BY <1>1, MoveAttemptType DEF SameAssignment
<1>3. EndsWork(a)
  BY <1>1, <1>2 DEF EndsWork, storeVars, ReservedStates
<1> QED BY <1>2, <1>3 DEF WorkStep, storeVars

\* Block, resume, cancel, stopped and close-stop.
LEMMA WorkChanges ==
    ASSUME SafeInv, NEW a \in Attempts, NEW op, ChangeWork(op, a)
    PROVE  WorkStep(a)
<1> DEFINE next == WorkTransition(op, attempts[a].state)
<1>1. next # <<>> /\ MoveBoth(a, next[1], next[2])
  BY DEF ChangeWork
<1>2. /\ next[1] \in AttemptStates /\ next[2] \in TaskStates
      /\ attempts[a].state \in ReservedStates /\ attempts[a].state # "OFFERED"
  BY <1>1, WorkTransitionStates DEF ReservedStates
<1>3. \/ next[1] \in ReservedStates \ {"OFFERED"} /\ next[2] = TaskStateOf(next[1])
      \/ next[1] \in ClosedStates /\ next[2] = "READY"
  BY <1>1 DEF WorkTransition, TaskStateOf, ReservedStates, ClosedStates
<1> HIDE DEF next
<1> QED BY <1>1, <1>2, <1>3, BothMove

\* Every accepted command on an attempt is one of the three steps of one attempt.
LEMMA AttemptSteps ==
    ASSUME SafeInv, AttemptNext
    PROVE  \E a \in Attempts : WorkStep(a)
<1> USE DEF AttemptStates, ReservedStates, ClosedStates, TaskStates, TaskStateOf
<1>0. StoreTypeOK /\ TeamTypeOK /\ Anchored
  BY DEF SafeInv, TypeInv, HubTypeOK
<1>1. ASSUME NEW s \in Sessions, NEW w \in Sessions, NEW a \in Attempts, NEW t \in Tasks,
             OfferTeamAssignment(s, a, t, w)
      PROVE  WorkStep(a)
  <2> DEFINE team == sessions[s].team
             n == [team |-> team, task |-> t, state |-> "OFFERED", worker |-> w,
                   workerGen |-> sessions[w].generation, taskRevision |-> tasks[t].revision,
                   profile |-> sessions[w].profile, result |-> FALSE]
  <2>1. /\ attempts' = [attempts EXCEPT ![a] = n]
        /\ managed' = [managed EXCEPT ![t] = team]
        /\ UNCHANGED <<tasks, hold, enabled, enrollment, liveTokens, control, sessions>>
        /\ attempts[a].state = "unused"
        /\ AssignmentReady(t) /\ WorkerFree(w) /\ AssignmentWorker(team, w)
        /\ managed[t] = NoTeam \/ ManagedTask(team, t)
    BY <1>1 DEF OfferTeamAssignment
  <2>2. ReservedAttempts(t) = {} /\ managed[t] \in {NoTeam, team}
    BY <2>1, UnmanagedIsFree DEF ManagedTask
  <2>3. team \in Teams
    BY <1>0, <1>1 DEF OfferTeamAssignment, CurrentCoordinator, CurrentSession, Anchored
  <2>4. /\ n.task = t /\ n.worker = w /\ n.team = team /\ n.state = "OFFERED"
        /\ n.workerGen = sessions[w].generation
    OBVIOUS
  <2> HIDE DEF n, team
  <2>5. attempts'[a] = n /\ \A x \in Attempts \ {a} : attempts'[x] = attempts[x]
    BY <1>0, <2>1 DEF TeamTypeOK
  <2>6. OffersWork(a, t)
    BY <2>1, <2>2, <2>3, <2>4, <2>5
       DEF OffersWork, AssignmentReady, AssignmentWorker, RejectActiveReservation, Held
  <2> QED BY <2>1, <2>5, <2>6 DEF WorkStep
<1>2. ASSUME NEW a \in Attempts, AcceptAssignment(a)
      PROVE  WorkStep(a)
  BY <1>2, BothMove DEF AcceptAssignment, CommandingWorker
<1>3. ASSUME NEW a \in Attempts, DeclineAssignment(a)
      PROVE  WorkStep(a)
  BY <1>3, OfferEnds DEF DeclineAssignment
<1>4. ASSUME NEW s \in Sessions, NEW a \in Attempts, WithdrawAssignment(s, a)
      PROVE  WorkStep(a)
  BY <1>4, OfferEnds DEF WithdrawAssignment
<1>5. ASSUME NEW op, NEW a \in Attempts, WorkerChangesWork(op, a)
      PROVE  WorkStep(a)
  BY <1>5, WorkChanges DEF WorkerChangesWork
<1>6. ASSUME NEW op, NEW s \in Sessions, NEW a \in Attempts, CoordinatorChangesWork(op, s, a)
      PROVE  WorkStep(a)
  BY <1>6, WorkChanges DEF CoordinatorChangesWork
<1>7. ASSUME NEW a \in Attempts, SubmitTeamResult(a)
      PROVE  WorkStep(a)
  <2> DEFINE t == attempts[a].task
             c == [Content(t) EXCEPT !.state = "REVIEW"]
  <2>1. /\ attempts' = [attempts EXCEPT ![a].state = "SUBMITTED", ![a].result = TRUE]
        /\ attempts[a].state = "RUNNING"
        /\ WriteTask(t, c)
        /\ UNCHANGED <<managed, hold, enrollment, liveTokens, control, sessions>>
    BY <1>7 DEF SubmitTeamResult, SetState, SaveTask
  <2>2. t \in Tasks /\ ~tasks[t].archived
    BY <2>1 DEF SafeInv, Agrees
  <2>3. c \in ContentType /\ c.state = "REVIEW" /\ ~c.archived
    BY <1>0, <2>2, ContentOfTask DEF Content
  <2> HIDE DEF c
  <2>4. WritesTask(t, "REVIEW")
    BY <2>1, <2>3 DEF WritesTask
  <2>5. /\ attempts'[a].state = "SUBMITTED" /\ SameAssignment(a)
        /\ \A x \in Attempts \ {a} : attempts'[x] = attempts[x]
    BY <1>0, <2>1 DEF TeamTypeOK, AttemptType, SameAssignment
  <2>6. MovesWork(a)
    BY <2>1, <2>4, <2>5 DEF MovesWork
  <2> QED BY <2>1, <2>5, <2>6 DEF WorkStep
<1>8. ASSUME NEW a \in Attempts, RecoverTeamAssignment(a)
      PROVE  WorkStep(a)
  BY <1>8, BothMove DEF RecoverTeamAssignment
<1>9. ASSUME NEW s \in Sessions, NEW a \in Attempts, NEW accept \in BOOLEAN,
             ReviewTeamResult(s, a, accept)
      PROVE  WorkStep(a)
  BY <1>9, BothMove DEF ReviewTeamResult
<1> QED BY <1>1, <1>2, <1>3, <1>4, <1>5, <1>6, <1>7, <1>8, <1>9 DEF AttemptNext

-----------------------------------------------------------------------------
(***************************************************************************)
(* The worker's handle.  That a worker's session is not "unused" is what   *)
(* makes WorkerHandleFollows inductive: a join never starts on the session *)
(* of a worker at work.                                                    *)
(***************************************************************************)
Follows(a) ==
    attempts[a].state \in ReservedStates =>
        LET s == attempts[a].worker IN
        /\ s \in Sessions /\ sessions[s].team = attempts[a].team
        /\ sessions[s].role = "worker" /\ sessions[s].state # "unused"
        /\ attempts[a].workerGen <= sessions[s].generation
        /\ attempts[a].state # "OFFERED" /\ sessions[s].state = "active"
           => attempts[a].workerGen = sessions[s].generation

HandleInv == SafeInv /\ \A a \in Attempts : Follows(a)

\* A step that leaves attempts alone and, of a worker's session, moves at most the end.
LEMMA FollowsKept ==
    ASSUME HandleInv, UNCHANGED attempts,
           \A x \in Sessions :
              \/ WorkerFree(x) \/ sessions[x].state = "unused" \/ sessions[x].role # "worker"
              \/ /\ sessions'[x].team = sessions[x].team
                 /\ sessions'[x].role = sessions[x].role
                 /\ sessions'[x].state # "unused"
                 /\ sessions[x].generation <= sessions'[x].generation
                 /\ sessions'[x].state = "active"
                    => /\ sessions[x].state = "active"
                       /\ sessions'[x].generation = sessions[x].generation,
           NEW a \in Attempts,
           \A x \in Sessions : sessions[x].generation \in Nat /\ sessions'[x].generation \in Nat
    PROVE  Follows(a)'
<1> DEFINE s == attempts[a].worker
<1>1. SUFFICES ASSUME attempts[a].state \in ReservedStates
               PROVE  Follows(a)'
  BY DEF Follows
<1>2. /\ s \in Sessions /\ Follows(a) /\ ~WorkerFree(s) /\ attempts[a].workerGen \in Nat
      /\ sessions[s].state # "unused" /\ sessions[s].role = "worker"
  BY <1>1, TeamAssumption
     DEF HandleInv, Follows, WorkerFree, ReservesWorker, SafeInv, TypeInv, HubTypeOK, TeamTypeOK,
         AttemptType
<1>3. /\ sessions'[s].team = sessions[s].team /\ sessions'[s].role = sessions[s].role
      /\ sessions'[s].state # "unused"
      /\ sessions[s].generation <= sessions'[s].generation
      /\ sessions'[s].state = "active"
         => /\ sessions[s].state = "active"
            /\ sessions'[s].generation = sessions[s].generation
  BY <1>2
<1> QED BY <1>1, <1>2, <1>3 DEF Follows

\* Resume and token replacement: the attempt of a worker moves to the new generation with it.
LEMMA ReissueFollows ==
    ASSUME HandleInv, NEW s \in Sessions, NEW tok \in Tokens, sessions[s].state = "active",
           ReissueHandle(s, tok), NEW a \in Attempts
    PROVE  Follows(a)'
<1>0. TeamOK /\ sessions \in [Sessions -> SessionType] /\ attempts \in [Attempts -> AttemptType]
  BY DEF HandleInv, SafeInv, TypeInv, HubTypeOK, TeamOK, TeamTypeOK
<1>1. PICK c \in 0..MaxSlotGeneration :
        /\ sessions' = [sessions EXCEPT ![s] = Reissued(sessions[s], tok, c)]
        /\ sessions[s].generation < MaxGeneration
        /\ \A b \in Attempts : /\ attempts'[b].state = attempts[b].state
                               /\ attempts'[b].team = attempts[b].team
                               /\ attempts'[b].worker = attempts[b].worker
  BY <1>0, Reissue
<1> DEFINE r == sessions[s]
           n == Reissued(sessions[s], tok, c)
<1>2. /\ n.state = r.state /\ n.team = r.team /\ n.role = r.role
      /\ n.generation = r.generation + 1 /\ r.generation \in Nat
  BY <1>0, <1>1, ReissuedRow, TeamAssumption DEF SessionType
<1> HIDE DEF n
<1>3. sessions'[s] = n /\ \A x \in Sessions \ {s} : sessions'[x] = sessions[x]
  BY <1>0, <1>1 DEF n
<1>4. SUFFICES ASSUME attempts[a].state \in ReservedStates
               PROVE  Follows(a)'
  BY <1>1 DEF Follows
<1>5. Follows(a) /\ attempts[a].workerGen \in Nat
  BY <1>0, TeamAssumption DEF HandleInv, AttemptType
<1>6. CASE attempts[a].worker # s
  <2>1. attempts'[a].workerGen = attempts[a].workerGen
    BY <1>0, <1>4, <1>6 DEF ReissueHandle, RebindReservedAssignment, ReservesWorker
  <2> QED BY <1>1, <1>3, <1>4, <1>5, <1>6, <2>1 DEF Follows
<1>7. CASE attempts[a].worker = s
  <2>1. r.role = "worker" /\ r.team = attempts[a].team /\ attempts[a].workerGen <= r.generation
    BY <1>4, <1>5, <1>7 DEF Follows
  <2>2. RebindReservedAssignment(s, r.generation + 1)
    BY <2>1 DEF ReissueHandle
  <2>3. CASE attempts[a].state = "OFFERED"
    <3>1. attempts'[a].workerGen = attempts[a].workerGen
      BY <2>2, <2>3 DEF RebindReservedAssignment
    <3> QED BY <1>1, <1>2, <1>3, <1>4, <1>5, <1>7, <2>1, <2>3, <3>1 DEF Follows
  <2>4. CASE attempts[a].state # "OFFERED"
    <3>1. attempts'[a] = Rebound(attempts[a], r.generation + 1)
      BY <1>4, <1>7, <2>2, <2>4 DEF RebindReservedAssignment, ReservesWorker
    <3>2. r.generation + 1 \in 0..MaxGeneration
      BY <1>1, <1>2, TeamAssumption
    <3>3. attempts'[a].workerGen = r.generation + 1
      BY <1>0, <3>1, <3>2, ReboundRow
    <3> QED BY <1>1, <1>2, <1>3, <1>4, <1>7, <2>1, <3>3 DEF Follows
  <2> QED BY <2>3, <2>4
<1> QED BY <1>6, <1>7

\* Every step of sessions keeps the handle of every worker at work.
LEMMA SessionFollows ==
    ASSUME HandleInv, TypeInv', SessionNext, NEW a \in Attempts
    PROVE  Follows(a)'
<1>0. /\ TeamOK /\ sessions \in [Sessions -> SessionType] /\ sessions' \in [Sessions -> SessionType]
      /\ \A x \in Sessions : sessions[x] \in SessionType
      /\ \A x \in Sessions : sessions[x].generation \in Nat /\ sessions'[x].generation \in Nat
  BY TeamAssumption
     DEF HandleInv, SafeInv, TypeInv, HubTypeOK, TeamOK, TeamTypeOK, SessionType
<1>1. ASSUME UNCHANGED <<sessions, attempts>>
      PROVE  Follows(a)'
  BY <1>0, <1>1, FollowsKept
<1>2. ASSUME NEW s \in Sessions, UNCHANGED attempts,
             \A x \in Sessions \ {s} : sessions'[x] = sessions[x],
             \/ sessions[s].state = "unused"
             \/ /\ sessions[s].state = "active"
                /\ sessions'[s].team = sessions[s].team /\ sessions'[s].role = sessions[s].role
                /\ sessions'[s].state = "active"
                /\ sessions'[s].generation = sessions[s].generation
             \/ /\ sessions'[s].team = sessions[s].team /\ sessions'[s].role = sessions[s].role
                /\ sessions'[s].state = "left"
                /\ sessions'[s].generation = sessions[s].generation + 1
      PROVE  Follows(a)'
  BY <1>0, <1>2, FollowsKept
<1>3. ASSUME NEW s \in Sessions, NEW team \in Teams, NEW tok \in Tokens, NEW role \in Roles,
             JoinTeam(s, team, tok, role)
      PROVE  Follows(a)'
  <2>1. /\ sessions[s].state = "unused" /\ UNCHANGED attempts
        /\ \A x \in Sessions \ {s} : sessions'[x] = sessions[x]
    BY <1>0, <1>3 DEF JoinTeam
  <2> QED BY <1>2, <2>1
<1>4. ASSUME NEW s \in Sessions, UpdateProfile(s)
      PROVE  Follows(a)'
  <2>1. /\ sessions[s].state = "active" /\ UNCHANGED attempts
        /\ sessions'[s].team = sessions[s].team /\ sessions'[s].role = sessions[s].role
        /\ sessions'[s].state = sessions[s].state
        /\ sessions'[s].generation = sessions[s].generation
        /\ \A x \in Sessions \ {s} : sessions'[x] = sessions[x]
    BY <1>0, <1>4 DEF UpdateProfile, CurrentSession, SessionType
  <2> QED BY <1>2, <2>1
<1>5. ASSUME NEW s \in Sessions, NEW v \in {"available", "unavailable"}, Heartbeat(s, v)
      PROVE  Follows(a)'
  <2>1. /\ sessions[s].state = "active" /\ UNCHANGED attempts
        /\ sessions'[s].team = sessions[s].team /\ sessions'[s].role = sessions[s].role
        /\ sessions'[s].state = sessions[s].state
        /\ sessions'[s].generation = sessions[s].generation
        /\ \A x \in Sessions \ {s} : sessions'[x] = sessions[x]
    BY <1>0, <1>5 DEF Heartbeat, CurrentSession, SessionType
  <2> QED BY <1>2, <2>1
<1>6. ASSUME NEW s \in Sessions, Resume(s)
      PROVE  Follows(a)'
  <2>1. sessions[s].state = "active" /\ sessions[s].token \in Tokens
    BY <1>0, <1>6 DEF Resume, CurrentSession, TeamOK, TeamTypeOK
  <2> QED BY <1>6, <2>1, ReissueFollows DEF Resume
<1>7. ASSUME NEW s \in Sessions, NEW tok \in Tokens, RebindTeamSessionToken(s, tok)
      PROVE  Follows(a)'
  BY <1>7, ReissueFollows DEF RebindTeamSessionToken
<1>8. ASSUME NEW s \in Sessions, Leave(s)
      PROVE  Follows(a)'
  <2>1. /\ sessions' = [sessions EXCEPT ![s] = Left(sessions[s])]
        /\ sessions[s].generation < MaxGeneration /\ UNCHANGED attempts
    BY <1>8 DEF Leave
  <2>2. /\ Left(sessions[s]).state = "left" /\ Left(sessions[s]).team = sessions[s].team
        /\ Left(sessions[s]).role = sessions[s].role
        /\ Left(sessions[s]).generation = sessions[s].generation + 1
    BY <1>0, <2>1, LeftRow
  <2> QED BY <1>0, <1>2, <2>1, <2>2
<1>9. ASSUME NEW from \in Sessions, NEW to \in Sessions, NEW admin \in BOOLEAN,
             HandoffTeamCoordinator(from, to, admin)
      PROVE  Follows(a)'
  <2>1. /\ WorkerFree(to) /\ UNCHANGED attempts
        /\ sessions[from].role = "coordinator"
        /\ \A x \in Sessions \ {from, to} : sessions'[x] = sessions[x]
    BY <1>0, <1>9 DEF HandoffTeamCoordinator, OutgoingCoordinator, CurrentCoordinator
  <2> QED BY <1>0, <2>1, FollowsKept
<1> QED BY <1>1, <1>3, <1>4, <1>5, <1>6, <1>7, <1>8, <1>9
        DEF SessionNext, ConfigureTeam, RevokeToken

\* A step of an attempt: an offer takes the handle as it is, an acceptance proves it current.
LEMMA WorkFollows ==
    ASSUME HandleInv, NEW b \in Attempts, WorkStep(b), NEW a \in Attempts
    PROVE  Follows(a)'
<1>0. UNCHANGED sessions /\ Follows(a)
  BY DEF WorkStep, HandleInv
<1>1. CASE a # b
  BY <1>0, <1>1 DEF WorkStep, Follows
<1>2. CASE a = b
  <2>1. ASSUME NEW t \in Tasks, OffersWork(a, t)
        PROVE  Follows(a)'
    <3>1. attempts'[a].worker \in Sessions /\ sessions[attempts'[a].worker].generation \in Nat
      BY <2>1, TeamAssumption
         DEF OffersWork, HandleInv, SafeInv, TypeInv, HubTypeOK, TeamTypeOK, SessionType
    <3> QED BY <1>0, <2>1, <3>1 DEF OffersWork, Follows
  <2>2. CASE MovesWork(a)
    BY <1>0, <2>2 DEF MovesWork, SameAssignment, Follows
  <2>3. CASE EndsWork(a)
    BY <2>3 DEF EndsWork, Follows, ClosedStates, ReservedStates
  <2> QED BY <1>2, <2>1, <2>2, <2>3 DEF WorkStep
<1> QED BY <1>1, <1>2

\* The invariant of the worker's handle is inductive.
LEMMA HandleInvStep == HandleInv /\ [HubNext]_hubVars => HandleInv'
<1> SUFFICES ASSUME HandleInv, [HubNext]_hubVars
             PROVE  HandleInv'
  OBVIOUS
<1>0. SafeInv /\ SafeInv' /\ TypeInv'
  BY SafeInvStep DEF HandleInv, SafeInv
<1>1. ASSUME UNCHANGED <<sessions, attempts>>
      PROVE  HandleInv'
  BY <1>0, <1>1 DEF HandleInv, Follows
<1>2. CASE SessionNext
  BY <1>0, <1>2, SessionFollows DEF HandleInv
<1>3. CASE AttemptNext
  BY <1>0, <1>3, AttemptSteps, WorkFollows DEF HandleInv
<1>4. CASE ManagedNext
  BY <1>1, <1>4 DEF ManagedNext, EditManagedTask, FinalizeManagedTask, UnmanageTask, teamVars
<1> QED BY <1>1, <1>2, <1>3, <1>4 DEF HubNext, TeamNext, hubVars, teamVars

(***************************************************************************)
(* A worker whose session is still active can command the work it has      *)
(* accepted, after any sequence of resumes and token replacements, and     *)
(* nobody's session becomes something else while it works.                 *)
(***************************************************************************)
THEOREM WorkerHandleFollowsHolds == HubSpec => []WorkerHandleFollows
<1>1. HubInit => HandleInv
  BY SafeInvInit DEF HandleInv, Follows, HubInit, TeamInit, UnusedAttempt, ReservedStates
<1>2. HandleInv => WorkerHandleFollows
  BY DEF HandleInv, Follows, WorkerHandleFollows
<1> QED BY <1>1, <1>2, HandleInvStep, PTL DEF HubSpec

-----------------------------------------------------------------------------
(***************************************************************************)
(* The writes of tasks that are neither under an attempt nor under a hold: *)
(* an ordinary one, an edit or finalization by the managing team, and the  *)
(* release of a managed task.                                              *)
(***************************************************************************)
WritesOpen(t) ==
    /\ managed[t] = NoTeam /\ ~Held(t) /\ ReservedAttempts(t) = {}
    /\ \E c \in ContentType : WriteTask(t, c)
    /\ UNCHANGED managed

WritesManaged(t) ==
    /\ managed[t] \in Teams /\ ~Held(t) /\ ReservedAttempts(t) = {} /\ Exists(t)
    /\ \/ WritesTask(t, tasks[t].state)
       \/ /\ WritesTask(t, "DONE")
          /\ \E a \in Attempts : /\ attempts[a].task = t /\ attempts[a].team = managed[t]
                                 /\ attempts[a].state = "ACCEPTED"
    /\ UNCHANGED managed

FreesManaged(t) ==
    /\ managed[t] \in Teams /\ ~Held(t) /\ ReservedAttempts(t) = {} /\ Exists(t)
    /\ managed' = [managed EXCEPT ![t] = NoTeam]
    /\ \E c \in ContentType : WriteTask(t, c)

(***************************************************************************)
(* What a team manages.  A managed task exists, which no operation that    *)
(* manages says again later: it is what keeps a creation away from a       *)
(* managed row.                                                            *)
(***************************************************************************)
Idle(t) ==
    managed[t] # NoTeam =>
        /\ Exists(t)
        /\ ReservedAttempts(t) = {} =>
              /\ ~tasks[t].archived
              /\ \/ tasks[t].state = "READY"
                 \/ /\ tasks[t].state \in {"REVIEW", "DONE"}
                    /\ \E a \in Attempts : /\ attempts[a].task = t
                                           /\ attempts[a].team = managed[t]
                                           /\ attempts[a].state = "ACCEPTED"

ManagedInv == SafeInv /\ \A t \in Tasks : Idle(t)

\* What a write of a task leaves in its row, and in the others.
LEMMA WrittenTask ==
    ASSUME StoreTypeOK, NEW t \in Tasks, NEW c \in ContentType, WriteTask(t, c)
    PROVE  /\ tasks'[t].state = c.state /\ tasks'[t].archived = c.archived
           /\ tasks'[t].revision = tasks[t].revision + 1
           /\ tasks[t].revision \in Nat /\ tasks'[t].revision > 0
           /\ tasks'[t] # tasks[t]
           /\ \A x \in Tasks \ {t} : tasks'[x] = tasks[x]
<1>1. tasks[t].revision \in Nat
  BY StoreAssumption DEF StoreTypeOK
<1>2. /\ tasks'[t] = [state |-> c.state, archived |-> c.archived, deps |-> c.deps,
                      revision |-> tasks[t].revision + 1]
      /\ \A x \in Tasks \ {t} : tasks'[x] = tasks[x]
  BY WriteTaskType
<1> QED BY <1>1, <1>2

\* An ordinary write is a write of an open task, the switch writes none.
LEMMA StoreSteps ==
    ASSUME ManagedInv, StoreNext
    PROVE  /\ UNCHANGED hold
           /\ UNCHANGED <<tasks, managed>> \/ \E t \in Tasks : WritesOpen(t)
<1>0. SafeInv /\ StoreTypeOK
  BY DEF ManagedInv, SafeInv, TypeInv, HubTypeOK
<1>1. ASSUME NEW t \in Tasks, NEW c \in Contents, CreateTask(t, c)
      PROVE  WritesOpen(t)
  <2>1. ReservedAttempts(t) = {} /\ ~Held(t) /\ managed[t] = NoTeam
    BY <1>0, <1>1, UnmanagedIsFree DEF CreateTask, SafeInv, LiveHold, ManagedInv, Idle
  <2> QED BY <1>1, <2>1, StoreAssumption DEF CreateTask, WritesOpen
<1>2. ASSUME NEW t \in Tasks, NEW c \in Contents, UpdateTask(t, c)
      PROVE  WritesOpen(t)
  BY <1>0, <1>2, UnmanagedIsFree, StoreAssumption
     DEF UpdateTask, GenericWriteAllowed, SaveTask, RejectActiveReservation, Held, WritesOpen
<1>3. ASSUME NEW t \in Tasks, NEW s \in TaskStates, TriageTask(t, s)
      PROVE  WritesOpen(t)
  <2>1. [Content(t) EXCEPT !.state = s] \in ContentType
    BY <1>0, ContentOfTask
  <2> QED BY <1>0, <1>3, <2>1, UnmanagedIsFree
          DEF TriageTask, GenericWriteAllowed, SetState, SaveTask, RejectActiveReservation, Held,
              WritesOpen
<1> QED BY <1>1, <1>2, <1>3
        DEF StoreNext, CreateTask, UpdateTask, TriageTask, SetTasksEnabled

\* A managing team writes, or gives up, a task that none of its attempts reserves.
LEMMA ManagedSteps ==
    ASSUME SafeInv, ManagedNext
    PROVE  /\ UNCHANGED <<hold, teamVars>>
           /\ \E t \in Tasks : WritesManaged(t) \/ FreesManaged(t)
<1>0. /\ StoreTypeOK
      /\ \A s \in Sessions : sessions[s].state # "unused" => sessions[s].team \in Teams
  BY DEF SafeInv, TypeInv, HubTypeOK, Anchored
<1>1. ASSUME NEW s \in Sessions, NEW t \in Tasks, NEW c \in Contents, EditManagedTask(s, t, c)
      PROVE  UNCHANGED <<hold, teamVars>> /\ WritesManaged(t)
  <2>1. /\ managed[t] = sessions[s].team /\ sessions[s].state # "unused"
        /\ ReservedAttempts(t) = {} /\ Exists(t)
    BY <1>1 DEF EditManagedTask, ManagedTask, CurrentCoordinator, CurrentSession
  <2>2. /\ ~c.archived /\ c.state = tasks[t].state /\ WriteTask(t, c) /\ ~Held(t)
        /\ UNCHANGED <<managed, hold, teamVars>>
    BY <1>1 DEF EditManagedTask, SaveTask, RejectActiveReservation, Held
  <2>3. WritesTask(t, tasks[t].state)
    BY <2>2, StoreAssumption DEF WritesTask
  <2> QED BY <1>0, <2>1, <2>2, <2>3 DEF WritesManaged
<1>2. ASSUME NEW s \in Sessions, NEW t \in Tasks, NEW a \in Attempts, FinalizeManagedTask(s, t, a)
      PROVE  UNCHANGED <<hold, teamVars>> /\ WritesManaged(t)
  <2>1. /\ managed[t] = sessions[s].team /\ sessions[s].state # "unused"
        /\ ReservedAttempts(t) = {} /\ Exists(t) /\ ~tasks[t].archived
        /\ attempts[a].task = t /\ attempts[a].team = managed[t] /\ attempts[a].state = "ACCEPTED"
    BY <1>2 DEF FinalizeManagedTask, ManagedTask, CurrentCoordinator, CurrentSession
  <2> DEFINE c == [Content(t) EXCEPT !.state = "DONE"]
  <2>2. /\ WriteTask(t, c) /\ ~Held(t)
        /\ UNCHANGED <<managed, hold, teamVars>>
    BY <1>2 DEF FinalizeManagedTask, SetState, SaveTask, RejectActiveReservation, Held
  <2>3. c \in ContentType /\ c.state = "DONE" /\ ~c.archived
    BY <1>0, <2>1, ContentOfTask DEF Content, TaskStates
  <2> HIDE DEF c
  <2>4. WritesTask(t, "DONE")
    BY <2>2, <2>3 DEF WritesTask
  <2> QED BY <1>0, <2>1, <2>2, <2>4 DEF WritesManaged
<1>3. ASSUME NEW team \in Teams, NEW t \in Tasks, UnmanageTask(team, t)
      PROVE  UNCHANGED <<hold, teamVars>> /\ FreesManaged(t)
  BY <1>0, <1>3, ContentOfTask
     DEF UnmanageTask, ManagedTask, SaveTask, RejectActiveReservation, Held, FreesManaged
<1> QED BY <1>1, <1>2, <1>3 DEF ManagedNext

\* A task whose rows a step leaves alone.
LEMMA IdleKept ==
    ASSUME NEW x \in Tasks, Idle(x), tasks'[x] = tasks[x], managed'[x] = managed[x],
           \A a \in Attempts :
              \/ /\ attempts'[a].state = attempts[a].state /\ attempts'[a].task = attempts[a].task
                 /\ attempts'[a].team = attempts[a].team
              \/ attempts'[a].task # x /\ attempts[a].task # x
              \/ attempts[a].state = "unused" /\ attempts'[a].task # x
    PROVE  Idle(x)'
<1>1. ReservedAttempts(x)' = {} => ReservedAttempts(x) = {}
  BY DEF ReservedAttempts, ReservedStates
<1>2. ASSUME NEW a \in Attempts, attempts[a].task = x, attempts[a].team = managed[x],
             attempts[a].state = "ACCEPTED"
      PROVE  attempts'[a].task = x /\ attempts'[a].team = managed'[x]
             /\ attempts'[a].state = "ACCEPTED"
  BY <1>2
<1> QED BY <1>1, <1>2 DEF Idle, Exists

\* A step of an attempt: the end of one leaves its task READY, or in REVIEW with the result.
LEMMA WorkIdle ==
    ASSUME ManagedInv, NEW a \in Attempts, WorkStep(a), NEW x \in Tasks
    PROVE  Idle(x)'
<1>0. /\ SafeInv /\ StoreTypeOK /\ TeamTypeOK /\ Idle(x) /\ Agrees(a)
      /\ \A y \in Attempts \ {a} : attempts'[y] = attempts[y]
  BY DEF ManagedInv, SafeInv, TypeInv, HubTypeOK, WorkStep
<1>1. ASSUME NEW t \in Tasks, OffersWork(a, t)
      PROVE  Idle(x)'
  <2>1. /\ UNCHANGED tasks /\ managed' = [managed EXCEPT ![t] = attempts'[a].team]
        /\ attempts'[a].task = t /\ attempts'[a].state = "OFFERED"
        /\ attempts[a].state = "unused" /\ Exists(t)
    BY <1>1 DEF OffersWork
  <2>2. CASE x = t
    <3>1. a \in ReservedAttempts(x)' /\ Exists(x)'
      BY <2>1, <2>2 DEF ReservedAttempts, ReservedStates, Exists
    <3> QED BY <3>1 DEF Idle
  <2>3. CASE x # t
    <3>1. managed'[x] = managed[x]
      BY <1>0, <2>1, <2>3 DEF StoreTypeOK
    <3> QED BY <1>0, <2>1, <2>3, <3>1, IdleKept
  <2> QED BY <2>2, <2>3
<1>2. CASE MovesWork(a) \/ EndsWork(a)
  <2>0. attempts[a].state \in ReservedStates /\ UNCHANGED managed
    BY <1>2 DEF MovesWork, EndsWork
  <2> PICK t \in Tasks : t = attempts[a].task
    BY <1>0, <2>0 DEF Agrees
  <2>1. attempts'[a].task = t /\ attempts'[a].team = attempts[a].team
    BY <1>2 DEF MovesWork, EndsWork, SameAssignment
  <2>2. Exists(t) /\ managed[t] = attempts[a].team /\ ~tasks[t].archived
    BY <1>0, <2>0 DEF Agrees
  <2>3. ASSUME NEW s, WritesTask(t, s)
        PROVE  /\ \A y \in Tasks \ {t} : tasks'[y] = tasks[y]
               /\ tasks'[t].state = s /\ ~tasks'[t].archived /\ Exists(t)'
    <3>1. PICK c \in ContentType : c.state = s /\ ~c.archived /\ WriteTask(t, c)
      BY <2>3 DEF WritesTask
    <3> QED BY <1>0, <2>2, <3>1, WrittenTask DEF Exists
  <2>4. CASE x # t
    <3>1. tasks'[x] = tasks[x]
      BY <1>2, <2>3, <2>4 DEF MovesWork, EndsWork
    <3> QED BY <1>0, <2>0, <2>1, <2>4, <3>1, IdleKept
  <2>5. CASE x = t /\ MovesWork(a)
    <3>1. a \in ReservedAttempts(x)'
      BY <2>0, <2>1, <2>5 DEF ReservedAttempts, MovesWork
    <3>2. Exists(x)'
      BY <2>3, <2>5 DEF MovesWork
    <3> QED BY <3>1, <3>2 DEF Idle
  <2>6. CASE x = t /\ EndsWork(a)
    <3>1. CASE attempts[a].state = "OFFERED" /\ UNCHANGED tasks
      <4>1. tasks[t].state = "READY"
        BY <1>0, <3>1 DEF Agrees, TaskStateOf, ReservedStates
      <4>2. tasks'[x].state = "READY" /\ ~tasks'[x].archived /\ Exists(x)'
        BY <2>2, <2>6, <3>1, <4>1 DEF Exists
      <4> QED BY <4>2 DEF Idle
    <3>2. CASE WritesTask(t, "READY")
      BY <2>3, <2>6, <3>2 DEF Idle
    <3>3. CASE attempts'[a].state = "ACCEPTED" /\ WritesTask(t, "REVIEW")
      BY <2>0, <2>1, <2>2, <2>3, <2>6, <3>3 DEF Idle
    <3> QED BY <2>6, <3>1, <3>2, <3>3 DEF EndsWork
  <2> QED BY <1>2, <2>4, <2>5, <2>6
<1> QED BY <1>1, <1>2 DEF WorkStep

\* A write of a task that no attempt reserves.
LEMMA FreeWriteIdle ==
    ASSUME ManagedInv, UNCHANGED attempts, NEW t \in Tasks,
           WritesOpen(t) \/ WritesManaged(t) \/ FreesManaged(t), NEW x \in Tasks
    PROVE  Idle(x)'
<1>0. StoreTypeOK /\ Idle(x) /\ Idle(t)
  BY DEF ManagedInv, SafeInv, TypeInv, HubTypeOK
<1>1. PICK c \in ContentType :
        /\ WriteTask(t, c)
        /\ WritesManaged(t) =>
              /\ ~c.archived
              /\ \/ c.state = tasks[t].state
                 \/ /\ c.state = "DONE"
                    /\ \E a \in Attempts : /\ attempts[a].task = t
                                           /\ attempts[a].team = managed[t]
                                           /\ attempts[a].state = "ACCEPTED"
  BY DEF WritesOpen, WritesManaged, FreesManaged, WritesTask
<1>2. /\ tasks'[t].state = c.state /\ tasks'[t].archived = c.archived /\ Exists(t)'
      /\ \A y \in Tasks \ {t} : tasks'[y] = tasks[y]
  BY <1>0, <1>1, WrittenTask DEF Exists
<1>3. \A y \in Tasks \ {t} : managed'[y] = managed[y]
  BY <1>0 DEF WritesOpen, WritesManaged, FreesManaged, StoreTypeOK
<1>4. CASE x # t
  BY <1>0, <1>2, <1>3, <1>4, IdleKept
<1>5. CASE x = t /\ WritesManaged(t)
  BY <1>0, <1>1, <1>2, <1>5 DEF WritesManaged, Idle
<1>6. CASE x = t /\ ~WritesManaged(t)
  <2>1. managed'[t] = NoTeam
    BY <1>0, <1>6 DEF WritesOpen, FreesManaged, StoreTypeOK
  <2> QED BY <1>6, <2>1 DEF Idle
<1> QED BY <1>4, <1>5, <1>6

\* Sessions leave tasks alone, and of attempts all but the handle.
LEMMA SessionSteps ==
    ASSUME SafeInv, SessionNext
    PROVE  SameAttempts /\ UNCHANGED storeVars
<1>0. TeamOK
  BY DEF SafeInv, TypeInv, HubTypeOK, TeamOK
<1>1. ASSUME NEW s \in Sessions, NEW tok \in Tokens, sessions[s].state = "active",
             ReissueHandle(s, tok)
      PROVE  SameAttempts
  BY <1>0, <1>1, Reissue DEF SameAttempts
<1>2. ASSUME NEW s \in Sessions, Resume(s)
      PROVE  SameAttempts
  <2>1. sessions[s].state = "active" /\ sessions[s].token \in Tokens
    BY <1>0, <1>2 DEF Resume, CurrentSession, TeamOK, TeamTypeOK
  <2> QED BY <1>1, <1>2, <2>1 DEF Resume
<1>3. ASSUME NEW s \in Sessions, NEW tok \in Tokens, RebindTeamSessionToken(s, tok)
      PROVE  SameAttempts
  BY <1>1, <1>3 DEF RebindTeamSessionToken
<1>4. UNCHANGED attempts => SameAttempts
  BY DEF SameAttempts
<1>5. SameAttempts
  BY <1>2, <1>3, <1>4 DEF SessionNext, ConfigureTeam, JoinTeam, UpdateProfile, Leave, Heartbeat,
     HandoffTeamCoordinator, RevokeToken
<1> QED BY <1>0, <1>5, SessionStepType

\* A ledger step writes a task only under a hold, where no team manages it.
LEMMA LedgerIdle ==
    ASSUME ManagedInv, LedgerNext, UNCHANGED attempts, NEW x \in Tasks
    PROVE  Idle(x)'
<1>0. StoreTypeOK /\ LedgerTypeOK /\ Idle(x) /\ \A t \in Tasks : LiveHold(t)
  BY DEF ManagedInv, SafeInv, TypeInv, HubTypeOK
<1>1. CASE tasks'[x] = tasks[x]
  BY <1>0, <1>1, LedgerSteps, IdleKept
<1>2. CASE tasks'[x] # tasks[x]
  <2>1. Held(x) /\ UNCHANGED managed
    BY <1>0, <1>2, LedgerSteps DEF HoldStep, TakesHold, PassesHold, WorksHold, FreesHold
  <2> QED BY <1>0, <2>1 DEF LiveHold, Idle
<1> QED BY <1>1, <1>2

\* The invariant of managed tasks is inductive.
LEMMA ManagedInvStep == ManagedInv /\ [HubNext]_hubVars => ManagedInv'
<1> SUFFICES ASSUME ManagedInv, [HubNext]_hubVars
             PROVE  ManagedInv'
  OBVIOUS
<1>0. SafeInv /\ SafeInv'
  BY SafeInvStep DEF ManagedInv
<1>1. ASSUME SameAttempts, UNCHANGED <<tasks, managed>>
      PROVE  ManagedInv'
  BY <1>0, <1>1, IdleKept DEF ManagedInv, SameAttempts
<1>2. CASE StoreNext /\ UNCHANGED teamVars
  BY <1>0, <1>1, <1>2, StoreSteps, FreeWriteIdle DEF ManagedInv, teamVars, SameAttempts
<1>3. CASE SessionNext
  BY <1>0, <1>1, <1>3, SessionSteps DEF storeVars
<1>4. CASE AttemptNext
  BY <1>0, <1>4, AttemptSteps, WorkIdle DEF ManagedInv
<1>5. CASE ManagedNext
  BY <1>0, <1>5, ManagedSteps, FreeWriteIdle DEF ManagedInv, teamVars
<1>6. CASE LedgerNext /\ UNCHANGED teamVars
  BY <1>0, <1>6, LedgerIdle DEF ManagedInv, teamVars
<1>7. CASE UNCHANGED hubVars
  BY <1>1, <1>7 DEF hubVars, storeVars, teamVars, SameAttempts
<1> QED BY <1>2, <1>3, <1>4, <1>5, <1>6, <1>7 DEF HubNext, TeamNext

\* Nothing is managed at the start.
LEMMA ManagedInvInit == HubInit => ManagedInv
  BY SafeInvInit DEF ManagedInv, Idle, HubInit, StoreInit

(***************************************************************************)
(* A managed task with no attempt is READY for one, or rests on a result   *)
(* its team accepted: no end of an attempt, edit, recovery or interleaving *)
(* of other commands leaves it IN_PROGRESS or BLOCKED with nobody at work. *)
(***************************************************************************)
THEOREM ManagedIdleShapeHolds == HubSpec => []ManagedIdleShape
<1>1. ManagedInv => ManagedIdleShape
  BY DEF ManagedInv, Idle, ManagedIdleShape
<1> QED BY ManagedInvInit, ManagedInvStep, <1>1, PTL DEF HubSpec

-----------------------------------------------------------------------------
(***************************************************************************)
(* All the steps of the hub, by what they do to tasks and to who may write *)
(* them.                                                                   *)
(***************************************************************************)
FreeStep(t) == (WritesOpen(t) \/ WritesManaged(t) \/ FreesManaged(t)) /\ UNCHANGED <<hold, attempts>>

QuietHub == SameAttempts /\ UNCHANGED <<tasks, managed, hold>>

\* Every step does one of these.
LEMMA HubSteps ==
    ASSUME ManagedInv, [HubNext]_hubVars
    PROVE  \/ QuietHub
           \/ \E t \in Tasks : FreeStep(t)
           \/ \E a \in Attempts : WorkStep(a)
           \/ UNCHANGED <<managed, attempts>> /\ \E t \in Tasks : HoldStep(t)
<1>0. SafeInv /\ StoreTypeOK /\ LedgerTypeOK
  BY DEF ManagedInv, SafeInv, TypeInv, HubTypeOK
<1>1. UNCHANGED attempts => SameAttempts
  BY DEF SameAttempts
<1>2. CASE StoreNext /\ UNCHANGED teamVars
  BY <1>1, <1>2, StoreSteps DEF teamVars, FreeStep, QuietHub
<1>3. CASE SessionNext
  BY <1>0, <1>3, SessionSteps DEF storeVars, QuietHub
<1>4. CASE AttemptNext
  BY <1>0, <1>4, AttemptSteps
<1>5. CASE ManagedNext
  BY <1>0, <1>5, ManagedSteps DEF teamVars, FreeStep
<1>6. CASE LedgerNext /\ UNCHANGED teamVars
  BY <1>0, <1>1, <1>6, LedgerSteps DEF teamVars, QuietHub
<1>7. CASE UNCHANGED hubVars
  BY <1>1, <1>7 DEF hubVars, storeVars, teamVars, QuietHub
<1> QED BY <1>2, <1>3, <1>4, <1>5, <1>6, <1>7 DEF HubNext, TeamNext

\* What a step may do to the revision of a task: RevisionMarksChange, for one task.
RevisionMarks(t) ==
    /\ tasks'[t] # tasks[t] => tasks'[t].revision = tasks[t].revision + 1
    /\ managed[t] # NoTeam /\ managed'[t] # managed[t] => tasks'[t] # tasks[t]

\* At most one task is written, and what is written has its next revision.
LEMMA WrittenMarks ==
    ASSUME StoreTypeOK, NEW x \in Tasks, UNCHANGED managed,
           UNCHANGED tasks \/ \E t \in Tasks, c \in ContentType : WriteTask(t, c)
    PROVE  RevisionMarks(x)
<1>1. ASSUME NEW t \in Tasks, NEW c \in ContentType, WriteTask(t, c)
      PROVE  RevisionMarks(x)
  BY <1>1, WrittenTask DEF RevisionMarks
<1> QED BY <1>1 DEF RevisionMarks

(***************************************************************************)
(* Whoever decided on a revision of a task decided on what the task is     *)
(* now: no step of the hub, of whichever client, team or hold, changes a   *)
(* task or takes it from its team and leaves its revision.                 *)
(***************************************************************************)
THEOREM RevisionMarksChangeHolds == HubSpec => RevisionMarksChange
<1>1. ManagedInv /\ [HubNext]_hubVars => [\A t \in Tasks : RevisionMarks(t)]_<<storeVars, teamVars>>
  <2> SUFFICES ASSUME ManagedInv, [HubNext]_hubVars, NEW x \in Tasks
               PROVE  RevisionMarks(x)
    OBVIOUS
  <2>0. SafeInv /\ StoreTypeOK /\ \A a \in Attempts : Agrees(a)
    BY DEF ManagedInv, SafeInv, TypeInv, HubTypeOK
  <2>1. CASE QuietHub
    BY <2>1 DEF QuietHub, RevisionMarks
  <2>2. ASSUME NEW t \in Tasks, FreeStep(t)
        PROVE  RevisionMarks(x)
    <3>1. PICK c \in ContentType : WriteTask(t, c)
      BY <2>2 DEF FreeStep, WritesOpen, WritesManaged, FreesManaged, WritesTask
    <3>2. CASE UNCHANGED managed
      BY <2>0, <3>1, <3>2, WrittenMarks
    <3>3. CASE FreesManaged(t)
      BY <2>0, <3>1, <3>3, WrittenTask DEF FreesManaged, RevisionMarks, StoreTypeOK
    <3> QED BY <2>2, <3>2, <3>3 DEF FreeStep, WritesOpen, WritesManaged
  <2>3. ASSUME NEW a \in Attempts, WorkStep(a)
        PROVE  RevisionMarks(x)
    <3>1. ASSUME NEW t \in Tasks, OffersWork(a, t)
          PROVE  RevisionMarks(x)
      BY <2>0, <3>1 DEF OffersWork, RevisionMarks, StoreTypeOK
    <3>2. CASE MovesWork(a) \/ EndsWork(a)
      BY <2>0, <3>2, WrittenMarks DEF MovesWork, EndsWork, WritesTask, Agrees
    <3> QED BY <2>3, <3>1, <3>2 DEF WorkStep
  <2>4. ASSUME NEW t \in Tasks, HoldStep(t), UNCHANGED managed
        PROVE  RevisionMarks(x)
    <3>1. UNCHANGED tasks \/ \E c \in ContentType : WriteTask(t, c)
      BY <2>4, StoreAssumption DEF HoldStep, TakesHold, PassesHold, WorksHold, FreesHold
    <3> QED BY <2>0, <2>4, <3>1, WrittenMarks
  <2> QED BY <2>1, <2>2, <2>3, <2>4, HubSteps
<1> QED BY ManagedInvInit, ManagedInvStep, <1>1, PTL
        DEF HubSpec, RevisionMarksChange, RevisionMarks

\* What a step may do to an attempt: ReservedWorkSurvives, for one attempt.
Survives(a) ==
    /\ attempts[a].state \in ClosedStates => attempts'[a] = attempts[a]
    /\ attempts[a].state \in ReservedStates /\ attempts'[a].state # attempts[a].state
       => UNCHANGED <<enrollment, liveTokens, control, sessions>>

\* A session step touches the row of no closed attempt.
LEMMA ClosedStay ==
    ASSUME SafeInv, SessionNext, NEW a \in Attempts, attempts[a].state \in ClosedStates
    PROVE  attempts'[a] = attempts[a]
<1>0. attempts[a].state \notin ReservedStates
  BY DEF ReservedStates, ClosedStates
<1>1. ASSUME NEW s, NEW tok, ReissueHandle(s, tok)
      PROVE  attempts'[a] = attempts[a]
  BY <1>0, <1>1 DEF ReissueHandle, RebindReservedAssignment, ReservesWorker
<1> QED BY <1>1 DEF SessionNext, ConfigureTeam, JoinTeam, UpdateProfile, Resume, Leave, Heartbeat,
       RebindTeamSessionToken, HandoffTeamCoordinator, RevokeToken

(***************************************************************************)
(* What a session does, or what happens to it, never frees the work it     *)
(* reserves, and a decided attempt stays decided.                          *)
(***************************************************************************)
THEOREM ReservedWorkSurvivesHolds == HubSpec => ReservedWorkSurvives
<1>1. SafeInv /\ [HubNext]_hubVars => [\A a \in Attempts : Survives(a)]_<<storeVars, teamVars>>
  <2> SUFFICES ASSUME SafeInv, [HubNext]_hubVars, NEW a \in Attempts
               PROVE  Survives(a)
    OBVIOUS
  <2>1. CASE SessionNext
    BY <2>1, SessionSteps, ClosedStay DEF SameAttempts, Survives
  <2>2. CASE AttemptNext
    <3>1. PICK b \in Attempts : WorkStep(b)
      BY <2>2, AttemptSteps
    <3>2. attempts[a].state \in ClosedStates => a # b
      BY <3>1 DEF WorkStep, OffersWork, MovesWork, EndsWork, ReservedStates, ClosedStates
    <3> QED BY <3>1, <3>2 DEF WorkStep, Survives
  <2>3. CASE UNCHANGED attempts
    BY <2>3 DEF Survives
  <2>4. ManagedNext => UNCHANGED attempts
    BY ManagedSteps DEF teamVars
  <2> QED BY <2>1, <2>2, <2>3, <2>4 DEF HubNext, TeamNext, hubVars, teamVars
<1> QED BY SafeInvInit, SafeInvStep, <1>1, PTL DEF HubSpec, ReservedWorkSurvives, Survives

-----------------------------------------------------------------------------
\* Session s comes to hold the slot, or to hold it under another handle.
TakesSlot(s) == HoldsSlot(s)' /\ (~HoldsSlot(s) \/ SlotHandle(s)' # SlotHandle(s))

SlotMoves(team) == team \in Teams /\ control' = [control EXCEPT ![team] = @ + 1]

\* A session whose row keeps its handle, role and state takes nothing.
LEMMA SameHandle ==
    ASSUME NEW x \in Sessions,
           sessions'[x].state = sessions[x].state /\ sessions'[x].role = sessions[x].role
           /\ sessions'[x].token = sessions[x].token
           /\ sessions'[x].generation = sessions[x].generation
    PROVE  ~TakesSlot(x)
  BY DEF TakesSlot, HoldsSlot, SlotHandle

\* Resume and token replacement take the slot only by moving it on.
LEMMA ReissueTakes ==
    ASSUME TeamOK, NEW s \in Sessions, NEW tok \in Tokens, sessions[s].state = "active",
           ReissueHandle(s, tok), NEW x \in Sessions, TakesSlot(x)
    PROVE  SlotMoves(sessions'[x].team)
<1>1. PICK c \in 0..MaxSlotGeneration :
        /\ sessions' = [sessions EXCEPT ![s] = Reissued(sessions[s], tok, c)]
        /\ sessions[s].generation < MaxGeneration
        /\ sessions[s].role = "coordinator" =>
              control' = [control EXCEPT ![sessions[s].team] = @ + 1]
  BY Reissue
<1>2. sessions \in [Sessions -> SessionType] /\ sessions[s].team \in Teams
  BY DEF TeamOK, TeamTypeOK, Anchored
<1> DEFINE n == Reissued(sessions[s], tok, c)
<1>3. n.role = sessions[s].role /\ n.team = sessions[s].team
  BY <1>1, <1>2, ReissuedRow
<1> HIDE DEF n
<1>4. sessions'[s] = n /\ \A y \in Sessions \ {s} : sessions'[y] = sessions[y]
  BY <1>1, <1>2 DEF n
<1>5. x = s
  BY <1>4, SameHandle
<1> QED BY <1>1, <1>2, <1>3, <1>4, <1>5 DEF TakesSlot, HoldsSlot, SlotMoves

\* Whatever session step makes a session the coordinator moves the slot of its team on.
LEMMA SlotTaken ==
    ASSUME TeamOK, SessionNext, NEW x \in Sessions, TakesSlot(x)
    PROVE  SlotMoves(sessions'[x].team)
<1>0. sessions \in [Sessions -> SessionType] /\ control \in [Teams -> 0..MaxSlotGeneration]
  BY DEF TeamOK, TeamTypeOK
<1>1. ~UNCHANGED sessions
  BY SameHandle
<1>2. ASSUME NEW s \in Sessions, NEW team \in Teams, NEW tok \in Tokens, NEW role \in Roles,
             JoinTeam(s, team, tok, role)
      PROVE  SlotMoves(sessions'[x].team)
  <2>1. /\ sessions'[s].team = team /\ sessions'[s].role = role
        /\ \A y \in Sessions \ {s} : sessions'[y] = sessions[y]
    BY <1>0, <1>2 DEF JoinTeam
  <2>2. x = s
    BY <2>1, SameHandle
  <2> QED BY <1>2, <2>1, <2>2
          DEF TakesSlot, HoldsSlot, JoinTeam, NextCoordinatorGeneration, SlotMoves
<1>3. ASSUME NEW s \in Sessions, UpdateProfile(s)
      PROVE  FALSE
  BY <1>0, <1>3, SameHandle DEF UpdateProfile, SessionType
<1>4. ASSUME NEW s \in Sessions, NEW v \in {"available", "unavailable"}, Heartbeat(s, v)
      PROVE  FALSE
  BY <1>0, <1>4, SameHandle DEF Heartbeat, SessionType
<1>5. ASSUME NEW s \in Sessions, Resume(s)
      PROVE  SlotMoves(sessions'[x].team)
  <2>1. sessions[s].state = "active" /\ sessions[s].token \in Tokens
    BY <1>5 DEF Resume, CurrentSession, TeamOK, TeamTypeOK
  <2> QED BY <1>5, <2>1, ReissueTakes DEF Resume
<1>6. ASSUME NEW s \in Sessions, NEW tok \in Tokens, RebindTeamSessionToken(s, tok)
      PROVE  SlotMoves(sessions'[x].team)
  BY <1>6, ReissueTakes DEF RebindTeamSessionToken
<1>7. ASSUME NEW s \in Sessions, Leave(s)
      PROVE  FALSE
  <2>1. /\ Left(sessions[s]).state = "left"
        /\ sessions' = [sessions EXCEPT ![s] = Left(sessions[s])]
    BY <1>0, <1>7, LeftRow DEF Leave
  <2> QED BY <1>0, <2>1, SameHandle DEF TakesSlot, HoldsSlot
<1>8. ASSUME NEW from \in Sessions, NEW to \in Sessions, NEW admin \in BOOLEAN,
             HandoffTeamCoordinator(from, to, admin)
      PROVE  SlotMoves(sessions'[x].team)
  <2> DEFINE team == sessions[from].team
  <2>1. /\ from # to /\ sessions[from].state = "active"
        /\ sessions[to].team = team
        /\ sessions[from].generation < MaxGeneration
        /\ control' = [control EXCEPT ![team] = @ + 1] /\ control[team] < MaxSlotGeneration
        /\ sessions' = [sessions EXCEPT ![from] = Left(sessions[from]),
                                        ![to] = Promoted(sessions[to], control'[team])]
    BY <1>8 DEF HandoffTeamCoordinator, OutgoingCoordinator, CurrentCoordinator, CurrentSession,
                NextCoordinatorGeneration
  <2>2. team \in Teams
    BY <2>1 DEF TeamOK, Anchored
  <2>3. PICK c \in 0..MaxSlotGeneration : c = control'[team]
    BY <1>0, <2>1, <2>2, TeamAssumption
  <2>4. Left(sessions[from]).state = "left" /\ Promoted(sessions[to], c).team = sessions[to].team
    BY <1>0, <2>1, LeftRow, PromotedRow
  <2>5. /\ sessions'[from] = Left(sessions[from]) /\ sessions'[to] = Promoted(sessions[to], c)
        /\ \A y \in Sessions \ {from, to} : sessions'[y] = sessions[y]
    BY <1>0, <2>1, <2>3
  <2>6. x = to
    BY <2>4, <2>5, SameHandle DEF TakesSlot, HoldsSlot
  <2> QED BY <2>1, <2>2, <2>4, <2>5, <2>6 DEF SlotMoves
<1> QED BY <1>1, <1>2, <1>3, <1>4, <1>5, <1>6, <1>7, <1>8
        DEF SessionNext, ConfigureTeam, RevokeToken

\* A new coordinator, or a new handle of one: FreshSlotGeneration, for one session.
FreshSlot(s) ==
    TakesSlot(s) => /\ control'[sessions'[s].team] > control[sessions'[s].team]
                    /\ sessions'[s].coordGen = control'[sessions'[s].team]

(***************************************************************************)
(* Nobody becomes able to command as coordinator under a generation of the *)
(* slot that was ever used before, so no delayed command of an earlier     *)
(* holder, or of an earlier handle of the same one, is taken for current.  *)
(***************************************************************************)
THEOREM FreshSlotGenerationHolds == HubSpec => FreshSlotGeneration
<1>1. SafeInv /\ CoordinatorSlot /\ CoordinatorSlot' /\ [HubNext]_hubVars
      => [\A s \in Sessions : FreshSlot(s)]_<<storeVars, teamVars>>
  <2> SUFFICES ASSUME SafeInv, CoordinatorSlot', [HubNext]_hubVars, NEW s \in Sessions,
                      TakesSlot(s)
               PROVE  /\ control'[sessions'[s].team] > control[sessions'[s].team]
                      /\ sessions'[s].coordGen = control'[sessions'[s].team]
    BY DEF FreshSlot
  <2>0. TeamOK /\ control \in [Teams -> 0..MaxSlotGeneration]
    BY DEF SafeInv, TypeInv, HubTypeOK, TeamOK, TeamTypeOK
  <2>1. sessions'[s].coordGen = control'[sessions'[s].team]
    BY DEF CoordinatorSlot, TakesSlot
  <2>2. ~UNCHANGED sessions
    BY SameHandle
  <2>3. AttemptNext \/ ManagedNext => UNCHANGED sessions
    BY AttemptSteps, ManagedSteps DEF WorkStep, teamVars
  <2>4. SessionNext
    BY <2>2, <2>3 DEF HubNext, TeamNext, hubVars, teamVars
  <2>5. SlotMoves(sessions'[s].team)
    BY <2>0, <2>4, SlotTaken
  <2> QED BY <2>0, <2>1, <2>5, TeamAssumption DEF SlotMoves
<1> QED BY SafeInvInit, SafeInvStep, CoordinatorSlotHolds, <1>1, PTL
        DEF HubSpec, FreshSlotGeneration, FreshSlot, TakesSlot

-----------------------------------------------------------------------------
(***************************************************************************)
(* The hub implements TaskAuthority: the three tables that decide who may  *)
(* write a task (its hold, its managing team and its reserved attempt)     *)
(* name one authority between them, and every step of the hub moves it     *)
(* along one edge of the abstract specification, or leaves it alone.       *)
(***************************************************************************)
\* What the three tables say of a task that is under a hold, an attempt, a team or nothing.
ReadsAuthority(t) ==
    /\ Held(t) => AuthorityOf(t) = Authority!Hold(hold[t].id)
    /\ ~Held(t) => \A a \in ReservedAttempts(t) :
                      AuthorityOf(t) = Authority!Attempt(a, attempts[a].team)
    /\ ~Held(t) /\ ReservedAttempts(t) = {} =>
          IF managed[t] # NoTeam THEN AuthorityOf(t) = Authority!Team(managed[t])
                                 ELSE AuthorityOf(t) = Authority!Open

OneAuthority == \A t \in Tasks : ReadsAuthority(t)

\* The attempt that AuthorityOf picks is the only one: one reserved attempt per task.
LEMMA AuthorityRead == SafeInv => OneAuthority
<1> SUFFICES ASSUME SafeInv, NEW t \in Tasks
             PROVE  ReadsAuthority(t)
  BY DEF OneAuthority
<1>1. Held(t) => AuthorityOf(t) = Authority!Hold(hold[t].id)
  BY DEF AuthorityOf, Authority!Hold
<1>2. ASSUME ~Held(t), NEW a \in ReservedAttempts(t)
      PROVE  AuthorityOf(t) = Authority!Attempt(a, attempts[a].team)
  <2>1. \A x \in Attempts : x \in ReservedAttempts(t) <=> x = a
    BY <1>2 DEF SafeInv, ExclusiveReservation, ReservedAttempts
  <2>2. a \in Attempts
    BY <1>2 DEF ReservedAttempts
  <2>3. (CHOOSE x \in Attempts : x \in ReservedAttempts(t)) = a
    BY <2>1, <2>2
  <2> QED BY <1>2, <2>3 DEF AuthorityOf, Authority!Attempt
<1>3. ASSUME ~Held(t), ReservedAttempts(t) = {}
      PROVE  IF managed[t] # NoTeam THEN AuthorityOf(t) = Authority!Team(managed[t])
                                    ELSE AuthorityOf(t) = Authority!Open
  BY <1>3 DEF AuthorityOf, Authority!Team, Authority!Open
<1> QED BY <1>1, <1>2, <1>3 DEF ReadsAuthority

\* A task whose hold, team and reserved attempts a step leaves alone keeps its authority.
LEMMA AuthorityKept ==
    ASSUME OneAuthority, OneAuthority', NEW x \in Tasks,
           hold'[x].id = hold[x].id, managed'[x] = managed[x],
           ReservedAttempts(x)' = ReservedAttempts(x),
           \A a \in ReservedAttempts(x) : attempts'[a].team = attempts[a].team
    PROVE  AuthorityOf(x)' = AuthorityOf(x)
<1>1. ReadsAuthority(x) /\ ReadsAuthority(x)'
  BY DEF OneAuthority
<1>2. CASE Held(x)
  BY <1>1, <1>2 DEF ReadsAuthority, Held
<1>3. CASE ~Held(x) /\ ReservedAttempts(x) = {}
  BY <1>1, <1>3 DEF ReadsAuthority, Held
<1>4. CASE ~Held(x) /\ ReservedAttempts(x) # {}
  <2>1. PICK a \in ReservedAttempts(x) : TRUE
    BY <1>4
  <2> QED BY <1>1, <1>4, <2>1 DEF ReadsAuthority, Held
<1> QED BY <1>2, <1>3, <1>4

-----------------------------------------------------------------------------
(***************************************************************************)
(* The four components of the abstract state, moved at one task at most.   *)
(***************************************************************************)
AuthoritySame == \A x \in Tasks : AuthorityOf(x)' = AuthorityOf(x)
AuthorityMoves(t, to) == /\ AuthorityOf(t)' = to
                         /\ \A x \in Tasks \ {t} : AuthorityOf(x)' = AuthorityOf(x)
RevisionSame == \A x \in Tasks : tasks'[x].revision = tasks[x].revision
RevisionMoves(t) == /\ tasks'[t].revision = tasks[t].revision + 1
                    /\ \A x \in Tasks \ {t} : tasks'[x].revision = tasks[x].revision
FenceSame == \A x \in Tasks : hold'[x].fence = hold[x].fence
FenceMoves(t) == /\ hold'[t].fence = hold[t].fence + 1
                 /\ \A x \in Tasks \ {t} : hold'[x].fence = hold[x].fence
UsedSame == \A a \in Attempts : attempts'[a].state # "unused" <=> attempts[a].state # "unused"

\* What these say of the functions the abstract specification is instantiated with.
LEMMA AbstractMoves ==
    ASSUME NEW t \in Tasks, NEW to
    PROVE  /\ AuthoritySame => UNCHANGED [x \in Tasks |-> AuthorityOf(x)]
           /\ AuthorityMoves(t, to) => Authority!Moves(t, to)
           /\ RevisionSame => UNCHANGED [x \in Tasks |-> tasks[x].revision]
           /\ RevisionMoves(t) => Authority!NewRevision(t)
           /\ FenceSame => UNCHANGED [x \in Tasks |-> hold[x].fence]
           /\ FenceMoves(t) => Authority!NewFence(t)
           /\ UsedSame => UNCHANGED {a \in Attempts : attempts[a].state # "unused"}
<1>1. AuthoritySame => UNCHANGED [x \in Tasks |-> AuthorityOf(x)]
  BY DEF AuthoritySame
<1>2. AuthorityMoves(t, to) => Authority!Moves(t, to)
  BY DEF AuthorityMoves, Authority!Moves
<1>3. RevisionSame => UNCHANGED [x \in Tasks |-> tasks[x].revision]
  BY DEF RevisionSame
<1>4. RevisionMoves(t) => Authority!NewRevision(t)
  BY DEF RevisionMoves, Authority!NewRevision
<1>5. FenceSame => UNCHANGED [x \in Tasks |-> hold[x].fence]
  BY DEF FenceSame
<1>6. FenceMoves(t) => Authority!NewFence(t)
  BY DEF FenceMoves, Authority!NewFence
<1>7. UsedSame => UNCHANGED {a \in Attempts : attempts[a].state # "unused"}
  BY DEF UsedSame
<1> QED BY <1>1, <1>2, <1>3, <1>4, <1>5, <1>6, <1>7

\* The writes of a task, in the same terms.
LEMMA WriteMoves ==
    ASSUME StoreTypeOK, NEW t \in Tasks, NEW c \in ContentType, WriteTask(t, c)
    PROVE  RevisionMoves(t)
  BY WrittenTask DEF RevisionMoves

\* The same for a write of whatever content in a state.
LEMMA WritesTaskMoves ==
    ASSUME StoreTypeOK, NEW t \in Tasks, NEW s, WritesTask(t, s)
    PROVE  RevisionMoves(t)
  BY WriteMoves DEF WritesTask

-----------------------------------------------------------------------------
\* A step of one hold is a claim, a pass, a write under the hold, or its end.
LEMMA HoldRefines ==
    ASSUME SafeInv, OneAuthority, OneAuthority', UNCHANGED <<managed, attempts>>,
           NEW t \in Tasks, HoldStep(t)
    PROVE  Authority!Next
<1>0. /\ StoreTypeOK /\ LiveHold(t) /\ hold[t].fence \in Nat
      /\ ReadsAuthority(t) /\ ReadsAuthority(t)'
      /\ \A x \in Tasks : ReservedAttempts(x)' = ReservedAttempts(x)
  BY LedgerAssumption
     DEF SafeInv, TypeInv, HubTypeOK, LedgerTypeOK, HoldType, OneAuthority, ReservedAttempts
<1>1. /\ \A x \in Tasks \ {t} : AuthorityOf(x)' = AuthorityOf(x)
      /\ hold'[t].id = hold[t].id => AuthorityOf(t)' = AuthorityOf(t)
  BY <1>0, AuthorityKept DEF HoldStep
<1>2. FenceMoves(t) /\ UsedSame
  BY DEF HoldStep, FenceMoves, UsedSame
<1>3. UNCHANGED tasks => RevisionSame
  BY DEF RevisionSame
<1>4. (\E c \in Contents : WriteTask(t, c)) => RevisionMoves(t)
  BY <1>0, WriteMoves, StoreAssumption
<1>5. CASE TakesHold(t)
  <2>1. managed[t] = NoTeam /\ ~Held(t) /\ hold'[t].id = hold[t].fence + 1
    BY <1>5 DEF TakesHold, Claimable
  <2>2. AuthorityOf(t) = Authority!Open
    BY <1>0, <2>1, UnmanagedIsFree DEF ReadsAuthority
  <2>3. AuthorityOf(t)' = Authority!Hold(hold[t].fence + 1)
    BY <1>0, <2>1 DEF ReadsAuthority, Held, NoHold
  <2>4. AuthorityMoves(t, Authority!Hold(hold[t].fence + 1))
    BY <1>1, <2>3 DEF AuthorityMoves
  <2>5. RevisionSame
    BY <1>3, <1>5 DEF TakesHold
  <2>6. Authority!Claim(t)
    BY <1>2, <2>2, <2>4, <2>5, AbstractMoves DEF Authority!Claim
  <2> QED BY <2>6 DEF Authority!Next
<1>6. CASE Held(t) /\ hold'[t].id = hold[t].id
  <2>1. AuthoritySame /\ AuthorityOf(t).kind = "hold"
    BY <1>0, <1>1, <1>6 DEF AuthoritySame, ReadsAuthority, Authority!Hold
  <2>2. CASE PassesHold(t)
    <3>1. Authority!Pass(t)
      BY <1>2, <1>3, <2>1, <2>2, AbstractMoves DEF PassesHold, Authority!Pass
    <3> QED BY <3>1 DEF Authority!Next
  <2>3. CASE WorksHold(t)
    <3>1. Authority!Write(t)
      BY <1>2, <1>4, <2>1, <2>3, AbstractMoves DEF WorksHold, Authority!Write
    <3> QED BY <3>1 DEF Authority!Next
  <2>4. ~TakesHold(t) /\ ~FreesHold(t)
    BY <1>6 DEF TakesHold, FreesHold, FreeHold, Held
  <2> QED BY <2>2, <2>3, <2>4 DEF HoldStep
<1>7. CASE FreesHold(t)
  <2>1. Held(t) /\ ~Held(t)' /\ managed'[t] = NoTeam
    BY <1>0, <1>7 DEF FreesHold, FreeHold, Held, LiveHold
  <2>2. ReservedAttempts(t)' = {}
    BY <1>0, <2>1, UnmanagedIsFree
  <2>3. AuthorityOf(t)' = Authority!Open /\ AuthorityOf(t).kind = "hold"
    BY <1>0, <2>1, <2>2 DEF ReadsAuthority, Authority!Hold
  <2>4. AuthorityMoves(t, Authority!Open)
    BY <1>1, <2>3 DEF AuthorityMoves
  <2>5. RevisionMoves(t)
    BY <1>4, <1>7 DEF FreesHold
  <2>6. Authority!CloseHold(t)
    BY <1>2, <2>3, <2>4, <2>5, AbstractMoves DEF Authority!CloseHold
  <2> QED BY <2>6 DEF Authority!Next
<1> QED BY <1>5, <1>6, <1>7 DEF HoldStep, PassesHold, WorksHold

\* A write of a task without hold or attempt is its authority's, or gives it back.
LEMMA FreeRefines ==
    ASSUME SafeInv, OneAuthority, OneAuthority', NEW t \in Tasks, FreeStep(t)
    PROVE  Authority!Next
<1>0. /\ StoreTypeOK /\ ReadsAuthority(t) /\ ReadsAuthority(t)'
      /\ \A x \in Tasks : ReservedAttempts(x)' = ReservedAttempts(x)
      /\ UNCHANGED <<hold, attempts>> /\ ~Held(t) /\ ReservedAttempts(t) = {}
  BY DEF SafeInv, TypeInv, HubTypeOK, OneAuthority, ReservedAttempts, FreeStep, WritesOpen,
         WritesManaged, FreesManaged
<1>1. RevisionMoves(t) /\ FenceSame /\ UsedSame
  BY <1>0, WriteMoves
     DEF FreeStep, WritesOpen, WritesManaged, FreesManaged, WritesTask, FenceSame, UsedSame
<1>2. CASE UNCHANGED managed
  <2>1. AuthoritySame
    BY <1>0, <1>2, AuthorityKept DEF AuthoritySame
  <2>2. AuthorityOf(t).kind # "hold"
    BY <1>0 DEF ReadsAuthority, Authority!Team, Authority!Open
  <2>3. Authority!Write(t)
    BY <1>1, <2>1, <2>2, AbstractMoves DEF Authority!Write
  <2> QED BY <2>3 DEF Authority!Next
<1>3. CASE FreesManaged(t)
  <2>1. /\ managed[t] # NoTeam /\ managed'[t] = NoTeam
        /\ \A x \in Tasks \ {t} : managed'[x] = managed[x]
    BY <1>0, <1>3, StoreAssumption DEF FreesManaged, StoreTypeOK
  <2>2. AuthorityOf(t).kind = "team" /\ AuthorityOf(t)' = Authority!Open
    BY <1>0, <2>1 DEF ReadsAuthority, Authority!Team, Held
  <2>3. AuthorityMoves(t, Authority!Open)
    BY <1>0, <2>1, <2>2, AuthorityKept DEF AuthorityMoves
  <2>4. Authority!Unmanage(t)
    BY <1>1, <2>2, <2>3, AbstractMoves DEF Authority!Unmanage
  <2> QED BY <2>4 DEF Authority!Next
<1> QED BY <1>2, <1>3 DEF FreeStep, WritesOpen, WritesManaged

\* An attempt takes a task that is open or its own team's, works on it, and leaves it to its team.
LEMMA WorkRefines ==
    ASSUME SafeInv, OneAuthority, OneAuthority', NEW a \in Attempts, WorkStep(a)
    PROVE  Authority!Next
<1>0. /\ StoreTypeOK /\ Anchored /\ ExclusiveReservation /\ Agrees(a) /\ UNCHANGED hold
      /\ \A x \in Attempts \ {a} : attempts'[x] = attempts[x]
      /\ \A t \in Tasks : ReadsAuthority(t) /\ ReadsAuthority(t)'
  BY DEF SafeInv, TypeInv, HubTypeOK, OneAuthority, WorkStep
<1>1. FenceSame
  BY <1>0 DEF FenceSame
<1>2. ASSUME NEW t \in Tasks, OffersWork(a, t)
      PROVE  Authority!Next
  <2> DEFINE m == attempts'[a].team
             used == {x \in Attempts : attempts[x].state # "unused"}
  <2>1. /\ attempts[a].state = "unused" /\ attempts'[a].state = "OFFERED"
        /\ attempts'[a].task = t /\ m \in Teams
        /\ ~Held(t) /\ ReservedAttempts(t) = {} /\ managed[t] \in {NoTeam, m}
        /\ managed' = [managed EXCEPT ![t] = m] /\ UNCHANGED tasks
    BY <1>2 DEF OffersWork
  <2>2. ASSUME NEW x \in Tasks \ {t}
        PROVE  AuthorityOf(x)' = AuthorityOf(x)
    <3>1. ReservedAttempts(x)' = ReservedAttempts(x)
      BY <1>0, <2>1 DEF ReservedAttempts, ReservedStates
    <3>2. \A y \in ReservedAttempts(x) : attempts'[y].team = attempts[y].team
      BY <1>0, <2>1 DEF ReservedAttempts, ReservedStates
    <3>3. managed'[x] = managed[x] /\ hold'[x].id = hold[x].id
      BY <1>0, <2>1 DEF StoreTypeOK
    <3> QED BY <3>1, <3>2, <3>3, AuthorityKept
  <2>3. AuthorityOf(t) \in {Authority!Open, Authority!Team(m)}
    BY <1>0, <2>1 DEF ReadsAuthority
  <2>4. a \in ReservedAttempts(t)' /\ ~Held(t)'
    BY <1>0, <2>1 DEF ReservedAttempts, ReservedStates, Held
  <2>5. AuthorityOf(t)' = Authority!Attempt(a, m)
    BY <1>0, <2>4 DEF ReadsAuthority
  <2>6. AuthorityMoves(t, Authority!Attempt(a, m))
    BY <2>2, <2>5 DEF AuthorityMoves
  <2>7. RevisionSame
    BY <2>1 DEF RevisionSame
  <2>8. a \notin used /\ used' = used \cup {a}
    BY <1>0, <2>1
  <2>9. Authority!Offer(t, m, a)
    BY <1>1, <2>3, <2>6, <2>7, <2>8, AbstractMoves DEF Authority!Offer
  <2> QED BY <2>1, <2>9 DEF Authority!Next
<1>3. CASE MovesWork(a) \/ EndsWork(a)
  <2>0. attempts[a].state \in ReservedStates /\ UNCHANGED managed
    BY <1>3 DEF MovesWork, EndsWork
  <2> PICK t \in Tasks : t = attempts[a].task
    BY <1>0, <2>0 DEF Agrees
  <2>1. /\ attempts'[a].task = t /\ attempts'[a].team = attempts[a].team
        /\ managed[t] = attempts[a].team /\ attempts[a].team \in Teams
        /\ ~Held(t) /\ ~Held(t)'
    BY <1>0, <1>3, <2>0
       DEF MovesWork, EndsWork, SameAssignment, Agrees, RejectActiveReservation, Held, Anchored,
           ReservedStates
  <2>2. a \in ReservedAttempts(t)
    BY <2>0 DEF ReservedAttempts
  <2>3. AuthorityOf(t) = Authority!Attempt(a, attempts[a].team)
    BY <1>0, <2>1, <2>2 DEF ReadsAuthority
  <2>4. ASSUME NEW x \in Tasks, ReservedAttempts(x)' = ReservedAttempts(x)
        PROVE  AuthorityOf(x)' = AuthorityOf(x)
    <3>1. \A y \in ReservedAttempts(x) : attempts'[y].team = attempts[y].team
      BY <1>0, <2>1 DEF ReservedAttempts
    <3>2. hold'[x].id = hold[x].id /\ managed'[x] = managed[x]
      BY <1>0, <2>0
    <3> QED BY <2>4, <3>1, <3>2, AuthorityKept
  <2>5. ASSUME NEW x \in Tasks \ {t}
        PROVE  AuthorityOf(x)' = AuthorityOf(x)
    <3>1. ReservedAttempts(x)' = ReservedAttempts(x)
      BY <1>0, <2>1 DEF ReservedAttempts
    <3> QED BY <2>4, <3>1
  <2>6. UsedSame
    BY <1>0, <1>3, <2>0 DEF UsedSame, MovesWork, EndsWork, ReservedStates, ClosedStates
  <2>7. CASE MovesWork(a)
    <3>1. ReservedAttempts(t)' = ReservedAttempts(t)
      BY <1>0, <2>0, <2>1, <2>7 DEF ReservedAttempts, MovesWork
    <3>2. AuthoritySame
      BY <2>5, <2>4, <3>1 DEF AuthoritySame
    <3>3. RevisionMoves(t)
      BY <1>0, <2>7, WritesTaskMoves DEF MovesWork
    <3>4. Authority!Write(t)
      BY <1>1, <2>3, <2>6, <3>2, <3>3, AbstractMoves DEF Authority!Write, Authority!Attempt
    <3> QED BY <3>4 DEF Authority!Next
  <2>8. CASE EndsWork(a)
    <3>1. ReservedAttempts(t)' = {}
      BY <1>0, <2>1, <2>2, <2>8
         DEF ReservedAttempts, EndsWork, ExclusiveReservation, ReservedStates, ClosedStates
    <3>2. AuthorityOf(t)' = Authority!Team(attempts[a].team)
      BY <1>0, <2>0, <2>1, <3>1, StoreAssumption DEF ReadsAuthority
    <3>3. AuthorityMoves(t, Authority!Team(attempts[a].team))
      BY <2>5, <3>2 DEF AuthorityMoves
    <3>4. RevisionSame \/ RevisionMoves(t)
      BY <1>0, <2>8, WritesTaskMoves DEF EndsWork, RevisionSame
    <3>5. AuthorityOf(t).kind = "attempt" /\ AuthorityOf(t).team = attempts[a].team
      BY <2>3 DEF Authority!Attempt
    <3>6. Authority!EndAttempt(t)
      BY <1>1, <2>6, <3>3, <3>4, <3>5, AbstractMoves DEF Authority!EndAttempt
    <3> QED BY <3>6 DEF Authority!Next
  <2> QED BY <1>3, <2>7, <2>8
<1> QED BY <1>2, <1>3 DEF WorkStep

\* Everything else is invisible to the abstract specification.
LEMMA QuietRefines ==
    ASSUME OneAuthority, OneAuthority', QuietHub
    PROVE  UNCHANGED Authority!vars
<1>1. \A x \in Tasks : ReservedAttempts(x)' = ReservedAttempts(x)
  BY DEF QuietHub, SameAttempts, ReservedAttempts
<1>2. AuthoritySame
  BY <1>1, AuthorityKept DEF AuthoritySame, QuietHub, SameAttempts, ReservedAttempts
<1>3. RevisionSame /\ FenceSame /\ UsedSame
  BY DEF QuietHub, SameAttempts, RevisionSame, FenceSame, UsedSame
<1>4. /\ UNCHANGED [x \in Tasks |-> AuthorityOf(x)]
      /\ UNCHANGED [x \in Tasks |-> tasks[x].revision]
      /\ UNCHANGED [x \in Tasks |-> hold[x].fence]
      /\ UNCHANGED {a \in Attempts : attempts[a].state # "unused"}
  BY <1>2, <1>3 DEF AuthoritySame, RevisionSame, FenceSame, UsedSame
<1> QED BY <1>4 DEF Authority!vars

\* Nothing is held, reserved or managed at the start.
LEMMA InitRefines == HubInit => Authority!Init
<1> SUFFICES ASSUME HubInit
             PROVE  Authority!Init
  OBVIOUS
<1>1. \A t \in Tasks : AuthorityOf(t) = Authority!Open
  BY DEF HubInit, StoreInit, TeamInit, LedgerInit, AuthorityOf, Held, FreeHold, ReservedAttempts,
         ReservedStates, UnusedAttempt, Authority!Open
<1>2. /\ \A t \in Tasks : tasks[t].revision = 0 /\ hold[t].fence = 0
      /\ \A a \in Attempts : attempts[a].state = "unused"
  BY DEF HubInit, StoreInit, TeamInit, LedgerInit, FreeHold, UnusedAttempt
<1> QED BY <1>1, <1>2 DEF Authority!Init

(***************************************************************************)
(* The hub implements TaskAuthority: whatever commands of ordinary         *)
(* clients, of any number of teams and of the ledger interleave, a task    *)
(* has one authority at a time, it moves only along the edges of the       *)
(* abstract specification, and every write is a new revision.              *)
(***************************************************************************)
THEOREM HubImplementsTaskAuthority == HubSpec => ImplementsTaskAuthority
<1>1. ManagedInv /\ [HubNext]_hubVars => [Authority!Next]_(Authority!vars)
  <2> SUFFICES ASSUME ManagedInv, [HubNext]_hubVars
               PROVE  Authority!Next \/ UNCHANGED Authority!vars
    OBVIOUS
  <2>1. SafeInv /\ SafeInv'
    BY SafeInvStep DEF ManagedInv
  <2>2. OneAuthority /\ OneAuthority'
    BY <2>1, AuthorityRead, PTL
  <2>3. \/ QuietHub
        \/ \E t \in Tasks : FreeStep(t)
        \/ \E a \in Attempts : WorkStep(a)
        \/ UNCHANGED <<managed, attempts>> /\ \E t \in Tasks : HoldStep(t)
    BY HubSteps
  <2> QED BY <2>1, <2>2, <2>3, QuietRefines, FreeRefines, WorkRefines, HoldRefines
<1> QED BY ManagedInvInit, ManagedInvStep, InitRefines, <1>1, PTL
        DEF HubSpec, ImplementsTaskAuthority, Authority!Spec
===============================================================================
