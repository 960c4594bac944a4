-------------------------- MODULE ReservationLedger --------------------------
(***************************************************************************)
(* The task reservation ledger (internal/store/task_reservations.go, its   *)
(* coordination, recovery and per-service evidence files) behind the hub's *)
(* authorizer (internal/server/reservations.go), which is its only caller. *)
(*                                                                         *)
(* A hold binds one task to one verified caller, and every change of a     *)
(* hold, or of a task under one, advances the task's fence.  A command     *)
(* names reservation ID, fence and task revision and is refused unless all *)
(* are current, so an action states what an accepted command does.  The ID *)
(* of a hold, a new UUID in the code, is the fence of its claim.           *)
(*                                                                         *)
(* In team mode a transition rests on a fact that aicrew, the external     *)
(* coordinator, vouches for: the fact names the work of the hold it is     *)
(* about (an offer or an attempt), and for a step that starts work the     *)
(* process it runs under.  The fact is taken before the transaction; what  *)
(* can change meanwhile is compared inside it.  A caller's grant and       *)
(* credential are rechecked at commit and can only refuse: any member may  *)
(* stop acting at any time.                                                *)
(***************************************************************************)
EXTENDS TaskStore

CONSTANTS
    Members,        \* verified callers: [user, mode, service, profile, crew, role]
    NoMember,
    Services,       \* aicrew services
    OfferRefs, AttemptRefs,   \* aicrew's references to offers and to attempts
    NoRef,
    NoWorker,       \* no worker intended
    Processes, NoProcess,     \* the process selections of the project
    MaxFence        \* bound for exploration (2^63 - 1 in the code)

Refs == OfferRefs \cup AttemptRefs
Workers == {m.user : m \in Members}

ASSUME LedgerAssumption ==
    /\ \A m \in Members :
          /\ m.mode \in {"personal", "team"}
          /\ m.role \in {"none", "coordinator", "worker", "independent"}
          /\ m.mode = "team" <=> m.role # "none"
          /\ m.mode = "team" => m.service \in Services
    /\ NoMember \notin Members
    /\ OfferRefs \cap AttemptRefs = {}
    /\ NoRef \notin Refs
    /\ NoWorker \notin Workers
    /\ NoProcess \notin Processes
    /\ MaxFence \in Nat

VARIABLES
    selection,  \* the project's selected process
    services,   \* task_reservation_services: a service's last hold of a task
    stopped,    \* attempts aicrew vouches are stopped
    evidence    \* per task, the hold a recovery in progress has seen stopped: [id, ref]

ledgerVars == <<selection, services, stopped, evidence>>

HoldType ==
    [fence : 0..MaxFence, id : 0..MaxFence, ref : Refs \cup {NoRef},
     by : Members \cup {NoMember}, intended : Workers \cup {NoWorker}]

FreeHold(fence) ==
    [fence |-> fence, id |-> NoHold, ref |-> NoRef, by |-> NoMember, intended |-> NoWorker]

\* closing is the closing fence, 0 while the hold is open.
ServiceRow == [id : 0..MaxFence, closing : 0..MaxFence]
NoRow == [id |-> NoHold, closing |-> 0]

NoEvidence == [id |-> NoHold, ref |-> NoRef]

LedgerInit ==
    /\ hold = [t \in Tasks |-> FreeHold(0)]
    /\ selection = NoProcess
    /\ services = [t \in Tasks |-> [v \in Services |-> NoRow]]
    /\ stopped = {}
    /\ evidence = [t \in Tasks |-> NoEvidence]

Held(t) == hold[t].id # NoHold

-----------------------------------------------------------------------------
(* Who may act on a hold. *)

\* SameHolder: a resumed session, or a new credential, is the same holder.
SameHolder(b, m) ==
    /\ b # NoMember
    /\ b.user = m.user /\ b.mode = m.mode /\ b.profile = m.profile /\ b.role = m.role

SameTeam(b, m) ==
    /\ b # NoMember
    /\ b.mode = "team" /\ m.mode = "team"
    /\ b.service = m.service /\ b.crew = m.crew

\* checkProcessPin, for the pin of a fact that starts work.
CheckProcessPin(pin) == pin = selection

(***************************************************************************)
(* teamFactKinds and checkCoordinatedHolder: the member, on a fact that    *)
(* names ref, may release or finalize the hold of t.  A coordinator        *)
(* releases only an offer nobody accepted, and finalizes an attempt; a     *)
(* holder at work does either with its own attempt; a personal holder      *)
(* needs no fact.                                                          *)
(***************************************************************************)
NeverAccepted(t, m, ref) ==
    m.role = "coordinator" /\ ref \in OfferRefs /\ hold[t].ref = ref /\ SameTeam(hold[t].by, m)

ConfirmedByCoordinator(t, m, ref) ==
    m.role = "coordinator" /\ ref \in AttemptRefs /\ hold[t].ref = ref /\ SameTeam(hold[t].by, m)

OwnAttempt(t, m, ref) ==
    /\ m.role \in {"worker", "independent"} /\ ref \in AttemptRefs
    /\ hold[t].ref = ref /\ SameHolder(hold[t].by, m)

PersonalHolder(t, m, ref) ==
    m.mode = "personal" /\ ref = NoRef /\ SameHolder(hold[t].by, m)

-----------------------------------------------------------------------------
(* The ledger's own steps. *)

\* Mutant: the fence's limit is not checked.
Transition_Unbounded(t) == enabled /\ Exists(t)

\* A ledger transition needs tasks enabled, read in its own transaction.
Transition(t) == enabled /\ Exists(t) /\ hold[t].fence < MaxFence

\* Mutant: only a new or closed hold advances the fence.
AdvanceReservation_NewIDs(t, id, ref, by, intended) ==
    hold' = [hold EXCEPT ![t] =
                [fence |-> IF id = hold[t].id THEN hold[t].fence ELSE hold[t].fence + 1,
                 id |-> id, ref |-> ref, by |-> by, intended |-> intended]]

\* advanceReservation: the fence moves with every write of the row.
AdvanceReservation(t, id, ref, by, intended) ==
    hold' = [hold EXCEPT ![t] =
                [fence |-> hold[t].fence + 1, id |-> id, ref |-> ref, by |-> by,
                 intended |-> intended]]

\* Mutant: the row closes at the fence of the hold, not at the closing one.
TrackServiceReservation_HeldFence(t) ==
    LET before == hold[t]
        after == hold'[t]
    IN  services' = [services EXCEPT ![t] = [v \in Services |->
            CASE /\ after.id # NoHold /\ after.by.mode = "team" /\ after.by.service = v
                 /\ after.id # before.id
                    -> [id |-> after.id, closing |-> 0]
              [] /\ after.id = NoHold
                 /\ before.by.mode = "team" /\ before.by.service = v
                    -> [@[v] EXCEPT !.closing = before.fence]
              [] OTHER -> @[v]]]

\* trackServiceReservation: a hold bound to a service opens or closes its row.
TrackServiceReservation(t) ==
    LET before == hold[t]
        after == hold'[t]
    IN  services' = [services EXCEPT ![t] = [v \in Services |->
            CASE /\ after.id # NoHold /\ after.by.mode = "team" /\ after.by.service = v
                 /\ \/ after.id # before.id
                    \/ before.by.mode # "team" \/ before.by.service # v
                    -> [id |-> after.id, closing |-> 0]
              [] /\ after.id = NoHold
                 /\ before.by.mode = "team" /\ before.by.service = v /\ @[v].id = before.id
                    -> [@[v] EXCEPT !.closing = after.fence]
              [] OTHER -> @[v]]]

Reached(t) ==
    {x \in Tasks : \A S \in SUBSET Tasks :
        (tasks[t].deps \subseteq S /\ \A y \in S : tasks[y].deps \subseteq S) => x \in S}

\* validateDependencyGraph: everything reached exists and no cycle; direct dependencies are done.
DependenciesSettled(t) ==
    /\ \A x \in Reached(t) : Exists(x)
    /\ \A x \in Reached(t) \cup {t} : x \notin Reached(x)
    /\ \A d \in tasks[t].deps : tasks[d].state = "DONE"

-----------------------------------------------------------------------------
(* Claims: a personal hold, a coordinator's offer to a named worker, an    *)
(* independent member's attempt.                                           *)

\* Mutant: a claim does not look at the managing team.
Claimable_Managed(t) ==
    /\ ~Held(t) /\ ~tasks[t].archived
    /\ tasks[t].state = "READY"

Claimable(t) ==
    /\ managed[t] = NoTeam /\ ~Held(t) /\ ~tasks[t].archived
    /\ tasks[t].state = "READY"

ClaimTaskReservation(t, m, ref, intended) ==
    /\ Transition(t)
    /\ DependenciesSettled(t)
    /\ Claimable(t)
    /\ AdvanceReservation(t, hold[t].fence + 1, ref, m, intended)
    /\ TrackServiceReservation(t)
    /\ UNCHANGED <<tasks, managed, enabled, selection, stopped, evidence>>

ClaimPersonal(t, m) ==
    m.mode = "personal" /\ ClaimTaskReservation(t, m, NoRef, NoWorker)

ClaimOffer(t, m, ref, intended, pin) ==
    /\ m.role = "coordinator" /\ ref \in OfferRefs /\ intended \in Workers
    /\ CheckProcessPin(pin)
    /\ ClaimTaskReservation(t, m, ref, intended)

ClaimIndependent(t, m, ref, pin) ==
    /\ m.role = "independent" /\ ref \in AttemptRefs
    /\ CheckProcessPin(pin)
    /\ ClaimTaskReservation(t, m, ref, NoWorker)

\* Mutant: any worker of the crew takes the offer.
TransferReservation_AnyWorker(t, m, offer, attempt, pin) ==
    /\ Transition(t) /\ Held(t)
    /\ m.role = "worker" /\ offer \in OfferRefs /\ attempt \in AttemptRefs
    /\ hold[t].ref = offer
    /\ SameTeam(hold[t].by, m)
    /\ CheckProcessPin(pin)
    /\ AdvanceReservation(t, hold[t].id, attempt, m, NoWorker)
    /\ TrackServiceReservation(t)
    /\ UNCHANGED <<tasks, managed, enabled, selection, stopped, evidence>>

\* Mutant: the hold keeps naming the worker it was offered to.
TransferReservation_KeepsIntended(t, m, offer, attempt, pin) ==
    /\ Transition(t) /\ Held(t)
    /\ m.role = "worker" /\ offer \in OfferRefs /\ attempt \in AttemptRefs
    /\ hold[t].ref = offer
    /\ SameTeam(hold[t].by, m)
    /\ hold[t].intended = m.user
    /\ CheckProcessPin(pin)
    /\ AdvanceReservation(t, hold[t].id, attempt, m, hold[t].intended)
    /\ TrackServiceReservation(t)
    /\ UNCHANGED <<tasks, managed, enabled, selection, stopped, evidence>>

\* The worker an offer named takes the hold over; ID and task stay.
TransferReservation(t, m, offer, attempt, pin) ==
    /\ Transition(t) /\ Held(t)
    /\ m.role = "worker" /\ offer \in OfferRefs /\ attempt \in AttemptRefs
    /\ hold[t].ref = offer
    /\ SameTeam(hold[t].by, m)
    /\ hold[t].intended = m.user
    /\ CheckProcessPin(pin)
    /\ AdvanceReservation(t, hold[t].id, attempt, m, NoWorker)
    /\ TrackServiceReservation(t)
    /\ UNCHANGED <<tasks, managed, enabled, selection, stopped, evidence>>

\* Mutant: an update may close the task.
UpdateReserved_Terminal(t, m, c) ==
    /\ Transition(t) /\ Held(t)
    /\ m.role # "coordinator" /\ SameHolder(hold[t].by, m)
    /\ ValidContent(c)
    /\ WriteTask(t, c)
    /\ AdvanceReservation(t, hold[t].id, hold[t].ref, hold[t].by, hold[t].intended)
    /\ TrackServiceReservation(t)
    /\ UNCHANGED <<managed, enabled, selection, stopped, evidence>>

\* Only the ledger writes a held task (saveReservedTask).
UpdateReserved(t, m, c) ==
    /\ Transition(t) /\ Held(t)
    /\ m.role # "coordinator" /\ SameHolder(hold[t].by, m)
    /\ ValidContent(c) /\ c.state \notin TerminalStates
    /\ WriteTask(t, c)
    /\ AdvanceReservation(t, hold[t].id, hold[t].ref, hold[t].by, hold[t].intended)
    /\ TrackServiceReservation(t)
    /\ UNCHANGED <<managed, enabled, selection, stopped, evidence>>

CloseReservation(t, c) ==
    /\ Transition(t) /\ Held(t)
    /\ ValidContent(c)
    /\ WriteTask(t, c)
    /\ AdvanceReservation(t, NoHold, NoRef, NoMember, NoWorker)
    /\ TrackServiceReservation(t)
    /\ UNCHANGED <<managed, enabled, selection, stopped>>

ReleaseReservation(t, m, c, ref) ==
    /\ c.state \in {"READY", "BLOCKED"}
    /\ \/ PersonalHolder(t, m, ref)
       \/ NeverAccepted(t, m, ref)
       \/ OwnAttempt(t, m, ref) /\ ref \in stopped
    /\ CloseReservation(t, c)
    /\ UNCHANGED evidence

FinalizeReservation(t, m, c, ref) ==
    /\ c.state \in TerminalStates
    /\ \/ PersonalHolder(t, m, ref)
       \/ ConfirmedByCoordinator(t, m, ref)
       \/ OwnAttempt(t, m, ref)
    /\ CloseReservation(t, c)
    /\ UNCHANGED evidence

-----------------------------------------------------------------------------
(* Recovery by an admin, on an attestation or on a stop aicrew vouches for. *)
(* The stop is verified before the transaction, against the hold as read    *)
(* then; the transaction compares ID and work with the hold it finds.  The  *)
(* request names its ID beforehand, so it is the one read then or stale.    *)

VerifyStopEvidence(t) ==
    /\ evidence[t] = NoEvidence
    /\ Held(t) /\ hold[t].by.mode = "team" /\ hold[t].ref \in stopped
    /\ evidence' = [evidence EXCEPT ![t] = [id |-> hold[t].id, ref |-> hold[t].ref]]
    /\ UNCHANGED <<storeVars, selection, services, stopped>>

\* The answer is good for five seconds; a request that has it may also just end.
EvidenceExpires(t) ==
    /\ evidence[t] # NoEvidence
    /\ evidence' = [evidence EXCEPT ![t] = NoEvidence]
    /\ UNCHANGED <<storeVars, selection, services, stopped>>

RecoverableContent(c) == c.state \in {"READY", "BLOCKED", "CANCELLED"}

RecoverByAttestation(t, c) ==
    RecoverableContent(c) /\ CloseReservation(t, c) /\ UNCHANGED evidence

\* Mutant: the transaction trusts the verification and closes the hold it finds.
RecoverByStop_NoRecheck(t, c) ==
    /\ RecoverableContent(c)
    /\ evidence[t] # NoEvidence
    /\ CloseReservation(t, c)
    /\ evidence' = [evidence EXCEPT ![t] = NoEvidence]

RecoverByStop(t, c) ==
    /\ RecoverableContent(c)
    /\ evidence[t] # NoEvidence
    /\ hold[t].id = evidence[t].id /\ hold[t].ref = evidence[t].ref
    /\ CloseReservation(t, c)
    /\ evidence' = [evidence EXCEPT ![t] = NoEvidence]

\* putProcessRef: an admin selects a process, or clears the selection.
SelectProcess(p) ==
    /\ selection # p
    /\ selection' = p
    /\ UNCHANGED <<storeVars, services, stopped, evidence>>

\* aicrew records that an attempt has stopped.
AttemptStops(ref) ==
    /\ ref \notin stopped
    /\ stopped' = stopped \cup {ref}
    /\ UNCHANGED <<storeVars, selection, services, evidence>>

-----------------------------------------------------------------------------
HoldNext ==
    \/ \E t \in Tasks, m \in Members : ClaimPersonal(t, m)
    \/ \E t \in Tasks, m \in Members, ref \in OfferRefs, w \in Workers, pin \in Processes :
          ClaimOffer(t, m, ref, w, pin)
    \/ \E t \in Tasks, m \in Members, ref \in AttemptRefs, pin \in Processes :
          ClaimIndependent(t, m, ref, pin)
    \/ \E t \in Tasks, m \in Members, o \in OfferRefs, a \in AttemptRefs, pin \in Processes :
          TransferReservation(t, m, o, a, pin)
    \/ \E t \in Tasks, m \in Members, c \in Contents : UpdateReserved(t, m, c)
    \/ \E t \in Tasks, m \in Members, c \in Contents, ref \in Refs \cup {NoRef} :
          ReleaseReservation(t, m, c, ref) \/ FinalizeReservation(t, m, c, ref)

RecoveryNext ==
    \/ \E t \in Tasks : VerifyStopEvidence(t) \/ EvidenceExpires(t)
    \/ \E t \in Tasks, c \in Contents : RecoverByAttestation(t, c) \/ RecoverByStop(t, c)
    \/ \E ref \in AttemptRefs : AttemptStops(ref)
    \/ \E p \in Processes \cup {NoProcess} : SelectProcess(p)

LedgerNext == HoldNext \/ RecoveryNext

LedgerTypeOK ==
    /\ hold \in [Tasks -> HoldType]
    /\ selection \in Processes \cup {NoProcess}
    /\ services \in [Tasks -> [Services -> ServiceRow]]
    /\ stopped \subseteq AttemptRefs
    /\ evidence \in [Tasks -> [id : 0..MaxFence, ref : AttemptRefs \cup {NoRef}]]

-----------------------------------------------------------------------------
(***************************************************************************)
(* A held task is live and the ledger's alone: no path closes the task, or *)
(* gives it to a managing team, and leaves the hold behind.                *)
(***************************************************************************)
HeldTaskIsLive ==
    \A t \in Tasks :
        Held(t) => /\ Exists(t) /\ managed[t] = NoTeam
                   /\ tasks[t].state \notin TerminalStates /\ ~tasks[t].archived

(***************************************************************************)
(* What a hold says of itself agrees: a hold that names an intended worker *)
(* is a coordinator's and refers to an offer, one without is at work and   *)
(* refers to an attempt, or is personal.  So the fact that an offer was    *)
(* never accepted can never release work that a worker took over.          *)
(***************************************************************************)
HoldStage ==
    \A t \in Tasks :
        IF Held(t)
        THEN LET h == hold[t] IN
             \/ /\ h.by.role = "coordinator" /\ h.ref \in OfferRefs
                /\ h.intended \in Workers
             \/ /\ h.by.role \in {"worker", "independent"} /\ h.ref \in AttemptRefs
                /\ h.intended = NoWorker
             \/ h.by.mode = "personal" /\ h.ref = NoRef /\ h.intended = NoWorker
        ELSE hold[t] = FreeHold(hold[t].fence)

(***************************************************************************)
(* ServiceHoldStatus tells a service about a task from the hold and its    *)
(* own row: a service that ever held the task reads "held" exactly while   *)
(* it does, and otherwise the ID and fence that closed its last hold,      *)
(* whoever holds the task now; a transfer neither closes nor renames it.   *)
(***************************************************************************)
ServiceEvidence ==
    \A t \in Tasks, v \in Services :
        LET row == services[t][v]
            holds == Held(t) /\ hold[t].by.mode = "team" /\ hold[t].by.service = v
        IN  /\ holds => row = [id |-> hold[t].id, closing |-> 0]
            /\ ~holds /\ row # NoRow => row.id < row.closing /\ row.closing <= hold[t].fence

(***************************************************************************)
(* The fence tells every state of a hold, and of the task under it, apart: *)
(* any change advances it by one, so a command decided on an earlier state *)
(* is refused.                                                             *)
(***************************************************************************)
FenceMarksChange ==
    [][\A t \in Tasks :
          /\ hold'[t] # hold[t] => hold'[t].fence = hold[t].fence + 1
          /\ Held(t) /\ tasks'[t] # tasks[t] => hold'[t].fence = hold[t].fence + 1
          ]_<<storeVars, ledgerVars>>

(***************************************************************************)
(* A hold changes hands at most once, from the offering coordinator to the *)
(* worker it named, in the same service and crew; nobody else ever takes   *)
(* over somebody's hold.                                                   *)
(***************************************************************************)
HoldChangesHandsOnce ==
    [][\A t \in Tasks :
          /\ Held(t) /\ hold'[t].id = hold[t].id /\ hold'[t].by # hold[t].by
          => /\ hold[t].by.role = "coordinator" /\ hold'[t].by.role = "worker"
             /\ hold[t].intended = hold'[t].by.user
             /\ SameTeam(hold[t].by, hold'[t].by)
             /\ hold'[t].intended = NoWorker]_<<storeVars, ledgerVars>>

(***************************************************************************)
(* A recovery that consumes a verified stop closes work that aicrew says   *)
(* has stopped, however the hold moved between the verification and the    *)
(* transaction.                                                            *)
(***************************************************************************)
StopEvidenceClosesStoppedWork ==
    [][\A t \in Tasks :
          evidence[t] # NoEvidence /\ evidence'[t] = NoEvidence /\ Held(t) /\ hold'[t].id = NoHold
          => hold[t].ref \in stopped]_<<storeVars, ledgerVars>>
=============================================================================
