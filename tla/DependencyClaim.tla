--------------------------- MODULE DependencyClaim ---------------------------
(***************************************************************************)
(* Claims of the reservation ledger over tasks whose dependencies lie in   *)
(* other projects of the hub                                               *)
(* (internal/store/task_reservation_dependencies.go), and the locks they   *)
(* share with ordinary writers, other transitions of the ledger            *)
(* (ApplyTaskReservation) and project lifecycle operations (store.go):     *)
(*                                                                         *)
(*   life   Registry.teamMu: many readers or one writer; a waiting writer  *)
(*          keeps new readers out (a claim polls with TryRLock);           *)
(*   mu     Registry.mu, the cache of open projects;                       *)
(*   conn   a project's one registry connection;                           *)
(*   file   SQLite's write lock on a project's journal; a claim takes it   *)
(*          through a connection of its own.                               *)
(*                                                                         *)
(* A claim walks the dependency graph without locks, locks every project   *)
(* it met in the order of their names, validates the graph again, and      *)
(* commits in the owner's project only.                                    *)
(***************************************************************************)
EXTENDS Naturals, FiniteSets

CONSTANTS
    GraphTasks, Projects,
    Home,               \* the project of a task (the task locator)
    FirstDeps,          \* a task's dependencies at the start
    Edits,              \* contents an ordinary writer may give a task
    Claims,             \* claim requests, each with its retry key
    ClaimTask,          \* the task a claim request names
    Writers, Movers,    \* ordinary writers; transitions of held tasks
    Drop,               \* the process of Drop, Rename or Merge
    Names,              \* project names, as numbers: their order is the lock order
    NoOne, NoHolder,
    MaxGraphRevision    \* bound: revisions explored per task

ASSUME GraphAssumption ==
    /\ Home \in [GraphTasks -> Projects]
    /\ ClaimTask \in [Claims -> GraphTasks]
    /\ FirstDeps \in [GraphTasks -> SUBSET GraphTasks]
    /\ \A e \in Edits : e.deps \subseteq GraphTasks

\* The processes are told apart; there are finitely many names, so one is the last.
ASSUME ProcessAssumption ==
    /\ NoOne \notin Claims \cup Writers \cup Movers \cup {Drop}
    /\ NoHolder \notin Claims
    /\ Drop \notin Claims \cup Writers \cup Movers
    /\ Claims \cap (Writers \cup Movers) = {} /\ Writers \cap Movers = {}
    /\ Names \subseteq Nat
    /\ \E last \in Names : \A n \in Names : n <= last

VARIABLES
    graph,      \* per task: state, deps, rev
    on,         \* projects whose tasks are enabled
    name,       \* a project's name
    holder,     \* per task: the claim that holds it and its dependency evidence
    life, mu, conn, file,
    claim,      \* per claim request: phase, the nodes walked, the tasks still to walk
    other,      \* per writer, mover and Drop: phase and the project it works on
    granted     \* claims whose receipt is stored

locks == <<life, mu, conn, file>>
claimVars == <<graph, on, name, holder, locks, claim, other, granted>>

OtherProcesses == Writers \cup Movers \cup {Drop}
NoNodes == [t \in {} |-> 0]
Idle == [phase |-> "idle", nodes |-> NoNodes, pending |-> {}]
Resting == [phase |-> "idle", at |-> NoOne]

ClaimInit ==
    /\ graph = [t \in GraphTasks |-> [state |-> "READY", deps |-> FirstDeps[t], rev |-> 1]]
    /\ on = Projects
    /\ name \in {f \in [Projects -> Names] : \A p, q \in Projects : f[p] = f[q] => p = q}
    /\ holder = [t \in GraphTasks |-> [by |-> NoHolder, proof |-> NoNodes]]
    /\ life = [readers |-> {}, waiting |-> FALSE, held |-> FALSE]
    /\ mu = NoOne
    /\ conn = [p \in Projects |-> NoOne]
    /\ file = [p \in Projects |-> NoOne]
    /\ claim = [c \in Claims |-> Idle]
    /\ other = [o \in OtherProcesses |-> Resting]
    /\ granted = {}

(***************************************************************************)
(* The lifecycle lock.                                                     *)
(***************************************************************************)
MayRead == ~life.waiting /\ ~life.held

ReadLock(x) == MayRead /\ life' = [life EXCEPT !.readers = @ \cup {x}]

ReadUnlock(x) == life' = [life EXCEPT !.readers = @ \ {x}]

Is(c, phase) == claim[c].phase = phase
SetPhase(c, phase) == claim' = [claim EXCEPT ![c].phase = phase]

(***************************************************************************)
(* ClaimTaskReservation.  A receipt answers the retry before eligibility   *)
(* is looked at; tasks that are off refuse the claim before the walk.      *)
(***************************************************************************)
BeginClaim(c) ==
    /\ Is(c, "idle")
    /\ c \notin granted
    /\ Home[ClaimTask[c]] \in on
    /\ conn[Home[ClaimTask[c]]] = NoOne
    /\ ReadLock(c)
    /\ claim' = [claim EXCEPT ![c].phase = "walking", ![c].pending = {ClaimTask[c]}]
    /\ UNCHANGED <<graph, on, name, holder, mu, conn, file, other, granted>>

\* locateDependencyGraph, one task at a time, through the registry's connections.
WalkNode(c, t) ==
    /\ Is(c, "walking")
    /\ t \in claim[c].pending
    /\ conn[Home[t]] = NoOne
    /\ LET walked == DOMAIN claim[c].nodes \cup {t} IN
       claim' = [claim EXCEPT
          ![c].nodes = [n \in walked |-> IF n = t THEN [rev |-> graph[t].rev, deps |-> graph[t].deps]
                                         ELSE claim[c].nodes[n]],
          ![c].pending = (claim[c].pending \cup graph[t].deps) \ walked]
    /\ UNCHANGED <<graph, on, name, holder, locks, other, granted>>

Walked(c) == claim[c].nodes

\* Mutant: only the project that is written is locked.
GraphProjects_OwnerOnly(c) == {Home[ClaimTask[c]]}

GraphProjects(c) == {Home[t] : t \in DOMAIN Walked(c)}

Locked(c) == {p \in Projects : file[p] = c}

\* Mutant: the projects are locked in the order the walk met them.
NextProject_AnyOrder(c, p) == p \in GraphProjects(c) \ Locked(c)

NextProject(c, p) ==
    /\ p \in GraphProjects(c) \ Locked(c)
    /\ \A q \in GraphProjects(c) \ Locked(c) : name[p] <= name[q]

\* beginClaimTx: poll for the write lock until the budget is used up.
LockProject(c, p) ==
    /\ Is(c, "walking") /\ claim[c].pending = {}
    /\ NextProject(c, p)
    /\ file[p] = NoOne
    /\ file' = [file EXCEPT ![p] = c]
    /\ UNCHANGED <<graph, on, name, holder, life, mu, conn, claim, other, granted>>

\* The walk with colors finds no way back: no set of tasks in which each needs another.
Acyclic(nodes) ==
    ~ \E ring \in (SUBSET DOMAIN nodes) \ {{}} :
         \A t \in ring : nodes[t].deps \cap ring # {}

Unchanged(c) ==
    \A t \in DOMAIN Walked(c) :
       graph[t].rev = Walked(c)[t].rev /\ graph[t].deps = Walked(c)[t].deps

\* validateDependencyGraph and the owner's own conditions, under the locks.
ValidateClaim(c) ==
    /\ Is(c, "walking") /\ claim[c].pending = {}
    /\ GraphProjects(c) \subseteq Locked(c)
    /\ \A t \in DOMAIN Walked(c) : Home[t] \in on
    /\ Unchanged(c)
    /\ Acyclic(Walked(c))
    /\ LET t == ClaimTask[c] IN
       /\ \A d \in Walked(c)[t].deps : graph[d].state = "DONE"
       /\ graph[t].state = "READY"
       /\ holder[t].by = NoHolder
    /\ SetPhase(c, "validated")
    /\ UNCHANGED <<graph, on, name, holder, locks, other, granted>>

\* authorize passes through Registry.mu once for each project; then the owner commits.
CommitClaim(c) ==
    /\ Is(c, "validated")
    /\ mu = NoOne
    /\ LET t == ClaimTask[c] IN
       holder' = [holder EXCEPT ![t] =
           [by |-> c, proof |-> [d \in Walked(c)[t].deps |-> Walked(c)[d].rev]]]
    /\ granted' = granted \cup {c}
    /\ SetPhase(c, "committed")
    /\ file' = [file EXCEPT ![Home[ClaimTask[c]]] = NoOne]
    /\ UNCHANGED <<graph, on, name, life, mu, conn, other>>

\* Refused, out of budget, or done: roll the other projects back in reverse order.
EndClaim(c) ==
    /\ ~Is(c, "idle")
    /\ \/ /\ Locked(c) # {}
          /\ \E p \in Locked(c) :
                /\ \A q \in Locked(c) : name[q] <= name[p]
                /\ file' = [file EXCEPT ![p] = NoOne]
          /\ SetPhase(c, "ending")
          /\ UNCHANGED life
       \/ /\ Locked(c) = {}
          /\ claim' = [claim EXCEPT ![c] = Idle]
          /\ ReadUnlock(c)
          /\ UNCHANGED file
    /\ UNCHANGED <<graph, on, name, holder, mu, conn, other, granted>>

(***************************************************************************)
(* Ordinary writers take the project's connection and wait on it for the   *)
(* file; transitions of held tasks do the same under the lifecycle lock    *)
(* and pass through Registry.mu before they commit.                        *)
(***************************************************************************)
Doing(o, phase) == other[o].phase = phase
SetOther(o, phase, p) == other' = [other EXCEPT ![o] = [phase |-> phase, at |-> p]]

TakeConnection(w, p) ==
    /\ w \in Writers /\ Doing(w, "idle")
    /\ mu = NoOne
    /\ conn[p] = NoOne
    /\ conn' = [conn EXCEPT ![p] = w]
    /\ SetOther(w, "writing", p)
    /\ UNCHANGED <<graph, on, name, holder, life, mu, file, claim, granted>>

Edited(t, e) == [graph EXCEPT ![t] = [state |-> e.state, deps |-> e.deps, rev |-> @.rev + 1]]

Release(o) ==
    /\ conn' = [conn EXCEPT ![other[o].at] = NoOne]
    /\ SetOther(o, "idle", NoOne)

\* A task that is held is left alone (rejectActiveReservation); the switch is a
\* write of the same journal.
OrdinaryWrite(w) ==
    /\ w \in Writers /\ Doing(w, "writing")
    /\ file[other[w].at] = NoOne
    /\ \/ \E t \in GraphTasks, e \in Edits :
             /\ Home[t] = other[w].at
             /\ holder[t].by = NoHolder
             /\ graph[t].rev < MaxGraphRevision
             /\ graph' = Edited(t, e)
             /\ UNCHANGED on
       \/ /\ on' = on \ {other[w].at}
          /\ UNCHANGED graph
    /\ Release(w)
    /\ UNCHANGED <<name, holder, life, mu, file, claim, granted>>

BeginTransition(m, p) ==
    /\ m \in Movers /\ Doing(m, "idle")
    /\ \E t \in GraphTasks : Home[t] = p /\ holder[t].by # NoHolder
    /\ ReadLock(m)
    /\ SetOther(m, "moving", p)
    /\ UNCHANGED <<graph, on, name, holder, mu, conn, file, claim, granted>>

TakeForTransition(m) ==
    /\ m \in Movers /\ Doing(m, "moving")
    /\ conn[other[m].at] = NoOne /\ file[other[m].at] = NoOne
    /\ conn' = [conn EXCEPT ![other[m].at] = m]
    /\ file' = [file EXCEPT ![other[m].at] = m]
    /\ SetOther(m, "authorizing", other[m].at)
    /\ UNCHANGED <<graph, on, name, holder, life, mu, claim, granted>>

\* update keeps the hold, release ends it; both write the task.
CommitTransition(m) ==
    /\ m \in Movers /\ Doing(m, "authorizing")
    /\ mu = NoOne
    /\ \E t \in GraphTasks, e \in Edits :
          /\ Home[t] = other[m].at
          /\ holder[t].by # NoHolder
          /\ graph[t].rev < MaxGraphRevision
          /\ graph' = Edited(t, e)
          /\ \/ UNCHANGED holder
             \/ holder' = [holder EXCEPT ![t] = [by |-> NoHolder, proof |-> NoNodes]]
    /\ file' = [file EXCEPT ![other[m].at] = NoOne]
    /\ Release(m)
    /\ ReadUnlock(m)
    /\ UNCHANGED <<on, name, mu, claim, granted>>

AbandonTransition(m) ==
    /\ m \in Movers /\ (Doing(m, "moving") \/ Doing(m, "authorizing"))
    /\ file' = [p \in Projects |-> IF file[p] = m THEN NoOne ELSE file[p]]
    /\ conn' = [p \in Projects |-> IF conn[p] = m THEN NoOne ELSE conn[p]]
    /\ SetOther(m, "idle", NoOne)
    /\ ReadUnlock(m)
    /\ UNCHANGED <<graph, on, name, holder, mu, claim, granted>>

(***************************************************************************)
(* Drop, Rename and Merge: the lifecycle lock, Registry.mu, and then the   *)
(* project's connection.  A project with tasks is never removed; a rename  *)
(* gives it another place in the lock order.                               *)
(***************************************************************************)
LifecycleWaits(p) ==
    /\ Doing(Drop, "idle") /\ ~life.waiting
    /\ life' = [life EXCEPT !.waiting = TRUE]
    /\ SetOther(Drop, "waiting", p)
    /\ UNCHANGED <<graph, on, name, holder, mu, conn, file, claim, granted>>

LifecycleLocks ==
    /\ Doing(Drop, "waiting")
    /\ life.readers = {} /\ mu = NoOne
    /\ life' = [readers |-> {}, waiting |-> FALSE, held |-> TRUE]
    /\ mu' = Drop
    /\ SetOther(Drop, "locked", other[Drop].at)
    /\ UNCHANGED <<graph, on, name, holder, conn, file, claim, granted>>

\* HasTasks waits for the connection and refuses the drop; a rename exchanges names.
LifecycleEnds ==
    /\ Doing(Drop, "locked")
    /\ conn[other[Drop].at] = NoOne
    /\ \/ UNCHANGED name
       \/ \E p \in Projects \ {other[Drop].at} :
             name' = [name EXCEPT ![p] = name[other[Drop].at], ![other[Drop].at] = name[p]]
    /\ mu' = NoOne
    /\ life' = [life EXCEPT !.held = FALSE]
    /\ SetOther(Drop, "idle", NoOne)
    /\ UNCHANGED <<graph, on, holder, conn, file, claim, granted>>

ClaimNext ==
    \/ \E c \in Claims :
          \/ BeginClaim(c) \/ ValidateClaim(c) \/ CommitClaim(c) \/ EndClaim(c)
          \/ \E t \in GraphTasks : WalkNode(c, t)
          \/ \E p \in Projects : LockProject(c, p)
    \/ \E w \in Writers : OrdinaryWrite(w) \/ \E p \in Projects : TakeConnection(w, p)
    \/ \E m \in Movers :
          \/ TakeForTransition(m) \/ CommitTransition(m) \/ AbandonTransition(m)
          \/ \E p \in Projects : BeginTransition(m, p)
    \/ LifecycleLocks \/ LifecycleEnds \/ \E p \in Projects : LifecycleWaits(p)

ClaimSpec == ClaimInit /\ [][ClaimNext]_claimVars
-----------------------------------------------------------------------------
(***************************************************************************)
(* Nobody waits in a circle: every process that waits for a lock waits,    *)
(* directly or through others, for one that can go on.  The timeouts of    *)
(* the code (a claim's budget, SQLite's busy timeout) bound the wait, they *)
(* are not what ends it; the wait for a connection has no timeout at all.  *)
(***************************************************************************)
WaitsForClaim(c, x) ==
    \/ Is(c, "walking") /\ \E t \in claim[c].pending : conn[Home[t]] = x
    \/ Is(c, "walking") /\ claim[c].pending = {} /\ \E p \in Projects : NextProject(c, p) /\ file[p] = x
    \/ Is(c, "validated") /\ mu = x

WaitsForOther(o, x) ==
    \/ o \in Writers /\ Doing(o, "writing") /\ file[other[o].at] = x
    \/ o \in Movers /\ Doing(o, "moving") /\ x \in {conn[other[o].at], file[other[o].at]}
    \/ o \in Movers /\ Doing(o, "authorizing") /\ mu = x
    \/ o = Drop /\ Doing(o, "waiting") /\ (x \in life.readers \/ mu = x)
    \/ o = Drop /\ Doing(o, "locked") /\ conn[other[o].at] = x

WaitsFor(x, y) == x # y /\ IF x \in Claims THEN WaitsForClaim(x, y) ELSE WaitsForOther(x, y)

NoWaitCycle ==
    LET waited == [x \in Claims \cup OtherProcesses |-> {y \in Claims \cup OtherProcesses : WaitsFor(x, y)}]
        waiters == {x \in DOMAIN waited : waited[x] # {}}
    IN  ~ \E ring \in (SUBSET waiters) \ {{}} : \A x \in ring : waited[x] \cap ring # {}

(***************************************************************************)
(* A claim that commits rests on facts that hold when it commits: the task *)
(* is READY and free, its dependencies are DONE at the revisions the claim *)
(* records, no project of the graph is switched off, and the graph has no  *)
(* cycle.  Validation happened in an earlier step.                         *)
(***************************************************************************)
ClaimSeesCurrentGraph ==
    [][\A t \in GraphTasks :
          holder[t].by = NoHolder /\ holder'[t].by # NoHolder =>
             LET c == holder'[t].by IN
             /\ graph[t].state = "READY"
             /\ DOMAIN holder'[t].proof = graph[t].deps
             /\ \A d \in graph[t].deps :
                   graph[d].state = "DONE" /\ graph[d].rev = holder'[t].proof[d]
             /\ \A d \in DOMAIN Walked(c) : Home[d] \in on
             /\ Acyclic([d \in DOMAIN Walked(c) |-> graph[d]])]_claimVars
=============================================================================
