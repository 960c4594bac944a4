------------------------ MODULE DependencyClaim_proofs ------------------------
(***************************************************************************)
(* Theorems about claims over the dependency graph: a claim that commits   *)
(* rests on facts that hold when it commits, and nobody waits in a circle. *)
(*                                                                         *)
(* Both rest on one invariant that says who holds which lock, in which     *)
(* phase, and what a claim knows in each phase.                            *)
(***************************************************************************)
EXTENDS DependencyClaim, NumberSets, TLAPS

-----------------------------------------------------------------------------
(* Types. *)

Nodes == [rev : Nat, deps : SUBSET GraphTasks]
Walks == UNION {[walked -> Nodes] : walked \in SUBSET GraphTasks}
Proofs == UNION {[deps -> Nat] : deps \in SUBSET GraphTasks}
GraphStates == {"READY"} \cup {e.state : e \in Edits}
GraphRecords == [state : GraphStates, deps : SUBSET GraphTasks, rev : Nat]
ClaimRecords == [phase : {"idle", "walking", "validated", "committed", "ending"},
                 nodes : Walks, pending : SUBSET GraphTasks]
OtherRecords == [phase : {"idle", "writing", "moving", "authorizing", "waiting", "locked"},
                 at : Projects \cup {NoOne}]

ClaimTypeOK ==
    /\ graph \in [GraphTasks -> GraphRecords]
    /\ on \subseteq Projects
    /\ name \in [Projects -> Names]
    /\ \A p, q \in Projects : name[p] = name[q] => p = q
    /\ holder \in [GraphTasks -> [by : Claims \cup {NoHolder}, proof : Proofs]]
    /\ life \in [readers : SUBSET (Claims \cup Movers), waiting : BOOLEAN, held : BOOLEAN]
    /\ mu \in {NoOne, Drop}
    /\ conn \in [Projects -> {NoOne} \cup Writers \cup Movers]
    /\ file \in [Projects -> {NoOne} \cup Claims \cup Movers]
    /\ claim \in [Claims -> ClaimRecords]
    /\ other \in [OtherProcesses -> OtherRecords]

-----------------------------------------------------------------------------
(* Who holds a lock, and in which phase. *)

\* Registry.mu and the lifecycle lock are held together, by nobody else's leave.
LifecycleHeld ==
    /\ mu = Drop <=> life.held
    /\ life.held <=> Doing(Drop, "locked")
    /\ life.held => life.readers = {}

ClaimsRead == \A c \in Claims : c \in life.readers <=> ~Is(c, "idle")
MoversRead == \A m \in Movers : m \in life.readers <=> ~Doing(m, "idle")

Phases ==
    /\ \A w \in Writers : Doing(w, "idle") \/ Doing(w, "writing")
    /\ \A m \in Movers : Doing(m, "idle") \/ Doing(m, "moving") \/ Doing(m, "authorizing")
    /\ Doing(Drop, "idle") \/ Doing(Drop, "waiting") \/ Doing(Drop, "locked")
    /\ \A o \in OtherProcesses : ~Doing(o, "idle") => other[o].at \in Projects

\* A claim that locks projects has walked the graph to its end.
Locks(c) == ~Is(c, "idle") /\ (Is(c, "walking") => claim[c].pending = {})

ClaimsLock == \A p \in Projects, c \in Claims : file[p] = c => Locks(c)

MoversLock ==
    /\ \A p \in Projects, m \in Movers :
          file[p] = m => Doing(m, "authorizing") /\ other[m].at = p
    /\ \A m \in Movers : Doing(m, "authorizing") => file[other[m].at] = m

ConnHolders ==
    /\ \A p \in Projects, w \in Writers :
          conn[p] = w => Doing(w, "writing") /\ other[w].at = p
    /\ \A p \in Projects, m \in Movers :
          conn[p] = m => Doing(m, "authorizing") /\ other[m].at = p

\* A walking claim holds the first of its projects, in the order of their names.
LocksInOrder ==
    \A c \in Claims : Is(c, "walking") =>
       \A p \in Locked(c), q \in GraphProjects(c) \ Locked(c) : name[p] < name[q]

LockInv ==
    /\ LifecycleHeld /\ Phases /\ ClaimsRead /\ MoversRead
    /\ ClaimsLock /\ MoversLock /\ ConnHolders /\ LocksInOrder

-----------------------------------------------------------------------------
(* What a claim knows. *)

\* A walk ends when every dependency it met was read.
WalkCloses(c) ==
    /\ ClaimTask[c] \in DOMAIN Walked(c) \cup claim[c].pending
    /\ \A t \in DOMAIN Walked(c) : Walked(c)[t].deps \subseteq DOMAIN Walked(c) \cup claim[c].pending

\* What was validated stays so: the claim holds the lock of every project it has read.
Validated(c) ==
    LET t == ClaimTask[c] IN
    /\ t \in DOMAIN Walked(c)
    /\ GraphProjects(c) \subseteq Locked(c)
    /\ \A d \in DOMAIN Walked(c) : Home[d] \in on
    /\ Unchanged(c)
    /\ Acyclic(Walked(c))
    /\ Walked(c)[t].deps \subseteq DOMAIN Walked(c)
    /\ \A d \in Walked(c)[t].deps : graph[d].state = "DONE"
    /\ graph[t].state = "READY"

ClaimsKnow ==
    \A c \in Claims :
       /\ Is(c, "idle") => DOMAIN Walked(c) = {}
       /\ Is(c, "walking") => WalkCloses(c)
       /\ Is(c, "validated") => Validated(c)

ClaimInv == ClaimTypeOK /\ LockInv /\ ClaimsKnow

-----------------------------------------------------------------------------
(* Initially, and the types. *)

\* What a node adds to a walk.
LEMMA WalkGrows ==
    ASSUME NEW walk \in Walks, NEW t \in GraphTasks, NEW node \in Nodes
    PROVE  [n \in DOMAIN walk \cup {t} |-> IF n = t THEN node ELSE walk[n]] \in Walks
<1>1. PICK walked \in SUBSET GraphTasks : walk \in [walked -> Nodes]
  BY DEF Walks
<1>2. /\ DOMAIN walk \cup {t} \in SUBSET GraphTasks
      /\ [n \in DOMAIN walk \cup {t} |-> IF n = t THEN node ELSE walk[n]]
            \in [DOMAIN walk \cup {t} -> Nodes]
  BY <1>1
<1> QED BY <1>2 DEF Walks

\* A walk is a function on tasks.
LEMMA WalkNodes ==
    ASSUME NEW walk \in Walks
    PROVE  /\ DOMAIN walk \subseteq GraphTasks
           /\ \A t \in DOMAIN walk : walk[t].rev \in Nat /\ walk[t].deps \subseteq GraphTasks
  BY DEF Walks, Nodes

\* Nothing walked, nothing proved.
LEMMA NothingWalked == NoNodes \in Walks /\ NoNodes \in Proofs /\ DOMAIN NoNodes = {}
<1>1. NoNodes \in [{} -> Nodes] /\ NoNodes \in [{} -> Nat]
  BY DEF NoNodes
<1>2. DOMAIN NoNodes = {} /\ {} \in SUBSET GraphTasks
  BY DEF NoNodes
<1> QED BY <1>1, <1>2 DEF Walks, Proofs

\* The evidence that a claim records.
LEMMA EvidenceTyped ==
    ASSUME NEW walk \in Walks, NEW deps, deps \subseteq DOMAIN walk
    PROVE  [d \in deps |-> walk[d].rev] \in Proofs
<1>1. deps \in SUBSET GraphTasks /\ [d \in deps |-> walk[d].rev] \in [deps -> Nat]
  BY WalkNodes
<1> QED BY <1>1 DEF Proofs

\* The invariant holds at the start.
LEMMA ClaimInvInit == ClaimInit => ClaimInv
<1> SUFFICES ASSUME ClaimInit PROVE ClaimInv
  OBVIOUS
<1> USE GraphAssumption, ProcessAssumption
<1>1. \A c \in Claims : claim[c].phase = "idle"
  BY DEF ClaimInit, Idle
<1>2. \A o \in OtherProcesses : other[o].phase = "idle"
  BY DEF ClaimInit, Resting
<1>3. ClaimTypeOK
  BY NothingWalked DEF ClaimInit, ClaimTypeOK, Idle, Resting, GraphStates, GraphAssumption,
     GraphRecords, ClaimRecords, OtherRecords
<1>4. LifecycleHeld /\ Phases /\ ClaimsRead /\ MoversRead
  BY <1>1, <1>2 DEF ClaimInit, LifecycleHeld, ClaimsRead, MoversRead, Phases, Is, Doing, OtherProcesses
<1>5. ClaimsLock /\ MoversLock /\ ConnHolders /\ LocksInOrder
  BY <1>1, <1>2 DEF ClaimInit, ClaimsLock, MoversLock, ConnHolders, LocksInOrder, Is, Doing, OtherProcesses
<1>6. ClaimsKnow
  BY <1>1, NothingWalked DEF ClaimInit, ClaimsKnow, Is, Walked, Idle
<1> QED BY <1>3, <1>4, <1>5, <1>6 DEF ClaimInv, LockInv

-----------------------------------------------------------------------------
(* The types are kept. *)

\* What a claim's record may become.
LEMMA ClaimMoves ==
    ASSUME claim \in [Claims -> ClaimRecords], NEW c \in Claims,
           \/ \E phase \in {"idle", "walking", "validated", "committed", "ending"} : SetPhase(c, phase)
           \/ claim' = [claim EXCEPT ![c] = Idle]
           \/ \E todo \in SUBSET GraphTasks :
                 claim' = [claim EXCEPT ![c].phase = "walking", ![c].pending = todo]
           \/ \E walk \in Walks, todo \in SUBSET GraphTasks :
                 claim' = [claim EXCEPT ![c].nodes = walk, ![c].pending = todo]
           \/ UNCHANGED claim
    PROVE  claim' \in [Claims -> ClaimRecords]
<1>1. CASE \E phase \in {"idle", "walking", "validated", "committed", "ending"} : SetPhase(c, phase)
  BY <1>1 DEF SetPhase, ClaimRecords
<1>2. CASE claim' = [claim EXCEPT ![c] = Idle]
  BY <1>2, NothingWalked DEF Idle, ClaimRecords
<1>3. CASE \E todo \in SUBSET GraphTasks :
              claim' = [claim EXCEPT ![c].phase = "walking", ![c].pending = todo]
  <2> DEFINE begun == [claim EXCEPT ![c].phase = "walking"]
  <2>1. begun \in [Claims -> ClaimRecords]
    BY DEF ClaimRecords
  <2>2. PICK todo \in SUBSET GraphTasks : claim' = [begun EXCEPT ![c].pending = todo]
    BY <1>3, Zenon
  <2> HIDE DEF begun
  <2> QED BY <2>1, <2>2 DEF ClaimRecords
<1>4. CASE \E walk \in Walks, todo \in SUBSET GraphTasks :
              claim' = [claim EXCEPT ![c].nodes = walk, ![c].pending = todo]
  BY <1>4 DEF ClaimRecords
<1>5. CASE UNCHANGED claim
  BY <1>5
<1> QED BY <1>1, <1>2, <1>3, <1>4, <1>5

\* What another process's record may become.
LEMMA OtherMoves ==
    ASSUME other \in [OtherProcesses -> OtherRecords], NEW o \in OtherProcesses,
           NEW phase \in {"idle", "writing", "moving", "authorizing", "waiting", "locked"},
           NEW p \in Projects \cup {NoOne}, SetOther(o, phase, p)
    PROVE  /\ other' \in [OtherProcesses -> OtherRecords]
           /\ other'[o].phase = phase /\ other'[o].at = p
           /\ \A x \in OtherProcesses \ {o} : other'[x] = other[x]
  BY DEF SetOther, OtherRecords

\* What an edit makes of the graph.
LEMMA EditTyped ==
    ASSUME graph \in [GraphTasks -> GraphRecords], NEW t \in GraphTasks, NEW e \in Edits,
           graph' = Edited(t, e)
    PROVE  /\ graph' \in [GraphTasks -> GraphRecords]
           /\ \A x \in GraphTasks \ {t} : graph'[x] = graph[x]
  BY GraphAssumption DEF Edited, GraphRecords, GraphStates, GraphAssumption

\* Every step keeps the types.
LEMMA ClaimTypeStep == ClaimInv /\ [ClaimNext]_claimVars => ClaimTypeOK'
<1> SUFFICES ASSUME ClaimInv, [ClaimNext]_claimVars PROVE ClaimTypeOK'
  OBVIOUS
<1>0. /\ ClaimTypeOK
      /\ claim \in [Claims -> ClaimRecords] /\ other \in [OtherProcesses -> OtherRecords]
      /\ graph \in [GraphTasks -> GraphRecords]
  BY DEF ClaimInv, ClaimTypeOK
<1> USE <1>0
<1>1. ASSUME NEW c \in Claims, BeginClaim(c) PROVE ClaimTypeOK'
  <2>1. claim' \in [Claims -> ClaimRecords]
    BY <1>1, GraphAssumption, ClaimMoves DEF BeginClaim, GraphAssumption
  <2> QED BY <1>1, <2>1 DEF BeginClaim, ReadLock, ClaimTypeOK
<1>2. ASSUME NEW c \in Claims, NEW t \in GraphTasks, WalkNode(c, t) PROVE ClaimTypeOK'
  <2>1. [rev |-> graph[t].rev, deps |-> graph[t].deps] \in Nodes /\ claim[c].nodes \in Walks
        /\ claim[c].pending \cup graph[t].deps \subseteq GraphTasks
    BY DEF Nodes, GraphRecords, ClaimRecords
  <2>2. \E walk \in Walks, todo \in SUBSET GraphTasks :
                 claim' = [claim EXCEPT ![c].nodes = walk, ![c].pending = todo]
    BY <1>2, <2>1, WalkGrows DEF WalkNode
  <2>3. claim' \in [Claims -> ClaimRecords]
    BY <2>2, ClaimMoves
  <2> QED BY <1>2, <2>3 DEF WalkNode, locks, ClaimTypeOK
<1>3. ASSUME NEW c \in Claims, NEW p \in Projects, LockProject(c, p) PROVE ClaimTypeOK'
  BY <1>3 DEF LockProject, ClaimTypeOK
<1>4. ASSUME NEW c \in Claims, ValidateClaim(c) PROVE ClaimTypeOK'
  <2>1. claim' \in [Claims -> ClaimRecords]
    BY <1>4, ClaimMoves DEF ValidateClaim
  <2> QED BY <1>4, <2>1 DEF ValidateClaim, locks, ClaimTypeOK
<1>5. ASSUME NEW c \in Claims, CommitClaim(c) PROVE ClaimTypeOK'
  <2>1. ClaimTask[c] \in DOMAIN Walked(c) /\ Walked(c)[ClaimTask[c]].deps \subseteq DOMAIN Walked(c)
    BY <1>5 DEF CommitClaim, Validated, ClaimInv, ClaimsKnow
  <2>2. Walked(c) \in Walks
    BY DEF Walked, ClaimRecords
  <2>3. [d \in Walked(c)[ClaimTask[c]].deps |-> Walked(c)[d].rev] \in Proofs
    BY <2>1, <2>2, EvidenceTyped
  <2>4. claim' \in [Claims -> ClaimRecords]
    BY <1>5, ClaimMoves DEF CommitClaim
  <2>5. holder' \in [GraphTasks -> [by : Claims \cup {NoHolder}, proof : Proofs]]
    BY <1>5, <2>3 DEF CommitClaim, ClaimTypeOK
  <2>6. file' \in [Projects -> {NoOne} \cup Claims \cup Movers]
    BY <1>5 DEF CommitClaim, ClaimTypeOK
  <2> QED BY <1>5, <2>4, <2>5, <2>6 DEF CommitClaim, ClaimTypeOK
<1>6. ASSUME NEW c \in Claims, EndClaim(c) PROVE ClaimTypeOK'
  <2>1. claim' \in [Claims -> ClaimRecords]
    BY <1>6, ClaimMoves DEF EndClaim
  <2> QED BY <1>6, <2>1 DEF EndClaim, ReadUnlock, ClaimTypeOK
<1>7. ASSUME NEW w \in Writers, NEW p \in Projects, TakeConnection(w, p) PROVE ClaimTypeOK'
  <2>1. other' \in [OtherProcesses -> OtherRecords]
    BY <1>7, OtherMoves DEF TakeConnection, OtherProcesses
  <2> QED BY <1>7, <2>1 DEF TakeConnection, ClaimTypeOK
<1>8. ASSUME NEW w \in Writers, OrdinaryWrite(w) PROVE ClaimTypeOK'
  <2>1. graph' \in [GraphTasks -> GraphRecords]
    BY <1>8, EditTyped DEF OrdinaryWrite
  <2>2. on' \subseteq Projects
    BY <1>8 DEF OrdinaryWrite, ClaimTypeOK
  <2>3. other' \in [OtherProcesses -> OtherRecords]
    BY <1>8, OtherMoves DEF OrdinaryWrite, Release, OtherProcesses
  <2> QED BY <1>8, <2>1, <2>2, <2>3 DEF OrdinaryWrite, Release, ClaimTypeOK
<1>9. ASSUME NEW m \in Movers, NEW p \in Projects, BeginTransition(m, p) PROVE ClaimTypeOK'
  <2>1. other' \in [OtherProcesses -> OtherRecords]
    BY <1>9, OtherMoves DEF BeginTransition, OtherProcesses
  <2> QED BY <1>9, <2>1 DEF BeginTransition, ReadLock, ClaimTypeOK
<1>10. ASSUME NEW m \in Movers, TakeForTransition(m) PROVE ClaimTypeOK'
  <2>1. other' \in [OtherProcesses -> OtherRecords]
    BY <1>10, OtherMoves DEF TakeForTransition, OtherProcesses, OtherRecords
  <2> QED BY <1>10, <2>1 DEF TakeForTransition, ClaimTypeOK
<1>11. ASSUME NEW m \in Movers, CommitTransition(m) PROVE ClaimTypeOK'
  <2>1. graph' \in [GraphTasks -> GraphRecords]
    BY <1>11, EditTyped DEF CommitTransition
  <2>2. holder' \in [GraphTasks -> [by : Claims \cup {NoHolder}, proof : Proofs]]
    BY <1>11, NothingWalked DEF CommitTransition, ClaimTypeOK
  <2>3. other' \in [OtherProcesses -> OtherRecords]
    BY <1>11, OtherMoves DEF CommitTransition, Release, OtherProcesses
  <2> QED BY <1>11, <2>1, <2>2, <2>3 DEF CommitTransition, Release, ReadUnlock, ClaimTypeOK
<1>12. ASSUME NEW m \in Movers, AbandonTransition(m) PROVE ClaimTypeOK'
  <2>1. other' \in [OtherProcesses -> OtherRecords]
    BY <1>12, OtherMoves DEF AbandonTransition, OtherProcesses
  <2> QED BY <1>12, <2>1 DEF AbandonTransition, ReadUnlock, ClaimTypeOK
<1>13. ASSUME NEW p \in Projects, LifecycleWaits(p) PROVE ClaimTypeOK'
  <2>1. other' \in [OtherProcesses -> OtherRecords]
    BY <1>13, OtherMoves DEF LifecycleWaits, OtherProcesses
  <2> QED BY <1>13, <2>1 DEF LifecycleWaits, ClaimTypeOK
<1>14. CASE LifecycleLocks
  <2>1. other' \in [OtherProcesses -> OtherRecords]
    BY <1>14, OtherMoves DEF LifecycleLocks, OtherProcesses, OtherRecords
  <2> QED BY <1>14, <2>1 DEF LifecycleLocks, ClaimTypeOK
<1>15. CASE LifecycleEnds
  <2>1. other' \in [OtherProcesses -> OtherRecords]
    BY <1>15, OtherMoves DEF LifecycleEnds, OtherProcesses
  <2>2. other[Drop].at \in Projects
    BY <1>15 DEF LifecycleEnds, ClaimInv, LockInv, Phases, OtherProcesses, Doing
  <2>3. name' \in [Projects -> Names] /\ \A p, q \in Projects : name'[p] = name'[q] => p = q
    <3>1. CASE UNCHANGED name
      BY <3>1 DEF ClaimTypeOK
    <3>2. ASSUME NEW r \in Projects \ {other[Drop].at},
                 name' = [name EXCEPT ![r] = name[other[Drop].at], ![other[Drop].at] = name[r]]
          PROVE  name' \in [Projects -> Names] /\ \A p, q \in Projects : name'[p] = name'[q] => p = q
      BY <3>2, <2>2 DEF ClaimTypeOK
    <3> QED BY <1>15, <3>1, <3>2 DEF LifecycleEnds
  <2> QED BY <1>15, <2>1, <2>3 DEF LifecycleEnds, ClaimTypeOK
<1>16. CASE UNCHANGED claimVars
  BY <1>16 DEF claimVars, locks, ClaimTypeOK
<1> QED BY <1>1, <1>2, <1>3, <1>4, <1>5, <1>6, <1>7, <1>8, <1>9, <1>10, <1>11, <1>12, <1>13,
           <1>14, <1>15, <1>16 DEF ClaimNext

-----------------------------------------------------------------------------
(* The locks. *)

\* The phase of one claim moves, the rest of its record stays.
LEMMA PhaseMoves ==
    ASSUME claim \in [Claims -> ClaimRecords], NEW c \in Claims, NEW phase, SetPhase(c, phase)
    PROVE  /\ claim'[c].phase = phase
           /\ claim'[c].nodes = claim[c].nodes /\ claim'[c].pending = claim[c].pending
           /\ \A x \in Claims \ {c} : claim'[x] = claim[x]
  BY DEF SetPhase, ClaimRecords

\* The task, its revision and its dependencies, are added to what was walked.
LEMMA WalkNodeMoves ==
    ASSUME claim \in [Claims -> ClaimRecords], NEW c \in Claims, NEW t \in GraphTasks, WalkNode(c, t)
    PROVE  /\ claim'[c].phase = "walking"
           /\ DOMAIN Walked(c)' = DOMAIN Walked(c) \cup {t}
           /\ Walked(c)'[t].rev = graph[t].rev /\ Walked(c)'[t].deps = graph[t].deps
           /\ \A n \in DOMAIN Walked(c) \ {t} : Walked(c)'[n] = Walked(c)[n]
           /\ claim'[c].pending = (claim[c].pending \cup graph[t].deps) \ (DOMAIN Walked(c) \cup {t})
           /\ \A x \in Claims \ {c} : claim'[x] = claim[x]
<1> DEFINE walk == [n \in DOMAIN Walked(c) \cup {t} |->
                       IF n = t THEN [rev |-> graph[t].rev, deps |-> graph[t].deps] ELSE Walked(c)[n]]
           todo == (claim[c].pending \cup graph[t].deps) \ (DOMAIN Walked(c) \cup {t})
<1>1. claim' = [claim EXCEPT ![c].nodes = walk, ![c].pending = todo] /\ claim[c].phase = "walking"
  BY DEF WalkNode, Walked, Is
<1>2. /\ DOMAIN walk = DOMAIN Walked(c) \cup {t}
      /\ walk[t].rev = graph[t].rev /\ walk[t].deps = graph[t].deps
      /\ \A n \in DOMAIN Walked(c) \ {t} : walk[n] = Walked(c)[n]
  OBVIOUS
<1> HIDE DEF walk, todo
<1>3. /\ claim'[c].phase = "walking"
      /\ claim'[c].nodes = walk /\ claim'[c].pending = todo
      /\ \A x \in Claims \ {c} : claim'[x] = claim[x]
  BY <1>1 DEF ClaimRecords
<1>4. Walked(c)' = walk
  BY <1>3 DEF Walked
<1> QED BY <1>2, <1>3, <1>4 DEF todo

\* What another process's step leaves alone.
LEMMA ClaimsRest ==
    ASSUME LockInv, UNCHANGED <<claim, name>>,
           \A p \in Projects, c \in Claims : file'[p] = c <=> file[p] = c
    PROVE  LocksInOrder' /\ ClaimsLock'
  BY DEF LockInv, LocksInOrder, ClaimsLock, Locks, Is, Locked, GraphProjects, Walked

\* What a claim's step leaves alone.
LEMMA OthersRest ==
    ASSUME LockInv, UNCHANGED <<other, conn, mu>>,
           life'.held = life.held, life'.held => life'.readers = {},
           \A p \in Projects, m \in Movers : file'[p] = m <=> file[p] = m,
           \A m \in Movers : m \in life'.readers <=> m \in life.readers
    PROVE  LifecycleHeld' /\ Phases' /\ ConnHolders' /\ MoversRead' /\ MoversLock'
<1>1. \A m \in Movers : Doing(m, "authorizing") => other[m].at \in Projects
  BY DEF LockInv, Phases, OtherProcesses, Doing
<1>2. LifecycleHeld' /\ Phases'
  BY DEF LockInv, LifecycleHeld, Phases, Doing
<1>3. ConnHolders' /\ MoversRead'
  BY DEF LockInv, ConnHolders, MoversRead, Doing
<1>4. MoversLock'
  BY <1>1 DEF LockInv, MoversLock, Doing
<1> QED BY <1>2, <1>3, <1>4

\* A claim's steps keep the locks as they should be.
LEMMA ClaimStepLocks ==
    ASSUME ClaimInv, NEW c \in Claims,
           \/ BeginClaim(c) \/ ValidateClaim(c) \/ CommitClaim(c) \/ EndClaim(c)
           \/ \E t \in GraphTasks : WalkNode(c, t)
           \/ \E p \in Projects : LockProject(c, p)
    PROVE  LockInv'
<1>0. /\ LockInv /\ claim \in [Claims -> ClaimRecords]
      /\ c # NoOne /\ c \notin Movers /\ ClaimTask[c] \in GraphTasks
      /\ life \in [readers : SUBSET (Claims \cup Movers), waiting : BOOLEAN, held : BOOLEAN]
      /\ file \in [Projects -> {NoOne} \cup Claims \cup Movers]
      /\ name \in [Projects -> Names] /\ \A p, q \in Projects : name[p] = name[q] => p = q
      /\ NoOne \notin Claims \cup Movers /\ Names \subseteq Nat
  BY GraphAssumption, ProcessAssumption DEF ClaimInv, ClaimTypeOK, GraphAssumption, ProcessAssumption
<1> USE <1>0
<1>1. CASE BeginClaim(c)
  <2>1. /\ claim'[c].phase = "walking"
        /\ claim'[c].nodes = claim[c].nodes /\ claim'[c].pending = {ClaimTask[c]}
        /\ \A x \in Claims \ {c} : claim'[x] = claim[x]
    BY <1>1 DEF BeginClaim, ClaimRecords
  <2>2. life' = [life EXCEPT !.readers = @ \cup {c}] /\ ~life.held /\ Is(c, "idle")
        /\ UNCHANGED <<other, conn, mu, file, name>>
    BY <1>1 DEF BeginClaim, ReadLock, MayRead
  <2>3. Locked(c) = {}
    BY <2>2 DEF LockInv, ClaimsLock, Locks, Locked
  <2>4. LifecycleHeld' /\ Phases' /\ ConnHolders' /\ MoversRead' /\ MoversLock'
    BY <2>2, OthersRest
  <2>5. ClaimsRead'
    BY <2>1, <2>2 DEF LockInv, ClaimsRead, Is
  <2>6. ClaimsLock'
    BY <2>1, <2>2, <2>3 DEF LockInv, ClaimsLock, Locks, Locked, Is
  <2>7. LocksInOrder'
    BY <2>1, <2>2, <2>3 DEF LockInv, LocksInOrder, Locked, GraphProjects, Walked, Is
  <2> QED BY <2>4, <2>5, <2>6, <2>7 DEF LockInv
<1>2. CASE ValidateClaim(c)
  <2>1. /\ SetPhase(c, "validated") /\ Is(c, "walking") /\ claim[c].pending = {}
        /\ UNCHANGED <<other, conn, mu, file, name, life>>
    BY <1>2 DEF ValidateClaim, locks
  <2>2. LifecycleHeld' /\ Phases' /\ ConnHolders' /\ MoversRead' /\ MoversLock'
    BY <2>1, OthersRest DEF LockInv, LifecycleHeld
  <2>3. ClaimsRead' /\ ClaimsLock'
    BY <2>1, PhaseMoves DEF LockInv, ClaimsRead, ClaimsLock, Locks, Is
  <2>4. LocksInOrder'
    BY <2>1, PhaseMoves DEF LockInv, LocksInOrder, Locked, GraphProjects, Walked, Is
  <2> QED BY <2>2, <2>3, <2>4 DEF LockInv
<1>3. CASE CommitClaim(c)
  <2> DEFINE own == Home[ClaimTask[c]]
  <2>1. /\ SetPhase(c, "committed") /\ Is(c, "validated")
        /\ file' = [file EXCEPT ![own] = NoOne]
        /\ UNCHANGED <<other, conn, mu, name, life>>
    BY <1>3 DEF CommitClaim
  <2>2. file[own] = c /\ own \in Projects
    BY <2>1, GraphAssumption DEF ClaimInv, ClaimsKnow, Validated, GraphProjects, Locked, GraphAssumption
  <2> HIDE DEF own
  <2>3. \A p \in Projects, x \in (Claims \cup Movers) \ {c} : file'[p] = x <=> file[p] = x
    BY <2>1, <2>2
  <2>4. LifecycleHeld' /\ Phases' /\ ConnHolders' /\ MoversRead' /\ MoversLock'
    BY <2>1, <2>3, OthersRest DEF LockInv, LifecycleHeld
  <2>5. ClaimsRead' /\ ClaimsLock'
    BY <2>1, <2>3, PhaseMoves DEF LockInv, ClaimsRead, ClaimsLock, Locks, Is
  <2>6. LocksInOrder'
    BY <2>1, <2>3, PhaseMoves DEF LockInv, LocksInOrder, Locked, GraphProjects, Walked, Is
  <2> QED BY <2>4, <2>5, <2>6 DEF LockInv
<1>4. CASE EndClaim(c)
  <2>0. ~Is(c, "idle") /\ UNCHANGED <<other, conn, mu, name>>
    BY <1>4 DEF EndClaim
  <2>1. ASSUME NEW p \in Locked(c), file' = [file EXCEPT ![p] = NoOne],
               SetPhase(c, "ending"), UNCHANGED life
        PROVE  LockInv'
    <3>1. p \in Projects /\ file[p] = c
      BY <2>1 DEF Locked
    <3>2. \A q \in Projects, x \in (Claims \cup Movers) \ {c} : file'[q] = x <=> file[q] = x
      BY <2>1, <3>1
    <3>3. LifecycleHeld' /\ Phases' /\ ConnHolders' /\ MoversRead' /\ MoversLock'
      BY <2>0, <2>1, <3>2, OthersRest DEF LockInv, LifecycleHeld
    <3>4. ClaimsRead' /\ ClaimsLock'
      BY <2>0, <2>1, <3>2, PhaseMoves DEF LockInv, ClaimsRead, ClaimsLock, Locks, Is
    <3>5. LocksInOrder'
      BY <2>0, <2>1, <3>2, PhaseMoves DEF LockInv, LocksInOrder, Locked, GraphProjects, Walked, Is
    <3> QED BY <3>3, <3>4, <3>5 DEF LockInv
  <2>2. ASSUME Locked(c) = {}, claim' = [claim EXCEPT ![c] = Idle], ReadUnlock(c), UNCHANGED file
        PROVE  LockInv'
    <3>1. /\ claim'[c].phase = "idle"
          /\ \A x \in Claims \ {c} : claim'[x] = claim[x]
      BY <2>2 DEF Idle
    <3>2. life' = [life EXCEPT !.readers = @ \ {c}]
      BY <2>2 DEF ReadUnlock
    <3>3. LifecycleHeld' /\ Phases' /\ ConnHolders' /\ MoversRead' /\ MoversLock'
      BY <2>0, <2>2, <3>2, OthersRest DEF LockInv, LifecycleHeld
    <3>4. ClaimsRead'
      BY <3>1, <3>2 DEF LockInv, ClaimsRead, Is
    <3>5. ClaimsLock'
      BY <2>2, <3>1 DEF LockInv, ClaimsLock, Locks, Locked, Is
    <3>6. LocksInOrder'
      BY <2>0, <2>2, <3>1 DEF LockInv, LocksInOrder, Locked, GraphProjects, Walked, Is
    <3> QED BY <3>3, <3>4, <3>5, <3>6 DEF LockInv
  <2> QED BY <1>4, <2>1, <2>2 DEF EndClaim
<1>5. ASSUME NEW t \in GraphTasks, WalkNode(c, t) PROVE LockInv'
  <2>1. /\ Is(c, "walking") /\ claim[c].pending # {}
        /\ UNCHANGED <<other, conn, mu, name, life, file>>
    BY <1>5 DEF WalkNode, locks
  <2>2. claim'[c].phase = "walking" /\ \A x \in Claims \ {c} : claim'[x] = claim[x]
    BY <1>5, WalkNodeMoves
  <2>3. Locked(c) = {}
    BY <2>1 DEF LockInv, ClaimsLock, Locks, Locked
  <2>4. LifecycleHeld' /\ Phases' /\ ConnHolders' /\ MoversRead' /\ MoversLock'
    BY <2>1, OthersRest DEF LockInv, LifecycleHeld
  <2>5. ClaimsRead'
    BY <2>1, <2>2 DEF LockInv, ClaimsRead, Is
  <2>6. ClaimsLock'
    BY <2>1, <2>2, <2>3 DEF LockInv, ClaimsLock, Locks, Locked, Is
  <2>7. LocksInOrder'
    BY <2>1, <2>2, <2>3 DEF LockInv, LocksInOrder, Locked, GraphProjects, Walked, Is
  <2> QED BY <2>4, <2>5, <2>6, <2>7 DEF LockInv
<1>6. ASSUME NEW p \in Projects, LockProject(c, p) PROVE LockInv'
  <2>1. /\ Is(c, "walking") /\ claim[c].pending = {} /\ NextProject(c, p)
        /\ file[p] = NoOne /\ file' = [file EXCEPT ![p] = c]
        /\ UNCHANGED <<other, conn, mu, name, life, claim>>
    BY <1>6 DEF LockProject
  <2>2. LifecycleHeld' /\ Phases' /\ ConnHolders' /\ MoversRead' /\ MoversLock'
    BY <2>1, OthersRest DEF LockInv, LifecycleHeld
  <2>3. ClaimsRead' /\ ClaimsLock'
    BY <2>1 DEF LockInv, ClaimsRead, ClaimsLock, Locks, Is
  <2>4. LocksInOrder'
    <3> SUFFICES ASSUME NEW x \in Claims, Is(x, "walking")',
                        NEW q \in Locked(x)', NEW r \in (GraphProjects(x) \ Locked(x))'
                 PROVE  name'[q] < name'[r]
      BY DEF LocksInOrder
    <3>2. CASE x # c
      BY <2>1, <3>2 DEF LockInv, LocksInOrder, Locked, GraphProjects, Walked, Is
    <3>3. CASE x = c
      <4>1. r \in GraphProjects(c) \ Locked(c) /\ r # p /\ p \in GraphProjects(c) \ Locked(c)
            /\ q \in Locked(c) \cup {p} /\ name[p] <= name[r]
        BY <2>1, <3>3 DEF Locked, GraphProjects, Walked, NextProject
      <4>2. r \in Projects
        BY <4>1, GraphAssumption, WalkNodes DEF GraphProjects, Walked, GraphAssumption, ClaimRecords
      <4>3. name[p] < name[r]
        <5>1. name[p] \in Nat /\ name[r] \in Nat /\ name[p] # name[r]
          BY <4>1, <4>2
        <5> QED BY <4>1, <5>1
      <4>4. q \in Locked(c) => name[q] < name[r]
        BY <2>1, <4>1 DEF LockInv, LocksInOrder
      <4> QED BY <2>1, <4>1, <4>3, <4>4
    <3> QED BY <3>2, <3>3
  <2> QED BY <2>2, <2>3, <2>4 DEF LockInv
<1> QED BY <1>1, <1>2, <1>3, <1>4, <1>5, <1>6

\* What the steps of writers, movers and lifecycle operations leave of a claim's side.
LEMMA ClaimsSideRests ==
    ASSUME LockInv, UNCHANGED <<claim, name>>,
           \A p \in Projects, c \in Claims : file'[p] = c <=> file[p] = c,
           \A c \in Claims : c \in life'.readers <=> c \in life.readers
    PROVE  LocksInOrder' /\ ClaimsLock' /\ ClaimsRead'
  BY ClaimsRest DEF LockInv, ClaimsRead, Is

\* The steps of the other processes keep the locks as they should be.
LEMMA OtherStepLocks ==
    ASSUME ClaimInv,
           \/ \E w \in Writers : OrdinaryWrite(w) \/ \E p \in Projects : TakeConnection(w, p)
           \/ \E m \in Movers :
                 \/ TakeForTransition(m) \/ CommitTransition(m) \/ AbandonTransition(m)
                 \/ \E p \in Projects : BeginTransition(m, p)
    PROVE  LockInv'
<1>0. /\ LockInv /\ other \in [OtherProcesses -> OtherRecords]
      /\ life \in [readers : SUBSET (Claims \cup Movers), waiting : BOOLEAN, held : BOOLEAN]
      /\ file \in [Projects -> {NoOne} \cup Claims \cup Movers]
      /\ conn \in [Projects -> {NoOne} \cup Writers \cup Movers]
      /\ NoOne \notin Claims \cup Writers \cup Movers /\ Drop \notin Writers \cup Movers
      /\ Claims \cap Movers = {} /\ Writers \cap Movers = {}
  BY ProcessAssumption DEF ClaimInv, ClaimTypeOK, ProcessAssumption
<1> USE <1>0
<1>1. ASSUME NEW w \in Writers, OrdinaryWrite(w) PROVE LockInv'
  <2>1. /\ Doing(w, "writing") /\ UNCHANGED <<name, life, mu, file, claim>>
        /\ conn' = [conn EXCEPT ![other[w].at] = NoOne] /\ SetOther(w, "idle", NoOne)
    BY <1>1 DEF OrdinaryWrite, Release
  <2>2. /\ other'[w].phase = "idle" /\ other'[w].at = NoOne
        /\ \A x \in OtherProcesses \ {w} : other'[x] = other[x]
    BY <2>1, OtherMoves DEF OtherProcesses
  <2>3. LocksInOrder' /\ ClaimsLock' /\ ClaimsRead'
    BY <2>1, ClaimsSideRests
  <2>4. LifecycleHeld' /\ Phases'
    BY <2>1, <2>2 DEF LockInv, LifecycleHeld, Phases, Doing, OtherProcesses
  <2>5. ConnHolders'
    BY <2>1, <2>2 DEF LockInv, ConnHolders, Doing, OtherProcesses
  <2>6. MoversRead' /\ MoversLock'
    BY <2>1, <2>2 DEF LockInv, MoversRead, MoversLock, Doing, OtherProcesses
  <2> QED BY <2>3, <2>4, <2>5, <2>6 DEF LockInv
<1>2. ASSUME NEW w \in Writers, NEW p \in Projects, TakeConnection(w, p) PROVE LockInv'
  <2>1. /\ Doing(w, "idle") /\ UNCHANGED <<name, life, mu, file, claim>>
        /\ conn' = [conn EXCEPT ![p] = w] /\ SetOther(w, "writing", p)
    BY <1>2 DEF TakeConnection
  <2>2. /\ other'[w].phase = "writing" /\ other'[w].at = p
        /\ \A x \in OtherProcesses \ {w} : other'[x] = other[x]
    BY <2>1, OtherMoves DEF OtherProcesses
  <2>3. LocksInOrder' /\ ClaimsLock' /\ ClaimsRead'
    BY <2>1, ClaimsSideRests
  <2>4. LifecycleHeld' /\ Phases'
    BY <2>1, <2>2 DEF LockInv, LifecycleHeld, Phases, Doing, OtherProcesses
  <2>5. ConnHolders'
    BY <2>1, <2>2 DEF LockInv, ConnHolders, Doing, OtherProcesses
  <2>6. MoversRead' /\ MoversLock'
    BY <2>1, <2>2 DEF LockInv, MoversRead, MoversLock, Doing, OtherProcesses
  <2> QED BY <2>3, <2>4, <2>5, <2>6 DEF LockInv
<1>3. ASSUME NEW m \in Movers, TakeForTransition(m) PROVE LockInv'
  <2> DEFINE p == other[m].at
  <2>1. /\ Doing(m, "moving") /\ UNCHANGED <<name, life, mu, claim>>
        /\ conn[p] = NoOne /\ file[p] = NoOne
        /\ conn' = [conn EXCEPT ![p] = m] /\ file' = [file EXCEPT ![p] = m]
        /\ SetOther(m, "authorizing", p)
    BY <1>3 DEF TakeForTransition
  <2>2. p \in Projects
    BY <2>1 DEF LockInv, Phases, OtherProcesses, Doing
  <2>3. /\ other'[m].phase = "authorizing" /\ other'[m].at = p
        /\ \A x \in OtherProcesses \ {m} : other'[x] = other[x]
    BY <2>1, <2>2, OtherMoves DEF OtherProcesses
  <2> HIDE DEF p
  <2>4. LocksInOrder' /\ ClaimsLock' /\ ClaimsRead'
    BY <2>1, <2>2, ClaimsSideRests
  <2>5. LifecycleHeld' /\ Phases'
    BY <2>1, <2>2, <2>3 DEF LockInv, LifecycleHeld, Phases, Doing, OtherProcesses
  <2>6. ConnHolders'
    BY <2>1, <2>2, <2>3 DEF LockInv, ConnHolders, Doing, OtherProcesses
  <2>7. MoversRead'
    BY <2>1, <2>2, <2>3 DEF LockInv, MoversRead, Doing, OtherProcesses
  <2>8. MoversLock'
    BY <2>1, <2>2, <2>3 DEF LockInv, MoversLock, Doing, OtherProcesses
  <2> QED BY <2>4, <2>5, <2>6, <2>7, <2>8 DEF LockInv
<1>4. ASSUME NEW m \in Movers, CommitTransition(m) \/ AbandonTransition(m) PROVE LockInv'
  <2>1. /\ Doing(m, "moving") \/ Doing(m, "authorizing")
        /\ UNCHANGED <<name, mu, claim>> /\ SetOther(m, "idle", NoOne)
        /\ life' = [life EXCEPT !.readers = @ \ {m}]
    BY <1>4 DEF CommitTransition, AbandonTransition, ReadUnlock, Release
  <2>2. \A p \in Projects : /\ file'[p] = IF file[p] = m THEN NoOne ELSE file[p]
                            /\ (conn'[p] = conn[p] /\ conn[p] # m) \/ conn'[p] = NoOne
    <3>1. CASE AbandonTransition(m)
      BY <3>1 DEF AbandonTransition
    <3>2. CASE CommitTransition(m)
      <4>1. other[m].at \in Projects /\ Doing(m, "authorizing")
        BY <3>2 DEF CommitTransition, LockInv, Phases, OtherProcesses, Doing
      <4>2. \A p \in Projects : file[p] = m <=> p = other[m].at
        BY <4>1 DEF LockInv, MoversLock
      <4>3. \A p \in Projects : conn[p] = m => p = other[m].at
        BY <4>1 DEF LockInv, ConnHolders
      <4> QED BY <3>2, <4>1, <4>2, <4>3 DEF CommitTransition, Release
    <3> QED BY <1>4, <3>1, <3>2
  <2>3. /\ other'[m].phase = "idle" /\ other'[m].at = NoOne
        /\ \A x \in OtherProcesses \ {m} : other'[x] = other[x]
    BY <2>1, OtherMoves DEF OtherProcesses
  <2>4. LocksInOrder' /\ ClaimsLock' /\ ClaimsRead'
    BY <2>1, <2>2, ClaimsSideRests
  <2>5. LifecycleHeld' /\ Phases'
    BY <2>1, <2>3 DEF LockInv, LifecycleHeld, Phases, Doing, OtherProcesses
  <2>6. ConnHolders'
    BY <2>1, <2>2, <2>3 DEF LockInv, ConnHolders, Doing, OtherProcesses
  <2>7. MoversRead'
    BY <2>1, <2>3 DEF LockInv, MoversRead, Doing, OtherProcesses
  <2>8. MoversLock'
    <3>1. \A x \in Movers : Doing(x, "authorizing") => other[x].at \in Projects
      BY DEF LockInv, Phases, OtherProcesses, Doing
    <3> QED BY <2>1, <2>2, <2>3, <3>1 DEF LockInv, MoversLock, Doing, OtherProcesses
  <2> QED BY <2>4, <2>5, <2>6, <2>7, <2>8 DEF LockInv
<1>5. ASSUME NEW m \in Movers, NEW p \in Projects, BeginTransition(m, p) PROVE LockInv'
  <2>1. /\ Doing(m, "idle") /\ UNCHANGED <<name, mu, claim, conn, file>>
        /\ life' = [life EXCEPT !.readers = @ \cup {m}] /\ ~life.held
        /\ SetOther(m, "moving", p)
    BY <1>5 DEF BeginTransition, ReadLock, MayRead
  <2>2. /\ other'[m].phase = "moving" /\ other'[m].at = p
        /\ \A x \in OtherProcesses \ {m} : other'[x] = other[x]
    BY <2>1, OtherMoves DEF OtherProcesses
  <2>3. LocksInOrder' /\ ClaimsLock' /\ ClaimsRead'
    BY <2>1, ClaimsSideRests
  <2>4. LifecycleHeld' /\ Phases'
    BY <2>1, <2>2 DEF LockInv, LifecycleHeld, Phases, Doing, OtherProcesses
  <2>5. ConnHolders'
    BY <2>1, <2>2 DEF LockInv, ConnHolders, Doing, OtherProcesses
  <2>6. MoversRead' /\ MoversLock'
    BY <2>1, <2>2 DEF LockInv, MoversRead, MoversLock, Doing, OtherProcesses
  <2> QED BY <2>3, <2>4, <2>5, <2>6 DEF LockInv
<1> QED BY <1>1, <1>2, <1>3, <1>4, <1>5

\* The steps of a lifecycle operation keep the locks as they should be.
LEMMA LifecycleStepLocks ==
    ASSUME ClaimInv, LifecycleLocks \/ LifecycleEnds \/ \E p \in Projects : LifecycleWaits(p)
    PROVE  LockInv'
<1>0. /\ LockInv /\ other \in [OtherProcesses -> OtherRecords]
      /\ life \in [readers : SUBSET (Claims \cup Movers), waiting : BOOLEAN, held : BOOLEAN]
      /\ mu \in {NoOne, Drop} /\ Drop # NoOne
      /\ Drop \notin Writers \cup Movers /\ Drop \in OtherProcesses
      /\ Writers \subseteq OtherProcesses /\ Movers \subseteq OtherProcesses
      /\ \A o \in OtherProcesses : o \in Writers \/ o \in Movers \/ o = Drop
  BY ProcessAssumption DEF ClaimInv, ClaimTypeOK, ProcessAssumption, OtherProcesses
<1> USE <1>0
<1>1. /\ UNCHANGED <<claim, conn, file>> /\ life'.readers = life.readers
      /\ \A x \in OtherProcesses \ {Drop} : other'[x] = other[x]
      /\ \/ /\ other[Drop].phase = "idle" /\ other'[Drop].phase = "waiting"
            /\ other'[Drop].at \in Projects
            /\ life'.held = life.held /\ UNCHANGED <<mu, name>>
         \/ /\ other[Drop].phase = "waiting" /\ other'[Drop].phase = "locked"
            /\ other'[Drop].at = other[Drop].at
            /\ life'.held /\ life.readers = {} /\ mu' = Drop /\ UNCHANGED name
         \/ /\ other[Drop].phase = "locked" /\ other'[Drop].phase = "idle"
            /\ ~life'.held /\ mu' = NoOne
  <2>1. CASE \E p \in Projects : LifecycleWaits(p)
    <3>1. PICK p \in Projects : LifecycleWaits(p)
      BY <2>1
    <3>2. /\ other'[Drop].phase = "waiting" /\ other'[Drop].at = p
          /\ \A x \in OtherProcesses \ {Drop} : other'[x] = other[x]
      BY <3>1, OtherMoves DEF LifecycleWaits
    <3> QED BY <3>1, <3>2 DEF LifecycleWaits, Doing
  <2>2. CASE LifecycleLocks
    <3>1. /\ other'[Drop].phase = "locked" /\ other'[Drop].at = other[Drop].at
          /\ \A x \in OtherProcesses \ {Drop} : other'[x] = other[x]
      BY <2>2, OtherMoves DEF LifecycleLocks, OtherRecords
    <3> QED BY <2>2, <3>1 DEF LifecycleLocks, Doing
  <2>3. CASE LifecycleEnds
    <3>1. /\ other'[Drop].phase = "idle"
          /\ \A x \in OtherProcesses \ {Drop} : other'[x] = other[x]
      BY <2>3, OtherMoves DEF LifecycleEnds
    <3> QED BY <2>3, <3>1 DEF LifecycleEnds, Doing
  <2> QED BY <2>1, <2>2, <2>3
<1>2. LifecycleHeld'
  BY <1>1 DEF LockInv, LifecycleHeld, Doing
<1>3. Phases'
  BY <1>1 DEF LockInv, Phases, Doing
<1>4. ClaimsRead' /\ MoversRead' /\ ClaimsLock'
  BY <1>1 DEF LockInv, ClaimsRead, MoversRead, ClaimsLock, Locks, Is, Doing
<1>5. MoversLock' /\ ConnHolders'
  BY <1>1 DEF LockInv, MoversLock, ConnHolders, Doing
<1>6. LocksInOrder'
  <2>1. CASE UNCHANGED name
    BY <1>1, <2>1, ClaimsRest
  <2>2. CASE other[Drop].phase = "locked"
    <3>1. \A c \in Claims : ~Is(c, "walking")'
      BY <1>1, <2>2 DEF LockInv, LifecycleHeld, ClaimsRead, Is, Doing
    <3> QED BY <3>1 DEF LocksInOrder
  <2> QED BY <1>1, <2>1, <2>2
<1> QED BY <1>2, <1>3, <1>4, <1>5, <1>6 DEF LockInv

-----------------------------------------------------------------------------
(* What a claim knows. *)

\* What was validated stays so as long as the locks of its projects keep others out.
LEMMA ValidatedRests ==
    ASSUME NEW x \in Claims, Validated(x), claim[x].nodes \in Walks, claim'[x] = claim[x],
           \A p \in Projects : file[p] = x => file'[p] = x,
           \A d \in GraphTasks : file[Home[d]] = x =>
              graph'[d] = graph[d] /\ (Home[d] \in on => Home[d] \in on')
    PROVE  Validated(x)'
<1>1. Walked(x)' = Walked(x) /\ DOMAIN Walked(x) \subseteq GraphTasks /\ ClaimTask[x] \in GraphTasks
  BY WalkNodes, GraphAssumption DEF Walked, GraphAssumption
<1>2. \A d \in DOMAIN Walked(x) :
         Home[d] \in Projects /\ file[Home[d]] = x /\ file'[Home[d]] = x
  BY <1>1, GraphAssumption DEF Validated, GraphProjects, Locked, GraphAssumption
<1>3. GraphProjects(x)' \subseteq Locked(x)'
  BY <1>1, <1>2 DEF GraphProjects, Locked
<1>4. Unchanged(x)'
  BY <1>1, <1>2 DEF Validated, Unchanged
<1>5. \A d \in DOMAIN Walked(x) : Home[d] \in on'
  BY <1>1, <1>2 DEF Validated
<1>6. /\ ClaimTask[x] \in DOMAIN Walked(x) /\ Walked(x)[ClaimTask[x]].deps \subseteq DOMAIN Walked(x)
      /\ graph'[ClaimTask[x]].state = "READY"
      /\ \A d \in Walked(x)[ClaimTask[x]].deps : graph'[d].state = "DONE"
  BY <1>1, <1>2 DEF Validated
<1>7. Acyclic(Walked(x))
  BY DEF Validated
<1> QED BY <1>1, <1>3, <1>4, <1>5, <1>6, <1>7 DEF Validated, Acyclic

\* A claim that does not step knows what it knew.
LEMMA KnowledgeRests ==
    ASSUME ClaimInv, NEW x \in Claims, claim'[x] = claim[x],
           \A p \in Projects : file[p] = x => file'[p] = x,
           \A d \in GraphTasks : file[Home[d]] = x =>
              graph'[d] = graph[d] /\ (Home[d] \in on => Home[d] \in on')
    PROVE  /\ Is(x, "idle")' => DOMAIN Walked(x)' = {}
           /\ Is(x, "walking")' => WalkCloses(x)'
           /\ Is(x, "validated")' => Validated(x)'
<1>1. claim[x].nodes \in Walks
  BY DEF ClaimInv, ClaimTypeOK, ClaimRecords
<1>2. (Is(x, "idle")' => Is(x, "idle")) /\ Walked(x)' = Walked(x)
  BY DEF Is, Walked
<1>3. Is(x, "walking")' => Is(x, "walking") /\ (WalkCloses(x) => WalkCloses(x)')
  BY DEF Is, WalkCloses, Walked
<1>4. Is(x, "validated")' => Is(x, "validated")
  BY DEF Is
<1> QED BY <1>1, <1>2, <1>3, <1>4, ValidatedRests DEF ClaimInv, ClaimsKnow

\* A claim's steps keep what the claims know.
LEMMA ClaimStepKnows ==
    ASSUME ClaimInv, NEW c \in Claims,
           \/ BeginClaim(c) \/ ValidateClaim(c) \/ CommitClaim(c) \/ EndClaim(c)
           \/ \E t \in GraphTasks : WalkNode(c, t)
           \/ \E p \in Projects : LockProject(c, p)
    PROVE  ClaimsKnow'
<1>0. /\ ClaimsKnow /\ claim \in [Claims -> ClaimRecords] /\ ClaimTask[c] \in GraphTasks
      /\ claim[c].nodes \in Walks
      /\ file \in [Projects -> {NoOne} \cup Claims \cup Movers] /\ NoOne \notin Claims
  BY GraphAssumption, ProcessAssumption
     DEF ClaimInv, ClaimTypeOK, GraphAssumption, ProcessAssumption, ClaimRecords
<1> USE <1>0
<1> DEFINE Knows(x) == /\ Is(x, "idle") => DOMAIN Walked(x) = {}
                       /\ Is(x, "walking") => WalkCloses(x)
                       /\ Is(x, "validated") => Validated(x)
<1>1. UNCHANGED <<graph, on>>
  BY DEF BeginClaim, ValidateClaim, CommitClaim, EndClaim, WalkNode, LockProject
<1>2. \A x \in Claims \ {c} : claim'[x] = claim[x]
  BY PhaseMoves, WalkNodeMoves
     DEF BeginClaim, ValidateClaim, CommitClaim, EndClaim, LockProject
<1>3. \A x \in Claims \ {c}, p \in Projects : file[p] = x => file'[p] = x
  <2>1. CASE CommitClaim(c)
    BY <2>1 DEF CommitClaim, ClaimsKnow, Validated, GraphProjects, Locked
  <2>2. CASE EndClaim(c)
    BY <2>2 DEF EndClaim, Locked
  <2>3. CASE \E p \in Projects : LockProject(c, p)
    BY <2>3 DEF LockProject
  <2> QED BY <2>1, <2>2, <2>3 DEF BeginClaim, ValidateClaim, WalkNode, locks
<1>4. ASSUME NEW x \in Claims \ {c} PROVE Knows(x)'
  BY <1>1, <1>2, <1>3, KnowledgeRests
<1>5. Knows(c)'
  <2>1. CASE BeginClaim(c)
    <3>1. claim'[c].phase = "walking" /\ Walked(c)' = Walked(c) /\ claim'[c].pending = {ClaimTask[c]}
          /\ DOMAIN Walked(c) = {}
      BY <2>1 DEF BeginClaim, ClaimRecords, Walked, ClaimsKnow
    <3> QED BY <3>1 DEF Is, WalkCloses
  <2>2. CASE ValidateClaim(c)
    <3>1. claim'[c].phase = "validated" /\ Walked(c)' = Walked(c)
      BY <2>2, PhaseMoves DEF ValidateClaim, Walked
    <3>2. WalkCloses(c) /\ claim[c].pending = {} /\ UNCHANGED <<file, graph, on>>
      BY <2>2 DEF ValidateClaim, locks, ClaimsKnow
    <3>3. Validated(c)
      BY <2>2, <3>2 DEF ValidateClaim, Validated, WalkCloses
    <3>4. Validated(c)'
      BY <3>1, <3>2, <3>3 DEF Validated, GraphProjects, Locked, Unchanged, Acyclic
    <3> QED BY <3>1, <3>4 DEF Is
  <2>3. CASE CommitClaim(c)
    BY <2>3, PhaseMoves DEF CommitClaim, Is
  <2>4. CASE EndClaim(c)
    <3>1. claim'[c].phase = "ending" \/ (claim'[c].phase = "idle" /\ claim'[c].nodes = NoNodes)
      BY <2>4, PhaseMoves DEF EndClaim, Idle
    <3> QED BY <3>1, NothingWalked DEF Is, Walked
  <2>5. ASSUME NEW t \in GraphTasks, WalkNode(c, t) PROVE Knows(c)'
    <3>1. WalkCloses(c)
      BY <2>5 DEF WalkNode, ClaimsKnow
    <3>2. /\ DOMAIN Walked(c)' = DOMAIN Walked(c) \cup {t}
          /\ claim'[c].pending = (claim[c].pending \cup graph[t].deps) \ (DOMAIN Walked(c) \cup {t})
      BY <2>5, WalkNodeMoves
    <3>3. Walked(c)'[t].deps = graph[t].deps
      BY <2>5, WalkNodeMoves
    <3>4. \A n \in DOMAIN Walked(c) \ {t} : Walked(c)'[n] = Walked(c)[n]
      BY <2>5, WalkNodeMoves
    <3>5. WalkCloses(c)'
      BY <3>1, <3>2, <3>3, <3>4 DEF WalkCloses
    <3> QED BY <2>5, <3>5, WalkNodeMoves DEF Is
  <2>6. ASSUME NEW p \in Projects, LockProject(c, p) PROVE Knows(c)'
    BY <2>6 DEF LockProject, Is, ClaimsKnow, WalkCloses, Walked
  <2> QED BY <2>1, <2>2, <2>3, <2>4, <2>5, <2>6
<1> QED BY <1>4, <1>5 DEF ClaimsKnow

\* The other processes' steps keep what the claims know: they do not write in a
\* project whose lock a claim holds.
LEMMA OtherStepKnows ==
    ASSUME ClaimInv,
           \/ \E w \in Writers : OrdinaryWrite(w) \/ \E p \in Projects : TakeConnection(w, p)
           \/ \E m \in Movers :
                 \/ TakeForTransition(m) \/ CommitTransition(m) \/ AbandonTransition(m)
                 \/ \E p \in Projects : BeginTransition(m, p)
           \/ LifecycleLocks \/ LifecycleEnds \/ \E p \in Projects : LifecycleWaits(p)
    PROVE  ClaimsKnow'
<1>0. /\ NoOne \notin Claims /\ Claims \cap Movers = {} /\ Home \in [GraphTasks -> Projects]
      /\ file \in [Projects -> {NoOne} \cup Claims \cup Movers]
      /\ graph \in [GraphTasks -> GraphRecords] /\ on \subseteq Projects
  BY GraphAssumption, ProcessAssumption DEF ClaimInv, ClaimTypeOK, ProcessAssumption, GraphAssumption
<1>1. UNCHANGED claim
  BY DEF OrdinaryWrite, TakeConnection, TakeForTransition, CommitTransition, AbandonTransition,
     BeginTransition, LifecycleLocks, LifecycleEnds, LifecycleWaits
<1>2. \A x \in Claims, p \in Projects : file[p] = x => file'[p] = x
  <2>1. ASSUME NEW m \in Movers, CommitTransition(m)
        PROVE  \A x \in Claims, p \in Projects : file[p] = x => file'[p] = x
    <3>1. file[other[m].at] = m
      BY <2>1 DEF ClaimInv, LockInv, MoversLock, CommitTransition
    <3> QED BY <1>0, <2>1, <3>1 DEF CommitTransition
  <2> QED BY <1>0, <2>1 DEF OrdinaryWrite, TakeConnection, TakeForTransition, AbandonTransition,
             BeginTransition, LifecycleLocks, LifecycleEnds, LifecycleWaits
<1>3. ASSUME NEW x \in Claims, NEW d \in GraphTasks, file[Home[d]] = x
      PROVE  graph'[d] = graph[d] /\ (Home[d] \in on => Home[d] \in on')
  <2>1. ASSUME NEW w \in Writers, OrdinaryWrite(w)
        PROVE  graph'[d] = graph[d] /\ (Home[d] \in on => Home[d] \in on')
    <3>1. Home[d] # other[w].at
      BY <1>0, <1>3, <2>1 DEF OrdinaryWrite
    <3> QED BY <1>0, <2>1, <3>1, EditTyped DEF OrdinaryWrite
  <2>2. ASSUME NEW m \in Movers, CommitTransition(m)
        PROVE  graph'[d] = graph[d] /\ (Home[d] \in on => Home[d] \in on')
    <3>1. file[other[m].at] = m
      BY <2>2 DEF ClaimInv, LockInv, MoversLock, CommitTransition
    <3>2. Home[d] # other[m].at
      BY <1>0, <1>3, <3>1
    <3> QED BY <1>0, <2>2, <3>2, EditTyped DEF CommitTransition
  <2> QED BY <2>1, <2>2 DEF TakeConnection, TakeForTransition, AbandonTransition,
             BeginTransition, LifecycleLocks, LifecycleEnds, LifecycleWaits
<1>4. ASSUME NEW x \in Claims
      PROVE  /\ Is(x, "idle")' => DOMAIN Walked(x)' = {}
             /\ Is(x, "walking")' => WalkCloses(x)'
             /\ Is(x, "validated")' => Validated(x)'
  BY <1>1, <1>2, <1>3, KnowledgeRests
<1> QED BY <1>4 DEF ClaimsKnow

\* Every step keeps the invariant.
LEMMA ClaimInvStep == ClaimInv /\ [ClaimNext]_claimVars => ClaimInv'
<1> SUFFICES ASSUME ClaimInv, [ClaimNext]_claimVars PROVE LockInv' /\ ClaimsKnow'
  BY ClaimTypeStep DEF ClaimInv
<1>1. CASE \E c \in Claims :
              \/ BeginClaim(c) \/ ValidateClaim(c) \/ CommitClaim(c) \/ EndClaim(c)
              \/ \E t \in GraphTasks : WalkNode(c, t)
              \/ \E p \in Projects : LockProject(c, p)
  BY <1>1, ClaimStepLocks, ClaimStepKnows
<1>2. CASE \/ \E w \in Writers : OrdinaryWrite(w) \/ \E p \in Projects : TakeConnection(w, p)
           \/ \E m \in Movers :
                 \/ TakeForTransition(m) \/ CommitTransition(m) \/ AbandonTransition(m)
                 \/ \E p \in Projects : BeginTransition(m, p)
  BY <1>2, OtherStepLocks, OtherStepKnows
<1>3. CASE LifecycleLocks \/ LifecycleEnds \/ \E p \in Projects : LifecycleWaits(p)
  BY <1>3, LifecycleStepLocks, OtherStepKnows
<1>4. CASE UNCHANGED claimVars
  <2>1. UNCHANGED <<graph, on, name, life, mu, conn, file, claim, other>>
    BY <1>4 DEF claimVars, locks
  <2>2. LockInv'
    BY <2>1 DEF ClaimInv, LockInv, LifecycleHeld, Phases, ClaimsRead, MoversRead, ClaimsLock, Locks,
       MoversLock, ConnHolders, LocksInOrder, Locked, GraphProjects, Walked, Is, Doing
  <2>3. ClaimsKnow'
    BY <2>1, KnowledgeRests DEF ClaimsKnow
  <2> QED BY <2>2, <2>3
<1> QED BY <1>1, <1>2, <1>3, <1>4 DEF ClaimNext

-----------------------------------------------------------------------------
(* What a claim that commits rests on. *)

\* A claim that commits rests on facts that hold when it commits
\* (ClaimTaskReservation validates in an earlier step): its task is READY and
\* free, its dependencies are DONE at the revisions that it records, no project
\* of the graph is switched off, and the graph has no cycle.
THEOREM ClaimSeesCurrentGraphHolds == ClaimSpec => ClaimSeesCurrentGraph
<1> DEFINE Sees(t) ==
       holder[t].by = NoHolder /\ holder'[t].by # NoHolder =>
             LET c == holder'[t].by IN
             /\ graph[t].state = "READY"
             /\ DOMAIN holder'[t].proof = graph[t].deps
             /\ \A d \in graph[t].deps :
                   graph[d].state = "DONE" /\ graph[d].rev = holder'[t].proof[d]
             /\ \A d \in DOMAIN Walked(c) : Home[d] \in on
             /\ Acyclic([d \in DOMAIN Walked(c) |-> graph[d]])
<1>1. ClaimInv /\ [ClaimNext]_claimVars => [\A t \in GraphTasks : Sees(t)]_claimVars
  <2> SUFFICES ASSUME ClaimInv, ClaimNext, NEW t \in GraphTasks,
                      holder[t].by = NoHolder, holder'[t].by # NoHolder
               PROVE  Sees(t)
    OBVIOUS
  <2>0. /\ holder \in [GraphTasks -> [by : Claims \cup {NoHolder}, proof : Proofs]]
        /\ claim \in [Claims -> ClaimRecords]
    BY DEF ClaimInv, ClaimTypeOK
  <2>1. PICK c \in Claims : CommitClaim(c)
    <3>1. ~ UNCHANGED holder
      OBVIOUS
    <3>2. \A m \in Movers : ~ CommitTransition(m)
      BY <2>0 DEF CommitTransition
    <3> QED BY <3>1, <3>2 DEF ClaimNext, BeginClaim, ValidateClaim, EndClaim, WalkNode, LockProject,
               OrdinaryWrite, TakeConnection, TakeForTransition, AbandonTransition, BeginTransition,
               LifecycleLocks, LifecycleEnds, LifecycleWaits
  <2> DEFINE own == ClaimTask[c]
             evidence == [d \in Walked(c)[own].deps |-> Walked(c)[d].rev]
  <2>2. holder' = [holder EXCEPT ![own] = [by |-> c, proof |-> evidence]] /\ own \in GraphTasks
    BY <2>1, GraphAssumption DEF CommitClaim, GraphAssumption
  <2>3. DOMAIN evidence = Walked(c)[own].deps /\ \A d \in Walked(c)[own].deps : evidence[d] = Walked(c)[d].rev
    OBVIOUS
  <2>4. Validated(c)
    BY <2>1 DEF CommitClaim, ClaimInv, ClaimsKnow
  <2> HIDE DEF evidence
  <2>5. t = own /\ holder'[t].by = c /\ holder'[t].proof = evidence
    BY <2>0, <2>2
  <2>6. Walked(c)[own].deps = graph[own].deps /\ Walked(c)[own].deps \subseteq DOMAIN Walked(c)
        /\ \A d \in DOMAIN Walked(c) : Walked(c)[d].rev = graph[d].rev /\ Walked(c)[d].deps = graph[d].deps
    BY <2>4 DEF Validated, Unchanged
  <2>7. Acyclic([d \in DOMAIN Walked(c) |-> graph[d]])
    BY <2>4, <2>6 DEF Validated, Acyclic
  <2>8. /\ graph[t].state = "READY"
        /\ DOMAIN holder'[t].proof = graph[t].deps
        /\ \A d \in graph[t].deps : graph[d].state = "DONE" /\ graph[d].rev = holder'[t].proof[d]
        /\ \A d \in DOMAIN Walked(c) : Home[d] \in on
    BY <2>3, <2>4, <2>5, <2>6 DEF Validated
  <2> QED BY <2>5, <2>7, <2>8
<1> QED BY ClaimInvInit, ClaimInvStep, <1>1, PTL DEF ClaimSpec, ClaimSeesCurrentGraph

-----------------------------------------------------------------------------
(* Nobody waits in a circle. *)

Processes == Claims \cup OtherProcesses

\* While a lifecycle operation holds its lock only it and writers are under way,
\* and no writer waits.
LEMMA WaitsUnderLifecycle ==
    ASSUME ClaimInv, life.held, NEW x \in Processes, NEW y \in Processes, WaitsFor(x, y)
    PROVE  x = Drop /\ y \in Writers
<1>0. /\ NoOne \notin Processes /\ Drop \notin Claims \cup Writers \cup Movers
      /\ Claims \cap (Writers \cup Movers) = {} /\ Writers \cap Movers = {}
      /\ OtherProcesses = Writers \cup Movers \cup {Drop} /\ Processes = Claims \cup OtherProcesses
  BY ProcessAssumption DEF ProcessAssumption, Processes, OtherProcesses
<1>1. /\ conn \in [Projects -> {NoOne} \cup Writers \cup Movers]
      /\ file \in [Projects -> {NoOne} \cup Claims \cup Movers]
      /\ Doing(Drop, "locked") /\ other[Drop].at \in Projects /\ life.readers = {}
  BY <1>0 DEF ClaimInv, ClaimTypeOK, LockInv, LifecycleHeld, Phases, Doing
<1>2. (\A c \in Claims : Is(c, "idle")) /\ (\A m \in Movers : Doing(m, "idle"))
  BY <1>1 DEF ClaimInv, LockInv, ClaimsRead, MoversRead
<1>3. \A p \in Projects : file[p] = NoOne /\ conn[p] \in Writers \cup {NoOne}
  BY <1>1, <1>2 DEF ClaimInv, LockInv, ClaimsLock, Locks, MoversLock, ConnHolders, Doing
<1>4. x \notin Claims
  BY <1>2 DEF WaitsFor, WaitsForClaim, Is
<1>5. WaitsForOther(x, y)
  BY <1>4 DEF WaitsFor
<1>6. x \notin Movers
  BY <1>2, <1>5, <1>0 DEF WaitsForOther, Doing
<1>7. \A w \in Writers : Doing(w, "writing") => other[w].at \in Projects
  BY <1>0 DEF ClaimInv, LockInv, Phases, Doing
<1>8. x \notin Writers
  BY <1>0, <1>3, <1>5, <1>7 DEF WaitsForOther
<1>9. x = Drop /\ conn[other[Drop].at] = y
  BY <1>0, <1>1, <1>4, <1>5, <1>6, <1>8 DEF WaitsForOther, Doing
<1> QED BY <1>0, <1>1, <1>3, <1>9

\* Otherwise a process waits for one that holds a lock it takes before it can be
\* waited for: for a reader of the lifecycle lock, for the holder of a
\* connection, or for the holder of a file.
LEMMA WaitsOtherwise ==
    ASSUME ClaimInv, ~life.held, NEW x \in Processes, NEW y \in Processes, WaitsFor(x, y)
    PROVE  /\ y # Drop
           /\ x = Drop \/ y \in Writers \/ (y \in Claims /\ Locks(y)) \/ (y \in Movers /\ Doing(y, "authorizing"))
           /\ x \in Writers => y \in Claims \cup Movers
           /\ x \in Movers => ~ Doing(x, "authorizing")
           /\ x \in Claims /\ Locks(x) =>
                 /\ Is(x, "walking")
                 /\ \E p \in Projects : NextProject(x, p) /\ file[p] = y
<1>0. /\ NoOne \notin Processes /\ Drop \notin Claims \cup Writers \cup Movers
      /\ Claims \cap (Writers \cup Movers) = {} /\ Writers \cap Movers = {}
      /\ OtherProcesses = Writers \cup Movers \cup {Drop} /\ Processes = Claims \cup OtherProcesses
  BY ProcessAssumption DEF ProcessAssumption, Processes, OtherProcesses
<1>1. /\ conn \in [Projects -> {NoOne} \cup Writers \cup Movers]
      /\ file \in [Projects -> {NoOne} \cup Claims \cup Movers]
      /\ life.readers \subseteq Claims \cup Movers /\ mu = NoOne
      /\ ~ Doing(Drop, "locked")
  BY DEF ClaimInv, ClaimTypeOK, LockInv, LifecycleHeld
<1>2. \A p \in Projects :
         /\ conn[p] = y => y \in Writers \/ (y \in Movers /\ Doing(y, "authorizing"))
         /\ file[p] = y => (y \in Claims /\ Locks(y)) \/ (y \in Movers /\ Doing(y, "authorizing"))
  BY <1>0, <1>1 DEF ClaimInv, LockInv, ClaimsLock, MoversLock, ConnHolders
<1>3. \A o \in OtherProcesses : ~ Doing(o, "idle") => other[o].at \in Projects
  BY DEF ClaimInv, LockInv, Phases
<1>4. CASE x \in Claims
  <2>1. WaitsForClaim(x, y) /\ mu # y /\ claim[x].pending \subseteq GraphTasks
    BY <1>0, <1>1, <1>4 DEF WaitsFor, ClaimInv, ClaimTypeOK, ClaimRecords
  <2>2. CASE Is(x, "walking") /\ \E t \in claim[x].pending : conn[Home[t]] = y
    <3>1. \E p \in Projects : conn[p] = y
      BY <2>1, <2>2, GraphAssumption DEF GraphAssumption
    <3>2. ~ Locks(x)
      BY <2>2 DEF Locks
    <3> QED BY <1>0, <1>2, <1>4, <3>1, <3>2
  <2>3. CASE Is(x, "walking") /\ claim[x].pending = {} /\ \E p \in Projects : NextProject(x, p) /\ file[p] = y
    BY <1>0, <1>2, <1>4, <2>3
  <2> QED BY <2>1, <2>2, <2>3 DEF WaitsForClaim
<1>5. CASE x \in OtherProcesses
  <2>1. WaitsForOther(x, y) /\ mu # y /\ x \notin Claims
    BY <1>0, <1>1, <1>5 DEF WaitsFor
  <2>2. CASE x \in Writers
    <3>1. other[x].at \in Projects /\ file[other[x].at] = y
      BY <1>0, <1>3, <2>1, <2>2 DEF WaitsForOther, Doing
    <3> QED BY <1>0, <1>2, <2>1, <2>2, <3>1
  <2>3. CASE x \in Movers
    <3>1. /\ Doing(x, "moving") /\ other[x].at \in Projects
          /\ conn[other[x].at] = y \/ file[other[x].at] = y
      BY <1>0, <1>3, <2>1, <2>3 DEF WaitsForOther, Doing
    <3> QED BY <1>0, <1>2, <2>1, <2>3, <3>1 DEF Doing
  <2>4. CASE x = Drop
    <3>1. y \in life.readers
      BY <1>0, <1>1, <2>1, <2>4 DEF WaitsForOther
    <3> QED BY <1>0, <1>1, <2>4, <3>1
  <2> QED BY <1>0, <1>5, <2>2, <2>3, <2>4
<1> QED BY <1>0, <1>4, <1>5

\* In a circle there would be a claim that holds locks, and a project that it
\* waits for, held by another such claim: the names of those projects would grow
\* for ever.
LEMMA NoRing ==
    ASSUME ClaimInv, NEW ring \in SUBSET Processes,
           \A x \in ring : \E y \in ring : WaitsFor(x, y)
    PROVE  ring = {}
<1>0. /\ Drop \notin Claims \cup Writers \cup Movers
      /\ Claims \cap (Writers \cup Movers) = {} /\ Writers \cap Movers = {}
      /\ Processes = Claims \cup Writers \cup Movers \cup {Drop}
      /\ Names \subseteq Nat /\ name \in [Projects -> Names]
  BY ProcessAssumption DEF ProcessAssumption, Processes, OtherProcesses, ClaimInv, ClaimTypeOK
<1>1. CASE life.held
  BY <1>0, <1>1, WaitsUnderLifecycle
<1>2. CASE ~life.held
  <2> DEFINE holders == {c \in ring \cap Claims : Locks(c)}
             wanted == {p \in Projects : \E c, d \in holders : NextProject(c, p) /\ file[p] = d}
             ranks == {name[p] : p \in wanted}
  <2>1. ASSUME NEW c \in holders
        PROVE  \E p \in Projects, d \in holders : NextProject(c, p) /\ file[p] = d
    <3>1. PICK d \in ring : WaitsFor(c, d)
      OBVIOUS
    <3>2. PICK p \in Projects : NextProject(c, p) /\ file[p] = d
      BY <1>2, <3>1, WaitsOtherwise
    <3>3. d \notin Writers
      <4>1. d # NoOne /\ file[p] \in {NoOne} \cup Claims \cup Movers
        BY ProcessAssumption DEF ProcessAssumption, Processes, OtherProcesses, ClaimInv, ClaimTypeOK
      <4> QED BY <1>0, <3>2, <4>1
    <3>4. ~ (d \in Movers /\ Doing(d, "authorizing"))
      <4>1. PICK e \in ring : WaitsFor(d, e)
        OBVIOUS
      <4> QED BY <1>2, <4>1, WaitsOtherwise
    <3>5. d \in Claims /\ Locks(d)
      BY <1>0, <1>2, <3>1, <3>3, <3>4, WaitsOtherwise
    <3> QED BY <3>2, <3>5
  <2>2. ASSUME NEW p \in wanted
        PROVE  \E q \in wanted : name[p] < name[q]
    <3>1. PICK c \in holders, d \in holders : NextProject(c, p) /\ file[p] = d
      OBVIOUS
    <3>2. PICK q \in Projects, e \in holders : NextProject(d, q) /\ file[q] = e
      BY <2>1
    <3>3. PICK z \in ring : WaitsFor(d, z)
      OBVIOUS
    <3>4. Is(d, "walking")
      BY <1>2, <3>3, WaitsOtherwise
    <3>5. p \in Locked(d) /\ q \in GraphProjects(d) \ Locked(d)
      BY <3>1, <3>2 DEF Locked, NextProject
    <3>6. name[p] < name[q]
      BY <3>4, <3>5 DEF ClaimInv, LockInv, LocksInOrder
    <3> QED BY <3>2, <3>6
  <2>3. wanted = {}
    <3> SUFFICES ASSUME wanted # {} PROVE FALSE
      OBVIOUS
    <3>1. PICK last \in Nat : \A n \in Names : n <= last
      BY ProcessAssumption DEF ProcessAssumption
    <3>2. ranks \in SUBSET Nat /\ ranks # {} /\ \A s \in ranks : s <= last
      <4>1. \A p \in wanted : name[p] \in Names
        BY <1>0
      <4> HIDE DEF wanted
      <4> QED BY <1>0, <3>1, <4>1
    <3>3. PICK top \in ranks : \A s \in ranks : s <= top
      <4> HIDE DEF ranks
      <4> QED BY <3>2, Greatest
    <3>4. PICK p \in wanted : top = name[p]
      OBVIOUS
    <3>5. PICK q \in wanted : name[p] < name[q]
      BY <2>2
    <3>6. name[q] <= name[p] /\ name[p] \in Nat /\ name[q] \in Nat
      BY <1>0, <3>3, <3>4
    <3> QED BY <3>5, <3>6
  <2>4. holders = {}
    BY <2>1, <2>3
  <2>5. \A x \in ring : x \notin Writers
    <3> SUFFICES ASSUME NEW x \in ring, x \in Writers PROVE FALSE
      OBVIOUS
    <3>1. PICK y \in ring : WaitsFor(x, y)
      OBVIOUS
    <3>2. PICK z \in ring : WaitsFor(y, z)
      OBVIOUS
    <3> QED BY <1>0, <1>2, <2>4, <3>1, <3>2, WaitsOtherwise
  <2>6. \A x \in ring : x = Drop
    <3> SUFFICES ASSUME NEW x \in ring, x # Drop PROVE FALSE
      OBVIOUS
    <3>1. PICK y \in ring : WaitsFor(x, y)
      OBVIOUS
    <3>2. PICK z \in ring : WaitsFor(y, z)
      OBVIOUS
    <3> QED BY <1>0, <1>2, <2>4, <2>5, <3>1, <3>2, WaitsOtherwise
  <2> QED BY <1>2, <2>6, WaitsOtherwise
<1> QED BY <1>1, <1>2

\* Nobody waits in a circle, whatever the projects, the names and the processes:
\* claims lock in the order of the names, nobody who holds a file waits for a
\* connection, and a lifecycle operation waits only for those who do not need it
\* (dependencyProjects, beginClaimTx, Drop).
THEOREM NoWaitCycleHolds == ClaimSpec => []NoWaitCycle
<1>1. ClaimInv => NoWaitCycle
  <2> SUFFICES ASSUME ClaimInv PROVE NoWaitCycle
    OBVIOUS
  <2> DEFINE waited == [x \in Claims \cup OtherProcesses |->
                           {y \in Claims \cup OtherProcesses : WaitsFor(x, y)}]
             waiters == {x \in DOMAIN waited : waited[x] # {}}
  <2>1. ASSUME NEW ring \in SUBSET waiters, \A x \in ring : waited[x] \cap ring # {}
        PROVE  ring = {}
    <3>1. ring \in SUBSET Processes
      BY DEF Processes
    <3>2. \A x \in ring : \E y \in ring : WaitsFor(x, y)
      BY <2>1
    <3> QED BY <3>1, <3>2, NoRing
  <2> HIDE DEF waiters, waited
  <2>2. ASSUME NEW ring \in (SUBSET waiters) \ {{}}, \A x \in ring : waited[x] \cap ring # {}
        PROVE  FALSE
    BY <2>1, <2>2
  <2>3. ~ \E ring \in (SUBSET waiters) \ {{}} : \A x \in ring : waited[x] \cap ring # {}
    BY <2>2
  <2> QED BY <2>3, Zenon DEF NoWaitCycle, waiters, waited
<1> QED BY ClaimInvInit, ClaimInvStep, <1>1, PTL DEF ClaimSpec
===============================================================================
