---------------------------- MODULE Machines_proofs ----------------------------
(***************************************************************************)
(* Theorems about what a machine keeps for itself and shares with a hub:   *)
(* the cursors of its event sync, the keys and the credential of its       *)
(* enrollment, and the files bound to a shared document.                   *)
(***************************************************************************)
EXTENDS EventSync, Enrollment, SharedDocs, NumberSets

-----------------------------------------------------------------------------
(* Event sync: types. *)

SyncSites == SyncMachines \cup {SyncHub}
SyncStates ==
    [phase : {"none", "push", "pull"}, ids : SUBSET SyncProjects, todo : SUBSET SyncProjects,
     since : Int, started : Nat, failed : BOOLEAN, landed : BOOLEAN, cut : BOOLEAN,
     unread : SUBSET SyncEvents]

SyncTypeOK ==
    /\ time \in Nat
    /\ journal \in [SyncSites -> [SyncEvents -> Int]]
    /\ queued \in [SyncMachines -> SUBSET SyncEvents]
    /\ bound \in [SyncMachines -> SUBSET SyncProjects]
    /\ cursor \in [SyncMachines -> [push : Int, pull : Int]]
    /\ sync \in [SyncMachines -> SyncStates]
    /\ passed \in [SyncMachines -> [push : SUBSET SyncEvents, pull : SUBSET SyncEvents]]

\* No id and no cursor is ahead of its site's clock; what is queued came from the hub.
ClocksBound ==
    /\ \A s \in SyncSites, e \in SyncEvents : NoEvent <= journal[s][e] /\ journal[s][e] <= Clock(s)
    /\ \A m \in SyncMachines : cursor[m].push <= Clock(m) /\ cursor[m].pull <= Clock(m)
    /\ \A m \in SyncMachines : \A e \in queued[m] : Has(SyncHub, e)

\* A leg is no longer than the client's timeout, and covers the projects of the start.
LegOK(m) ==
    /\ OldProjects \subseteq bound[m]
    /\ sync[m].phase # "none" => /\ sync[m].started <= time /\ time <= sync[m].started + LegTime
                                 /\ OldProjects \subseteq sync[m].ids
    /\ sync[m].phase = "push" => sync[m].since = ShiftBack(cursor[m].push) /\ ~sync[m].cut
    /\ sync[m].phase = "pull" => sync[m].since = ShiftBack(cursor[m].pull)

Unpushed(m, e) == Has(m, e) /\ ~Has(SyncHub, e)
Unpulled(m, e) == Has(SyncHub, e) /\ ~Has(m, e) /\ e \notin queued[m]

Left(m, e) == EventProject[e] \in sync[m].todo \/ e \in sync[m].unread \/ sync[m].cut

\* What one side has and the other has not is in reach of the cursor, unless a leg that
\* could not open its project passed over it; if the leg under way is done with its
\* project and read it, it was appended during that leg.
Reached(m, e) ==
    /\ Unpushed(m, e) /\ e \notin passed[m].push =>
          /\ WillPush(m, e)
          /\ sync[m].phase = "push" /\ ~Left(m, e) => journal[m][e] >= sync[m].started + Skew[m]
    /\ Unpulled(m, e) /\ e \notin passed[m].pull =>
          /\ WillPull(m, e)
          /\ sync[m].phase = "pull" /\ ~Left(m, e) => journal[SyncHub][e] >= sync[m].started

OldEvents == {e \in SyncEvents \ BadEvents : EventProject[e] \in OldProjects}

SyncInv ==
    /\ SyncTypeOK /\ ClocksBound
    /\ \A m \in SyncMachines : LegOK(m)
    /\ \A m \in SyncMachines, e \in OldEvents : Reached(m, e)

\* The invariant holds at the start.
LEMMA SyncInvInit == EventSyncInit => SyncInv
<1> SUFFICES ASSUME EventSyncInit PROVE SyncInv
  OBVIOUS
<1>1. NoEvent = -1 /\ NoSync \in SyncStates /\ NoSync.phase = "none"
  BY DEF NoEvent, NoSync, SyncStates
<1>2. SyncTypeOK
  BY <1>1, SyncAssumption DEF EventSyncInit, SyncTypeOK, SyncAssumption, SyncSites
<1>3. ClocksBound
  BY <1>1, SyncAssumption DEF EventSyncInit, ClocksBound, SyncAssumption, SyncSites, Clock
<1>4. \A m \in SyncMachines : LegOK(m)
  BY <1>1 DEF EventSyncInit, LegOK
<1>5. \A m \in SyncMachines, e \in OldEvents : ~Has(m, e) /\ ~Has(SyncHub, e)
  BY DEF EventSyncInit, Has, OldEvents
<1> QED BY <1>2, <1>3, <1>4, <1>5 DEF SyncInv, Reached, Unpushed, Unpulled

-----------------------------------------------------------------------------
(* Appends. *)

\* Journals only grow, and a new id is the time by the site's clock.
Grow ==
    /\ UNCHANGED time
    /\ journal' \in [SyncSites -> [SyncEvents -> Int]]
    /\ \A s \in SyncSites, e \in SyncEvents :
          journal'[s][e] = journal[s][e] \/ (~Has(s, e) /\ journal'[s][e] = Clock(s))

\* An append at one site gives the events that it has not yet the time by its clock.
LEMMA AppendGrows ==
    ASSUME SyncTypeOK, NEW site \in SyncSites, NEW events \in SUBSET SyncEvents, UNCHANGED time,
           journal' = [journal EXCEPT ![site] = AppendTo(site, events, journal[site])]
    PROVE  /\ Grow
           /\ \A e \in events : journal'[site][e] = IF Has(site, e) THEN journal[site][e] ELSE Clock(site)
           /\ \A s \in SyncSites, e \in SyncEvents :
                 s # site \/ e \notin events => journal'[s][e] = journal[s][e]
<1>1. Clock(site) \in Int /\ NoEvent \in Int
  BY SyncAssumption DEF SyncTypeOK, Clock, SyncSites, SyncAssumption, NoEvent
<1>2. AppendTo(site, events, journal[site]) =
         [e \in SyncEvents |-> IF e \in events /\ ~Has(site, e) THEN Clock(site) ELSE journal[site][e]]
  BY DEF AppendTo, Has
<1>3. /\ journal' \in [SyncSites -> [SyncEvents -> Int]]
      /\ \A s \in SyncSites \ {site} : journal'[s] = journal[s]
      /\ \A e \in SyncEvents :
            journal'[site][e] = IF e \in events /\ ~Has(site, e) THEN Clock(site) ELSE journal[site][e]
  BY <1>1, <1>2 DEF SyncTypeOK
<1> QED BY <1>3 DEF Grow

\* Journals that grow stay behind the clocks, and what is unpushed or unpulled is new.
LEMMA GrowKeeps ==
    ASSUME SyncInv, Grow, UNCHANGED cursor, queued' \in [SyncMachines -> SUBSET SyncEvents],
           \A m \in SyncMachines : \A e \in queued'[m] : Has(SyncHub, e)
    PROVE  /\ ClocksBound'
           /\ \A s \in SyncSites, e \in SyncEvents : Has(s, e) => Has(s, e)' /\ journal'[s][e] = journal[s][e]
           /\ \A s \in SyncSites, e \in SyncEvents : ~Has(s, e) /\ Has(s, e)' => journal'[s][e] = Clock(s)
<1>1. \A s \in SyncSites : Clock(s)' = Clock(s) /\ Clock(s) \in Nat /\ NoEvent = -1
  BY SyncAssumption DEF Grow, Clock, SyncSites, SyncAssumption, SyncInv, SyncTypeOK, NoEvent
<1>2. /\ \A s \in SyncSites, e \in SyncEvents : Has(s, e) => Has(s, e)' /\ journal'[s][e] = journal[s][e]
      /\ \A s \in SyncSites, e \in SyncEvents : ~Has(s, e) /\ Has(s, e)' => journal'[s][e] = Clock(s)
  BY DEF Grow, Has
<1>3. \A s \in SyncSites, e \in SyncEvents : NoEvent <= journal'[s][e] /\ journal'[s][e] <= Clock(s)'
  BY <1>1 DEF Grow, SyncInv, ClocksBound
<1>4. SyncHub \in SyncSites /\ SyncMachines \subseteq SyncSites
  BY DEF SyncSites
<1>5. \A m \in SyncMachines : \A e \in queued'[m] : Has(SyncHub, e)'
  BY <1>2, <1>4 DEF Has, SyncInv, SyncTypeOK, Grow
<1> QED BY <1>1, <1>2, <1>3, <1>4, <1>5 DEF ClocksBound, SyncInv

\* What is unpushed or unpulled after an append stays in reach, and of the projects
\* that the leg under way is done with it is new.
LEMMA ReachedGrows ==
    ASSUME SyncInv, Grow, UNCHANGED <<cursor, passed>>, NEW m \in SyncMachines, NEW e \in OldEvents,
           e \in queued[m] => e \in queued'[m] \/ Has(m, e)',
           sync'[m].phase # "none" /\ ~Left(m, e)' =>
              \/ sync'[m].phase = "push" /\ ~(Unpushed(m, e)' /\ e \notin passed[m].push)
              \/ sync'[m].phase = "pull" /\ ~(Unpulled(m, e)' /\ e \notin passed[m].pull)
              \/ /\ sync'[m].phase = sync[m].phase /\ sync'[m].started = sync[m].started
                 /\ ~Left(m, e)
    PROVE  Reached(m, e)'
<1> DEFINE hub == SyncHub
<1>0. /\ e \in SyncEvents /\ m \in SyncSites /\ hub \in SyncSites /\ NoEvent = -1
      /\ time \in Nat /\ Skew[m] \in Nat /\ Overlap \in Nat /\ LegTime \in Nat /\ Skew[m] + LegTime <= Overlap
      /\ Clock(m) = time + Skew[m] /\ Clock(hub) = time
      /\ {journal[m][e], journal[hub][e], cursor[m].push, cursor[m].pull, sync[m].started} \subseteq Int
      /\ cursor[m].push <= time + Skew[m] /\ cursor[m].pull <= time + Skew[m]
      /\ Reached(m, e) /\ LegOK(m)
  <2>1. Clock(m) = time + Skew[m] /\ Clock(hub) = time
    BY SyncAssumption DEF SyncAssumption, Clock
  <2>2. cursor[m] \in [push : Int, pull : Int] /\ sync[m] \in SyncStates
    BY DEF SyncInv, SyncTypeOK
  <2>3. /\ cursor[m].push <= Clock(m) /\ cursor[m].pull <= Clock(m)
        /\ Reached(m, e) /\ LegOK(m) /\ time \in Nat
    BY DEF SyncInv, SyncTypeOK, ClocksBound
  <2>4. journal[m][e] \in Int /\ journal[hub][e] \in Int
    BY DEF SyncInv, SyncTypeOK, SyncSites, OldEvents
  <2>5. cursor[m].push \in Int /\ cursor[m].pull \in Int /\ sync[m].started \in Int
    BY <2>2 DEF SyncStates
  <2> QED BY <2>1, <2>3, <2>4, <2>5, SyncAssumption DEF SyncAssumption, SyncSites, OldEvents, NoEvent
<1>1. /\ Has(m, e) => Has(m, e)' /\ journal'[m][e] = journal[m][e]
      /\ Has(hub, e) => Has(hub, e)' /\ journal'[hub][e] = journal[hub][e]
      /\ ~Has(m, e) /\ Has(m, e)' => journal'[m][e] = Clock(m)
      /\ ~Has(hub, e) /\ Has(hub, e)' => journal'[hub][e] = Clock(hub)
  BY <1>0 DEF Grow, Has
<1>2. ASSUME Unpushed(m, e)', e \notin passed'[m].push
      PROVE  /\ WillPush(m, e)'
             /\ sync'[m].phase = "push" /\ ~Left(m, e)' => journal'[m][e] >= sync'[m].started + Skew[m]
  <2>1. CASE Has(m, e)
    <3>1. Unpushed(m, e) /\ journal'[m][e] = journal[m][e]
      BY <1>1, <1>2, <2>1 DEF Unpushed
    <3>2. WillPush(m, e)'
      BY <1>0, <1>2, <3>1 DEF Reached, WillPush, ShiftBack
    <3> QED BY <1>0, <1>2, <3>1, <3>2 DEF Reached
  <2>2. CASE ~Has(m, e)
    <3>1. journal'[m][e] = time + Skew[m]
      BY <1>0, <1>1, <1>2, <2>2 DEF Unpushed
    <3>2. WillPush(m, e)'
      BY <1>0, <3>1 DEF WillPush, ShiftBack
    <3>3. ASSUME sync'[m].phase = "push", ~Left(m, e)' PROVE journal'[m][e] >= sync'[m].started + Skew[m]
      <4>1. sync[m].phase = "push" /\ sync'[m].started = sync[m].started /\ sync[m].started <= time
        BY <1>0, <1>2, <3>3 DEF LegOK
      <4> QED BY <1>0, <3>1, <4>1
    <3> QED BY <3>2, <3>3
  <2> QED BY <2>1, <2>2
<1>3. ASSUME Unpulled(m, e)', e \notin passed'[m].pull
      PROVE  /\ WillPull(m, e)'
             /\ sync'[m].phase = "pull" /\ ~Left(m, e)' => journal'[hub][e] >= sync'[m].started
  <2>1. CASE Has(hub, e)
    <3>1. Unpulled(m, e) /\ journal'[hub][e] = journal[hub][e]
      BY <1>1, <1>3, <2>1 DEF Unpulled
    <3>2. WillPull(m, e)'
      BY <1>0, <1>3, <3>1 DEF Reached, WillPull, ShiftBack
    <3> QED BY <1>0, <1>3, <3>1, <3>2 DEF Reached
  <2>2. CASE ~Has(hub, e)
    <3>1. journal'[hub][e] = time
      BY <1>0, <1>1, <1>3, <2>2 DEF Unpulled
    <3>2. WillPull(m, e)'
      BY <1>0, <3>1 DEF WillPull, ShiftBack
    <3>3. ASSUME sync'[m].phase = "pull", ~Left(m, e)' PROVE journal'[hub][e] >= sync'[m].started
      <4>1. sync[m].phase = "pull" /\ sync'[m].started = sync[m].started /\ sync[m].started <= time
        BY <1>0, <1>3, <3>3 DEF LegOK
      <4> QED BY <1>0, <3>1, <4>1
    <3> QED BY <3>2, <3>3
  <2> QED BY <2>1, <2>2
<1> QED BY <1>2, <1>3 DEF Reached

-----------------------------------------------------------------------------
(* Steps of the journals. *)

\* An append beside the syncs.
LEMMA BesideStep ==
    ASSUME SyncInv, Grow, UNCHANGED <<cursor, sync, passed>>,
           bound' \in [SyncMachines -> SUBSET SyncProjects],
           \A m \in SyncMachines : bound[m] \subseteq bound'[m],
           queued' \in [SyncMachines -> SUBSET SyncEvents],
           \A m \in SyncMachines : queued'[m] \subseteq queued[m],
           \A m \in SyncMachines : \A e \in queued[m] \ queued'[m] : Has(m, e)'
    PROVE  SyncInv'
<1>1. \A m \in SyncMachines : \A e \in queued'[m] : Has(SyncHub, e)
  BY DEF SyncInv, ClocksBound
<1>2. ClocksBound'
  BY <1>1, GrowKeeps
<1>3. SyncTypeOK'
  BY DEF SyncInv, SyncTypeOK, Grow
<1>4. \A m \in SyncMachines : LegOK(m)'
  BY DEF SyncInv, LegOK, Grow
<1>5. ASSUME NEW m \in SyncMachines, NEW e \in OldEvents PROVE Reached(m, e)'
  <2>1. LegOK(m) /\ (e \in queued[m] => e \in queued'[m] \/ Has(m, e)')
        /\ sync[m].phase \in {"none", "push", "pull"}
    BY DEF SyncInv, SyncTypeOK, SyncStates
  <2> QED BY <2>1, ReachedGrows DEF LegOK, Left
<1> QED BY <1>2, <1>3, <1>4, <1>5 DEF SyncInv

\* Time passes, within the client's timeouts.
LEMMA TickStep == SyncInv /\ Tick => SyncInv'
<1> SUFFICES ASSUME SyncInv, Tick PROVE SyncInv'
  OBVIOUS
<1>0. /\ time' = time + 1 /\ time \in Nat /\ UNCHANGED <<journal, queued, bound, cursor, sync, passed>>
      /\ \A m \in SyncMachines : sync[m].phase # "none" => time < sync[m].started + LegTime
  BY DEF Tick, SyncInv, SyncTypeOK
<1>1. SyncTypeOK'
  BY <1>0 DEF SyncInv, SyncTypeOK
<1>2. ClocksBound'
  <2>1. \A s \in SyncSites : Clock(s) \in Nat /\ Clock(s)' = Clock(s) + 1
    BY <1>0, SyncAssumption DEF Clock, SyncAssumption, SyncSites
  <2>2. /\ \A s \in SyncSites, e \in SyncEvents : journal[s][e] \in Int
        /\ \A m \in SyncMachines : cursor[m].push \in Int /\ cursor[m].pull \in Int /\ m \in SyncSites
    BY DEF SyncInv, SyncTypeOK, SyncSites
  <2> QED BY <1>0, <2>1, <2>2 DEF SyncInv, ClocksBound, Has
<1>3. ASSUME NEW m \in SyncMachines PROVE LegOK(m)'
  <2>1. sync[m].started \in Nat /\ LegTime \in Nat
    BY SyncAssumption DEF SyncAssumption, SyncInv, SyncTypeOK, SyncStates
  <2> QED BY <1>0, <2>1 DEF SyncInv, LegOK, ShiftBack
<1>4. ASSUME NEW m \in SyncMachines, NEW e \in OldEvents PROVE Reached(m, e)'
  BY <1>0 DEF SyncInv, Reached, Left, Unpushed, Unpulled, Has, WillPush, WillPull, ShiftBack
<1> QED BY <1>1, <1>2, <1>3, <1>4 DEF SyncInv

\* Two journals are written in one step.
LEMMA SubmitStep ==
    ASSUME SyncInv, NEW m \in SyncMachines, NEW e \in SyncEvents, SubmitEvent(m, e)
    PROVE  SyncInv'
<1>1. PICK pushed \in BOOLEAN :
         journal' = [journal EXCEPT ![m] = AppendTo(m, {e}, @),
                                    ![SyncHub] = IF pushed THEN AppendTo(SyncHub, {e}, @) ELSE @]
  BY DEF SubmitEvent
<1>2. /\ bound' = [bound EXCEPT ![m] = bound[m] \cup {EventProject[e]}]
      /\ UNCHANGED <<time, queued, cursor, sync, passed>> /\ SyncTypeOK
      /\ {m, SyncHub} \subseteq SyncSites /\ m # SyncHub /\ EventProject[e] \in SyncProjects
  BY SyncAssumption DEF SubmitEvent, SyncInv, SyncAssumption, SyncSites
<1>3. \A s \in {m, SyncHub} : Clock(s) \in Int
  <2>1. time \in Nat /\ Skew[m] \in Nat
    BY <1>2, SyncAssumption DEF SyncTypeOK, SyncAssumption
  <2> QED BY <2>1 DEF Clock
<1>4. \A s \in {m, SyncHub} :
         AppendTo(s, {e}, journal[s]) =
            [x \in SyncEvents |-> IF x = e /\ ~Has(s, x) THEN Clock(s) ELSE journal[s][x]]
  BY DEF AppendTo, Has
<1>5. journal \in [SyncSites -> [SyncEvents -> Int]]
  BY <1>2 DEF SyncTypeOK
<1>6. /\ \A s \in SyncSites \ {m, SyncHub} : journal'[s] = journal[s]
      /\ journal'[m] = AppendTo(m, {e}, journal[m])
      /\ journal'[SyncHub] \in {journal[SyncHub], AppendTo(SyncHub, {e}, journal[SyncHub])}
      /\ journal' \in [SyncSites -> [SyncEvents -> Int]]
  <2>1. \A s \in {m, SyncHub} : AppendTo(s, {e}, journal[s]) \in [SyncEvents -> Int]
    BY <1>2, <1>3, <1>4, <1>5
  <2> QED BY <1>1, <1>2, <1>5, <2>1
<1>7. Grow
  BY <1>2, <1>4, <1>5, <1>6 DEF Grow
<1> QED BY <1>2, <1>7, BesideStep DEF SyncTypeOK

\* An append at the hub from elsewhere, or at a machine from its spool.
LEMMA AppendStep ==
    ASSUME SyncInv, NEW e \in SyncEvents,
           SubmitElsewhere(e) \/ \E m \in SyncMachines : ReplayImport(m, e)
    PROVE  SyncInv'
<1>0. SyncTypeOK /\ SyncHub \in SyncSites
  BY DEF SyncInv, SyncSites
<1>1. CASE SubmitElsewhere(e)
  <2>1. Grow
    BY <1>0, <1>1, AppendGrows DEF SubmitElsewhere
  <2> QED BY <1>0, <1>1, <2>1, BesideStep DEF SubmitElsewhere, SyncTypeOK
<1>2. CASE \E m \in SyncMachines : ReplayImport(m, e)
  <2>1. PICK m \in SyncMachines : ReplayImport(m, e)
    BY <1>2
  <2>2. /\ queued' = [queued EXCEPT ![m] = queued[m] \ {e}] /\ m \in SyncSites
        /\ journal' = [journal EXCEPT ![m] = AppendTo(m, {e}, journal[m])]
        /\ UNCHANGED <<time, bound, cursor, sync, passed>>
    BY <2>1 DEF ReplayImport, SyncSites
  <2>3. Grow /\ journal'[m][e] = IF Has(m, e) THEN journal[m][e] ELSE Clock(m)
    BY <1>0, <2>2, AppendGrows
  <2>4. Clock(m) # NoEvent
    BY <1>0, SyncAssumption DEF Clock, NoEvent, SyncTypeOK, SyncAssumption
  <2>5. Has(m, e)'
    BY <2>3, <2>4 DEF Has, NoEvent
  <2>6. queued' \in [SyncMachines -> SUBSET SyncEvents] /\ queued'[m] = queued[m] \ {e}
        /\ \A n \in SyncMachines \ {m} : queued'[n] = queued[n]
    BY <1>0, <2>2 DEF SyncTypeOK
  <2> QED BY <1>0, <2>2, <2>3, <2>5, <2>6, BesideStep DEF SyncTypeOK
<1> QED BY <1>1, <1>2

-----------------------------------------------------------------------------
(* Steps of a sync. *)

\* A sync ends, or goes on to a leg of which no project is done yet.
LEMMA LegBegins ==
    ASSUME SyncInv, NEW m \in SyncMachines, NEW ids \in SUBSET SyncProjects, NEW from \in Int,
           Stops(m) \/ \E phase \in {"push", "pull"} : Leg(m, phase, ids, from)
    PROVE  /\ sync' \in [SyncMachines -> SyncStates]
           /\ \A n \in SyncMachines \ {m} : sync'[n] = sync[n]
           /\ ~sync'[m].cut /\ sync'[m].unread = {}
           /\ Stops(m) => sync'[m].phase = "none"
           /\ \A phase \in {"push", "pull"} :
                 Leg(m, phase, ids, from) =>
                    /\ sync'[m].phase = phase /\ sync'[m].ids = ids /\ sync'[m].todo = ids
                    /\ sync'[m].since = ShiftBack(from) /\ sync'[m].started = time
<1>1. SyncTypeOK /\ ShiftBack(from) \in Int /\ time \in Nat
  BY SyncAssumption DEF SyncInv, SyncTypeOK, ShiftBack, SyncAssumption
<1>2. NoSync \in SyncStates /\ NoSync.phase = "none" /\ ~NoSync.cut /\ NoSync.unread = {}
  BY DEF NoSync, SyncStates
<1>3. ASSUME NEW phase \in {"push", "pull"}, Leg(m, phase, ids, from)
      PROVE  /\ sync'[m] \in SyncStates /\ ~sync'[m].cut /\ sync'[m].unread = {}
             /\ sync'[m].phase = phase /\ sync'[m].ids = ids /\ sync'[m].todo = ids
             /\ sync'[m].since = ShiftBack(from) /\ sync'[m].started = time
             /\ sync' = [sync EXCEPT ![m] = sync'[m]]
  <2> DEFINE state == [NoSync EXCEPT !.phase = phase, !.ids = ids, !.todo = ids,
                                     !.since = ShiftBack(from), !.started = time]
  <2>1. /\ state \in SyncStates /\ ~state.cut /\ state.unread = {} /\ state.phase = phase /\ state.ids = ids
        /\ state.todo = ids /\ state.since = ShiftBack(from) /\ state.started = time
    BY <1>1 DEF NoSync, SyncStates
  <2>2. sync' = [sync EXCEPT ![m] = state]
    BY <1>3, Zenon DEF Leg
  <2> HIDE DEF state
  <2> QED BY <1>1, <2>1, <2>2 DEF SyncTypeOK
<1>4. CASE Stops(m)
  <2>1. sync' = [sync EXCEPT ![m] = NoSync]
    BY <1>4 DEF Stops
  <2> QED BY <1>1, <1>2, <1>3, <2>1 DEF SyncTypeOK
<1>5. CASE \E phase \in {"push", "pull"} : Leg(m, phase, ids, from)
  <2>1. PICK phase \in {"push", "pull"} : Leg(m, phase, ids, from)
    BY <1>5
  <2>2. sync'[m] \in SyncStates /\ sync' = [sync EXCEPT ![m] = sync'[m]] /\ sync'[m].phase # "none"
    BY <1>3, <2>1
  <2>3. ~Stops(m)
    BY <1>1, <1>2, <2>2 DEF Stops, SyncTypeOK
  <2> QED BY <1>1, <1>3, <2>1, <2>2, <2>3 DEF SyncTypeOK
<1> QED BY <1>4, <1>5

\* A sync begins or breaks off.
LEMMA BeginSyncStep ==
    ASSUME SyncInv, NEW m \in SyncMachines, BeginSync(m) \/ BreakSync(m)
    PROVE  SyncInv'
<1>0. /\ UNCHANGED <<time, journal, queued, bound, cursor, passed>>
      /\ Stops(m) \/ (sync[m].phase = "none" /\ Leg(m, "push", bound[m], cursor[m].push))
      /\ bound[m] \in SUBSET SyncProjects /\ cursor[m].push \in Int /\ LegOK(m) /\ LegTime \in Nat /\ time \in Nat
  BY SyncAssumption DEF BeginSync, BreakSync, SyncInv, SyncTypeOK, SyncAssumption
<1>1. /\ sync' \in [SyncMachines -> SyncStates] /\ ~sync'[m].cut
      /\ \A n \in SyncMachines \ {m} : sync'[n] = sync[n]
      /\ \/ sync'[m].phase = "none"
         \/ /\ sync'[m].phase = "push" /\ sync'[m].ids = bound[m] /\ sync'[m].todo = bound[m]
            /\ sync'[m].since = ShiftBack(cursor[m].push) /\ sync'[m].started = time
  BY <1>0, LegBegins
<1>2. SyncTypeOK' /\ ClocksBound'
  BY <1>0, <1>1 DEF SyncInv, SyncTypeOK, ClocksBound, Clock, Has
<1>3. LegOK(m)'
  BY <1>0, <1>1 DEF LegOK, ShiftBack
<1>4. \A n \in SyncMachines \ {m} : LegOK(n)'
  BY <1>0, <1>1 DEF SyncInv, LegOK, ShiftBack
<1>5. ASSUME NEW n \in SyncMachines, NEW e \in OldEvents PROVE Reached(n, e)'
  <2>1. n = m => sync'[m].phase = "none" \/ (sync'[m].phase = "push" /\ EventProject[e] \in sync'[m].todo)
    BY <1>0, <1>1 DEF LegOK, OldEvents
  <2>2. Reached(n, e)
    BY DEF SyncInv
  <2>3. /\ Unpushed(n, e)' = Unpushed(n, e) /\ WillPush(n, e)' = WillPush(n, e)
        /\ Unpulled(n, e)' = Unpulled(n, e) /\ WillPull(n, e)' = WillPull(n, e)
    BY <1>0 DEF Unpushed, Unpulled, Has, WillPush, WillPull, ShiftBack
  <2> QED BY <1>0, <1>1, <2>1, <2>2, <2>3 DEF Reached, Left
<1> QED BY <1>2, <1>3, <1>4, <1>5 DEF SyncInv

\* A project is sent: of what its receiver did not refuse, the receiver has all now.
LEMMA SentStep ==
    ASSUME SyncInv, NEW m \in SyncMachines, NEW p \in SyncProjects, NEW failed, NEW landed, Sent(m, p, failed, landed)
    PROVE  /\ sync' \in [SyncMachines -> SyncStates]
           /\ \A n \in SyncMachines \ {m} : sync'[n] = sync[n]
           /\ sync'[m].phase = sync[m].phase /\ sync'[m].todo = sync[m].todo \ {p} /\ sync'[m].cut = sync[m].cut
           /\ sync'[m].ids = sync[m].ids /\ sync'[m].since = sync[m].since /\ sync'[m].started = sync[m].started
           /\ sync'[m].unread = sync[m].unread
<1> DEFINE a == [sync[m] EXCEPT !.todo = sync[m].todo \ {p}]
           b == [a EXCEPT !.failed = sync[m].failed \/ failed # {}]
           c == [b EXCEPT !.landed = sync[m].landed \/ landed # {}]
<1>1. sync \in [SyncMachines -> SyncStates]
  BY DEF SyncInv, SyncTypeOK
<1>2. sync' = [sync EXCEPT ![m] = c]
  BY <1>1 DEF Sent, SyncStates
<1>3. /\ c \in SyncStates /\ c.phase = sync[m].phase /\ c.todo = sync[m].todo \ {p} /\ c.cut = sync[m].cut
      /\ c.ids = sync[m].ids /\ c.since = sync[m].since /\ c.started = sync[m].started
      /\ c.unread = sync[m].unread
  BY <1>1 DEF SyncStates
<1> HIDE DEF c
<1> QED BY <1>1, <1>2, <1>3

\* A project is pushed.
LEMMA PushStep ==
    ASSUME SyncInv, NEW m \in SyncMachines, NEW p \in SyncProjects, PushProject(m, p)
    PROVE  SyncInv'
<1> DEFINE sent == DumpSince(m, p, sync[m].since)
<1>1. PICK failed \in SUBSET (sent \cap BadEvents) :
         /\ journal' = [journal EXCEPT ![SyncHub] = AppendTo(SyncHub, sent \ failed, @)]
         /\ Sent(m, p, failed, sent \ failed)
  BY DEF PushProject
<1>2. /\ sync[m].phase = "push" /\ UNCHANGED <<time, queued, bound, cursor, passed>>
      /\ SyncTypeOK /\ LegOK(m) /\ SyncHub \in SyncSites /\ m \in SyncSites /\ m # SyncHub
      /\ sent \ failed \in SUBSET SyncEvents
  BY SyncAssumption DEF PushProject, SyncInv, DumpSince, SyncSites, SyncAssumption
<1>3. /\ sync' \in [SyncMachines -> SyncStates]
      /\ \A n \in SyncMachines \ {m} : sync'[n] = sync[n]
      /\ sync'[m].phase = sync[m].phase /\ sync'[m].todo = sync[m].todo \ {p} /\ sync'[m].cut = sync[m].cut
      /\ sync'[m].ids = sync[m].ids /\ sync'[m].since = sync[m].since /\ sync'[m].started = sync[m].started
      /\ sync'[m].unread = sync[m].unread
  BY <1>1, SentStep
<1> HIDE DEF sent
<1>4. /\ Grow
      /\ \A e \in sent \ failed :
            journal'[SyncHub][e] = IF Has(SyncHub, e) THEN journal[SyncHub][e] ELSE Clock(SyncHub)
      /\ \A s \in SyncSites, e \in SyncEvents : s # SyncHub \/ e \notin sent \ failed => journal'[s][e] = journal[s][e]
  BY <1>1, <1>2, AppendGrows
<1>5. \A e \in sent \ failed : Has(SyncHub, e)'
  <2>1. Clock(SyncHub) # NoEvent
    BY <1>2 DEF Clock, NoEvent, SyncTypeOK
  <2> QED BY <1>4, <2>1 DEF Has, NoEvent
<1>6. /\ queued' \in [SyncMachines -> SUBSET SyncEvents]
      /\ \A n \in SyncMachines : \A e \in queued'[n] : Has(SyncHub, e)
  BY <1>2 DEF SyncInv, ClocksBound, SyncTypeOK
<1>7. SyncTypeOK' /\ ClocksBound'
  BY <1>2, <1>3, <1>4, <1>6, GrowKeeps DEF SyncTypeOK, Grow
<1>8. ASSUME NEW n \in SyncMachines PROVE LegOK(n)'
  <2>1. LegOK(n) /\ (n # m => sync'[n] = sync[n])
    BY <1>3 DEF SyncInv
  <2> QED BY <1>2, <1>3, <2>1 DEF LegOK, ShiftBack
<1>9. ASSUME NEW n \in SyncMachines, NEW e \in OldEvents PROVE Reached(n, e)'
  <2>1. CASE n = m /\ EventProject[e] = p
    <3>1. ASSUME Unpushed(m, e)', e \notin passed[m].push PROVE FALSE
      <4>1. Has(m, e) /\ ~Has(SyncHub, e) /\ e \notin sent \ failed /\ e \in SyncEvents /\ e \notin BadEvents
        BY <1>2, <1>4, <1>5, <3>1, GrowKeeps, <1>6 DEF Unpushed, Has, OldEvents
      <4>2. WillPush(m, e)
        BY <3>1, <4>1 DEF SyncInv, Reached, Unpushed
      <4>3. e \in sent
        BY <1>2, <2>1, <4>1, <4>2 DEF WillPush, DumpSince, LegOK, sent
      <4> QED BY <1>1, <4>1, <4>3
    <3> QED BY <1>2, <1>3, <1>4, <2>1, <3>1, ReachedGrows DEF LegOK, Left
  <2>2. CASE n = m /\ EventProject[e] # p
    BY <1>2, <1>3, <1>4, <2>2, ReachedGrows DEF LegOK, Left
  <2>3. CASE n # m
    <3>1. LegOK(n) /\ sync'[n] = sync[n] /\ sync[n].phase \in {"none", "push", "pull"}
      BY <1>2, <1>3, <2>3 DEF SyncInv, SyncTypeOK, SyncStates
    <3> QED BY <1>2, <1>4, <3>1, ReachedGrows DEF LegOK, Left
  <2> QED BY <2>1, <2>2, <2>3
<1> QED BY <1>7, <1>8, <1>9 DEF SyncInv

\* A project is pulled; what the local service does not take is in the spool.
LEMMA PullStep ==
    ASSUME SyncInv, NEW m \in SyncMachines, NEW p \in SyncProjects, PullProject(m, p)
    PROVE  SyncInv'
<1> DEFINE sent == DumpSince(SyncHub, p, sync[m].since)
<1>1. PICK failed \in SUBSET (sent \cap BadEvents) : \E spooled \in SUBSET (sent \ failed) :
         /\ journal' = [journal EXCEPT ![m] = AppendTo(m, sent \ (failed \cup spooled), @)]
         /\ queued' = [queued EXCEPT ![m] = @ \cup spooled]
         /\ Sent(m, p, failed, sent \ failed)
  BY DEF PullProject
<1>a. PICK spooled \in SUBSET (sent \ failed) :
         /\ journal' = [journal EXCEPT ![m] = AppendTo(m, sent \ (failed \cup spooled), @)]
         /\ queued' = [queued EXCEPT ![m] = @ \cup spooled]
         /\ Sent(m, p, failed, sent \ failed)
  BY <1>1
<1> DEFINE added == sent \ (failed \cup spooled)
<1>2. /\ sync[m].phase = "pull" /\ UNCHANGED <<time, bound, cursor, passed>>
      /\ SyncTypeOK /\ LegOK(m) /\ SyncHub \in SyncSites /\ m \in SyncSites /\ m # SyncHub
      /\ added \in SUBSET SyncEvents /\ sent \in SUBSET SyncEvents /\ Skew[m] \in Nat
      /\ \A e \in sent : Has(SyncHub, e)
  BY SyncAssumption DEF PullProject, SyncInv, DumpSince, SyncSites, SyncAssumption
<1>3. /\ sync' \in [SyncMachines -> SyncStates]
      /\ \A n \in SyncMachines \ {m} : sync'[n] = sync[n]
      /\ sync'[m].phase = sync[m].phase /\ sync'[m].todo = sync[m].todo \ {p} /\ sync'[m].cut = sync[m].cut
      /\ sync'[m].ids = sync[m].ids /\ sync'[m].since = sync[m].since /\ sync'[m].started = sync[m].started
      /\ sync'[m].unread = sync[m].unread
  BY <1>a, SentStep
<1> HIDE DEF sent
<1>4. /\ Grow
      /\ \A e \in added : journal'[m][e] = IF Has(m, e) THEN journal[m][e] ELSE Clock(m)
      /\ \A s \in SyncSites, e \in SyncEvents : s # m \/ e \notin added => journal'[s][e] = journal[s][e]
  BY <1>a, <1>2, AppendGrows
<1>5. \A e \in added : Has(m, e)'
  <2>1. Clock(m) # NoEvent
    BY <1>2 DEF Clock, NoEvent, SyncTypeOK
  <2> QED BY <1>4, <2>1 DEF Has, NoEvent
<1>6. /\ queued' \in [SyncMachines -> SUBSET SyncEvents] /\ queued'[m] = queued[m] \cup spooled
      /\ \A n \in SyncMachines : queued[n] \subseteq queued'[n]
      /\ \A n \in SyncMachines : \A e \in queued'[n] : Has(SyncHub, e)
  BY <1>a, <1>2 DEF SyncInv, ClocksBound, SyncTypeOK
<1>7. SyncTypeOK' /\ ClocksBound'
  BY <1>2, <1>3, <1>4, <1>6, GrowKeeps DEF SyncTypeOK, Grow
<1>8. ASSUME NEW n \in SyncMachines PROVE LegOK(n)'
  <2>1. LegOK(n) /\ (n # m => sync'[n] = sync[n])
    BY <1>3 DEF SyncInv
  <2> QED BY <1>2, <1>3, <2>1 DEF LegOK, ShiftBack
<1>9. ASSUME NEW n \in SyncMachines, NEW e \in OldEvents PROVE Reached(n, e)'
  <2>a. e \in queued[n] => e \in queued'[n]
    BY <1>6
  <2>1. CASE n = m /\ EventProject[e] = p
    <3>1. ASSUME Unpulled(m, e)', e \notin passed[m].pull PROVE FALSE
      <4>1. /\ Has(SyncHub, e) /\ ~Has(m, e) /\ e \notin added /\ e \notin queued'[m]
            /\ e \in SyncEvents /\ e \notin BadEvents
        BY <1>2, <1>4, <1>5, <3>1, GrowKeeps, <1>6 DEF Unpulled, Has, OldEvents
      <4>2. WillPull(m, e)
        BY <1>6, <3>1, <4>1 DEF SyncInv, Reached, Unpulled
      <4>3. e \in sent
        BY <1>2, <2>1, <4>1, <4>2 DEF WillPull, DumpSince, LegOK, sent
      <4> QED BY <1>1, <1>6, <4>1, <4>3
    <3> QED BY <1>2, <1>3, <1>4, <2>a, <2>1, <3>1, ReachedGrows DEF LegOK, Left
  <2>2. CASE n = m /\ EventProject[e] # p
    BY <1>2, <1>3, <1>4, <2>a, <2>2, ReachedGrows DEF LegOK, Left
  <2>3. CASE n # m
    <3>1. LegOK(n) /\ sync'[n] = sync[n] /\ sync[n].phase \in {"none", "push", "pull"}
      BY <1>2, <1>3, <2>3 DEF SyncInv, SyncTypeOK, SyncStates
    <3> QED BY <1>2, <1>4, <2>a, <3>1, ReachedGrows DEF LegOK, Left
  <2> QED BY <2>1, <2>2, <2>3
<1> QED BY <1>7, <1>8, <1>9 DEF SyncInv

\* The stream from the hub ends early: nothing counts as done.
LEMMA CutStep ==
    ASSUME SyncInv, NEW m \in SyncMachines, CutStream(m)
    PROVE  SyncInv'
<1> DEFINE a == [sync[m] EXCEPT !.todo = {}]
           b == [a EXCEPT !.cut = TRUE]
<1>1. /\ sync' = [sync EXCEPT ![m].todo = {}, ![m].cut = TRUE] /\ sync[m].phase = "pull"
      /\ UNCHANGED <<time, journal, queued, bound, cursor, passed>> /\ SyncTypeOK /\ LegOK(m)
  BY DEF CutStream, SyncInv
<1>2. sync' = [sync EXCEPT ![m] = b]
  BY <1>1 DEF SyncTypeOK, SyncStates
<1>3. /\ b \in SyncStates /\ b.phase = "pull" /\ b.cut = TRUE /\ b.ids = sync[m].ids
      /\ b.since = sync[m].since /\ b.started = sync[m].started
  BY <1>1 DEF SyncTypeOK, SyncStates
<1> HIDE DEF b
<1>4. /\ sync' \in [SyncMachines -> SyncStates] /\ sync'[m] = b
      /\ \A n \in SyncMachines \ {m} : sync'[n] = sync[n]
  BY <1>1, <1>2, <1>3 DEF SyncTypeOK
<1>5. SyncTypeOK' /\ ClocksBound'
  BY <1>1, <1>4 DEF SyncInv, SyncTypeOK, ClocksBound, Clock, Has
<1>6. ASSUME NEW n \in SyncMachines PROVE LegOK(n)'
  BY <1>1, <1>3, <1>4 DEF SyncInv, LegOK, ShiftBack
<1>7. ASSUME NEW n \in SyncMachines, NEW e \in OldEvents PROVE Reached(n, e)'
  <2>1. Reached(n, e)
    BY DEF SyncInv
  <2>2. /\ Unpushed(n, e)' = Unpushed(n, e) /\ WillPush(n, e)' = WillPush(n, e)
        /\ Unpulled(n, e)' = Unpulled(n, e) /\ WillPull(n, e)' = WillPull(n, e)
    BY <1>1 DEF Unpushed, Unpulled, Has, WillPush, WillPull, ShiftBack
  <2> QED BY <1>1, <1>3, <1>4, <2>1, <2>2 DEF Reached, Left
<1> QED BY <1>5, <1>6, <1>7 DEF SyncInv

\* A project that its sender cannot open counts as done, and as unread.
LEMMA SkipStep ==
    ASSUME SyncInv, NEW m \in SyncMachines, NEW p \in SyncProjects, SkipProject(m, p)
    PROVE  SyncInv'
<1> DEFINE sender == IF sync[m].phase = "push" THEN m ELSE SyncHub
           dump == DumpSince(sender, p, sync[m].since)
           a == [sync[m] EXCEPT !.todo = sync[m].todo \ {p}]
           b == [a EXCEPT !.unread = sync[m].unread \cup dump]
<1>1. /\ sync' = [sync EXCEPT ![m].todo = @ \ {p}, ![m].unread = @ \cup dump]
      /\ sync[m].phase \in {"push", "pull"}
      /\ UNCHANGED <<time, journal, queued, bound, cursor, passed>> /\ SyncTypeOK /\ LegOK(m)
  BY DEF SkipProject, SyncInv
<1>2. dump \in SUBSET SyncEvents
  BY DEF DumpSince
<1>3. sync' = [sync EXCEPT ![m] = b]
  BY <1>1 DEF SyncTypeOK, SyncStates
<1>4. /\ b \in SyncStates /\ b.phase = sync[m].phase /\ b.cut = sync[m].cut /\ b.ids = sync[m].ids
      /\ b.since = sync[m].since /\ b.started = sync[m].started
      /\ b.todo = sync[m].todo \ {p} /\ b.unread = sync[m].unread \cup dump
  BY <1>1, <1>2 DEF SyncTypeOK, SyncStates
<1> HIDE DEF b
<1>5. /\ sync' \in [SyncMachines -> SyncStates] /\ sync'[m] = b
      /\ \A n \in SyncMachines \ {m} : sync'[n] = sync[n]
  BY <1>1, <1>3, <1>4 DEF SyncTypeOK
<1>6. SyncTypeOK' /\ ClocksBound'
  BY <1>1, <1>5 DEF SyncInv, SyncTypeOK, ClocksBound, Clock, Has
<1>7. ASSUME NEW n \in SyncMachines PROVE LegOK(n)'
  BY <1>1, <1>4, <1>5 DEF SyncInv, LegOK, ShiftBack
<1>8. ASSUME NEW n \in SyncMachines, NEW e \in OldEvents PROVE Reached(n, e)'
  <2>1. Reached(n, e)
    BY DEF SyncInv
  <2>2. /\ Unpushed(n, e)' = Unpushed(n, e) /\ WillPush(n, e)' = WillPush(n, e)
        /\ Unpulled(n, e)' = Unpulled(n, e) /\ WillPull(n, e)' = WillPull(n, e)
    BY <1>1 DEF Unpushed, Unpulled, Has, WillPush, WillPull, ShiftBack
  <2>3. CASE n = m /\ EventProject[e] = p
    <3>1. sync[m].phase = "push" /\ Unpushed(m, e) /\ WillPush(m, e) => e \in dump
      BY <1>1, <2>3 DEF Unpushed, WillPush, DumpSince, LegOK, OldEvents
    <3>2. sync[m].phase = "pull" /\ Unpulled(m, e) /\ WillPull(m, e) => e \in dump
      BY <1>1, <2>3 DEF Unpulled, WillPull, DumpSince, LegOK, OldEvents
    <3> HIDE DEF dump
    <3> QED BY <1>1, <1>4, <1>5, <2>1, <2>2, <2>3, <3>1, <3>2 DEF Reached, Left
  <2> HIDE DEF dump
  <2>4. CASE n = m /\ EventProject[e] # p
    BY <1>1, <1>4, <1>5, <2>1, <2>2, <2>4 DEF Reached, Left
  <2>5. CASE n # m
    BY <1>1, <1>5, <2>1, <2>2, <2>5 DEF Reached, Left
  <2> QED BY <2>3, <2>4, <2>5
<1> QED BY <1>6, <1>7, <1>8 DEF SyncInv

\* A machine's newest id is that of an event, and its clock has passed it.
LEMMA NewestID ==
    ASSUME SyncInv, NEW m \in SyncMachines, NEW opened
    PROVE  LocalMaxEventID(m, opened) \in Int /\ LocalMaxEventID(m, opened) <= Clock(m)
<1> DEFINE ids == {NoEvent} \cup {journal[m][e] : e \in {x \in SyncEvents : EventProject[x] \in opened}}
           above == {i + 1 : i \in ids}
<1>1. /\ Clock(m) \in Nat /\ NoEvent = -1
      /\ \A e \in SyncEvents : journal[m][e] \in Int /\ -1 <= journal[m][e] /\ journal[m][e] <= Clock(m)
  BY SyncAssumption DEF SyncInv, SyncTypeOK, ClocksBound, SyncSites, Clock, SyncAssumption, NoEvent
<1>2. \A i \in ids : i \in Int /\ -1 <= i /\ i <= Clock(m)
  BY <1>1
<1>3. NoEvent \in ids /\ ids = {NoEvent} \cup {journal[m][e] : e \in {x \in SyncEvents : EventProject[x] \in opened}}
  OBVIOUS
<1> HIDE DEF ids
<1>4. above \in SUBSET Nat /\ above # {} /\ (\A k \in above : k <= Clock(m) + 1) /\ Clock(m) + 1 \in Nat
  BY <1>1, <1>2, <1>3
<1>5. PICK top \in above : \A k \in above : k <= top
  BY <1>4, Greatest
<1>6. PICK newest \in ids : top = newest + 1
  BY <1>5
<1>7. \A i \in ids : newest >= i
  <2>1. \A i \in ids : i + 1 <= newest + 1
    BY <1>5, <1>6
  <2> QED BY <1>2, <2>1
<1>8. Max(ids) \in ids
  BY <1>7 DEF Max
<1> QED BY <1>2, <1>3, <1>8 DEF LocalMaxEventID

\* After a leg a cursor is the newest id or stays, and what was unread is passed over.
LEMMA CursorAdvances ==
    ASSUME SyncInv, NEW m \in SyncMachines, NEW leg \in {"push", "pull"}, AdvanceCursor(m, leg)
    PROVE  /\ cursor' \in [SyncMachines -> [push : Int, pull : Int]]
           /\ passed' \in [SyncMachines -> [push : SUBSET SyncEvents, pull : SUBSET SyncEvents]]
           /\ \A n \in SyncMachines \ {m} : cursor'[n] = cursor[n] /\ passed'[n] = passed[n]
           /\ \/ UNCHANGED <<cursor, passed>>
              \/ /\ leg = "push"
                 /\ cursor'[m].push \in Int /\ cursor'[m].push <= Clock(m) /\ cursor'[m].pull = cursor[m].pull
                 /\ passed'[m].push = passed[m].push \cup sync[m].unread /\ passed'[m].pull = passed[m].pull
              \/ /\ leg = "pull"
                 /\ cursor'[m].pull \in Int /\ cursor'[m].pull <= Clock(m) /\ cursor'[m].push = cursor[m].push
                 /\ passed'[m].pull = passed[m].pull \cup sync[m].unread /\ passed'[m].push = passed[m].push
<1>1. /\ SyncTypeOK /\ sync[m].unread \in SUBSET SyncEvents
      /\ cursor \in [SyncMachines -> [push : Int, pull : Int]]
      /\ passed \in [SyncMachines -> [push : SUBSET SyncEvents, pull : SUBSET SyncEvents]]
  BY DEF SyncInv, SyncTypeOK, SyncStates
<1>2. CASE UNCHANGED <<cursor, passed>>
  BY <1>1, <1>2
<1>3. CASE ~UNCHANGED <<cursor, passed>>
  <2>1. PICK opened \in SUBSET SyncProjects :
           /\ cursor' = [cursor EXCEPT ![m][leg] = LocalMaxEventID(m, opened)]
           /\ passed' = [passed EXCEPT ![m][leg] = @ \cup sync[m].unread]
    BY <1>3 DEF AdvanceCursor
  <2>2. LocalMaxEventID(m, opened) \in Int /\ LocalMaxEventID(m, opened) <= Clock(m)
    BY NewestID
  <2>3. CASE leg = "push"
    BY <1>1, <2>1, <2>2, <2>3
  <2>4. CASE leg = "pull"
    BY <1>1, <2>1, <2>2, <2>4
  <2> QED BY <2>3, <2>4
<1> QED BY <1>2, <1>3

\* A leg is over: what its receiver still lacks was appended while it ran, and is
\* within the overlap of the newest id.
LEMMA EndLegStep ==
    ASSUME SyncInv, NEW m \in SyncMachines, EndPush(m) \/ EndPull(m)
    PROVE  SyncInv'
<1>0. /\ UNCHANGED <<time, journal, queued, bound>> /\ SyncTypeOK /\ LegOK(m)
      /\ sync[m].phase \in {"push", "pull"} /\ sync[m].todo = {}
      /\ time \in Nat /\ Skew[m] \in Nat /\ Clock(m) = time + Skew[m] /\ sync[m].started \in Nat
      /\ Overlap \in Nat /\ LegTime \in Nat /\ Skew[m] + LegTime <= Overlap
      /\ cursor[m].push \in Int /\ cursor[m].pull \in Int
  <2>1. time \in Nat /\ Clock(m) = time + Skew[m] /\ sync[m] \in SyncStates /\ SyncTypeOK /\ LegOK(m)
        /\ cursor[m] \in [push : Int, pull : Int]
    BY SyncAssumption DEF SyncInv, SyncTypeOK, Clock, SyncAssumption
  <2>2. sync[m].started \in Nat /\ cursor[m].push \in Int /\ cursor[m].pull \in Int
    BY <2>1 DEF SyncStates
  <2> QED BY <2>1, <2>2, SyncAssumption DEF EndPush, EndPull, SyncAssumption
<1> DEFINE Advanced(new, before, after) ==
              /\ new \in Int /\ new <= Clock(m) /\ after = before \cup sync[m].unread /\ ~sync[m].cut
<1>1. /\ cursor' \in [SyncMachines -> [push : Int, pull : Int]]
      /\ passed' \in [SyncMachines -> [push : SUBSET SyncEvents, pull : SUBSET SyncEvents]]
      /\ \A n \in SyncMachines \ {m} : cursor'[n] = cursor[n] /\ passed'[n] = passed[n]
      /\ \/ cursor'[m].push = cursor[m].push /\ passed'[m].push = passed[m].push
         \/ sync[m].phase = "push" /\ Advanced(cursor'[m].push, passed[m].push, passed'[m].push)
      /\ \/ cursor'[m].pull = cursor[m].pull /\ passed'[m].pull = passed[m].pull
         \/ sync[m].phase = "pull" /\ Advanced(cursor'[m].pull, passed[m].pull, passed'[m].pull)
  <2>1. CASE AdvanceCursor(m, "push") /\ sync[m].phase = "push"
    BY <1>0, <2>1, CursorAdvances DEF LegOK
  <2>2. CASE AdvanceCursor(m, "pull") /\ sync[m].phase = "pull" /\ ~sync[m].cut
    BY <1>0, <2>2, CursorAdvances
  <2>3. CASE UNCHANGED <<cursor, passed>>
    BY <1>0, <2>3 DEF SyncTypeOK
  <2> QED BY <2>1, <2>2, <2>3 DEF EndPush, EndPull, StreamComplete
<1>2. /\ sync' \in [SyncMachines -> SyncStates] /\ ~sync'[m].cut
      /\ \A n \in SyncMachines \ {m} : sync'[n] = sync[n]
      /\ \/ sync'[m].phase = "none"
         \/ /\ sync'[m].phase = "pull" /\ sync'[m].ids = sync[m].ids /\ sync'[m].todo = sync[m].ids
            /\ sync'[m].since = ShiftBack(cursor'[m].pull) /\ sync'[m].started = time
  <2>1. sync[m].ids \in SUBSET SyncProjects
    BY <1>0 DEF SyncTypeOK, SyncStates
  <2>2. CASE Stops(m)
    BY <1>0, <2>1, <2>2, LegBegins
  <2>3. CASE Leg(m, "pull", sync[m].ids, cursor[m].pull) /\ sync[m].phase = "push"
    <3>1. cursor'[m].pull = cursor[m].pull
      BY <1>1, <2>3
    <3> QED BY <1>0, <2>1, <2>3, <3>1, LegBegins
  <2> QED BY <2>2, <2>3 DEF EndPush, EndPull
<1>3. SyncTypeOK'
  BY <1>0, <1>1, <1>2 DEF SyncTypeOK
<1>4. ClocksBound'
  <2>1. \A n \in SyncMachines : cursor'[n].push <= Clock(n) /\ cursor'[n].pull <= Clock(n)
    BY <1>0, <1>1 DEF SyncInv, ClocksBound
  <2> QED BY <1>0, <2>1 DEF SyncInv, ClocksBound, Clock, Has
<1>5. LegOK(m)'
  BY <1>0, <1>2 DEF LegOK, ShiftBack
<1>6. \A n \in SyncMachines \ {m} : LegOK(n)'
  BY <1>0, <1>1, <1>2 DEF SyncInv, LegOK, ShiftBack
<1>7. ASSUME NEW n \in SyncMachines, NEW e \in OldEvents PROVE Reached(n, e)'
  <2>1. Reached(n, e)
    BY DEF SyncInv
  <2>2. Unpushed(n, e)' = Unpushed(n, e) /\ Unpulled(n, e)' = Unpulled(n, e)
    BY <1>0 DEF Unpushed, Unpulled, Has
  <2>3. CASE n # m
    <3>1. WillPush(n, e)' = WillPush(n, e) /\ WillPull(n, e)' = WillPull(n, e)
      BY <1>0, <1>1, <2>3 DEF WillPush, WillPull, ShiftBack
    <3> QED BY <1>0, <1>1, <1>2, <2>1, <2>2, <2>3, <3>1 DEF Reached, Left
  <2>4. CASE n = m
    <3>1. journal[m][e] \in Int /\ journal[SyncHub][e] \in Int
      BY <1>0 DEF SyncTypeOK, SyncSites, OldEvents
    <3>2. sync[m].started <= time /\ time <= sync[m].started + LegTime
      BY <1>0 DEF LegOK
    <3>3. Unpushed(m, e) /\ e \notin passed'[m].push => WillPush(m, e)'
      <4>1. CASE cursor'[m].push = cursor[m].push /\ passed'[m].push = passed[m].push
        BY <1>0, <2>1, <2>4, <4>1 DEF Reached, WillPush, ShiftBack
      <4>2. CASE sync[m].phase = "push" /\ Advanced(cursor'[m].push, passed[m].push, passed'[m].push)
        <5>1. Unpushed(m, e) /\ e \notin passed'[m].push => journal[m][e] >= sync[m].started + Skew[m]
          BY <1>0, <2>1, <2>4, <4>2 DEF Reached, Left
        <5>2. Unpushed(m, e) /\ e \notin passed'[m].push => journal[m][e] >= cursor'[m].push - Overlap
          BY <1>0, <3>1, <3>2, <4>2, <5>1
        <5> QED BY <1>0, <5>2 DEF WillPush, ShiftBack
      <4> QED BY <1>1, <4>1, <4>2
    <3>4. Unpulled(m, e) /\ e \notin passed'[m].pull => WillPull(m, e)'
      <4>1. CASE cursor'[m].pull = cursor[m].pull /\ passed'[m].pull = passed[m].pull
        BY <1>0, <2>1, <2>4, <4>1 DEF Reached, WillPull, ShiftBack
      <4>2. CASE sync[m].phase = "pull" /\ Advanced(cursor'[m].pull, passed[m].pull, passed'[m].pull)
        <5>1. Unpulled(m, e) /\ e \notin passed'[m].pull => journal[SyncHub][e] >= sync[m].started
          BY <1>0, <2>1, <2>4, <4>2 DEF Reached, Left
        <5>2. Unpulled(m, e) /\ e \notin passed'[m].pull => journal[SyncHub][e] >= cursor'[m].pull - Overlap
          BY <1>0, <3>1, <3>2, <4>2, <5>1
        <5> QED BY <1>0, <5>2 DEF WillPull, ShiftBack
      <4> QED BY <1>1, <4>1, <4>2
    <3>5. sync'[m].phase = "none" \/ (sync'[m].phase = "pull" /\ EventProject[e] \in sync'[m].todo)
      BY <1>0, <1>2 DEF LegOK, OldEvents
    <3> QED BY <2>2, <2>4, <3>3, <3>4, <3>5 DEF Reached, Left
  <2> QED BY <2>3, <2>4
<1> QED BY <1>3, <1>4, <1>5, <1>6, <1>7 DEF SyncInv

\* Every step of the syncs keeps the invariant.
LEMMA SyncInvStep == SyncInv /\ [EventSyncNext]_syncVars => SyncInv'
<1> SUFFICES ASSUME SyncInv, [EventSyncNext]_syncVars PROVE SyncInv'
  OBVIOUS
<1>1. CASE UNCHANGED syncVars
  BY <1>1 DEF syncVars, SyncInv, SyncTypeOK, ClocksBound, Clock, Has, LegOK, Reached, Left, Unpushed,
     Unpulled, WillPush, WillPull, ShiftBack
<1>2. CASE EventSyncNext
  BY <1>2, TickStep, SubmitStep, AppendStep, BeginSyncStep, PushStep, PullStep, SkipStep, CutStep, EndLegStep
     DEF EventSyncNext
<1> QED BY <1>1, <1>2

\* A cursor passes over an event of a project that the machine had from the start only
\* with a leg that could not open the project: the overlap makes up for the clocks' skew
\* and for the length of a leg, whatever is appended during a leg, spooled, cut off or
\* killed (syncOneHTTP, syncEventsOut, DumpSince).
THEOREM NoEventSkippedHolds == EventSyncSpec => []NoEventSkipped
<1>1. SyncInv => NoEventSkipped
  BY DEF SyncInv, Reached, Unpushed, Unpulled, OldEvents, NoEventSkipped
<1> QED BY SyncInvInit, SyncInvStep, <1>1, PTL DEF EventSyncSpec

-----------------------------------------------------------------------------
(* Enrollment: types. *)

CodeStates == [state : {"none", "issued", "revoked", "redeemed"}, key : Nat]
PendingFiles == [phase : {"none", "empty", "sending", "delivered"}, key : Nat]
Stored == Credentials \cup {NoCredential}
RunPlaces ==
    {"reading", "checking", "creating", "writing", "rechecking", "sending", "opening", "conflicting",
     "storing", "verifying", "finishing"}
Outcomes == {"none", "refused", "unreachable", "unverified", "enrolled", "stopped"}
IdleRuns == [at : {"idle"}, outcome : Outcomes]
BusyRuns ==
    [at : RunPlaces, bundle : Bundles, hubs : [HubNames -> Stored], key : Nat, first : BOOLEAN,
     again : BOOLEAN]

EnrollTypeOK ==
    /\ code \in [Bundles -> CodeStates]
    /\ pending \in [Bundles -> PendingFiles]
    /\ hubFile \in [HubNames -> Stored]
    /\ createLock \in Runs \cup {NoRun}
    /\ keysMade \in Nat
    /\ run \in [Runs -> IdleRuns \cup BusyRuns]

-----------------------------------------------------------------------------
(* What a run of the command may rely on. *)

Busy(r) == run[r].at # "idle"

\* A credential that is or was accepted, or none.
Known(c) == c = NoCredential \/ c \in accepted \cup onceRefused

\* The keys a run uses are those on disk until the bundle is enrolled; the file a run
\* is about to write is empty and its own; a credential that is delivered was accepted,
\* and a first run that goes on past it was refused the one in the file.
RunOK(r) ==
    LET b == run[r].bundle
        at == run[r].at IN
    Busy(r) =>
       /\ at \in {"rechecking", "sending", "opening", "conflicting", "storing"} =>
             run[r].key # NoKey /\ (b \notin enrolled => pending[b].key = run[r].key)
       /\ at = "writing" => createLock = r /\ (b \notin enrolled => pending[b] = Empty)
       /\ at \in {"opening", "storing"} => b \in accepted \cup onceRefused
       /\ at = "reading" => run[r].first = FALSE
       /\ run[r].first = TRUE /\ at \in {"creating", "writing", "rechecking", "sending"} =>
             Found(r) = NoCredential \/ Found(r) \in onceRefused
       /\ \A h \in HubNames : Known(run[r].hubs[h])

Redeemed(b) ==
    code[b].state = "redeemed" =>
       code[b].key # NoKey /\ (b \notin enrolled => pending[b].key = code[b].key)

EnrollInv ==
    /\ EnrollTypeOK
    /\ \A r \in Runs : RunOK(r)
    /\ \A b \in Bundles : Redeemed(b)
    /\ \A h \in HubNames : Known(hubFile[h])

\* The invariant holds at the start.
LEMMA EnrollInvInit == EnrollInit => EnrollInv
<1> SUFFICES ASSUME EnrollInit PROVE EnrollInv
  OBVIOUS
<1>1. NoFile \in PendingFiles /\ Ended("none") \in IdleRuns /\ Ended("none").at = "idle"
  BY DEF NoFile, PendingFiles, NoKey, Ended, IdleRuns, Outcomes
<1>2. \A b \in Bundles : code[b] \in CodeStates /\ code[b].state = "none"
  BY DEF EnrollInit, CodeStates, NoKey
<1>3. EnrollTypeOK
  BY <1>1, <1>2 DEF EnrollInit, EnrollTypeOK, Stored, Credentials
<1>4. \A r \in Runs : RunOK(r)
  BY <1>1 DEF EnrollInit, RunOK, Busy
<1>5. \A h \in HubNames : Known(hubFile[h])
  BY DEF EnrollInit, Known
<1> QED BY <1>2, <1>3, <1>4, <1>5 DEF EnrollInv, Redeemed

\* What is on disk for a bundle that is not enrolled stays, unless there was no key in it.
DiskKeeps ==
    /\ enrolled \subseteq enrolled' /\ onceRefused \subseteq onceRefused'
    /\ accepted \cup onceRefused \subseteq accepted' \cup onceRefused'
    /\ pending' \in [Bundles -> PendingFiles]
    /\ \A b \in Bundles \ enrolled' :
          \/ pending'[b] = pending[b]
          \/ pending'[b].key = pending[b].key /\ pending[b].key # NoKey
          \/ pending[b].key = NoKey /\ createLock \in {NoRun} \cup {r \in Runs : run'[r] # run[r]}
    /\ \A r \in Runs : createLock = r /\ run'[r] = run[r] => createLock' = r

\* A run that does not move keeps what it relies on.
LEMMA OtherRun ==
    ASSUME EnrollInv, DiskKeeps, NEW q \in Runs, run'[q] = run[q]
    PROVE  RunOK(q)'
<1>1. /\ RunOK(q) /\ q # NoRun /\ run[q] \in IdleRuns \cup BusyRuns
      /\ Empty.key = NoKey
  BY EnrollAssumption DEF EnrollAssumption, EnrollInv, EnrollTypeOK, Empty
<1>2. CASE ~Busy(q)
  BY <1>2 DEF RunOK, Busy
<1>3. CASE Busy(q)
  <2> DEFINE b == run[q].bundle
  <2>1. b \in Bundles
    BY <1>1, <1>3 DEF IdleRuns, BusyRuns, Busy
  <2>2. \A c : Known(c) => Known(c)'
    BY DEF DiskKeeps, Known
  <2>3. \A h \in HubNames : Known(run[q].hubs[h])'
    BY <1>1, <1>3, <2>2 DEF RunOK
  <2>4. Found(q)' = Found(q)
    BY DEF Found
  <2>5. run[q].at \in {"rechecking", "sending", "opening", "conflicting", "storing"} =>
           run[q].key # NoKey /\ (b \notin enrolled' => pending'[b].key = run[q].key)
    BY <1>1, <1>3, <2>1 DEF RunOK, DiskKeeps
  <2>6. run[q].at = "writing" => createLock' = q /\ (b \notin enrolled' => pending'[b] = Empty)
    BY <1>1, <1>3, <2>1 DEF RunOK, DiskKeeps
  <2>7. run[q].at \in {"opening", "storing"} => b \in accepted' \cup onceRefused'
    BY <1>1, <1>3 DEF RunOK, DiskKeeps
  <2>8. run[q].first = TRUE /\ run[q].at \in {"creating", "writing", "rechecking", "sending"} =>
             Found(q) = NoCredential \/ Found(q) \in onceRefused'
    BY <1>1, <1>3 DEF RunOK, DiskKeeps
  <2>9. run[q].at = "reading" => run[q].first = FALSE
    BY <1>1, <1>3 DEF RunOK
  <2> QED BY <2>3, <2>4, <2>5, <2>6, <2>7, <2>8, <2>9 DEF RunOK, Busy
<1> QED BY <1>2, <1>3

\* The ledger changes beside the runs.
LEMMA LedgerStep ==
    ASSUME EnrollInv,
           \/ \E b \in Bundles : IssueEnrollment(b) \/ RevokeEnrollment(b) \/ TimePasses(b)
           \/ \E c \in Credentials : DisableUser(c) \/ EnableUser(c)
    PROVE  EnrollInv'
<1>0. /\ UNCHANGED <<clientFiles, run, enrolled>> /\ EnrollTypeOK
      /\ onceRefused \subseteq onceRefused' /\ accepted \cup onceRefused \subseteq accepted' \cup onceRefused'
  BY DEF IssueEnrollment, RevokeEnrollment, TimePasses, DisableUser, EnableUser, EnrollInv
<1>1. DiskKeeps
  BY <1>0 DEF DiskKeeps, EnrollTypeOK, clientFiles
<1>2. \A r \in Runs : RunOK(r)'
  BY <1>0, <1>1, OtherRun
<1>3. code' \in [Bundles -> CodeStates] /\ \A b \in Bundles : code'[b] = code[b] \/ code'[b].state # "redeemed"
  <2>1. CASE UNCHANGED code
    BY <1>0, <2>1 DEF EnrollTypeOK
  <2>2. ASSUME NEW b \in Bundles, NEW s \in {"issued", "revoked"}, code' = [code EXCEPT ![b].state = s]
        PROVE  /\ code' \in [Bundles -> CodeStates]
               /\ \A x \in Bundles : code'[x] = code[x] \/ code'[x].state # "redeemed"
    BY <1>0, <2>2 DEF EnrollTypeOK, CodeStates
  <2> QED BY <2>1, <2>2 DEF IssueEnrollment, RevokeEnrollment, TimePasses, DisableUser, EnableUser
<1>4. \A b \in Bundles : Redeemed(b)'
  BY <1>0, <1>3 DEF EnrollInv, Redeemed, clientFiles
<1>5. \A h \in HubNames : Known(hubFile[h])'
  BY <1>0 DEF EnrollInv, Known, clientFiles
<1>6. EnrollTypeOK'
  BY <1>0, <1>3 DEF EnrollTypeOK, clientFiles
<1> QED BY <1>2, <1>4, <1>5, <1>6 DEF EnrollInv

-----------------------------------------------------------------------------
(* Steps of a run. *)

\* One run moves, and the ledger and the files change as they may.
LEMMA RunStep ==
    ASSUME EnrollInv, NEW r \in Runs, run' = [run EXCEPT ![r] = run'[r]],
           run'[r] \in IdleRuns \cup BusyRuns, RunOK(r)', DiskKeeps,
           code' \in [Bundles -> CodeStates], \A b \in Bundles : Redeemed(b)',
           hubFile' \in [HubNames -> Stored], \A h \in HubNames : Known(hubFile[h])',
           createLock' \in Runs \cup {NoRun}, keysMade' \in Nat
    PROVE  EnrollInv'
<1>1. run' \in [Runs -> IdleRuns \cup BusyRuns] /\ \A q \in Runs \ {r} : run'[q] = run[q]
  BY DEF EnrollInv, EnrollTypeOK
<1>2. \A q \in Runs : RunOK(q)'
  BY <1>1, OtherRun
<1>3. EnrollTypeOK'
  BY <1>1 DEF EnrollTypeOK, DiskKeeps
<1> QED BY <1>2, <1>3 DEF EnrollInv

\* The same of a step that changes neither ledger nor files.
LEMMA QuietRun ==
    ASSUME EnrollInv, NEW r \in Runs, run' = [run EXCEPT ![r] = run'[r]],
           run'[r] \in IdleRuns \cup BusyRuns, UNCHANGED <<ledgerRows, clientFiles, enrolled>>, RunOK(r)'
    PROVE  EnrollInv'
<1>1. EnrollTypeOK /\ UNCHANGED <<code, accepted, onceRefused, pending, hubFile, createLock, keysMade>>
  BY DEF EnrollInv, ledgerRows, clientFiles
<1>2. DiskKeeps
  BY <1>1 DEF DiskKeeps, EnrollTypeOK
<1>3. \A b \in Bundles : Redeemed(b)'
  BY <1>1 DEF EnrollInv, Redeemed
<1>4. \A h \in HubNames : Known(hubFile[h])'
  BY <1>1 DEF EnrollInv, Known
<1>5. hubFile' \in [HubNames -> Stored]
  BY <1>1 DEF EnrollTypeOK
<1>6. code' \in [Bundles -> CodeStates] /\ createLock' \in Runs \cup {NoRun} /\ keysMade' \in Nat
  BY <1>1 DEF EnrollTypeOK
<1> QED BY <1>2, <1>3, <1>4, <1>5, <1>6, RunStep

\* A run that is under way is of one bundle.
LEMMA BusyRun ==
    ASSUME EnrollInv, NEW r \in Runs, NEW place \in RunPlaces, At(r, place)
    PROVE  /\ Busy(r) /\ run[r] \in BusyRuns /\ run[r].at = place /\ run[r].bundle \in Bundles
           /\ HubName(run[r].bundle) \in HubNames /\ run[r].key \in Nat /\ EnrollTypeOK
           /\ pending[run[r].bundle] \in PendingFiles /\ RunOK(r) /\ Found(r) \in Stored /\ Known(Found(r))
<1>1. run[r] \in BusyRuns /\ Busy(r) /\ run[r].at = place
  BY DEF EnrollInv, EnrollTypeOK, IdleRuns, BusyRuns, At, Busy, RunPlaces
<1>2. run[r].bundle \in Bundles /\ run[r].key \in Nat /\ run[r].hubs \in [HubNames -> Stored]
  BY <1>1 DEF BusyRuns
<1>3. HubName(run[r].bundle) \in HubNames
  BY <1>2 DEF HubNames
<1>4. RunOK(r) /\ EnrollTypeOK
  BY DEF EnrollInv
<1> QED BY <1>1, <1>2, <1>3, <1>4 DEF EnrollTypeOK, Found, RunOK

\* It goes on to another place.
LEMMA RunGoes ==
    ASSUME NEW r \in Runs, run \in [Runs -> IdleRuns \cup BusyRuns], run[r] \in BusyRuns,
           NEW place \in RunPlaces, Goes(r, place)
    PROVE  /\ run' = [run EXCEPT ![r] = run'[r]] /\ run'[r] \in BusyRuns /\ run'[r].at = place
           /\ Busy(r)' /\ run'[r].bundle = run[r].bundle /\ run'[r].hubs = run[r].hubs
           /\ run'[r].key = run[r].key /\ run'[r].first = run[r].first /\ Found(r)' = Found(r)
<1> DEFINE next == [run[r] EXCEPT !.at = place]
<1>1. /\ next \in BusyRuns /\ next.at = place /\ next.bundle = run[r].bundle /\ next.hubs = run[r].hubs
      /\ next.key = run[r].key /\ next.first = run[r].first /\ place # "idle"
  BY DEF BusyRuns, RunPlaces
<1>2. run' = [run EXCEPT ![r] = next]
  BY DEF Goes
<1> HIDE DEF next
<1> QED BY <1>1, <1>2 DEF Busy, Found

\* It ends.
LEMMA RunEnds ==
    ASSUME NEW r \in Runs, run \in [Runs -> IdleRuns \cup BusyRuns], NEW outcome \in Outcomes,
           Ends(r, outcome)
    PROVE  /\ run' = [run EXCEPT ![r] = run'[r]] /\ run'[r] \in IdleRuns /\ ~Busy(r)' /\ RunOK(r)'
<1>1. Ended(outcome) \in IdleRuns /\ Ended(outcome).at = "idle"
  BY DEF Ended, IdleRuns
<1>2. run' = [run EXCEPT ![r] = Ended(outcome)]
  BY DEF Ends
<1> QED BY <1>1, <1>2 DEF Busy, RunOK

\* Ends that touch neither ledger nor files.
LEMMA QuietEnd ==
    ASSUME EnrollInv, NEW r \in Runs, NEW outcome \in Outcomes, Ends(r, outcome),
           UNCHANGED <<ledgerRows, clientFiles, enrolled>>
    PROVE  EnrollInv'
  BY RunEnds, QuietRun DEF EnrollInv, EnrollTypeOK

\* A run starts: it reads hub.json, and has no keys yet.
LEMMA StartStep ==
    ASSUME EnrollInv, NEW r \in Runs, NEW b \in Bundles, StartRun(r, b)
    PROVE  EnrollInv'
<1> DEFINE next == [at |-> "reading", bundle |-> b, hubs |-> hubFile, key |-> NoKey, first |-> FALSE,
                    again |-> FALSE]
<1>1. next \in BusyRuns /\ next.at = "reading" /\ next.hubs = hubFile /\ next.first = FALSE
  BY DEF EnrollInv, EnrollTypeOK, BusyRuns, RunPlaces, NoKey
<1>2. run' = [run EXCEPT ![r] = next] /\ UNCHANGED <<ledgerRows, clientFiles, enrolled>>
  BY DEF StartRun
<1> HIDE DEF next
<1>3. run'[r] = next
  BY <1>2 DEF EnrollInv, EnrollTypeOK
<1>4. \A h \in HubNames : Known(hubFile[h])'
  BY <1>2 DEF EnrollInv, Known, ledgerRows, clientFiles
<1>5. RunOK(r)'
  BY <1>1, <1>2, <1>3, <1>4 DEF RunOK, clientFiles, Known
<1> QED BY <1>1, <1>2, <1>3, <1>5, QuietRun

\* A run that goes on with what it knows.
LEMMA GoOnStep ==
    ASSUME EnrollInv, NEW r \in Runs, NEW from \in RunPlaces, At(r, from), NEW place \in RunPlaces,
           Goes(r, place), UNCHANGED <<ledgerRows, clientFiles, enrolled>>,
           \/ place \in {"finishing", "verifying"}
           \/ from = "rechecking" /\ place = "sending"
           \/ from = "checking" /\ place = "creating" /\ Found(r) \notin accepted
           \/ from = "sending" /\ place = "conflicting"
    PROVE  EnrollInv'
<1>1. /\ Busy(r) /\ run[r] \in BusyRuns /\ run[r].at = from /\ RunOK(r) /\ Known(Found(r))
      /\ run \in [Runs -> IdleRuns \cup BusyRuns]
  BY BusyRun DEF EnrollTypeOK
<1>2. /\ run' = [run EXCEPT ![r] = run'[r]] /\ run'[r] \in BusyRuns /\ run'[r].at = place
      /\ Busy(r)' /\ run'[r].bundle = run[r].bundle /\ run'[r].hubs = run[r].hubs
      /\ run'[r].key = run[r].key /\ run'[r].first = run[r].first /\ Found(r)' = Found(r)
  BY <1>1, RunGoes
<1>3. UNCHANGED <<accepted, onceRefused, pending, createLock, enrolled>>
  BY DEF ledgerRows, clientFiles
<1>4. RunOK(r)'
  BY <1>1, <1>2, <1>3 DEF RunOK, Known
<1> QED BY <1>2, <1>4, QuietRun

\* The pending file says how a run goes on.
LEMMA ReadPendingStep == ASSUME EnrollInv, NEW r \in Runs, ReadPending(r) PROVE EnrollInv'
<1> DEFINE b == run[r].bundle
<1>0. /\ UNCHANGED <<ledgerRows, clientFiles, enrolled>> /\ run[r] \in BusyRuns /\ b \in Bundles /\ RunOK(r)
      /\ run \in [Runs -> IdleRuns \cup BusyRuns] /\ pending[b].key \in Nat /\ Busy(r)
      /\ UNCHANGED <<accepted, onceRefused, pending, createLock, enrolled>> /\ run[r].at = "reading"
  BY BusyRun DEF ReadPending, RunPlaces, EnrollTypeOK, PendingFiles, ledgerRows, clientFiles
<1>1. CASE Ends(r, "refused")
  BY <1>0, <1>1, QuietEnd DEF Outcomes
<1>2. ASSUME NEW place \in {"checking", "creating"}, Found(r) = NoCredential \/ place = "checking",
             run' = [run EXCEPT ![r].first = TRUE, ![r].at = place]
      PROVE  EnrollInv'
  <2> DEFINE next == [[run[r] EXCEPT !.first = TRUE] EXCEPT !.at = place]
  <2>1. /\ next \in BusyRuns /\ next.at = place /\ next.bundle = b /\ next.hubs = run[r].hubs
    BY <1>0 DEF BusyRuns, RunPlaces
  <2>2. run' = [run EXCEPT ![r] = next]
    BY <1>0, <1>2
  <2> HIDE DEF next
  <2>3. run'[r] = next
    BY <1>0, <2>2
  <2>4. RunOK(r)'
    BY <1>0, <1>2, <2>1, <2>3 DEF RunOK, Known, Found
  <2> QED BY <1>0, <2>1, <2>2, <2>3, <2>4, QuietRun
<1>3. ASSUME NEW place \in {"verifying", "sending"}, place = "sending" => pending[b].key # NoKey,
             run' = [run EXCEPT ![r].at = place, ![r].key = pending[b].key],
             run[r].first # TRUE
      PROVE  EnrollInv'
  <2> DEFINE next == [[run[r] EXCEPT !.at = place] EXCEPT !.key = pending[b].key]
  <2>1. /\ next \in BusyRuns /\ next.at = place /\ next.bundle = b /\ next.hubs = run[r].hubs
        /\ next.key = pending[b].key /\ next.first = run[r].first
    BY <1>0 DEF BusyRuns, RunPlaces
  <2>2. run' = [run EXCEPT ![r] = next]
    BY <1>0, <1>3
  <2> HIDE DEF next
  <2>3. run'[r] = next
    BY <1>0, <2>2
  <2>4. RunOK(r)'
    BY <1>0, <1>3, <2>1, <2>3 DEF RunOK, Known, Found
  <2> QED BY <1>0, <2>1, <2>2, <2>3, <2>4, QuietRun
<1>4. run[r].first # TRUE
  BY <1>0 DEF RunOK
<1>5. CASE Ends(r, "refused") \/ run' = [run EXCEPT ![r].first = TRUE,
                                 ![r].at = IF Found(r) # NoCredential THEN "checking" ELSE "creating"]
  BY <1>1, <1>2, <1>5
<1>6. CASE run' = [run EXCEPT ![r].at = "verifying", ![r].key = pending[b].key]
  BY <1>3, <1>4, <1>6
<1>7. CASE pending[b].key # NoKey /\ run' = [run EXCEPT ![r].at = "sending", ![r].key = pending[b].key]
  BY <1>3, <1>4, <1>7
<1> QED BY <1>5, <1>6, <1>7 DEF ReadPending

\* The credential in the file is checked, before the code is spent and after.
LEMMA CheckSteps ==
    ASSUME EnrollInv, NEW r \in Runs,
           CheckStored(r) \/ Recheck(r) \/ GiveUp(r) \/ AnswerConflict(r) \/ VerifyStored(r)
    PROVE  EnrollInv'
<1>1. {"checking", "rechecking", "conflicting", "verifying", "creating", "sending", "finishing"} \subseteq RunPlaces
      /\ {"refused", "unreachable", "unverified"} \subseteq Outcomes
  BY DEF RunPlaces, Outcomes
<1>2. UNCHANGED <<ledgerRows, clientFiles, enrolled>>
  BY DEF CheckStored, Recheck, GiveUp, AnswerConflict, VerifyStored
<1>3. CASE \E outcome \in {"refused", "unreachable", "unverified"} : Ends(r, outcome)
  BY <1>1, <1>2, <1>3, QuietEnd
<1>4. CASE CheckStored(r) /\ ~ \E outcome \in {"refused", "unreachable", "unverified"} : Ends(r, outcome)
  BY <1>1, <1>2, <1>4, GoOnStep DEF CheckStored
<1>5. CASE Recheck(r)
  BY <1>1, <1>2, <1>5, GoOnStep DEF Recheck
<1>6. CASE AnswerConflict(r) /\ Goes(r, "finishing")
  BY <1>1, <1>2, <1>6, GoOnStep DEF AnswerConflict
<1>7. CASE VerifyStored(r) /\ Goes(r, "finishing")
  BY <1>1, <1>2, <1>7, GoOnStep DEF VerifyStored
<1>8. AnswerConflict(r) => Goes(r, "finishing") \/ \E outcome \in {"refused", "unreachable"} : Ends(r, outcome)
  BY DEF AnswerConflict
<1>9. VerifyStored(r) => Goes(r, "finishing") \/ \E outcome \in {"refused", "unverified", "unreachable"} : Ends(r, outcome)
  BY DEF VerifyStored
<1>10. GiveUp(r) => Ends(r, "unreachable")
  BY DEF GiveUp
<1> QED BY <1>3, <1>4, <1>5, <1>6, <1>7, <1>8, <1>9, <1>10

\* The pending file is looked at under the lock, and made if there is none.
LEMMA LockStep == ASSUME EnrollInv, NEW r \in Runs, LockPending(r) PROVE EnrollInv'
<1> DEFINE b == run[r].bundle
<1>0. /\ UNCHANGED <<ledgerRows, hubFile, keysMade, enrolled>> /\ run[r] \in BusyRuns /\ b \in Bundles /\ RunOK(r)
      /\ run \in [Runs -> IdleRuns \cup BusyRuns] /\ pending[b].key \in Nat /\ Busy(r)
      /\ UNCHANGED <<accepted, onceRefused, code>> /\ run[r].at = "creating" /\ EnrollTypeOK
  BY BusyRun DEF LockPending, RunPlaces, EnrollTypeOK, PendingFiles, ledgerRows
<1>1. CASE UNCHANGED <<pending, createLock>> /\ Ends(r, "refused")
  BY <1>0, <1>1, QuietEnd DEF Outcomes, clientFiles
<1>2. CASE /\ pending[b].key # NoKey /\ UNCHANGED <<pending, createLock>>
           /\ run' = [run EXCEPT ![r].at = "rechecking", ![r].key = pending[b].key]
  <2> DEFINE next == [[run[r] EXCEPT !.at = "rechecking"] EXCEPT !.key = pending[b].key]
  <2>1. /\ next \in BusyRuns /\ next.at = "rechecking" /\ next.bundle = b /\ next.hubs = run[r].hubs
        /\ next.key = pending[b].key /\ next.first = run[r].first
    BY <1>0 DEF BusyRuns, RunPlaces
  <2>2. run' = [run EXCEPT ![r] = next]
    BY <1>0, <1>2
  <2> HIDE DEF next
  <2>3. run'[r] = next
    BY <1>0, <2>2
  <2>4. RunOK(r)'
    BY <1>0, <1>2, <2>1, <2>3 DEF RunOK, Known, Found
  <2> QED BY <1>0, <1>2, <2>1, <2>2, <2>3, <2>4, QuietRun DEF clientFiles
<1>3. CASE /\ createLock = NoRun /\ pending[b].key = NoKey /\ createLock' = r
           /\ pending' = [pending EXCEPT ![b] = Empty] /\ Goes(r, "writing")
  <2>1. /\ run' = [run EXCEPT ![r] = run'[r]] /\ run'[r] \in BusyRuns /\ run'[r].at = "writing"
        /\ Busy(r)' /\ run'[r].bundle = run[r].bundle /\ run'[r].hubs = run[r].hubs
        /\ run'[r].key = run[r].key /\ run'[r].first = run[r].first /\ Found(r)' = Found(r)
    BY <1>0, <1>3, RunGoes DEF RunPlaces
  <2>2. Empty \in PendingFiles /\ Empty.key = NoKey
    BY DEF Empty, PendingFiles, NoKey
  <2>3. pending' \in [Bundles -> PendingFiles] /\ pending'[b] = Empty /\ \A x \in Bundles \ {b} : pending'[x] = pending[x]
    BY <1>0, <1>3, <2>2 DEF EnrollTypeOK
  <2>4. \A q \in Runs : createLock # q
    BY <1>3, EnrollAssumption DEF EnrollAssumption
  <2>5. DiskKeeps
    BY <1>0, <1>3, <2>3, <2>4 DEF DiskKeeps
  <2>6. RunOK(r)'
    BY <1>0, <1>3, <2>1, <2>3 DEF RunOK, Known
  <2>7. \A x \in Bundles : Redeemed(x)'
    BY <1>0, <1>3, <2>2, <2>3 DEF EnrollInv, Redeemed
  <2>8. \A h \in HubNames : Known(hubFile[h])'
    BY <1>0 DEF EnrollInv, Known
  <2> QED BY <1>0, <1>3, <2>1, <2>5, <2>6, <2>7, <2>8, RunStep DEF EnrollTypeOK
<1> QED BY <1>0, <1>1, <1>2, <1>3 DEF LockPending

\* New keys reach the file that was made for them, unless it was removed meanwhile.
LEMMA WriteKeysStep == ASSUME EnrollInv, NEW r \in Runs, WritePending(r) PROVE EnrollInv'
<1> DEFINE b == run[r].bundle
           k == keysMade + 1
<1>0. /\ UNCHANGED <<ledgerRows, hubFile, enrolled>> /\ run[r] \in BusyRuns /\ b \in Bundles /\ RunOK(r)
      /\ run \in [Runs -> IdleRuns \cup BusyRuns] /\ Busy(r) /\ keysMade' = k /\ k \in Nat /\ k # NoKey
      /\ UNCHANGED <<accepted, onceRefused, code>> /\ run[r].at = "writing" /\ EnrollTypeOK
      /\ createLock' = NoRun /\ run' = [run EXCEPT ![r].at = "rechecking", ![r].key = k]
      /\ pending' = IF pending[b] = Empty THEN [pending EXCEPT ![b] = Sending(k)] ELSE pending
  BY BusyRun DEF WritePending, RunPlaces, EnrollTypeOK, PendingFiles, ledgerRows, NoKey
<1> HIDE DEF k
<1>1. Sending(k) \in PendingFiles /\ Sending(k).key = k /\ Empty.key = NoKey
  BY <1>0 DEF Sending, PendingFiles, Empty
<1>2. createLock = r /\ (b \notin enrolled => pending[b] = Empty)
  BY <1>0 DEF RunOK
<1>3. /\ pending' \in [Bundles -> PendingFiles] /\ (b \notin enrolled => pending'[b].key = k)
      /\ \A x \in Bundles \ {b} : pending'[x] = pending[x]
  BY <1>0, <1>1, <1>2 DEF EnrollTypeOK
<1>4. /\ run' = [run EXCEPT ![r] = run'[r]] /\ run'[r] \in BusyRuns /\ run'[r].at = "rechecking"
      /\ run'[r].bundle = b /\ run'[r].hubs = run[r].hubs /\ run'[r].key = k /\ run'[r].first = run[r].first
      /\ run'[r] # run[r]
  <2> DEFINE next == [[run[r] EXCEPT !.at = "rechecking"] EXCEPT !.key = k]
  <2>1. /\ next \in BusyRuns /\ next.at = "rechecking" /\ next.bundle = b /\ next.hubs = run[r].hubs
        /\ next.key = k /\ next.first = run[r].first
    BY <1>0 DEF BusyRuns, RunPlaces
  <2>2. run' = [run EXCEPT ![r] = next]
    BY <1>0
  <2> HIDE DEF next
  <2> QED BY <1>0, <2>1, <2>2
<1>5. DiskKeeps
  <2>1. r \in {q \in Runs : run'[q] # run[q]}
    BY <1>4
  <2> QED BY <1>0, <1>1, <1>2, <1>3, <1>4, <2>1 DEF DiskKeeps
<1>6. RunOK(r)'
  BY <1>0, <1>3, <1>4 DEF RunOK, Known, Found
<1>7. \A x \in Bundles : Redeemed(x)'
  BY <1>0, <1>1, <1>2, <1>3 DEF EnrollInv, Redeemed
<1>8. \A h \in HubNames : Known(hubFile[h])'
  BY <1>0 DEF EnrollInv, Known
<1> QED BY <1>0, <1>4, <1>5, <1>6, <1>7, <1>8, RunStep DEF EnrollTypeOK

\* What the ledger says of a request.
LEMMA VerdictMeans ==
    ASSUME NEW b \in Bundles, NEW k
    PROVE  /\ Verdict(b, k) = "redeemed" => code[b].state = "issued"
           /\ Verdict(b, k) = "replayed" => b \in accepted
  BY DEF Verdict

\* A request reaches the hub with the keys on disk; its answer may be lost.
LEMMA SendStep == ASSUME EnrollInv, NEW r \in Runs, Send(r) PROVE EnrollInv'
<1> DEFINE b == run[r].bundle
           k == run[r].key
           verdict == Verdict(b, k)
<1>0. /\ UNCHANGED <<clientFiles, enrolled, onceRefused>> /\ run[r] \in BusyRuns /\ b \in Bundles /\ RunOK(r)
      /\ run \in [Runs -> IdleRuns \cup BusyRuns] /\ Busy(r) /\ k \in Nat /\ run[r].at = "sending"
      /\ UNCHANGED <<pending, hubFile, createLock, keysMade>> /\ EnrollTypeOK
      /\ RedeemEnrollment(b, k)
      /\ \/ run' = [run EXCEPT ![r].again = TRUE]
         \/ verdict \in {"redeemed", "replayed"} /\ Goes(r, "opening")
         \/ verdict = "conflict" /\ Goes(r, "conflicting")
         \/ verdict = "invalid" /\ Ends(r, "refused")
  <2>1. At(r, "sending") /\ "sending" \in RunPlaces
    BY DEF Send, RunPlaces
  <2>2. /\ run[r] \in BusyRuns /\ b \in Bundles /\ RunOK(r) /\ Busy(r) /\ run[r].key \in Nat
        /\ run[r].at = "sending" /\ EnrollTypeOK /\ HubName(b) \in HubNames
    BY <2>1, BusyRun
  <2>3. run \in [Runs -> IdleRuns \cup BusyRuns]
    BY <2>2 DEF EnrollTypeOK
  <2> QED BY <2>2, <2>3 DEF Send, clientFiles
<1>1. k # NoKey /\ (b \notin enrolled => pending[b].key = k)
  BY <1>0 DEF RunOK
<1> HIDE DEF verdict
<1>2. /\ code' \in [Bundles -> CodeStates] /\ accepted \subseteq accepted'
      /\ verdict \in {"redeemed", "replayed"} => b \in accepted'
      /\ \A x \in Bundles : code'[x] = code[x] \/ (x = b /\ code'[x].key = k)
  <2>1. CASE verdict = "redeemed"
    <3>1. /\ code' = [code EXCEPT ![b] = [state |-> "redeemed", key |-> k]]
          /\ accepted' = accepted \cup {b}
      BY <1>0, <2>1 DEF RedeemEnrollment, verdict
    <3> QED BY <1>0, <3>1 DEF EnrollTypeOK, CodeStates
  <2>2. CASE verdict # "redeemed"
    <3>1. UNCHANGED <<code, accepted>>
      BY <1>0, <2>2 DEF RedeemEnrollment, verdict
    <3> QED BY <1>0, <2>2, <3>1, VerdictMeans DEF EnrollTypeOK, verdict
  <2> QED BY <2>1, <2>2
<1>3. DiskKeeps
  BY <1>0, <1>2 DEF DiskKeeps, EnrollTypeOK
<1>4. \A x \in Bundles : Redeemed(x)'
  BY <1>0, <1>1, <1>2 DEF EnrollInv, Redeemed
<1>5. \A h \in HubNames : Known(hubFile[h])'
  BY <1>0, <1>2 DEF EnrollInv, Known
<1>6. /\ run' = [run EXCEPT ![r] = run'[r]] /\ run'[r] \in IdleRuns \cup BusyRuns /\ RunOK(r)'
  <2>1. CASE run' = [run EXCEPT ![r].again = TRUE]
    <3> DEFINE next == [run[r] EXCEPT !.again = TRUE]
    <3>1. /\ next \in BusyRuns /\ next.at = "sending" /\ next.bundle = b /\ next.hubs = run[r].hubs
          /\ next.key = k /\ next.first = run[r].first
      BY <1>0 DEF BusyRuns
    <3>2. run' = [run EXCEPT ![r] = next]
      BY <2>1
    <3> HIDE DEF next
    <3>3. run'[r] = next
      BY <1>0, <3>2
    <3>4. RunOK(r)'
      BY <1>0, <1>2, <3>1, <3>3 DEF RunOK, Known, Found
    <3> QED BY <3>1, <3>2, <3>3, <3>4
  <2>2. ASSUME NEW place \in {"opening", "conflicting"}, Goes(r, place),
               place = "opening" => verdict \in {"redeemed", "replayed"}
        PROVE  /\ run' = [run EXCEPT ![r] = run'[r]] /\ run'[r] \in IdleRuns \cup BusyRuns /\ RunOK(r)'
    <3>1. /\ run' = [run EXCEPT ![r] = run'[r]] /\ run'[r] \in BusyRuns /\ run'[r].at = place
          /\ Busy(r)' /\ run'[r].bundle = run[r].bundle /\ run'[r].hubs = run[r].hubs
          /\ run'[r].key = run[r].key /\ run'[r].first = run[r].first /\ Found(r)' = Found(r)
      BY <1>0, <2>2, RunGoes DEF RunPlaces
    <3>2. RunOK(r)'
      BY <1>0, <1>1, <1>2, <2>2, <3>1 DEF RunOK, Known
    <3> QED BY <3>1, <3>2
  <2>3. CASE Ends(r, "refused")
    BY <1>0, <2>3, RunEnds DEF Outcomes
  <2> QED BY <1>0, <2>1, <2>2, <2>3
<1> QED BY <1>0, <1>2, <1>3, <1>4, <1>5, <1>6, RunStep DEF EnrollTypeOK

\* The delivery is recorded under the keys that are on disk already.
LEMMA RecordStep == ASSUME EnrollInv, NEW r \in Runs, RecordDelivery(r) PROVE EnrollInv'
<1> DEFINE b == run[r].bundle
           k == run[r].key
<1>0. /\ UNCHANGED <<ledgerRows, hubFile, createLock, keysMade, enrolled>> /\ run[r] \in BusyRuns
      /\ b \in Bundles /\ RunOK(r) /\ run \in [Runs -> IdleRuns \cup BusyRuns] /\ Busy(r) /\ k \in Nat
      /\ run[r].at = "opening" /\ EnrollTypeOK /\ UNCHANGED <<code, accepted, onceRefused>>
      /\ pending' = [pending EXCEPT ![b] = Delivered(k)] /\ Goes(r, "storing")
  <2>1. At(r, "opening") /\ "opening" \in RunPlaces
    BY DEF RecordDelivery, RunPlaces
  <2>2. /\ run[r] \in BusyRuns /\ b \in Bundles /\ RunOK(r) /\ Busy(r) /\ run[r].key \in Nat
        /\ run[r].at = "opening" /\ EnrollTypeOK /\ HubName(b) \in HubNames
    BY <2>1, BusyRun
  <2>3. run \in [Runs -> IdleRuns \cup BusyRuns]
    BY <2>2 DEF EnrollTypeOK
  <2> QED BY <2>2, <2>3 DEF RecordDelivery, ledgerRows
<1>1. k # NoKey /\ (b \notin enrolled => pending[b].key = k)
  BY <1>0 DEF RunOK
<1>2. Delivered(k) \in PendingFiles /\ Delivered(k).key = k
  BY <1>0 DEF Delivered, PendingFiles
<1>3. /\ pending' \in [Bundles -> PendingFiles] /\ pending'[b].key = k
      /\ \A x \in Bundles \ {b} : pending'[x] = pending[x]
  BY <1>0, <1>2 DEF EnrollTypeOK
<1>4. DiskKeeps
  BY <1>0, <1>1, <1>3 DEF DiskKeeps
<1>5. /\ run' = [run EXCEPT ![r] = run'[r]] /\ run'[r] \in BusyRuns /\ run'[r].at = "storing"
      /\ Busy(r)' /\ run'[r].bundle = run[r].bundle /\ run'[r].hubs = run[r].hubs
      /\ run'[r].key = run[r].key /\ run'[r].first = run[r].first /\ Found(r)' = Found(r)
  BY <1>0, RunGoes DEF RunPlaces
<1>6. RunOK(r)'
  BY <1>0, <1>1, <1>3, <1>5 DEF RunOK, Known
<1>7. \A x \in Bundles : Redeemed(x)'
  BY <1>0, <1>1, <1>3 DEF EnrollInv, Redeemed
<1>8. \A h \in HubNames : Known(hubFile[h])'
  BY <1>0 DEF EnrollInv, Known
<1> QED BY <1>0, <1>4, <1>5, <1>6, <1>7, <1>8, RunStep DEF EnrollTypeOK

\* The credential is stored, with hub.json as the run read it.
LEMMA StoreStep == ASSUME EnrollInv, NEW r \in Runs, StoreCredential(r) PROVE EnrollInv'
<1> DEFINE b == run[r].bundle
<1>0. /\ UNCHANGED <<ledgerRows, pending, createLock, keysMade, enrolled>> /\ run[r] \in BusyRuns
      /\ b \in Bundles /\ RunOK(r) /\ run \in [Runs -> IdleRuns \cup BusyRuns] /\ Busy(r)
      /\ run[r].at = "storing" /\ EnrollTypeOK /\ UNCHANGED <<code, accepted, onceRefused>>
      /\ HubName(b) \in HubNames
      /\ hubFile' = [run[r].hubs EXCEPT ![HubName(b)] = b]
      /\ run' = [run EXCEPT ![r].at = "verifying", ![r].hubs = hubFile']
  <2>1. At(r, "storing") /\ "storing" \in RunPlaces
    BY DEF StoreCredential, RunPlaces
  <2>2. /\ run[r] \in BusyRuns /\ b \in Bundles /\ RunOK(r) /\ Busy(r) /\ run[r].key \in Nat
        /\ run[r].at = "storing" /\ EnrollTypeOK /\ HubName(b) \in HubNames
    BY <2>1, BusyRun
  <2>3. run \in [Runs -> IdleRuns \cup BusyRuns]
    BY <2>2 DEF EnrollTypeOK
  <2> QED BY <2>2, <2>3 DEF StoreCredential, ledgerRows
<1>1. b \in accepted \cup onceRefused /\ \A h \in HubNames : Known(run[r].hubs[h])
  BY <1>0 DEF RunOK
<1>2. run[r].hubs \in [HubNames -> Stored] /\ b \in Stored
  BY <1>0 DEF BusyRuns, Stored, Credentials
<1>3. /\ hubFile' \in [HubNames -> Stored]
      /\ \A h \in HubNames : hubFile'[h] \in {b, run[r].hubs[h]}
  BY <1>0, <1>2
<1>4. \A h \in HubNames : Known(hubFile[h])'
  BY <1>0, <1>1, <1>3 DEF Known
<1>5. /\ run' = [run EXCEPT ![r] = run'[r]] /\ run'[r] \in BusyRuns /\ run'[r].at = "verifying"
      /\ run'[r].hubs = hubFile'
  <2> DEFINE next == [[run[r] EXCEPT !.at = "verifying"] EXCEPT !.hubs = hubFile']
  <2>1. next \in BusyRuns /\ next.at = "verifying" /\ next.hubs = hubFile'
    BY <1>0, <1>3 DEF BusyRuns, RunPlaces
  <2>2. run' = [run EXCEPT ![r] = next]
    BY <1>0
  <2> HIDE DEF next
  <2> QED BY <1>0, <2>1, <2>2
<1>6. RunOK(r)'
  BY <1>4, <1>5 DEF RunOK
<1>7. DiskKeeps
  BY <1>0 DEF DiskKeeps, EnrollTypeOK
<1>8. \A x \in Bundles : Redeemed(x)'
  BY <1>0 DEF EnrollInv, Redeemed
<1> QED BY <1>0, <1>3, <1>4, <1>5, <1>6, <1>7, <1>8, RunStep DEF EnrollTypeOK

\* A run reports success and removes the pending file, or is stopped.
LEMMA FinishStep == ASSUME EnrollInv, NEW r \in Runs, Finish(r) \/ StopRun(r) PROVE EnrollInv'
<1> DEFINE b == run[r].bundle
<1>0. /\ EnrollTypeOK /\ run \in [Runs -> IdleRuns \cup BusyRuns]
      /\ UNCHANGED <<code, accepted, onceRefused, hubFile, keysMade>>
      /\ \A h \in HubNames : Known(hubFile[h])'
  BY DEF EnrollInv, EnrollTypeOK, Finish, StopRun, ledgerRows, Known
<1>1. /\ run' = [run EXCEPT ![r] = run'[r]] /\ run'[r] \in IdleRuns /\ ~Busy(r)' /\ RunOK(r)'
  BY <1>0, RunEnds DEF Finish, StopRun, Outcomes
<1>2. /\ pending' \in [Bundles -> PendingFiles] /\ enrolled \subseteq enrolled'
      /\ \A x \in Bundles \ enrolled' : pending'[x] = pending[x]
  <2>1. CASE Finish(r)
    <3>1. b \in Bundles /\ NoFile \in PendingFiles
      BY <2>1, BusyRun DEF Finish, RunPlaces, NoFile, PendingFiles, NoKey
    <3> QED BY <1>0, <2>1, <3>1 DEF Finish, EnrollTypeOK
  <2>2. CASE StopRun(r)
    BY <1>0, <2>2 DEF StopRun, EnrollTypeOK
  <2> QED BY <2>1, <2>2
<1>3. createLock' \in Runs \cup {NoRun} /\ (createLock' = createLock \/ createLock = r)
  BY <1>0 DEF EnrollTypeOK, Finish, StopRun
<1>4. run'[r] # run[r] \/ createLock' = createLock
  BY <1>1 DEF Finish, StopRun, At, Busy
<1>5. DiskKeeps
  BY <1>0, <1>2, <1>3, <1>4 DEF DiskKeeps
<1>6. \A x \in Bundles : Redeemed(x)'
  BY <1>0, <1>2 DEF EnrollInv, Redeemed
<1> QED BY <1>0, <1>1, <1>3, <1>5, <1>6, RunStep DEF EnrollTypeOK

\* Every step of an enrollment keeps the invariant.
LEMMA EnrollInvStep == EnrollInv /\ [EnrollNext]_enrollVars => EnrollInv'
<1> SUFFICES ASSUME EnrollInv, [EnrollNext]_enrollVars PROVE EnrollInv'
  OBVIOUS
<1>1. CASE UNCHANGED enrollVars
  BY <1>1 DEF enrollVars, ledgerRows, clientFiles, EnrollInv, EnrollTypeOK, RunOK, Busy, Found, Known, Redeemed
<1>2. CASE EnrollNext
  BY <1>2, LedgerStep, StartStep, ReadPendingStep, CheckSteps, LockStep, WriteKeysStep, SendStep,
     RecordStep, StoreStep, FinishStep DEF EnrollNext
<1> QED BY <1>1, <1>2

\* The keys of a redemption are on disk until a run of the bundle reported success,
\* however runs overlap and wherever they stop (newEnrollPending, enrollSend).
THEOREM KeysOutliveRedemptionHolds == EnrollSpec => []KeysOutliveRedemption
<1>1. EnrollInv => KeysOutliveRedemption
  BY DEF EnrollInv, Redeemed, KeysOutliveRedemption
<1> QED BY EnrollInvInit, EnrollInvStep, <1>1, PTL DEF EnrollSpec

\* What every step keeps to, when a code is spent.
SpendsRightly ==
    \A r \in Runs, b \in Bundles :
          /\ code[b].state = "issued" /\ code'[b].state = "redeemed"
          /\ ~At(r, "idle") /\ run[r].bundle = b /\ At(r, "sending") /\ run[r].first
          => Found(r) = NoCredential \/ Found(r) \in onceRefused

\* A first run spends a code only over a credential that the hub refused: an outage
\* does not replace an identity (runEnroll, enrollWhoAmI).
THEOREM SpentOnlyWhenRefusedHolds == EnrollSpec => SpentOnlyWhenRefused
<1>1. EnrollInv => SpendsRightly
  BY DEF EnrollInv, SpendsRightly, RunOK, Busy, At
<1>2. EnrollInv /\ [EnrollNext]_enrollVars => [SpendsRightly]_enrollVars
  BY <1>1
<1> QED BY EnrollInvInit, EnrollInvStep, <1>2, PTL DEF EnrollSpec, SpentOnlyWhenRefused, SpendsRightly

-----------------------------------------------------------------------------
(***************************************************************************)
(* Shared documents.  The predicates below take what they speak of as      *)
(* arguments: d is the row of the document, log its revisions, file the    *)
(* bound file of a machine, s the state of a worker.                       *)
(***************************************************************************)
DocTexts == [there : BOOLEAN, edits : SUBSET DocEdits, marks : BOOLEAN]
DocStates == [rev : 0 .. MaxDocRev, hash : DocTexts]
DocPlaces ==
    {"rest", "listed", "loaded", "read", "publish", "publishing", "pushing", "put", "fetched", "merging",
     "write", "record"}
DocOps == {"none", "sync", "publish", "push", "pull", "merge", "update"}
WorkerStates == [at : DocPlaces, op : DocOps, st : DocStates, local : DocTexts, text : DocTexts]

HubTypeOK ==
    /\ doc \in [rev : 0 .. MaxDocRev, body : DocTexts, deleted : BOOLEAN]
    /\ docLog \in [1 .. MaxDocRev -> DocTexts]

MachinesTypeOK ==
    /\ docFile \in [Machines -> DocTexts]
    /\ sidecar \in [Machines -> DocStates]
    /\ agent \in [Machines -> DocStates]
    /\ reached \in [Machines -> 0 .. MaxDocRev]
    /\ raced \subseteq Machines /\ exposed \subseteq Machines

\* The log ends with the document's revision, and has its text unless it was retired.
LogOK(d, log) ==
    /\ \A r \in 1 .. MaxDocRev : IF log[r].there THEN r <= d.rev ELSE log[r] = Missing
    /\ IF d.rev > 0 /\ ~d.deleted THEN log[d.rev] = d.body /\ d.body.there ELSE d.body = EmptyText
    /\ d.deleted => d.rev > 0 /\ log[d.rev] = Missing

\* A revision that somebody knows of was shown, and so it is no tombstone.
WasShown(rev, log) == rev = 0 \/ log[rev].there

LogEdits(rev, log) == IF rev = 0 THEN {} ELSE log[rev].edits
KnownEdits(log) == UNION {log[r].edits : r \in 1 .. MaxDocRev}

\* What was fetched is in the log; a worker at rest has nothing; a merge has its own places.
WorkerOK(s, log) ==
    /\ WasShown(s.st.rev, log)
    /\ s.at = "fetched" => s.st.rev > 0 /\ s.st.hash = log[s.st.rev]
    /\ s.at = "put" => s.text.there
    /\ s.at = "pushing" => s.local.there
    /\ s.at = "rest" => s.op = "none"
    /\ s.op = "merge" => s.at \in {"merging", "fetched", "write", "record"}
    /\ s.at = "merging" => s.op = "merge"

AgentOK(read, log) == WasShown(read.rev, log) /\ (read.rev > 0 => read.hash = log[read.rev])

DocsOK ==
    /\ HubTypeOK /\ MachinesTypeOK /\ LogOK(doc, docLog)
    /\ \A m \in Machines : WasShown(sidecar[m].rev, docLog) /\ AgentOK(agent[m], docLog)
    /\ docWorker \in [Machines -> [DocWorkers -> WorkerStates]]
    /\ \A m \in Machines, w \in DocWorkers : WorkerOK(docWorker[m][w], docLog)

(***************************************************************************)
(* While no worker has raced: every revision contains those before it, a   *)
(* file contains the revision it was brought up to, and what a worker will *)
(* put contains the revision it will put it over.  What it will write may  *)
(* lack what the file lacked of its merge base when it was read: if that   *)
(* is still the file, it lacks nothing, as the file has the base.          *)
(***************************************************************************)
Chain(log) ==
    \A r, s \in 1 .. MaxDocRev : r <= s /\ log[s].there => log[r].edits \subseteq log[s].edits

Follows(s, rev, log) ==
    /\ s.at \in {"loaded", "read", "publishing", "record"} => s.st.rev <= rev
    /\ s.at = "read" => LogEdits(s.st.rev, log) \subseteq s.local.edits
    /\ s.at = "put" => LogEdits(s.st.rev, log) \subseteq s.text.edits
    /\ s.at = "write" =>
          \E base \in 0 .. MaxDocRev :
             /\ base <= rev
             /\ LogEdits(s.st.rev, log) \subseteq s.text.edits \cup (LogEdits(base, log) \ s.local.edits)

FileFollows(file, side, rev, log) ==
    /\ WasShown(rev, log)
    /\ LogEdits(rev, log) \subseteq file.edits
    /\ side.rev <= rev

HubKept ==
    raced = {} =>
       /\ Chain(docLog)
       /\ \A m \in Machines : FileFollows(docFile[m], sidecar[m], reached[m], docLog)
       /\ \A m \in Machines, w \in DocWorkers : Follows(docWorker[m][w], reached[m], docLog)

(***************************************************************************)
(* A text without markers whose hash is recorded was a revision, and what  *)
(* a worker has read it will write, but for what revisions have.           *)
(***************************************************************************)
Recorded(hash, log) == hash.marks \/ hash.edits \subseteq KnownEdits(log)

LocalKept(s, log) ==
    /\ Recorded(s.st.hash, log)
    /\ s.at = "write" => \/ s.local.marks \/ s.op = "update"
                         \/ s.local.edits \subseteq s.text.edits \cup KnownEdits(log)

FilesKept ==
    /\ \A m \in Machines : Recorded(sidecar[m].hash, docLog)
    /\ \A m \in Machines, w \in DocWorkers : LocalKept(docWorker[m][w], docLog)

(***************************************************************************)
(* While no markers were exposed: the hub has none, a merge is alone on    *)
(* its machine, and a file with markers has its hash in the sidecar, or in *)
(* the hand of the merge that will record it there.                        *)
(***************************************************************************)
HubUnmarked ==
    /\ ~doc.body.marks
    /\ \A r \in 1 .. MaxDocRev : ~docLog[r].marks
    /\ \A m \in Machines : ~agent[m].hash.marks

Unmarked(s) ==
    /\ s.at = "put" => ~s.text.marks
    /\ s.at = "pushing" \/ s.op = "merge" => ~s.local.marks
    /\ s.at = "read" /\ s.local.marks => s.st.hash = s.local
    /\ s.at = "write" /\ s.text.marks => s.op = "merge" /\ s.st.hash = s.text

Spared(s, file) ==
    /\ s.at \in {"loaded", "publishing"} => s.st.hash = file
    /\ s.at \in {"pushing", "put", "record"} \/ s.op = "merge" =>
          s.op = "merge" /\ s.at = "record" /\ s.st.hash = file

MarksHeld(m) ==
    /\ \A w \in DocWorkers : Unmarked(docWorker[m][w])
    /\ \A w, v \in DocWorkers : w # v /\ docWorker[m][w].op = "merge" => docWorker[m][v].at = "rest"
    /\ docFile[m].marks =>
          /\ \A w \in DocWorkers : Spared(docWorker[m][w], docFile[m])
          /\ \/ sidecar[m].hash = docFile[m]
             \/ \E w \in DocWorkers : docWorker[m][w].op = "merge"

MarksInv == exposed = {} => HubUnmarked /\ \A m \in Machines : MarksHeld(m)

DocsInv == DocsOK /\ HubKept /\ FilesKept /\ MarksInv

-----------------------------------------------------------------------------
LEMMA DocTextFacts ==
    /\ MaxDocRev \in Nat
    /\ EmptyText \in DocTexts /\ Missing \in DocTexts /\ ~Missing.there
    /\ Missing.edits = {} /\ EmptyText.edits = {} /\ ~EmptyText.marks /\ ~Missing.marks
    /\ \A edits \in SUBSET DocEdits, marks \in BOOLEAN :
          Text(edits, marks) \in DocTexts /\ Text(edits, marks).there /\ Text(edits, marks).edits = edits
          /\ Text(edits, marks).marks = marks
    /\ Unsynced \in DocStates /\ Unsynced.rev = 0 /\ Unsynced.hash = Missing
    /\ \A rev \in 0 .. MaxDocRev, hash \in DocTexts :
          Synced(rev, hash) \in DocStates /\ Synced(rev, hash).rev = rev /\ Synced(rev, hash).hash = hash
BY DocsAssumption DEF EmptyText, Missing, Text, DocTexts, Unsynced, Synced, DocStates

\* What the fields of a resting worker, and of one about to record, are.
LEMMA AtRestFacts ==
    /\ AtRest \in WorkerStates /\ AtRest.at = "rest" /\ AtRest.op = "none"
    /\ AtRest.st = Unsynced /\ AtRest.local = Missing /\ AtRest.text = Missing
    /\ Reconciled = [AtRest EXCEPT !.at = "publish", !.op = "sync"]
    /\ Reconciled \in WorkerStates /\ Reconciled.at = "publish" /\ Reconciled.op = "sync"
    /\ Reconciled.st = Unsynced
    /\ \A op \in DocOps, st \in DocStates :
          /\ Records(op, st) \in WorkerStates /\ Records(op, st).at = "record" /\ Records(op, st).op = op
          /\ Records(op, st).st = st /\ Records(op, st).local = Missing /\ Records(op, st).text = Missing
<1>1. /\ AtRest \in WorkerStates /\ AtRest.at = "rest" /\ AtRest.op = "none"
      /\ AtRest.st = Unsynced /\ AtRest.local = Missing /\ AtRest.text = Missing
  BY DocTextFacts DEF AtRest, WorkerStates, DocPlaces, DocOps
<1>2. /\ Reconciled \in WorkerStates /\ Reconciled.at = "publish" /\ Reconciled.op = "sync"
      /\ Reconciled.st = Unsynced
  BY <1>1 DEF Reconciled, WorkerStates, DocPlaces, DocOps
<1>3. ASSUME NEW op \in DocOps, NEW st \in DocStates
      PROVE  /\ Records(op, st) \in WorkerStates /\ Records(op, st).at = "record" /\ Records(op, st).op = op
             /\ Records(op, st).st = st /\ Records(op, st).local = Missing /\ Records(op, st).text = Missing
  BY <1>1 DEF Records, WorkerStates, DocPlaces
<1> QED BY <1>1, <1>2, <1>3 DEF Reconciled

\* Nothing is asked of a worker that is done.
LEMMA RestingOK ==
    ASSUME NEW s \in {AtRest, Reconciled}, NEW log, NEW rev \in Nat, NEW file
    PROVE  WorkerOK(s, log) /\ LocalKept(s, log) /\ Follows(s, rev, log) /\ Unmarked(s) /\ Spared(s, file)
<1> USE DocTextFacts, AtRestFacts
<1>1. /\ s.at \in {"rest", "publish"} /\ s.st.rev = 0 /\ s.st.hash.edits = {}
      /\ s.op # "merge" /\ (s.at = "rest" => s.op = "none")
  OBVIOUS
<1>2. WorkerOK(s, log)
  BY <1>1 DEF WorkerOK, WasShown
<1>3. LocalKept(s, log)
  BY <1>1 DEF LocalKept, Recorded
<1>4. Follows(s, rev, log) /\ Unmarked(s) /\ Spared(s, file)
  BY <1>1 DEF Follows, Unmarked, Spared
<1> QED BY <1>2, <1>3, <1>4

\* The log only grows at its end: what holds of shown revisions goes on holding.
Grows == \A r \in 1 .. MaxDocRev : docLog[r].there => docLog'[r] = docLog[r]

LEMMA GrowsKeeps ==
    ASSUME DocsOK, Grows, docLog' \in [1 .. MaxDocRev -> DocTexts]
    PROVE  /\ \A rev \in 0 .. MaxDocRev :
                 /\ WasShown(rev, docLog) => /\ WasShown(rev, docLog')
                                             /\ LogEdits(rev, docLog') = LogEdits(rev, docLog)
                 /\ LogEdits(rev, docLog) \subseteq LogEdits(rev, docLog')
           /\ KnownEdits(docLog) \subseteq KnownEdits(docLog')
           /\ \A hash : Recorded(hash, docLog) => Recorded(hash, docLog')
<1> USE DocTextFacts
<1>1. ASSUME NEW r \in 1 .. MaxDocRev
      PROVE  /\ docLog[r].there => docLog'[r] = docLog[r]
             /\ docLog[r].edits \subseteq docLog'[r].edits
  BY DEF DocsOK, LogOK, Grows
<1>2. ASSUME NEW rev \in 0 .. MaxDocRev
      PROVE  /\ WasShown(rev, docLog) => /\ WasShown(rev, docLog')
                                         /\ LogEdits(rev, docLog') = LogEdits(rev, docLog)
             /\ LogEdits(rev, docLog) \subseteq LogEdits(rev, docLog')
  BY <1>1 DEF WasShown, LogEdits
<1>3. KnownEdits(docLog) \subseteq KnownEdits(docLog')
  BY <1>1 DEF KnownEdits
<1> QED BY <1>2, <1>3 DEF Recorded

LEMMA WorkerGrows ==
    ASSUME DocsOK, Grows, docLog' \in [1 .. MaxDocRev -> DocTexts], NEW s \in WorkerStates
    PROVE  /\ WorkerOK(s, docLog) => WorkerOK(s, docLog')
           /\ \A old, new \in 0 .. MaxDocRev :
                 WorkerOK(s, docLog) /\ Follows(s, old, docLog) /\ old <= new => Follows(s, new, docLog')
           /\ LocalKept(s, docLog) => LocalKept(s, docLog')
<1> USE DocTextFacts
<1>1. s.st.rev \in 0 .. MaxDocRev /\ s.st.rev \in Int
  BY DEF WorkerStates, DocStates
<1>2. WorkerOK(s, docLog) => WorkerOK(s, docLog')
  <2>1. s.st.rev > 0 /\ WasShown(s.st.rev, docLog) => docLog'[s.st.rev] = docLog[s.st.rev]
    BY <1>1 DEF Grows, WasShown
  <2> QED BY <1>1, <2>1, GrowsKeeps DEF WorkerOK
<1>3. ASSUME NEW old \in 0 .. MaxDocRev, NEW new \in 0 .. MaxDocRev, WorkerOK(s, docLog),
             Follows(s, old, docLog), old <= new
      PROVE  Follows(s, new, docLog')
  <2>1. LogEdits(s.st.rev, docLog') = LogEdits(s.st.rev, docLog)
    BY <1>1, <1>3, GrowsKeeps DEF WorkerOK
  <2>2. ASSUME s.at = "write"
        PROVE  \E base \in 0 .. MaxDocRev :
                  /\ base <= new
                  /\ LogEdits(s.st.rev, docLog') \subseteq
                        s.text.edits \cup (LogEdits(base, docLog') \ s.local.edits)
    <3>1. PICK base \in 0 .. MaxDocRev :
             /\ base <= old
             /\ LogEdits(s.st.rev, docLog) \subseteq s.text.edits \cup (LogEdits(base, docLog) \ s.local.edits)
      BY <1>3, <2>2 DEF Follows
    <3>2. LogEdits(base, docLog) \subseteq LogEdits(base, docLog') /\ base <= new
      BY <1>3, <3>1, GrowsKeeps
    <3> QED BY <2>1, <3>1, <3>2
  <2>3. s.at \in {"loaded", "read", "publishing", "record"} => s.st.rev <= new
    BY <1>1, <1>3 DEF Follows
  <2> QED BY <1>3, <2>1, <2>2, <2>3 DEF Follows
<1>4. LocalKept(s, docLog) => LocalKept(s, docLog')
  BY GrowsKeeps DEF LocalKept
<1> QED BY <1>2, <1>3, <1>4

LEMMA DocsInvInit == DocsInit => DocsInv
<1> SUFFICES ASSUME DocsInit PROVE DocsInv
  OBVIOUS
<1> USE DocTextFacts, AtRestFacts
<1>1. /\ doc.rev = 0 /\ doc.body = EmptyText /\ doc.deleted = FALSE
      /\ \A r \in 1 .. MaxDocRev : docLog[r] = Missing
      /\ \A m \in Machines : /\ docFile[m] = Missing /\ sidecar[m] = Unsynced /\ agent[m] = Unsynced
                             /\ reached[m] = 0 /\ \A w \in DocWorkers : docWorker[m][w] = AtRest
  BY DEF DocsInit
<1>2. DocsOK
  <2>1. HubTypeOK /\ MachinesTypeOK
    BY DEF DocsInit, HubTypeOK, MachinesTypeOK
  <2>2. LogOK(doc, docLog)
    BY <1>1 DEF LogOK
  <2>3. docWorker \in [Machines -> [DocWorkers -> WorkerStates]]
    BY DEF DocsInit
  <2> QED BY <1>1, <2>1, <2>2, <2>3 DEF DocsOK, WasShown, AgentOK, WorkerOK
<1>3. HubKept
  BY <1>1 DEF HubKept, Chain, FileFollows, Follows, WasShown, LogEdits
<1>4. FilesKept
  BY <1>1 DEF FilesKept, Recorded, LocalKept
<1>5. MarksInv
  BY <1>1 DEF MarksInv, HubUnmarked, MarksHeld, Unmarked
<1> QED BY <1>2, <1>3, <1>4, <1>5 DEF DocsInv

\* One worker of a machine goes on, and no other.
LEMMA OneWorker ==
    ASSUME DocsOK, NEW m \in Machines, NEW w \in DocWorkers, NEW s \in WorkerStates, Proceeds(m, w, s)
    PROVE  /\ docWorker' \in [Machines -> [DocWorkers -> WorkerStates]]
           /\ docWorker'[m][w] = s
           /\ \A n \in Machines, v \in DocWorkers : n # m \/ v # w => docWorker'[n][v] = docWorker[n][v]
BY DEF DocsOK, Proceeds

\* A worker's next step may be beside the others if its last was, or if markers are exposed.
Beside(m, w, s) ==
    \/ Place(m, w) # "rest" /\ (s.op = "merge" => docWorker[m][w].op = "merge")
    \/ \A v \in DocWorkers \ {w} :
          (s.op = "merge" => Place(m, v) = "rest") /\ (s.at # "rest" => docWorker[m][v].op # "merge")

LEMMA BesideKeeps ==
    ASSUME DocsOK, NEW m \in Machines, NEW w \in DocWorkers, NEW s \in WorkerStates, Proceeds(m, w, s),
           Beside(m, w, s), MarksHeld(m), s.at = "rest" => s.op = "none"
    PROVE  \A u, v \in DocWorkers : u # v /\ docWorker'[m][u].op = "merge" => docWorker'[m][v].at = "rest"
<1>1. ASSUME NEW u \in DocWorkers, NEW v \in DocWorkers, u # v, docWorker'[m][u].op = "merge"
      PROVE  docWorker'[m][v].at = "rest"
  <2>1. CASE u = w
    BY <1>1, <2>1, OneWorker DEF Beside, MarksHeld, Place
  <2>2. CASE v = w
    BY <1>1, <2>2, OneWorker DEF Beside, MarksHeld, Place
  <2>3. CASE u # w /\ v # w
    BY <1>1, <2>3, OneWorker DEF MarksHeld
  <2> QED BY <2>1, <2>2, <2>3
<1> QED BY <1>1

(***************************************************************************)
(* What is to be shown of a step that only one worker takes.               *)
(***************************************************************************)
LEMMA TurnKeeps ==
    ASSUME DocsInv, NEW m \in Machines, NEW w \in DocWorkers, NEW s \in WorkerStates, Proceeds(m, w, s),
           UNCHANGED <<doc, docLog, docFile, sidecar, agent, reached>>,
           raced \subseteq raced', raced' \subseteq Machines, exposed \subseteq exposed', exposed' \subseteq Machines,
           WorkerOK(s, docLog), LocalKept(s, docLog),
           raced' = {} => Follows(s, reached[m], docLog),
           exposed' = {} => /\ Unmarked(s) /\ Beside(m, w, s)
                            /\ docFile[m].marks =>
                                  /\ Spared(s, docFile[m])
                                  /\ docWorker[m][w].op = "merge" /\ s.op # "merge" => sidecar[m].hash = docFile[m]
    PROVE  DocsInv'
<1>1. DocsOK'
  <2>1. HubTypeOK' /\ MachinesTypeOK' /\ LogOK(doc, docLog)'
    BY DEF DocsInv, DocsOK, HubTypeOK, MachinesTypeOK
  <2>2. \A n \in Machines, v \in DocWorkers : WorkerOK(docWorker'[n][v], docLog)
    BY OneWorker DEF DocsInv, DocsOK
  <2>3. docWorker' \in [Machines -> [DocWorkers -> WorkerStates]]
    BY OneWorker DEF DocsInv
  <2> QED BY <2>1, <2>2, <2>3 DEF DocsInv, DocsOK
<1>2. HubKept'
  <2> SUFFICES ASSUME raced' = {} PROVE HubKept'
    BY DEF HubKept
  <2>1. raced = {}
    OBVIOUS
  <2>2. \A n \in Machines, v \in DocWorkers : Follows(docWorker'[n][v], reached[n], docLog)
    BY <2>1, OneWorker DEF DocsInv, HubKept
  <2> QED BY <2>1, <2>2 DEF DocsInv, HubKept
<1>3. FilesKept'
  <2>1. \A n \in Machines, v \in DocWorkers : LocalKept(docWorker'[n][v], docLog)
    BY OneWorker DEF DocsInv, FilesKept
  <2> QED BY <2>1 DEF DocsInv, FilesKept
<1>4. MarksInv'
  <2> SUFFICES ASSUME exposed' = {}, NEW n \in Machines PROVE HubUnmarked' /\ MarksHeld(n)'
    BY DEF MarksInv
  <2>1. exposed = {} /\ HubUnmarked /\ MarksHeld(n) /\ MarksHeld(m)
    BY DEF DocsInv, MarksInv
  <2>2. CASE n # m
    <3>1. \A v \in DocWorkers : docWorker'[n][v] = docWorker[n][v]
      BY <2>2, OneWorker DEF DocsInv
    <3> QED BY <2>1, <3>1 DEF MarksHeld, HubUnmarked
  <2>3. CASE n = m
    <3>1. \A v \in DocWorkers : Unmarked(docWorker'[m][v])
      BY <2>1, OneWorker DEF MarksHeld, DocsInv
    <3>2. \A u, v \in DocWorkers : u # v /\ docWorker'[m][u].op = "merge" => docWorker'[m][v].at = "rest"
      BY <2>1, BesideKeeps DEF DocsInv, WorkerOK
    <3>3. ASSUME docFile[m].marks
          PROVE  /\ \A v \in DocWorkers : Spared(docWorker'[m][v], docFile[m])
                 /\ sidecar[m].hash = docFile[m] \/ \E v \in DocWorkers : docWorker'[m][v].op = "merge"
      BY <2>1, <3>3, OneWorker DEF MarksHeld, DocsInv
    <3> QED BY <2>1, <2>3, <3>1, <3>2, <3>3 DEF MarksHeld, HubUnmarked
  <2> QED BY <2>2, <2>3
<1> QED BY <1>1, <1>2, <1>3, <1>4 DEF DocsInv

\* A worker may always stop; a merge with markers to record exposes them by that.
LEMMA StopWorkerKeeps == ASSUME DocsInv, NEW m \in Machines, NEW w \in DocWorkers, StopWorker(m, w) PROVE DocsInv'
<1> USE DocTextFacts, AtRestFacts
<1> DEFINE s == docWorker[m][w]
<1>1. /\ Proceeds(m, w, AtRest) /\ s.at # "rest" /\ s \in WorkerStates
      /\ UNCHANGED <<doc, docLog, docFile, sidecar, agent, reached, raced>>
      /\ exposed' = IF s.at = "record" /\ s.op = "merge" /\ s.st.hash.marks THEN exposed \cup {m} ELSE exposed
  BY DEF StopWorker, DocsInv, DocsOK
<1>2. WorkerOK(AtRest, docLog) /\ LocalKept(AtRest, docLog) /\ Follows(AtRest, reached[m], docLog)
  BY DEF WorkerOK, WasShown, LocalKept, Recorded, Follows
<1>3. ASSUME exposed' = {}
      PROVE  /\ Unmarked(AtRest) /\ Beside(m, w, AtRest)
             /\ docFile[m].marks => Spared(AtRest, docFile[m]) /\ s.op # "merge"
  <2>1. exposed = {} /\ ~(s.at = "record" /\ s.op = "merge" /\ s.st.hash.marks) /\ MarksHeld(m)
    BY <1>1, <1>3 DEF DocsInv, MarksInv
  <2>2. docFile[m].marks => s.op # "merge"
    BY <2>1 DEF MarksHeld, Spared
  <2> QED BY <1>1, <2>2 DEF Unmarked, Beside, Place, Spared
<1>4. exposed \subseteq exposed' /\ exposed' \subseteq Machines /\ raced \subseteq raced' /\ raced' \subseteq Machines
  BY <1>1 DEF DocsInv, DocsOK, MachinesTypeOK
<1> HIDE DEF s
<1> QED BY <1>1, <1>2, <1>3, <1>4, TurnKeeps DEF s

\* Of a worker that starts: it is beside no merge, or what it meets is exposed.
LEMMA Started ==
    ASSUME DocsInv, NEW m \in Machines, NEW w \in DocWorkers, NEW s \in WorkerStates, Starts(m, w, s)
    PROVE  /\ Proceeds(m, w, s) /\ docWorker[m][w].op # "merge" /\ Place(m, w) = "rest"
           /\ exposed \subseteq exposed' /\ exposed' \subseteq Machines
           /\ exposed' = {} => /\ Beside(m, w, s)
                               /\ s.op \in {"merge", "push"} => ~s.local.marks
<1>1. docWorker[m][w].op # "merge"
  BY DEF Starts, DocsInv, DocsOK, WorkerOK, Place
<1>2. exposed \subseteq Machines
  BY DEF DocsInv, DocsOK, MachinesTypeOK
<1>3. ASSUME exposed' = {} PROVE Beside(m, w, s) /\ (s.op \in {"merge", "push"} => ~s.local.marks)
  <2>1. \A v \in DocWorkers : docWorker[m][v].op = "merge" => Place(m, v) # "rest"
    BY DEF DocsInv, DocsOK, WorkerOK, Place
  <2>2. /\ ~(s.op \in {"merge", "push"} /\ s.local.marks)
        /\ \A v \in DocWorkers \ {w} : ~(Place(m, v) # "rest" /\ "merge" \in {s.op, docWorker[m][v].op})
    BY <1>3 DEF Starts
  <2> QED BY <2>1, <2>2 DEF Beside
<1> QED BY <1>1, <1>2, <1>3 DEF Starts

LEMMA StartSyncKeeps == ASSUME DocsInv, NEW m \in Machines, NEW w \in DocWorkers, StartSync(m, w) PROVE DocsInv'
<1> USE DocTextFacts, AtRestFacts
<1> DEFINE t == [AtRest EXCEPT !.op = "sync", !.at = "listed", !.st.rev = doc.rev]
           s == IF Shown THEN t ELSE Reconciled
<1>1. doc.rev \in 0 .. MaxDocRev /\ LogOK(doc, docLog)
  BY DEF DocsInv, DocsOK, HubTypeOK
<1>2. t \in WorkerStates /\ t.op = "sync" /\ t.at = "listed" /\ t.st.rev = doc.rev /\ t.st.hash = Missing
  BY <1>1 DEF WorkerStates, DocStates, DocPlaces, DocOps, Unsynced
<1>3. /\ s \in WorkerStates /\ s.op = "sync" /\ s.at \in {"listed", "publish"} /\ s.st.hash = Missing
      /\ WasShown(s.st.rev, docLog)
  BY <1>1, <1>2 DEF Shown, WasShown, LogOK
<1>4. Starts(m, w, s) /\ UNCHANGED <<doc, docLog, docFile, sidecar, agent, reached, raced>>
  BY DEF StartSync
<1> HIDE DEF t, s
<1>5. WorkerOK(s, docLog) /\ LocalKept(s, docLog) /\ Follows(s, reached[m], docLog)
  BY <1>3 DEF WorkerOK, LocalKept, Recorded, Follows
<1>6. Unmarked(s) /\ Spared(s, docFile[m])
  BY <1>3 DEF Unmarked, Spared
<1>7. raced \subseteq raced' /\ raced' \subseteq Machines
  BY <1>4 DEF DocsInv, DocsOK, MachinesTypeOK
<1> QED BY <1>3, <1>4, <1>5, <1>6, <1>7, Started, TurnKeeps

LEMMA StartPublishKeeps ==
    ASSUME DocsInv, NEW m \in Machines, NEW w \in DocWorkers, StartPublish(m, w) PROVE DocsInv'
<1> USE DocTextFacts, AtRestFacts
<1> DEFINE s == [AtRest EXCEPT !.op = "publish", !.at = "publishing", !.st = sidecar[m]]
<1>1. sidecar[m] \in DocStates /\ WasShown(sidecar[m].rev, docLog) /\ Recorded(sidecar[m].hash, docLog)
  BY DEF DocsInv, DocsOK, MachinesTypeOK, FilesKept
<1>2. s \in WorkerStates /\ s.op = "publish" /\ s.at = "publishing" /\ s.st = sidecar[m]
  BY <1>1 DEF WorkerStates, DocPlaces, DocOps
<1>3. /\ Starts(m, w, s) \/ (Place(m, w) = "publish" /\ Proceeds(m, w, s) /\ exposed' = exposed)
      /\ UNCHANGED <<doc, docLog, docFile, sidecar, agent, reached, raced>>
  BY DEF StartPublish
<1> HIDE DEF s
<1>4. WorkerOK(s, docLog) /\ LocalKept(s, docLog)
  BY <1>1, <1>2 DEF WorkerOK, LocalKept
<1>5. raced' = {} => Follows(s, reached[m], docLog)
  BY <1>2, <1>3 DEF DocsInv, HubKept, FileFollows, Follows
<1>6. /\ Proceeds(m, w, s) /\ docWorker[m][w].op # "merge"
      /\ exposed \subseteq exposed' /\ exposed' \subseteq Machines
      /\ exposed' = {} => Beside(m, w, s)
  <2>1. CASE Starts(m, w, s)
    BY <1>2, <2>1, Started
  <2>2. CASE Place(m, w) = "publish" /\ Proceeds(m, w, s) /\ exposed' = exposed
    BY <1>2, <2>2 DEF Place, Beside, DocsInv, DocsOK, WorkerOK, MachinesTypeOK
  <2> QED BY <1>3, <2>1, <2>2
<1>7. ASSUME exposed' = {}, docFile[m].marks PROVE Spared(s, docFile[m])
  <2>1. MarksHeld(m)
    BY <1>6, <1>7 DEF DocsInv, MarksInv
  <2>2. \A v \in DocWorkers : docWorker[m][v].op # "merge"
    <3>1. ASSUME NEW v \in DocWorkers, docWorker[m][v].op = "merge" PROVE FALSE
      <4>1. v # w /\ docWorker[m][v].at # "rest"
        BY <1>6, <3>1 DEF DocsInv, DocsOK, WorkerOK
      <4>2. Beside(m, w, s)
        BY <1>6, <1>7
      <4>3. Place(m, w) = "rest"
        BY <2>1, <3>1, <4>1, <4>2, <1>2 DEF Beside, MarksHeld, Place
      <4> QED BY <1>2, <3>1, <4>1, <4>2, <4>3 DEF Beside
    <3> QED BY <3>1
  <2>3. sidecar[m].hash = docFile[m]
    BY <1>7, <2>1, <2>2 DEF MarksHeld
  <2> QED BY <1>2, <2>3 DEF Spared
<1>8. Unmarked(s)
  BY <1>2 DEF Unmarked
<1>9. raced \subseteq raced' /\ raced' \subseteq Machines
  BY <1>3 DEF DocsInv, DocsOK, MachinesTypeOK
<1> QED BY <1>2, <1>3, <1>4, <1>5, <1>6, <1>7, <1>8, <1>9, TurnKeeps

LEMMA LoadSidecarKeeps == ASSUME DocsInv, NEW m \in Machines, NEW w \in DocWorkers, LoadSidecar(m, w) PROVE DocsInv'
<1> USE DocTextFacts, AtRestFacts
<1> DEFINE t == docWorker[m][w]
           s == IF t.st.rev <= sidecar[m].rev THEN Reconciled ELSE [t EXCEPT !.at = "loaded", !.st = sidecar[m]]
<1>1. /\ sidecar[m] \in DocStates /\ WasShown(sidecar[m].rev, docLog) /\ Recorded(sidecar[m].hash, docLog)
      /\ t \in WorkerStates /\ WorkerOK(t, docLog)
  BY DEF DocsInv, DocsOK, MachinesTypeOK, FilesKept
<1>2. /\ t.at = "listed" /\ Proceeds(m, w, s)
      /\ UNCHANGED <<doc, docLog, docFile, sidecar, agent, reached, raced, exposed>>
  BY DEF LoadSidecar, docsHistory
<1>3. t.op # "merge"
  BY <1>1, <1>2 DEF WorkerOK
<1>4. /\ s \in WorkerStates /\ s.op # "merge"
      /\ s = Reconciled \/ (s.at = "loaded" /\ s.st = sidecar[m])
  BY <1>1, <1>3 DEF WorkerStates, DocPlaces
<1> HIDE DEF s, t
<1>5. WorkerOK(s, docLog) /\ LocalKept(s, docLog)
  <2>1. CASE s \in {AtRest, Reconciled}
    BY <2>1, RestingOK
  <2>2. CASE s \notin {AtRest, Reconciled}
    BY <1>1, <1>4, <2>2 DEF WorkerOK, LocalKept
  <2> QED BY <2>1, <2>2
<1>6. raced' = {} => Follows(s, reached[m], docLog)
  BY <1>2, <1>4 DEF DocsInv, HubKept, FileFollows, Follows
<1>7. ASSUME exposed' = {} PROVE Unmarked(s) /\ Beside(m, w, s) /\ (docFile[m].marks => Spared(s, docFile[m]))
  <2>1. MarksHeld(m)
    BY <1>2, <1>7 DEF DocsInv, MarksInv
  <2>2. \A v \in DocWorkers : docWorker[m][v].op # "merge"
    BY <1>2, <1>3, <2>1 DEF MarksHeld, t
  <2> QED BY <1>2, <1>4, <2>1, <2>2 DEF MarksHeld, Unmarked, Beside, Place, Spared, t
<1>8. exposed \subseteq exposed' /\ exposed' \subseteq Machines /\ raced \subseteq raced' /\ raced' \subseteq Machines
  BY <1>2 DEF DocsInv, DocsOK, MachinesTypeOK
<1> QED BY <1>2, <1>3, <1>4, <1>5, <1>6, <1>7, <1>8, TurnKeeps DEF t

LEMMA ReadLocalKeeps == ASSUME DocsInv, NEW m \in Machines, NEW w \in DocWorkers, ReadLocal(m, w) PROVE DocsInv'
<1> USE DocTextFacts, AtRestFacts
<1> DEFINE t == docWorker[m][w]
           s == IF docFile[m].there THEN [t EXCEPT !.at = "read", !.local = docFile[m]] ELSE Reconciled
<1>1. docFile[m] \in DocTexts /\ t \in WorkerStates /\ WorkerOK(t, docLog) /\ LocalKept(t, docLog)
  BY DEF DocsInv, DocsOK, MachinesTypeOK, FilesKept
<1>2. /\ t.at = "loaded" /\ Proceeds(m, w, s)
      /\ UNCHANGED <<doc, docLog, docFile, sidecar, agent, reached, raced, exposed>>
  BY DEF ReadLocal, Place, docsHistory
<1>3. t.op # "merge"
  BY <1>1, <1>2 DEF WorkerOK
<1>4. /\ s \in WorkerStates /\ s.op # "merge"
      /\ s = Reconciled \/ (s.at = "read" /\ s.st = t.st /\ s.local = docFile[m])
  BY <1>1, <1>3 DEF WorkerStates, DocPlaces
<1> HIDE DEF s, t
<1>5. WorkerOK(s, docLog) /\ LocalKept(s, docLog)
  <2>1. CASE s \in {AtRest, Reconciled}
    BY <2>1, RestingOK
  <2>2. CASE s \notin {AtRest, Reconciled}
    BY <1>1, <1>4, <2>2 DEF WorkerOK, LocalKept
  <2> QED BY <2>1, <2>2
<1>6. ASSUME raced' = {} PROVE Follows(s, reached[m], docLog)
  <2>1. /\ Follows(t, reached[m], docLog) /\ Chain(docLog) /\ WasShown(reached[m], docLog)
        /\ LogEdits(reached[m], docLog) \subseteq docFile[m].edits
    BY <1>2, <1>6 DEF DocsInv, HubKept, FileFollows, t
  <2>2. t.st.rev <= reached[m] /\ t.st.rev \in 0 .. MaxDocRev /\ reached[m] \in 0 .. MaxDocRev
    BY <1>1, <1>2, <2>1 DEF Follows, WorkerStates, DocStates, DocsInv, DocsOK, MachinesTypeOK
  <2>3. LogEdits(t.st.rev, docLog) \subseteq LogEdits(reached[m], docLog)
    BY <2>1, <2>2 DEF LogEdits, Chain, WasShown
  <2> QED BY <1>4, <2>1, <2>2, <2>3 DEF Follows
<1>7. ASSUME exposed' = {} PROVE Unmarked(s) /\ Beside(m, w, s) /\ (docFile[m].marks => Spared(s, docFile[m]))
  <2>1. MarksHeld(m)
    BY <1>2, <1>7 DEF DocsInv, MarksInv
  <2>2. docFile[m].marks => t.st.hash = docFile[m]
    BY <1>2, <2>1 DEF MarksHeld, Spared, t
  <2> QED BY <1>2, <1>4, <2>2 DEF Unmarked, Beside, Place, Spared, t
<1>8. exposed \subseteq exposed' /\ exposed' \subseteq Machines /\ raced \subseteq raced' /\ raced' \subseteq Machines
  BY <1>2 DEF DocsInv, DocsOK, MachinesTypeOK
<1> QED BY <1>2, <1>3, <1>4, <1>5, <1>6, <1>7, <1>8, TurnKeeps DEF t

LEMMA ReadBoundKeeps == ASSUME DocsInv, NEW m \in Machines, NEW w \in DocWorkers, ReadBound(m, w) PROVE DocsInv'
<1> USE DocTextFacts, AtRestFacts
<1> DEFINE t == docWorker[m][w]
           s == IF docFile[m].there /\ docFile[m] # t.st.hash
                THEN [t EXCEPT !.at = "put", !.text = docFile[m]] ELSE AtRest
<1>1. docFile[m] \in DocTexts /\ t \in WorkerStates /\ WorkerOK(t, docLog) /\ LocalKept(t, docLog)
  BY DEF DocsInv, DocsOK, MachinesTypeOK, FilesKept
<1>2. /\ t.at = "publishing" /\ Proceeds(m, w, s)
      /\ UNCHANGED <<doc, docLog, docFile, sidecar, agent, reached, raced, exposed>>
  BY DEF ReadBound, Place, docsHistory
<1>3. t.op # "merge"
  BY <1>1, <1>2 DEF WorkerOK
<1>4. /\ s \in WorkerStates /\ s.op # "merge"
      /\ s = AtRest \/ (/\ s.at = "put" /\ s.st = t.st /\ s.text = docFile[m] /\ docFile[m].there
                        /\ docFile[m] # t.st.hash)
  BY <1>1, <1>3 DEF WorkerStates, DocPlaces
<1> HIDE DEF s, t
<1>5. WorkerOK(s, docLog) /\ LocalKept(s, docLog)
  <2>1. CASE s \in {AtRest, Reconciled}
    BY <2>1, RestingOK
  <2>2. CASE s \notin {AtRest, Reconciled}
    BY <1>1, <1>4, <2>2 DEF WorkerOK, LocalKept
  <2> QED BY <2>1, <2>2
<1>6. ASSUME raced' = {} PROVE Follows(s, reached[m], docLog)
  <2>1. /\ Follows(t, reached[m], docLog) /\ Chain(docLog) /\ WasShown(reached[m], docLog)
        /\ LogEdits(reached[m], docLog) \subseteq docFile[m].edits
    BY <1>2, <1>6 DEF DocsInv, HubKept, FileFollows, t
  <2>2. t.st.rev <= reached[m] /\ t.st.rev \in 0 .. MaxDocRev /\ reached[m] \in 0 .. MaxDocRev
    BY <1>1, <1>2, <2>1 DEF Follows, WorkerStates, DocStates, DocsInv, DocsOK, MachinesTypeOK
  <2>3. LogEdits(t.st.rev, docLog) \subseteq LogEdits(reached[m], docLog)
    BY <2>1, <2>2 DEF LogEdits, Chain, WasShown
  <2> QED BY <1>4, <2>1, <2>2, <2>3 DEF Follows
<1>7. ASSUME exposed' = {} PROVE Unmarked(s) /\ Beside(m, w, s) /\ (docFile[m].marks => Spared(s, docFile[m]))
  <2>1. MarksHeld(m)
    BY <1>2, <1>7 DEF DocsInv, MarksInv
  <2>2. docFile[m].marks => t.st.hash = docFile[m]
    BY <1>2, <2>1 DEF MarksHeld, Spared, t
  <2>3. docFile[m].marks => s = AtRest
    BY <1>4, <2>2
  <2> QED BY <1>2, <1>4, <2>3 DEF Unmarked, Beside, Place, Spared, t
<1>8. exposed \subseteq exposed' /\ exposed' \subseteq Machines /\ raced \subseteq raced' /\ raced' \subseteq Machines
  BY <1>2 DEF DocsInv, DocsOK, MachinesTypeOK
<1> QED BY <1>2, <1>3, <1>4, <1>5, <1>6, <1>7, <1>8, TurnKeeps DEF t

LEMMA MergeFacts ==
    ASSUME NEW base \in DocTexts, NEW local \in DocTexts, NEW hub \in DocTexts
    PROVE  /\ \A text \in Clean(base, local, hub) \cup Marked(base, local, hub) :
                 /\ text \in DocTexts
                 /\ local.edits \subseteq text.edits \cup base.edits
                 /\ hub.edits \subseteq text.edits \cup (base.edits \ local.edits)
           /\ \A text \in Clean(base, local, hub) :
                 ~base.marks /\ ~local.marks /\ ~hub.marks => ~text.marks
           /\ \A text \in Marked(base, local, hub) : text.marks
<1> USE DocTextFacts
<1> DEFINE edits == (local.edits \cap hub.edits) \cup (local.edits \ base.edits) \cup (hub.edits \ base.edits)
           marks == IF local.marks = base.marks THEN hub.marks ELSE local.marks
<1>1. /\ edits \in SUBSET DocEdits /\ marks \in BOOLEAN
      /\ local.edits \in SUBSET DocEdits /\ hub.edits \in SUBSET DocEdits
      /\ ~base.marks /\ ~local.marks /\ ~hub.marks => ~marks
  BY DEF DocTexts
<1>2. MergedText(base, local, hub) = Text(edits, marks)
  BY DEF MergedText
<1>3. local.edits \subseteq edits \cup base.edits /\ hub.edits \subseteq edits \cup (base.edits \ local.edits)
  OBVIOUS
<1> HIDE DEF edits, marks
<1>4. ASSUME NEW text \in Clean(base, local, hub) PROVE text = Text(edits, marks)
  BY <1>2 DEF Clean
<1>5. ASSUME NEW text \in Marked(base, local, hub)
      PROVE  \E both \in SUBSET DocEdits : text = Text(edits \cup both, TRUE)
  <2>1. PICK both \in SUBSET (local.edits \cup hub.edits) :
           text = Text(MergedText(base, local, hub).edits \cup both, TRUE)
    BY DEF Marked
  <2>2. MergedText(base, local, hub).edits = edits /\ both \in SUBSET DocEdits
    BY <1>1, <1>2
  <2> QED BY <2>1, <2>2
<1>6. ASSUME NEW text \in Clean(base, local, hub) \cup Marked(base, local, hub)
      PROVE  text \in DocTexts /\ edits \subseteq text.edits
  <2>1. CASE text = Text(edits, marks)
    BY <1>1, <2>1
  <2>2. CASE text \in Marked(base, local, hub)
    <3>1. PICK both \in SUBSET DocEdits : text = Text(edits \cup both, TRUE)
      BY <1>5, <2>2
    <3>2. edits \cup both \in SUBSET DocEdits /\ TRUE \in BOOLEAN
      BY <1>1
    <3> QED BY <3>1, <3>2
  <2> QED BY <1>4, <2>1, <2>2
<1>7. \A text \in Clean(base, local, hub) : text.marks = marks
  BY <1>1, <1>4
<1>8. \A text \in Marked(base, local, hub) : text.marks
  <2> SUFFICES ASSUME NEW text \in Marked(base, local, hub) PROVE text.marks
    OBVIOUS
  <2>1. PICK both \in SUBSET DocEdits : text = Text(edits \cup both, TRUE)
    BY <1>5
  <2>2. edits \cup both \in SUBSET DocEdits /\ TRUE \in BOOLEAN
    BY <1>1
  <2> QED BY <2>1, <2>2
<1> QED BY <1>1, <1>3, <1>6, <1>7, <1>8

LEMMA BaseFacts ==
    ASSUME DocsOK, NEW rev \in 0 .. MaxDocRev, NEW base \in Bases(rev)
    PROVE  /\ base \in DocTexts
           /\ base.edits \subseteq LogEdits(rev, docLog) /\ base.edits \subseteq KnownEdits(docLog)
           /\ HubUnmarked => ~base.marks
<1> USE DocTextFacts
<1>1. doc.rev \in 0 .. MaxDocRev /\ docLog \in [1 .. MaxDocRev -> DocTexts]
  BY DEF DocsOK, HubTypeOK
<1>2. base = EmptyText \/ (rev \in 1 .. MaxDocRev /\ base = docLog[rev])
  BY <1>1 DEF Bases, Retained
<1> QED BY <1>1, <1>2 DEF LogEdits, KnownEdits, HubUnmarked

\* The hub's text is in its log.
LEMMA BodyFacts ==
    ASSUME DocsOK
    PROVE  /\ doc.rev \in 0 .. MaxDocRev /\ doc.body \in DocTexts
           /\ ~doc.deleted => WasShown(doc.rev, docLog) /\ doc.body.edits = LogEdits(doc.rev, docLog)
           /\ Shown => doc.rev > 0 /\ docLog[doc.rev] = doc.body
           /\ doc.body.edits \subseteq KnownEdits(docLog)
<1> USE DocTextFacts
<1>1. /\ doc.rev \in 0 .. MaxDocRev /\ doc.body \in DocTexts /\ doc.deleted \in BOOLEAN /\ LogOK(doc, docLog)
      /\ docLog \in [1 .. MaxDocRev -> DocTexts]
  BY DEF DocsOK, HubTypeOK
<1>2. CASE doc.rev > 0 /\ ~doc.deleted
  <2>1. doc.rev \in 1 .. MaxDocRev /\ docLog[doc.rev] = doc.body /\ doc.body.there
    BY <1>1, <1>2 DEF LogOK
  <2> QED BY <1>1, <1>2, <2>1 DEF WasShown, LogEdits, Shown, KnownEdits
<1>3. CASE ~(doc.rev > 0 /\ ~doc.deleted)
  <2>1. doc.body = EmptyText
    BY <1>1, <1>3 DEF LogOK
  <2>2. ~doc.deleted => doc.rev = 0 /\ WasShown(doc.rev, docLog) /\ LogEdits(doc.rev, docLog) = {}
    BY <1>1, <1>3 DEF WasShown, LogEdits
  <2>3. ~Shown /\ doc.body.edits = {}
    BY <1>3, <2>1 DEF Shown
  <2> QED BY <1>1, <2>2, <2>3
<1> QED BY <1>2, <1>3

LEMMA FetchCurrentKeeps == ASSUME DocsInv, NEW m \in Machines, NEW w \in DocWorkers, FetchCurrent(m, w) PROVE DocsInv'
<1> USE DocTextFacts, AtRestFacts
<1> DEFINE t == docWorker[m][w]
           f(text) == [t EXCEPT !.at = "write", !.text = text, !.st = Synced(doc.rev, doc.body)]
<1>1. DocsOK /\ t \in WorkerStates /\ WorkerOK(t, docLog) /\ LocalKept(t, docLog)
  BY DEF DocsInv, DocsOK, FilesKept
<1>2. t.local \in DocTexts /\ t.st \in DocStates /\ t.st.hash \in DocTexts /\ t.st.rev \in 0 .. MaxDocRev
  BY <1>1 DEF WorkerStates, DocStates
<1>3. PICK s : /\ Proceeds(m, w, s)
               /\ s = Reconciled \/ (~doc.deleted /\ \E text \in Verdicts(t.st, t.local) : s = f(text))
  BY DEF FetchCurrent
<1>4. /\ t.at = "read" /\ t.op # "merge"
      /\ UNCHANGED <<doc, docLog, docFile, sidecar, agent, reached, raced, exposed>>
  BY <1>1 DEF FetchCurrent, WorkerOK, docsHistory
<1>5. exposed \subseteq exposed' /\ exposed' \subseteq Machines /\ raced \subseteq raced' /\ raced' \subseteq Machines
  BY <1>4 DEF DocsInv, DocsOK, MachinesTypeOK
<1>6. reached[m] \in Nat
  BY DEF DocsInv, DocsOK, MachinesTypeOK
<1>7. CASE s = Reconciled
  <2>1. Beside(m, w, s) /\ s \in WorkerStates
    BY <1>4, <1>7 DEF Beside, Place
  <2>2. WorkerOK(s, docLog) /\ LocalKept(s, docLog) /\ Follows(s, reached[m], docLog) /\ Unmarked(s)
        /\ Spared(s, docFile[m])
    BY <1>6, <1>7, RestingOK
  <2> HIDE DEF t
  <2> QED BY <1>3, <1>4, <1>5, <2>1, <2>2, TurnKeeps DEF t
<1>8. CASE s # Reconciled
  <2>1. PICK text \in Verdicts(t.st, t.local) : s = f(text)
    BY <1>3, <1>8
  <2>2. ~doc.deleted
    BY <1>3, <1>8
  <2>3. \/ t.local = t.st.hash /\ text = doc.body
        \/ /\ t.local # t.st.hash
           /\ \E base \in Bases(t.st.rev) : text \in Clean(base, t.local, doc.body)
    BY <2>1 DEF Verdicts
  <2>4. text \in DocTexts
    <3>1. ASSUME NEW base \in Bases(t.st.rev), text \in Clean(base, t.local, doc.body) PROVE text \in DocTexts
      BY <1>1, <1>2, <3>1, MergeFacts, BaseFacts, BodyFacts
    <3> QED BY <1>1, <2>3, <3>1, BodyFacts
  <2>5. /\ s \in WorkerStates /\ s.at = "write" /\ s.op = t.op /\ s.text = text /\ s.local = t.local
        /\ s.st.rev = doc.rev /\ s.st.hash = doc.body
    <3>1. Synced(doc.rev, doc.body) \in DocStates /\ Synced(doc.rev, doc.body).rev = doc.rev
          /\ Synced(doc.rev, doc.body).hash = doc.body
      BY <1>1, BodyFacts
    <3> HIDE DEF t
    <3> QED BY <1>1, <2>1, <2>4, <3>1 DEF WorkerStates, DocPlaces
  <2> HIDE DEF f, t
  <2>6. WorkerOK(s, docLog)
    BY <1>1, <1>4, <2>2, <2>5, BodyFacts DEF WorkerOK
  <2>7. LocalKept(s, docLog)
    <3>1. s.local.marks \/ s.local.edits \subseteq s.text.edits \cup KnownEdits(docLog)
      <4>1. CASE t.local = t.st.hash
        BY <1>1, <2>5, <4>1 DEF LocalKept, Recorded
      <4>2. CASE t.local # t.st.hash
        <5>1. PICK base \in Bases(t.st.rev) : text \in Clean(base, t.local, doc.body)
          BY <2>3, <4>2
        <5>2. t.local.edits \subseteq text.edits \cup base.edits /\ base.edits \subseteq KnownEdits(docLog)
          BY <1>1, <1>2, <5>1, MergeFacts, BaseFacts, BodyFacts
        <5> QED BY <2>5, <5>2
      <4> QED BY <4>1, <4>2
    <3>2. Recorded(s.st.hash, docLog)
      BY <1>1, <2>5, BodyFacts DEF Recorded
    <3> QED BY <3>1, <3>2 DEF LocalKept
  <2>8. ASSUME raced' = {} PROVE Follows(s, reached[m], docLog)
    <3>1. LogEdits(t.st.rev, docLog) \subseteq t.local.edits
      BY <1>4, <2>8 DEF DocsInv, HubKept, Follows, t
    <3>2. doc.body.edits \subseteq text.edits
      <4>1. CASE text = doc.body
        BY <4>1
      <4>2. CASE \E base \in Bases(t.st.rev) : text \in Clean(base, t.local, doc.body)
        <5>1. PICK base \in Bases(t.st.rev) : text \in Clean(base, t.local, doc.body)
          BY <4>2
        <5>2. doc.body.edits \subseteq text.edits \cup (base.edits \ t.local.edits)
              /\ base.edits \subseteq LogEdits(t.st.rev, docLog)
          BY <1>1, <1>2, <5>1, MergeFacts, BaseFacts, BodyFacts
        <5> QED BY <3>1, <5>2
      <4> QED BY <2>3, <4>1, <4>2
    <3>3. LogEdits(s.st.rev, docLog) \subseteq s.text.edits \cup (LogEdits(0, docLog) \ s.local.edits)
      BY <1>1, <2>2, <2>5, <3>2, BodyFacts
    <3> QED BY <1>6, <2>5, <3>3 DEF Follows
  <2>9. ASSUME exposed' = {} PROVE Unmarked(s) /\ Beside(m, w, s) /\ (docFile[m].marks => Spared(s, docFile[m]))
    <3>1. HubUnmarked /\ MarksHeld(m) /\ Unmarked(t)
      BY <1>4, <2>9 DEF DocsInv, MarksInv, MarksHeld, t
    <3>2. ~doc.body.marks
      BY <3>1 DEF HubUnmarked
    <3>3. ~text.marks
      <4>1. CASE t.local = t.st.hash
        BY <2>3, <3>2, <4>1
      <4>2. CASE t.local # t.st.hash
        <5>1. PICK base \in Bases(t.st.rev) : text \in Clean(base, t.local, doc.body)
          BY <2>3, <4>2
        <5>2. ~t.local.marks
          BY <1>4, <3>1, <4>2 DEF Unmarked
        <5> QED BY <1>1, <1>2, <3>1, <3>2, <5>1, <5>2, MergeFacts, BaseFacts, BodyFacts
      <4> QED BY <4>1, <4>2
    <3> QED BY <1>4, <2>5, <3>3 DEF Unmarked, Beside, Place, Spared, t
  <2> QED BY <1>3, <1>4, <1>5, <2>5, <2>6, <2>7, <2>8, <2>9, TurnKeeps DEF t
<1> QED BY <1>7, <1>8

LEMMA PushDocKeeps == ASSUME DocsInv, NEW m \in Machines, NEW w \in DocWorkers, PushDoc(m, w) PROVE DocsInv'
<1> USE DocTextFacts, AtRestFacts
<1> DEFINE s == [AtRest EXCEPT !.op = "push", !.at = "pushing", !.local = docFile[m]]
<1>1. docFile[m] \in DocTexts /\ docFile[m].there
  BY DEF DocsInv, DocsOK, MachinesTypeOK, PushDoc
<1>2. s \in WorkerStates /\ s.op = "push" /\ s.at = "pushing" /\ s.local = docFile[m] /\ s.st = Unsynced
  BY <1>1 DEF WorkerStates, DocPlaces, DocOps
<1>3. Starts(m, w, s) /\ UNCHANGED <<doc, docLog, docFile, sidecar, agent, reached, raced>>
  BY DEF PushDoc
<1> HIDE DEF s
<1>4. WorkerOK(s, docLog) /\ LocalKept(s, docLog) /\ Follows(s, reached[m], docLog)
  BY <1>1, <1>2 DEF WorkerOK, WasShown, LocalKept, Recorded, Follows
<1>5. ASSUME exposed' = {} PROVE Unmarked(s) /\ ~docFile[m].marks
  BY <1>2, <1>3, <1>5, Started DEF Unmarked
<1>6. raced \subseteq raced' /\ raced' \subseteq Machines
  BY <1>3 DEF DocsInv, DocsOK, MachinesTypeOK
<1> QED BY <1>2, <1>3, <1>4, <1>5, <1>6, Started, TurnKeeps

LEMMA MergeDocKeeps == ASSUME DocsInv, NEW m \in Machines, NEW w \in DocWorkers, MergeDoc(m, w) PROVE DocsInv'
<1> USE DocTextFacts, AtRestFacts
<1> DEFINE s == [AtRest EXCEPT !.op = "merge", !.at = "merging", !.local = docFile[m]]
<1>1. docFile[m] \in DocTexts
  BY DEF DocsInv, DocsOK, MachinesTypeOK
<1>2. s \in WorkerStates /\ s.op = "merge" /\ s.at = "merging" /\ s.local = docFile[m] /\ s.st = Unsynced
  BY <1>1 DEF WorkerStates, DocPlaces, DocOps
<1>3. Starts(m, w, s) /\ UNCHANGED <<doc, docLog, docFile, sidecar, agent, reached, raced>>
  BY DEF MergeDoc
<1> HIDE DEF s
<1>4. WorkerOK(s, docLog) /\ LocalKept(s, docLog) /\ Follows(s, reached[m], docLog)
  BY <1>1, <1>2 DEF WorkerOK, WasShown, LocalKept, Recorded, Follows
<1>5. ASSUME exposed' = {} PROVE Unmarked(s) /\ ~docFile[m].marks
  BY <1>2, <1>3, <1>5, Started DEF Unmarked
<1>6. raced \subseteq raced' /\ raced' \subseteq Machines
  BY <1>3 DEF DocsInv, DocsOK, MachinesTypeOK
<1> QED BY <1>2, <1>3, <1>4, <1>5, <1>6, Started, TurnKeeps

LEMMA PullDocKeeps == ASSUME DocsInv, NEW m \in Machines, NEW w \in DocWorkers, PullDoc(m, w) PROVE DocsInv'
<1> USE DocTextFacts, AtRestFacts
<1> DEFINE s == [AtRest EXCEPT !.op = "pull", !.at = "fetched", !.st = Synced(doc.rev, doc.body)]
<1>1. DocsOK /\ Shown
  BY DEF DocsInv, PullDoc
<1>2. Synced(doc.rev, doc.body) \in DocStates /\ Synced(doc.rev, doc.body).rev = doc.rev
      /\ Synced(doc.rev, doc.body).hash = doc.body
  BY <1>1, BodyFacts
<1>3. s \in WorkerStates /\ s.op = "pull" /\ s.at = "fetched" /\ s.st.rev = doc.rev /\ s.st.hash = doc.body
  BY <1>2 DEF WorkerStates, DocPlaces, DocOps
<1>4. Starts(m, w, s) /\ UNCHANGED <<doc, docLog, docFile, sidecar, agent, reached, raced>>
  BY DEF PullDoc
<1> HIDE DEF s
<1>5. ~doc.deleted
  BY <1>1 DEF Shown
<1>6. WorkerOK(s, docLog)
  BY <1>1, <1>3, <1>5, BodyFacts DEF WorkerOK
<1>7. LocalKept(s, docLog) /\ Follows(s, reached[m], docLog) /\ Unmarked(s) /\ Spared(s, docFile[m])
  BY <1>1, <1>3, BodyFacts DEF LocalKept, Recorded, Follows, Unmarked, Spared
<1>8. raced \subseteq raced' /\ raced' \subseteq Machines
  BY <1>4 DEF DocsInv, DocsOK, MachinesTypeOK
<1> QED BY <1>3, <1>4, <1>6, <1>7, <1>8, Started, TurnKeeps

LEMMA LoadRevisionKeeps == ASSUME DocsInv, NEW m \in Machines, NEW w \in DocWorkers, LoadRevision(m, w) PROVE DocsInv'
<1> USE DocTextFacts, AtRestFacts
<1> DEFINE t == docWorker[m][w]
           s == [AtRest EXCEPT !.op = "push", !.at = "put", !.st = sidecar[m], !.text = t.local]
<1>1. /\ sidecar[m] \in DocStates /\ WasShown(sidecar[m].rev, docLog) /\ Recorded(sidecar[m].hash, docLog)
      /\ t \in WorkerStates /\ WorkerOK(t, docLog)
  BY DEF DocsInv, DocsOK, MachinesTypeOK, FilesKept
<1>2. /\ t.at = "pushing" /\ Proceeds(m, w, s)
      /\ raced' = IF docFile[m] # t.local THEN raced \cup {m} ELSE raced
      /\ UNCHANGED <<doc, docLog, docFile, sidecar, agent, reached, exposed>>
  BY DEF LoadRevision, Place
<1>3. /\ s \in WorkerStates /\ s.op = "push" /\ s.at = "put" /\ s.st = sidecar[m] /\ s.text = t.local
      /\ t.local.there /\ t.op # "merge"
  BY <1>1, <1>2 DEF WorkerStates, DocPlaces, DocOps, WorkerOK
<1> HIDE DEF s, t
<1>4. WorkerOK(s, docLog) /\ LocalKept(s, docLog)
  BY <1>1, <1>3 DEF WorkerOK, LocalKept
<1>5. ASSUME raced' = {} PROVE Follows(s, reached[m], docLog)
  <2>1. /\ Chain(docLog) /\ FileFollows(docFile[m], sidecar[m], reached[m], docLog) /\ docFile[m] = t.local
    BY <1>2, <1>5 DEF DocsInv, HubKept
  <2>2. sidecar[m].rev \in 0 .. MaxDocRev /\ reached[m] \in 0 .. MaxDocRev
    BY <1>1 DEF DocStates, DocsInv, DocsOK, MachinesTypeOK
  <2>3. LogEdits(sidecar[m].rev, docLog) \subseteq LogEdits(reached[m], docLog)
    BY <2>1, <2>2 DEF LogEdits, Chain, WasShown, FileFollows
  <2> QED BY <1>3, <2>1, <2>3 DEF Follows, FileFollows
<1>6. ASSUME exposed' = {} PROVE Unmarked(s) /\ Beside(m, w, s) /\ ~docFile[m].marks
  <2>1. MarksHeld(m) /\ Unmarked(t)
    BY <1>2, <1>6 DEF DocsInv, MarksInv, MarksHeld, t
  <2>2. ~docFile[m].marks
    BY <1>2, <2>1 DEF MarksHeld, Spared, t
  <2> QED BY <1>2, <1>3, <2>1, <2>2 DEF Unmarked, Beside, Place, t
<1>7. exposed \subseteq exposed' /\ exposed' \subseteq Machines /\ raced \subseteq raced' /\ raced' \subseteq Machines
  BY <1>2 DEF DocsInv, DocsOK, MachinesTypeOK
<1> QED BY <1>2, <1>3, <1>4, <1>5, <1>6, <1>7, TurnKeeps

LEMMA CheckLocalKeeps == ASSUME DocsInv, NEW m \in Machines, NEW w \in DocWorkers, CheckLocal(m, w) PROVE DocsInv'
<1> USE DocTextFacts, AtRestFacts
<1> DEFINE t == docWorker[m][w]
           s == [t EXCEPT !.at = "write", !.local = docFile[m], !.text = t.st.hash]
<1>1. /\ docFile[m] \in DocTexts /\ Recorded(sidecar[m].hash, docLog)
      /\ t \in WorkerStates /\ WorkerOK(t, docLog) /\ LocalKept(t, docLog) /\ DocsOK
  BY DEF DocsInv, DocsOK, MachinesTypeOK, FilesKept
<1>2. /\ t.at = "fetched" /\ t.op = "pull" /\ Proceeds(m, w, s)
      /\ docFile[m] \in {Missing, sidecar[m].hash, t.st.hash}
      /\ UNCHANGED <<doc, docLog, docFile, sidecar, agent, reached, raced, exposed>>
  BY DEF CheckLocal, docsHistory
<1>3. t.st \in DocStates /\ t.st.hash \in DocTexts
  BY <1>1 DEF WorkerStates, DocStates
<1>4. /\ s \in WorkerStates /\ s.op = "pull" /\ s.at = "write" /\ s.st = t.st /\ s.local = docFile[m]
      /\ s.text = t.st.hash
  BY <1>1, <1>2, <1>3 DEF WorkerStates, DocPlaces
<1>5. t.st.rev \in 1 .. MaxDocRev /\ t.st.hash = docLog[t.st.rev]
  BY <1>1, <1>2, <1>3 DEF WorkerOK, DocStates
<1> HIDE DEF s, t
<1>6. WorkerOK(s, docLog)
  BY <1>1, <1>4 DEF WorkerOK
<1>7. LocalKept(s, docLog)
  BY <1>1, <1>2, <1>4 DEF LocalKept, Recorded
<1>8. Follows(s, reached[m], docLog)
  <2>1. LogEdits(s.st.rev, docLog) \subseteq s.text.edits \cup (LogEdits(0, docLog) \ s.local.edits)
    BY <1>4, <1>5 DEF LogEdits
  <2>2. reached[m] \in Nat
    BY DEF DocsInv, DocsOK, MachinesTypeOK
  <2> QED BY <1>4, <2>1, <2>2 DEF Follows
<1>9. ASSUME exposed' = {} PROVE Unmarked(s) /\ Beside(m, w, s) /\ Spared(s, docFile[m])
  <2>1. ~docLog[t.st.rev].marks
    BY <1>2, <1>5, <1>9 DEF DocsInv, MarksInv, HubUnmarked
  <2> QED BY <1>2, <1>4, <1>5, <2>1 DEF Unmarked, Beside, Place, Spared, t
<1>10. exposed \subseteq exposed' /\ exposed' \subseteq Machines /\ raced \subseteq raced' /\ raced' \subseteq Machines
  BY <1>2 DEF DocsInv, DocsOK, MachinesTypeOK
<1> QED BY <1>2, <1>4, <1>6, <1>7, <1>8, <1>9, <1>10, TurnKeeps DEF t

(***************************************************************************)
(* What is to be shown of a step that a worker of one machine takes, which *)
(* may write the file, the sidecar or the hub's document.                  *)
(***************************************************************************)
LEMMA StepKeeps ==
    ASSUME DocsInv, NEW m \in Machines, NEW w \in DocWorkers, NEW s \in WorkerStates, Proceeds(m, w, s),
           HubTypeOK', MachinesTypeOK', LogOK(doc', docLog'), Grows,
           \A n \in Machines : AgentOK(agent'[n], docLog'),
           \A n \in Machines \ {m} : /\ docFile'[n] = docFile[n] /\ sidecar'[n] = sidecar[n]
                                     /\ reached'[n] = reached[n],
           raced \subseteq raced', exposed \subseteq exposed',
           WorkerOK(s, docLog'), LocalKept(s, docLog'),
           WasShown(sidecar'[m].rev, docLog'), Recorded(sidecar'[m].hash, docLog'),
           raced' = {} => /\ Chain(docLog') /\ reached[m] <= reached'[m]
                          /\ FileFollows(docFile'[m], sidecar'[m], reached'[m], docLog')
                          /\ Follows(s, reached'[m], docLog'),
           exposed' = {} =>
              /\ HubUnmarked' /\ Unmarked(s) /\ Beside(m, w, s)
              /\ docFile'[m].marks =>
                    /\ \A v \in DocWorkers : Spared(docWorker'[m][v], docFile'[m])
                    /\ sidecar'[m].hash = docFile'[m] \/ \E v \in DocWorkers : docWorker'[m][v].op = "merge"
    PROVE  DocsInv'
<1>1. /\ DocsOK /\ docLog' \in [1 .. MaxDocRev -> DocTexts]
      /\ \A n \in Machines, v \in DocWorkers : docWorker[n][v] \in WorkerStates
      /\ \A n \in Machines : sidecar[n].rev \in 0 .. MaxDocRev /\ reached[n] \in 0 .. MaxDocRev
                             /\ reached'[n] \in 0 .. MaxDocRev
  <2>1. DocsOK /\ docLog' \in [1 .. MaxDocRev -> DocTexts]
    BY DEF DocsInv, HubTypeOK
  <2>2. \A n \in Machines, v \in DocWorkers : docWorker[n][v] \in WorkerStates
    BY DEF DocsInv, DocsOK
  <2>3. \A n \in Machines : sidecar[n].rev \in 0 .. MaxDocRev /\ reached[n] \in 0 .. MaxDocRev
    BY <2>1 DEF DocsOK, MachinesTypeOK, DocStates
  <2>4. \A n \in Machines : reached'[n] \in 0 .. MaxDocRev
    BY DEF MachinesTypeOK
  <2> QED BY <2>1, <2>2, <2>3, <2>4
<1>2. /\ docWorker' \in [Machines -> [DocWorkers -> WorkerStates]]
      /\ docWorker'[m][w] = s
      /\ \A n \in Machines, v \in DocWorkers : n # m \/ v # w => docWorker'[n][v] = docWorker[n][v]
  BY <1>1, OneWorker
<1>3. DocsOK'
  <2>1. \A n \in Machines, v \in DocWorkers : WorkerOK(docWorker'[n][v], docLog')
    BY <1>1, <1>2, WorkerGrows DEF DocsOK
  <2>2. \A n \in Machines : WasShown(sidecar'[n].rev, docLog')
    BY <1>1, GrowsKeeps DEF DocsOK
  <2> QED BY <1>2, <2>1, <2>2 DEF DocsOK
<1>4. HubKept'
  <2> SUFFICES ASSUME raced' = {} PROVE HubKept'
    BY DEF HubKept
  <2>1. /\ \A n \in Machines : FileFollows(docFile[n], sidecar[n], reached[n], docLog)
        /\ \A n \in Machines, v \in DocWorkers : Follows(docWorker[n][v], reached[n], docLog)
    BY DEF DocsInv, HubKept
  <2>2. ASSUME NEW n \in Machines PROVE FileFollows(docFile'[n], sidecar'[n], reached'[n], docLog')
    <3>1. CASE n # m
      BY <1>1, <2>1, <3>1, GrowsKeeps DEF FileFollows
    <3> QED BY <3>1
  <2>3. ASSUME NEW n \in Machines PROVE reached[n] <= reached'[n]
    BY <1>1
  <2>4. ASSUME NEW n \in Machines, NEW v \in DocWorkers PROVE Follows(docWorker'[n][v], reached'[n], docLog')
    <3>1. CASE n # m \/ v # w
      BY <1>1, <1>2, <2>1, <2>3, <3>1, WorkerGrows DEF DocsOK
    <3>2. CASE n = m /\ v = w
      BY <1>2, <3>2
    <3> QED BY <3>1, <3>2
  <2> QED BY <2>2, <2>4 DEF HubKept
<1>5. FilesKept'
  <2>1. \A n \in Machines, v \in DocWorkers : LocalKept(docWorker'[n][v], docLog')
    BY <1>1, <1>2, WorkerGrows DEF DocsInv, FilesKept
  <2>2. ASSUME NEW n \in Machines PROVE Recorded(sidecar'[n].hash, docLog')
    BY <1>1, GrowsKeeps DEF DocsInv, FilesKept
  <2> QED BY <2>1, <2>2 DEF FilesKept
<1>6. MarksInv'
  <2> SUFFICES ASSUME exposed' = {}, NEW n \in Machines PROVE MarksHeld(n)'
    BY DEF MarksInv
  <2>1. MarksHeld(n) /\ MarksHeld(m)
    BY DEF DocsInv, MarksInv
  <2>2. CASE n # m
    <3>1. \A v \in DocWorkers : docWorker'[n][v] = docWorker[n][v]
      BY <1>2, <2>2
    <3> QED BY <2>1, <2>2, <3>1 DEF MarksHeld
  <2>3. CASE n = m
    <3>1. \A v \in DocWorkers : Unmarked(docWorker'[m][v])
      BY <1>2, <2>1 DEF MarksHeld
    <3>2. \A u, v \in DocWorkers : u # v /\ docWorker'[m][u].op = "merge" => docWorker'[m][v].at = "rest"
      BY <1>1, <2>1, BesideKeeps DEF WorkerOK
    <3> QED BY <2>3, <3>1, <3>2 DEF MarksHeld
  <2> QED BY <2>2, <2>3
<1> QED BY <1>3, <1>4, <1>5, <1>6 DEF DocsInv

\* The hub's part of a step that does not write its document.
LEMMA HubSame ==
    ASSUME DocsInv, UNCHANGED <<doc, docLog, agent>>
    PROVE  /\ HubTypeOK' /\ LogOK(doc', docLog') /\ Grows /\ \A n \in Machines : AgentOK(agent'[n], docLog')
           /\ raced = {} => Chain(docLog')
           /\ exposed = {} => HubUnmarked'
BY DEF DocsInv, DocsOK, HubTypeOK, Grows, HubKept, MarksInv, HubUnmarked

LEMMA WriteFileKeeps == ASSUME DocsInv, NEW m \in Machines, NEW w \in DocWorkers, WriteFile(m, w) PROVE DocsInv'
<1> USE DocTextFacts, AtRestFacts
<1> DEFINE t == docWorker[m][w]
           s == Records(t.op, t.st)
<1>1. /\ MachinesTypeOK /\ t \in WorkerStates /\ WorkerOK(t, docLog) /\ LocalKept(t, docLog) /\ DocsOK
  BY DEF DocsInv, DocsOK, FilesKept
<1>2. /\ t.at = "write" /\ Proceeds(m, w, s) /\ docFile' = [docFile EXCEPT ![m] = t.text]
      /\ reached' = [reached EXCEPT ![m] = t.st.rev]
      /\ raced' = IF docFile[m] # t.local \/ t.st.rev < reached[m] THEN raced \cup {m} ELSE raced
      /\ UNCHANGED <<doc, docLog, sidecar, agent, exposed>>
  BY DEF WriteFile, Takes
<1>3. t.op \in DocOps /\ t.st \in DocStates /\ t.text \in DocTexts /\ t.st.rev \in 0 .. MaxDocRev
  BY <1>1 DEF WorkerStates, DocStates
<1>4. s \in WorkerStates /\ s.at = "record" /\ s.op = t.op /\ s.st = t.st /\ s.local = Missing
  BY <1>3
<1> HIDE DEF s, t
<1>5. MachinesTypeOK'
  BY <1>1, <1>2, <1>3 DEF MachinesTypeOK
<1>6. /\ docFile'[m] = t.text /\ reached'[m] = t.st.rev
      /\ \A n \in Machines \ {m} : docFile'[n] = docFile[n] /\ reached'[n] = reached[n]
  BY <1>1, <1>2 DEF MachinesTypeOK
<1>7. WorkerOK(s, docLog') /\ LocalKept(s, docLog')
  BY <1>1, <1>2, <1>4 DEF WorkerOK, LocalKept
<1>8. WasShown(sidecar'[m].rev, docLog') /\ Recorded(sidecar'[m].hash, docLog')
  BY <1>2 DEF DocsInv, DocsOK, FilesKept
<1>9. ASSUME raced' = {}
      PROVE  /\ Chain(docLog') /\ reached[m] <= reached'[m]
             /\ FileFollows(docFile'[m], sidecar'[m], reached'[m], docLog')
             /\ Follows(s, reached'[m], docLog')
  <2>1. docFile[m] = t.local /\ ~(t.st.rev < reached[m]) /\ raced = {}
    BY <1>2, <1>9
  <2>2. Chain(docLog) /\ FileFollows(docFile[m], sidecar[m], reached[m], docLog) /\ Follows(t, reached[m], docLog)
    BY <2>1 DEF DocsInv, HubKept, t
  <2>3. reached[m] \in 0 .. MaxDocRev /\ sidecar[m].rev \in 0 .. MaxDocRev
    BY <1>1 DEF MachinesTypeOK, DocStates
  <2>4. PICK base \in 0 .. MaxDocRev :
           /\ base <= reached[m]
           /\ LogEdits(t.st.rev, docLog) \subseteq t.text.edits \cup (LogEdits(base, docLog) \ t.local.edits)
    BY <1>2, <2>2 DEF Follows
  <2>5. LogEdits(base, docLog) \subseteq LogEdits(reached[m], docLog)
    BY <2>2, <2>3, <2>4 DEF LogEdits, Chain, WasShown, FileFollows
  <2>6. LogEdits(t.st.rev, docLog) \subseteq t.text.edits
    BY <2>1, <2>2, <2>4, <2>5 DEF FileFollows
  <2>7. reached[m] <= t.st.rev /\ sidecar[m].rev <= t.st.rev
    BY <1>3, <2>1, <2>2, <2>3 DEF FileFollows
  <2>8. WasShown(t.st.rev, docLog)
    BY <1>1 DEF WorkerOK
  <2> QED BY <1>2, <1>3, <1>4, <1>6, <2>2, <2>6, <2>7, <2>8 DEF FileFollows, Follows
<1>10. ASSUME exposed' = {}
       PROVE  /\ Unmarked(s) /\ Beside(m, w, s)
              /\ docFile'[m].marks => /\ \A v \in DocWorkers : Spared(docWorker'[m][v], docFile'[m])
                                      /\ \E v \in DocWorkers : docWorker'[m][v].op = "merge"
  <2>1. MarksHeld(m) /\ Unmarked(t)
    BY <1>2, <1>10 DEF DocsInv, MarksInv, MarksHeld, t
  <2>2. Unmarked(s) /\ Beside(m, w, s)
    BY <1>2, <1>4, <2>1 DEF Unmarked, Beside, Place, t
  <2>3. ASSUME t.text.marks
        PROVE  /\ \A v \in DocWorkers : Spared(docWorker'[m][v], t.text)
               /\ \E v \in DocWorkers : docWorker'[m][v].op = "merge"
    <3>1. t.op = "merge" /\ t.st.hash = t.text
      BY <1>2, <2>1, <2>3 DEF Unmarked
    <3>2. docWorker'[m][w] = s /\ \A v \in DocWorkers \ {w} : docWorker'[m][v] = docWorker[m][v]
      BY <1>1, <1>2, <1>4, OneWorker
    <3>3. ASSUME NEW v \in DocWorkers \ {w} PROVE docWorker[m][v].at = "rest" /\ docWorker[m][v].op = "none"
      BY <2>1, <3>1 DEF MarksHeld, t, DocsInv, DocsOK, WorkerOK
    <3> QED BY <1>4, <3>1, <3>2, <3>3 DEF Spared
  <2> QED BY <1>6, <2>2, <2>3
<1>11. raced \subseteq raced' /\ exposed \subseteq exposed'
  BY <1>2
<1> QED BY <1>2, <1>4, <1>5, <1>6, <1>7, <1>8, <1>9, <1>10, <1>11, HubSame, StepKeeps

LEMMA MergeTextsKeeps == ASSUME DocsInv, NEW m \in Machines, NEW w \in DocWorkers, MergeTexts(m, w) PROVE DocsInv'
<1> USE DocTextFacts, AtRestFacts
<1> DEFINE t == docWorker[m][w]
           clean(text) == [t EXCEPT !.at = "write", !.text = text]
           marked(text) == [t EXCEPT !.at = "write", !.text = text, !.st.hash = text]
<1>1. /\ DocsOK /\ t \in WorkerStates /\ WorkerOK(t, docLog) /\ LocalKept(t, docLog)
      /\ sidecar[m].rev \in 0 .. MaxDocRev
  BY DEF DocsInv, DocsOK, FilesKept, MachinesTypeOK, DocStates
<1>2. t.local \in DocTexts /\ t.st \in DocStates /\ t.st.hash \in DocTexts /\ t.st.rev \in 0 .. MaxDocRev
  BY <1>1 DEF WorkerStates, DocStates
<1>3. /\ t.at = "fetched" /\ t.op = "merge"
      /\ UNCHANGED <<doc, docLog, docFile, sidecar, agent, reached, raced, exposed>>
  BY DEF MergeTexts, docsHistory
<1>4. PICK base \in Bases(sidecar[m].rev) :
        \/ \E text \in Clean(base, t.local, t.st.hash) : Proceeds(m, w, clean(text))
        \/ \E text \in Marked(base, t.local, t.st.hash) : Proceeds(m, w, marked(text))
  BY DEF MergeTexts
<1>5. PICK text \in Clean(base, t.local, t.st.hash) \cup Marked(base, t.local, t.st.hash) :
        \/ text \in Clean(base, t.local, t.st.hash) /\ Proceeds(m, w, clean(text))
        \/ text \in Marked(base, t.local, t.st.hash) /\ Proceeds(m, w, marked(text))
  BY <1>4
<1>6. /\ base \in DocTexts /\ base.edits \subseteq LogEdits(sidecar[m].rev, docLog)
      /\ base.edits \subseteq KnownEdits(docLog) /\ (HubUnmarked => ~base.marks)
  BY <1>1, BaseFacts
<1>7. /\ text \in DocTexts /\ t.local.edits \subseteq text.edits \cup base.edits
      /\ t.st.hash.edits \subseteq text.edits \cup (base.edits \ t.local.edits)
      /\ text \in Marked(base, t.local, t.st.hash) => text.marks
      /\ text \in Clean(base, t.local, t.st.hash) /\ ~base.marks /\ ~t.local.marks /\ ~t.st.hash.marks => ~text.marks
  <2>1. base \in DocTexts /\ t.local \in DocTexts /\ t.st.hash \in DocTexts
    BY <1>2, <1>6
  <2> HIDE DEF t
  <2>2. /\ \A other \in Clean(base, t.local, t.st.hash) \cup Marked(base, t.local, t.st.hash) :
               /\ other \in DocTexts
               /\ t.local.edits \subseteq other.edits \cup base.edits
               /\ t.st.hash.edits \subseteq other.edits \cup (base.edits \ t.local.edits)
        /\ \A other \in Clean(base, t.local, t.st.hash) :
               ~base.marks /\ ~t.local.marks /\ ~t.st.hash.marks => ~other.marks
        /\ \A other \in Marked(base, t.local, t.st.hash) : other.marks
    BY <2>1, MergeFacts
  <2> QED BY <1>5, <2>2
<1>8. PICK s : /\ Proceeds(m, w, s)
               /\ \/ text \in Clean(base, t.local, t.st.hash) /\ s = clean(text)
                  \/ text \in Marked(base, t.local, t.st.hash) /\ s = marked(text)
  BY <1>5
<1>9. /\ s \in WorkerStates /\ s.at = "write" /\ s.op = "merge" /\ s.text = text /\ s.local = t.local
      /\ s.st.rev = t.st.rev
      /\ \/ text \in Clean(base, t.local, t.st.hash) /\ s.st.hash = t.st.hash
         \/ text.marks /\ s.st.hash = text
  <2>1. CASE s = clean(text) /\ text \in Clean(base, t.local, t.st.hash)
    BY <1>1, <1>3, <1>7, <2>1 DEF WorkerStates, DocPlaces
  <2>2. CASE s = marked(text) /\ text \in Marked(base, t.local, t.st.hash)
    <3>1. [t.st EXCEPT !.hash = text] \in DocStates
      BY <1>2, <1>7 DEF DocStates
    <3> QED BY <1>1, <1>2, <1>3, <1>7, <2>2, <3>1 DEF WorkerStates, DocPlaces, DocStates
  <2> QED BY <1>8, <2>1, <2>2
<1> HIDE DEF t, clean, marked
<1>10. WorkerOK(s, docLog)
  BY <1>1, <1>9 DEF WorkerOK
<1>11. LocalKept(s, docLog)
  BY <1>1, <1>6, <1>7, <1>9 DEF LocalKept, Recorded
<1>12. ASSUME raced' = {} PROVE Follows(s, reached[m], docLog)
  <2>1. sidecar[m].rev <= reached[m]
    BY <1>3, <1>12 DEF DocsInv, HubKept, FileFollows
  <2>2. LogEdits(t.st.rev, docLog) = t.st.hash.edits
    BY <1>1, <1>2, <1>3 DEF WorkerOK, LogEdits
  <2>3. LogEdits(s.st.rev, docLog) \subseteq s.text.edits \cup (LogEdits(sidecar[m].rev, docLog) \ s.local.edits)
    BY <1>6, <1>7, <1>9, <2>2
  <2> QED BY <1>1, <1>9, <2>1, <2>3 DEF Follows
<1>13. ASSUME exposed' = {} PROVE Unmarked(s) /\ Beside(m, w, s) /\ ~docFile[m].marks
  <2>1. MarksHeld(m) /\ HubUnmarked /\ Unmarked(t)
    BY <1>3, <1>13 DEF DocsInv, MarksInv, MarksHeld, t
  <2>2. ~docFile[m].marks
    BY <1>3, <2>1 DEF MarksHeld, Spared, t
  <2>3. ~t.local.marks /\ ~t.st.hash.marks
    <3>1. t.st.rev \in 1 .. MaxDocRev /\ t.st.hash = docLog[t.st.rev]
      BY <1>1, <1>2, <1>3 DEF WorkerOK
    <3> QED BY <1>3, <2>1, <3>1 DEF Unmarked, HubUnmarked
  <2>4. Unmarked(s)
    BY <1>6, <1>7, <1>9, <2>1, <2>3 DEF Unmarked
  <2>5. Beside(m, w, s)
    BY <1>3, <1>9 DEF Beside, Place, t
  <2> QED BY <2>2, <2>4, <2>5
<1>14. exposed \subseteq exposed' /\ exposed' \subseteq Machines /\ raced \subseteq raced' /\ raced' \subseteq Machines
  BY <1>3 DEF DocsInv, DocsOK, MachinesTypeOK
<1> QED BY <1>3, <1>8, <1>9, <1>10, <1>11, <1>12, <1>13, <1>14, TurnKeeps DEF t

LEMMA FetchToMergeKeeps ==
    ASSUME DocsInv, NEW m \in Machines, NEW w \in DocWorkers, FetchToMerge(m, w) PROVE DocsInv'
<1> USE DocTextFacts, AtRestFacts
<1> DEFINE t == docWorker[m][w]
           st == Synced(doc.rev, doc.body)
           s == IF t.local = doc.body THEN Records("merge", st) ELSE [t EXCEPT !.at = "fetched", !.st = st]
<1>1. /\ DocsOK /\ MachinesTypeOK /\ t \in WorkerStates /\ WorkerOK(t, docLog) /\ LocalKept(t, docLog)
  BY DEF DocsInv, DocsOK, FilesKept
<1>2. /\ t.at = "merging" /\ Shown /\ Proceeds(m, w, s)
      /\ IF t.local = doc.body
         THEN /\ reached' = [reached EXCEPT ![m] = doc.rev]
              /\ raced' = IF ~(t.local.edits \subseteq docFile[m].edits) THEN raced \cup {m} ELSE raced
         ELSE UNCHANGED <<reached, raced>>
      /\ UNCHANGED <<doc, docLog, docFile, sidecar, agent, exposed>>
  BY DEF FetchToMerge, Takes
<1>3. /\ doc.rev \in 1 .. MaxDocRev /\ docLog[doc.rev] = doc.body /\ doc.body \in DocTexts
      /\ doc.body.edits \subseteq KnownEdits(docLog) /\ WasShown(doc.rev, docLog)
      /\ doc.body.edits = LogEdits(doc.rev, docLog) /\ LogOK(doc, docLog)
  <2>1. ~doc.deleted
    BY <1>2 DEF Shown
  <2> QED BY <1>1, <1>2, <2>1, BodyFacts DEF DocsOK
<1>4. st \in DocStates /\ st.rev = doc.rev /\ st.hash = doc.body
  BY <1>3
<1>5. t.op = "merge"
  BY <1>1, <1>2 DEF WorkerOK
<1>6. /\ s \in WorkerStates /\ s.op = "merge" /\ s.st = st
      /\ IF t.local = doc.body THEN s.at = "record" /\ s.local = Missing ELSE s.at = "fetched" /\ s.local = t.local
  <2>1. CASE t.local = doc.body
    BY <1>4, <2>1 DEF DocOps
  <2>2. CASE t.local # doc.body
    BY <1>1, <1>4, <1>5, <2>2 DEF WorkerStates, DocPlaces
  <2> QED BY <2>1, <2>2
<1> HIDE DEF s, t, st
<1>7. WorkerOK(s, docLog) /\ LocalKept(s, docLog)
  BY <1>3, <1>4, <1>6 DEF WorkerOK, LocalKept, Recorded
<1>8. ASSUME exposed' = {} PROVE Unmarked(s) /\ Beside(m, w, s) /\ ~docFile[m].marks
  <2>1. MarksHeld(m) /\ Unmarked(t)
    BY <1>2, <1>8 DEF DocsInv, MarksInv, MarksHeld, t
  <2>2. ~docFile[m].marks
    BY <1>2, <1>5, <2>1 DEF MarksHeld, Spared, t
  <2>3. Unmarked(s)
    BY <1>5, <1>6, <2>1 DEF Unmarked
  <2> QED BY <1>2, <1>5, <2>2, <2>3 DEF Beside, Place, t
<1>9. exposed \subseteq exposed' /\ exposed' \subseteq Machines /\ raced \subseteq raced' /\ raced' \subseteq Machines
  BY <1>1, <1>2 DEF MachinesTypeOK
<1>10. CASE t.local # doc.body
  <2>1. Follows(s, reached[m], docLog)
    BY <1>6, <1>10 DEF Follows
  <2> QED BY <1>2, <1>6, <1>7, <1>8, <1>9, <1>10, <2>1, TurnKeeps
<1>11. CASE t.local = doc.body
  <2>1. MachinesTypeOK'
    <3>1. doc.rev \in 0 .. MaxDocRev /\ reached' = [reached EXCEPT ![m] = doc.rev]
      BY <1>2, <1>3, <1>11
    <3>2. reached' \in [Machines -> 0 .. MaxDocRev]
      BY <1>1, <3>1 DEF MachinesTypeOK
    <3>3. UNCHANGED <<docFile, sidecar, agent>>
      BY <1>2
    <3> QED BY <1>1, <1>9, <3>2, <3>3 DEF MachinesTypeOK
  <2>2. /\ reached'[m] = doc.rev /\ \A n \in Machines \ {m} : reached'[n] = reached[n]
    BY <1>1, <1>2, <1>11 DEF MachinesTypeOK
  <2>3. WasShown(sidecar'[m].rev, docLog') /\ Recorded(sidecar'[m].hash, docLog')
    BY <1>2 DEF DocsInv, DocsOK, FilesKept
  <2>4. ASSUME raced' = {}
        PROVE  /\ Chain(docLog') /\ reached[m] <= reached'[m]
               /\ FileFollows(docFile'[m], sidecar'[m], reached'[m], docLog')
               /\ Follows(s, reached'[m], docLog')
    <3>1. raced = {} /\ t.local.edits \subseteq docFile[m].edits
      BY <1>2, <1>11, <2>4
    <3>2. Chain(docLog) /\ FileFollows(docFile[m], sidecar[m], reached[m], docLog)
      BY <3>1 DEF DocsInv, HubKept
    <3>3. reached[m] \in 0 .. MaxDocRev /\ sidecar[m].rev \in 0 .. MaxDocRev
      BY <1>1 DEF MachinesTypeOK, DocStates
    <3>4. reached[m] <= doc.rev
      BY <1>3, <3>2, <3>3 DEF FileFollows, WasShown, LogOK
    <3>5. FileFollows(docFile[m], sidecar[m], doc.rev, docLog)
      BY <1>3, <1>11, <3>1, <3>2, <3>3, <3>4 DEF FileFollows
    <3>6. Follows(s, doc.rev, docLog)
      BY <1>3, <1>4, <1>6, <1>11 DEF Follows
    <3> QED BY <1>2, <2>2, <3>2, <3>4, <3>5, <3>6
  <2> QED BY <1>2, <1>6, <1>7, <1>8, <1>9, <2>1, <2>2, <2>3, <2>4, HubSame, StepKeeps
<1> QED BY <1>10, <1>11

\* A worker records in the sidecar what it has in hand, as it ends.
LEMMA SidecarKeeps ==
    ASSUME DocsInv, NEW m \in Machines, NEW w \in DocWorkers, NEW s \in {AtRest, Reconciled}, Proceeds(m, w, s),
           Place(m, w) \in {"loaded", "publishing", "record"}, s = Reconciled => docWorker[m][w].op = "sync",
           sidecar' = [sidecar EXCEPT ![m] = docWorker[m][w].st],
           UNCHANGED <<doc, docLog, docFile, agent, docsHistory>>
    PROVE  DocsInv'
<1> USE DocTextFacts, AtRestFacts
<1> DEFINE t == docWorker[m][w]
<1>1. /\ DocsOK /\ MachinesTypeOK /\ t \in WorkerStates /\ WorkerOK(t, docLog) /\ LocalKept(t, docLog)
      /\ t.at \in {"loaded", "publishing", "record"} /\ t.st \in DocStates
  BY DEF DocsInv, DocsOK, FilesKept, Place, WorkerStates
<1>2. UNCHANGED <<doc, docLog, docFile, agent, reached, raced, exposed>>
  BY DEF docsHistory
<1>3. s \in WorkerStates /\ s.op # "merge" /\ (s.at = "rest" => s.op = "none")
  OBVIOUS
<1>4. WorkerOK(s, docLog) /\ LocalKept(s, docLog) /\ Unmarked(s) /\ Spared(s, docFile[m])
      /\ Follows(s, reached[m], docLog)
  <2>1. reached[m] \in Nat
    BY <1>1 DEF MachinesTypeOK
  <2> QED BY <2>1, RestingOK
<1>5. MachinesTypeOK' /\ sidecar'[m] = t.st /\ \A n \in Machines \ {m} : sidecar'[n] = sidecar[n]
  BY <1>1, <1>2 DEF MachinesTypeOK
<1>6. WasShown(sidecar'[m].rev, docLog') /\ Recorded(sidecar'[m].hash, docLog')
  BY <1>1, <1>2, <1>5 DEF WorkerOK, LocalKept
<1>7. ASSUME raced' = {}
      PROVE  /\ Chain(docLog') /\ reached[m] <= reached'[m]
             /\ FileFollows(docFile'[m], sidecar'[m], reached'[m], docLog')
  <2>1. Chain(docLog) /\ FileFollows(docFile[m], sidecar[m], reached[m], docLog) /\ Follows(t, reached[m], docLog)
    BY <1>2, <1>7 DEF DocsInv, HubKept, t
  <2>2. t.st.rev <= reached[m]
    BY <1>1, <2>1 DEF Follows
  <2>3. reached[m] <= reached[m]
    BY <1>1 DEF MachinesTypeOK
  <2> QED BY <1>2, <1>5, <2>1, <2>2, <2>3 DEF FileFollows
<1>8. ASSUME exposed' = {}
      PROVE  /\ Beside(m, w, s)
             /\ docFile[m].marks => /\ \A v \in DocWorkers : Spared(docWorker'[m][v], docFile[m])
                                    /\ sidecar'[m].hash = docFile[m]
  <2>1. MarksHeld(m)
    BY <1>2, <1>8 DEF DocsInv, MarksInv
  <2>2. Beside(m, w, s)
    BY <1>1, <1>3 DEF Beside, Place
  <2>3. \A v \in DocWorkers : docWorker'[m][v] = IF v = w THEN s ELSE docWorker[m][v]
    BY <1>1, <1>3, OneWorker
  <2>4. docFile[m].marks => t.st.hash = docFile[m]
    BY <1>1, <2>1 DEF MarksHeld, Spared
  <2> HIDE DEF t
  <2> QED BY <1>4, <1>5, <2>1, <2>2, <2>3, <2>4 DEF MarksHeld
<1> HIDE DEF t
<1> QED BY <1>2, <1>3, <1>4, <1>5, <1>6, <1>7, <1>8, HubSame, StepKeeps

LEMMA RecordsKeep ==
    ASSUME DocsInv, NEW m \in Machines, NEW w \in DocWorkers, RecordSidecar(m, w) \/ SaveStale(m, w)
    PROVE  DocsInv'
<1> DEFINE s == IF docWorker[m][w].op = "sync" THEN Reconciled ELSE AtRest
<1>1. /\ Proceeds(m, w, s) /\ Place(m, w) \in {"loaded", "publishing", "record"}
      /\ sidecar' = [sidecar EXCEPT ![m] = docWorker[m][w].st]
      /\ UNCHANGED <<doc, docLog, docFile, agent, docsHistory>>
  BY DEF RecordSidecar, SaveStale
<1>2. s \in {AtRest, Reconciled} /\ (s = Reconciled => docWorker[m][w].op = "sync")
  BY AtRestFacts
<1> HIDE DEF s
<1> QED BY <1>1, <1>2, SidecarKeeps

LEMMA AfterFacts ==
    ASSUME NEW old \in DocTexts, NEW e \in DocEdits, NEW text \in After(old, e)
    PROVE  text \in DocTexts /\ text.there /\ old.edits \subseteq text.edits /\ (~old.marks => ~text.marks)
<1>1. PICK marks \in {FALSE, old.marks} : text = Text(old.edits \cup {e}, marks)
  BY DEF After
<1>2. old.edits \cup {e} \in SUBSET DocEdits /\ marks \in BOOLEAN
  BY <1>1 DEF DocTexts
<1> QED BY <1>1, <1>2, DocTextFacts

\* A text is put, and no retirement.
PutText(body, base) == PutDoc(body, FALSE, base)

(***************************************************************************)
(* A write over a revision that was shown: it is refused, or it was there, *)
(* or it is the next revision.                                             *)
(***************************************************************************)
LEMMA PutFacts ==
    ASSUME DocsOK, NEW body \in DocTexts, body.there, NEW base \in 0 .. MaxDocRev, WasShown(base, docLog),
           PutText(body, base)
    PROVE  /\ HubTypeOK' /\ LogOK(doc', docLog') /\ Grows
           /\ Accepted(body, base) => /\ RevAfter(body, base) = doc'.rev
                                      /\ doc'.rev \in 1 .. MaxDocRev /\ docLog'[doc'.rev] = body
           /\ \/ UNCHANGED <<doc, docLog>>
              \/ /\ base = doc.rev /\ ~doc.deleted /\ doc'.body = body /\ doc'.rev = base + 1
                 /\ \A r \in 1 .. MaxDocRev : docLog'[r] = IF r = base + 1 THEN body ELSE docLog[r]
<1> USE DocTextFacts
<1>1. /\ doc \in [rev : 0 .. MaxDocRev, body : DocTexts, deleted : BOOLEAN]
      /\ docLog \in [1 .. MaxDocRev -> DocTexts] /\ LogOK(doc, docLog)
  BY DEF DocsOK, HubTypeOK
<1>2. CASE SameDoc(body, FALSE)
  <2>1. UNCHANGED <<doc, docLog>> /\ RevAfter(body, base) = doc.rev
    BY <1>2 DEF PutText, PutDoc, hubUnchanged, RevAfter
  <2>2. doc.rev \in 1 .. MaxDocRev /\ docLog[doc.rev] = body
    BY <1>1, <1>2 DEF SameDoc, LogOK
  <2> QED BY <1>1, <2>1, <2>2 DEF HubTypeOK, Grows
<1>3. CASE ~SameDoc(body, FALSE) /\ Refuses(body, FALSE, base)
  BY <1>1, <1>3 DEF PutText, PutDoc, hubUnchanged, Accepted, HubTypeOK, Grows
<1>4. CASE ~SameDoc(body, FALSE) /\ ~Refuses(body, FALSE, base)
  <2>1. /\ base = doc.rev /\ doc.rev < MaxDocRev
        /\ doc' = [rev |-> base + 1, body |-> body, deleted |-> FALSE]
        /\ docLog' = [docLog EXCEPT ![base + 1] = body]
    BY <1>4 DEF PutText, PutDoc, Refuses
  <2>2. base + 1 \in 1 .. MaxDocRev /\ doc'.rev = base + 1 /\ doc'.body = body /\ ~doc'.deleted
    BY <1>1, <2>1
  <2>3. \A r \in 1 .. MaxDocRev : docLog'[r] = IF r = base + 1 THEN body ELSE docLog[r]
    BY <1>1, <2>1, <2>2
  <2>4. HubTypeOK'
    BY <1>1, <2>1, <2>2 DEF HubTypeOK
  <2>5. ~doc.deleted
    BY <1>1, <2>1 DEF LogOK, WasShown
  <2>6. LogOK(doc', docLog')
    BY <1>1, <2>1, <2>2, <2>3 DEF LogOK
  <2>7. Grows
    BY <1>1, <2>1, <2>3 DEF Grows, LogOK
  <2>8. RevAfter(body, base) = base + 1
    BY <1>4 DEF RevAfter
  <2> QED BY <2>1, <2>2, <2>3, <2>4, <2>5, <2>6, <2>7, <2>8
<1> QED BY <1>2, <1>3, <1>4

\* A revision with all that its base has follows the others; no marks come of a text without.
LEMMA PutKeeps ==
    ASSUME DocsOK, NEW body \in DocTexts, body.there, NEW base \in 0 .. MaxDocRev, WasShown(base, docLog),
           PutText(body, base)
    PROVE  /\ Chain(docLog) /\ LogEdits(base, docLog) \subseteq body.edits => Chain(docLog')
           /\ HubUnmarked /\ ~body.marks /\ (\A n \in Machines : ~agent'[n].hash.marks) => HubUnmarked'
           /\ LogEdits(base, docLog) \subseteq body.edits /\ doc'.rev # doc.rev
              => doc.body.edits \subseteq doc'.body.edits
           /\ doc.rev <= doc'.rev
<1> USE DocTextFacts
<1>1. /\ doc.rev \in 0 .. MaxDocRev /\ LogOK(doc, docLog) /\ docLog \in [1 .. MaxDocRev -> DocTexts]
  BY DEF DocsOK, HubTypeOK
<1> DEFINE written == /\ base = doc.rev /\ ~doc.deleted /\ doc'.body = body /\ doc'.rev = base + 1
                      /\ \A r \in 1 .. MaxDocRev : docLog'[r] = IF r = base + 1 THEN body ELSE docLog[r]
<1>2. CASE UNCHANGED <<doc, docLog>>
  BY <1>1, <1>2 DEF HubUnmarked
<1>3. CASE written
  <2>1. written
    BY <1>3
  <2>2. ASSUME Chain(docLog), LogEdits(base, docLog) \subseteq body.edits PROVE Chain(docLog')
    <3>1. ASSUME NEW r \in 1 .. MaxDocRev, NEW q \in 1 .. MaxDocRev, r <= q, docLog'[q].there
          PROVE  docLog'[r].edits \subseteq docLog'[q].edits
      <4>1. CASE q = base + 1 /\ r # q
        <5>1. r <= base /\ base \in 1 .. MaxDocRev /\ docLog[base].there
          BY <3>1, <4>1 DEF WasShown
        <5>2. docLog[r].edits \subseteq docLog[base].edits
          BY <2>2, <5>1 DEF Chain
        <5> QED BY <2>1, <2>2, <4>1, <5>1, <5>2 DEF LogEdits
      <4>2. CASE q # base + 1
        <5>1. q <= doc.rev
          BY <1>1, <2>1, <3>1, <4>2 DEF LogOK
        <5> QED BY <1>1, <2>1, <2>2, <3>1, <4>2, <5>1 DEF Chain
      <4> QED BY <4>1, <4>2
    <3> QED BY <3>1 DEF Chain
  <2>3. HubUnmarked /\ ~body.marks /\ (\A n \in Machines : ~agent'[n].hash.marks) => HubUnmarked'
    BY <2>1 DEF HubUnmarked
  <2>4. doc.body.edits = LogEdits(base, docLog)
    BY <2>1, BodyFacts
  <2> QED BY <1>1, <2>1, <2>2, <2>3, <2>4
<1>4. UNCHANGED <<doc, docLog>> \/ written
  <2>1. \/ UNCHANGED <<doc, docLog>>
        \/ /\ base = doc.rev /\ ~doc.deleted /\ doc'.body = body /\ doc'.rev = base + 1
           /\ \A r \in 1 .. MaxDocRev : docLog'[r] = IF r = base + 1 THEN body ELSE docLog[r]
    BY PutFacts
  <2> QED BY <2>1
<1> HIDE DEF written
<1> QED BY <1>2, <1>3, <1>4

\* An agent's text stays a revision as the log grows.
LEMMA AgentGrows ==
    ASSUME DocsOK, Grows, NEW n \in Machines PROVE AgentOK(agent[n], docLog')
<1>1. AgentOK(agent[n], docLog) /\ agent[n].rev \in 0 .. MaxDocRev /\ MaxDocRev \in Nat
  BY DocTextFacts DEF DocsOK, MachinesTypeOK, DocStates
<1> QED BY <1>1 DEF AgentOK, WasShown, Grows

LEMMA PutHubDocKeeps == ASSUME DocsInv, NEW m \in Machines, NEW w \in DocWorkers, PutHubDoc(m, w) PROVE DocsInv'
<1> USE DocTextFacts, AtRestFacts
<1> DEFINE t == docWorker[m][w]
           s == Records(t.op, Synced(RevAfter(t.text, t.st.rev), t.text))
<1>1. /\ DocsOK /\ MachinesTypeOK /\ t \in WorkerStates /\ WorkerOK(t, docLog)
  BY DEF DocsInv, DocsOK
<1>2. t.text \in DocTexts /\ t.st \in DocStates /\ t.st.rev \in 0 .. MaxDocRev /\ t.op \in DocOps
  BY <1>1 DEF WorkerStates, DocStates
<1>3. /\ t.at = "put" /\ PutText(t.text, t.st.rev) /\ UNCHANGED <<docFile, sidecar, agent, exposed>>
      /\ \/ /\ Accepted(t.text, t.st.rev) /\ Proceeds(m, w, s)
            /\ Takes(m, RevAfter(t.text, t.st.rev), ~(t.text.edits \subseteq docFile[m].edits))
         \/ Proceeds(m, w, AtRest) /\ UNCHANGED <<raced, reached>>
  BY DEF PutHubDoc, PutText
<1>4. t.text.there /\ WasShown(t.st.rev, docLog) /\ t.op # "merge"
  BY <1>1, <1>3 DEF WorkerOK
<1> HIDE DEF t
<1>5. /\ HubTypeOK' /\ LogOK(doc', docLog') /\ Grows
      /\ Accepted(t.text, t.st.rev) => /\ RevAfter(t.text, t.st.rev) = doc'.rev
                                       /\ doc'.rev \in 1 .. MaxDocRev /\ docLog'[doc'.rev] = t.text
  BY <1>1, <1>2, <1>3, <1>4, PutFacts
<1>6. /\ Chain(docLog) /\ LogEdits(t.st.rev, docLog) \subseteq t.text.edits => Chain(docLog')
      /\ HubUnmarked /\ ~t.text.marks /\ (\A n \in Machines : ~agent'[n].hash.marks) => HubUnmarked'
      /\ doc.rev <= doc'.rev
  BY <1>1, <1>2, <1>3, <1>4, PutKeeps
<1>7. /\ \A n \in Machines : AgentOK(agent'[n], docLog')
      /\ docLog' \in [1 .. MaxDocRev -> DocTexts]
  BY <1>1, <1>3, <1>5, AgentGrows DEF HubTypeOK
<1>8. /\ WasShown(sidecar'[m].rev, docLog') /\ Recorded(sidecar'[m].hash, docLog')
      /\ sidecar[m].rev \in 0 .. MaxDocRev /\ reached[m] \in 0 .. MaxDocRev
  <2>1. sidecar[m].rev \in 0 .. MaxDocRev /\ reached[m] \in 0 .. MaxDocRev
    BY <1>1 DEF MachinesTypeOK, DocStates
  <2>2. WasShown(sidecar[m].rev, docLog) /\ Recorded(sidecar[m].hash, docLog)
    BY DEF DocsInv, DocsOK, FilesKept
  <2> QED BY <1>1, <1>3, <1>5, <1>7, <2>1, <2>2, GrowsKeeps
<1>9. ASSUME raced = {}
      PROVE  /\ Chain(docLog) /\ Chain(docLog') /\ FileFollows(docFile[m], sidecar[m], reached[m], docLog)
             /\ FileFollows(docFile[m], sidecar[m], reached[m], docLog')
  <2>1. /\ Chain(docLog) /\ FileFollows(docFile[m], sidecar[m], reached[m], docLog)
        /\ Follows(t, reached[m], docLog)
    BY <1>9 DEF DocsInv, HubKept, t
  <2>2. LogEdits(t.st.rev, docLog) \subseteq t.text.edits
    BY <1>3, <2>1 DEF Follows
  <2>3. FileFollows(docFile[m], sidecar[m], reached[m], docLog')
    BY <1>1, <1>5, <1>7, <1>8, <2>1, GrowsKeeps DEF FileFollows
  <2> QED BY <1>6, <2>1, <2>2, <2>3
<1>10. ASSUME exposed' = {} PROVE HubUnmarked' /\ ~docFile'[m].marks
  <2>1. HubUnmarked /\ MarksHeld(m) /\ Unmarked(t)
    BY <1>3, <1>10 DEF DocsInv, MarksInv, MarksHeld, t
  <2>2. ~docFile[m].marks
    BY <1>3, <2>1 DEF MarksHeld, Spared, t
  <2>3. ~t.text.marks /\ \A n \in Machines : ~agent'[n].hash.marks
    BY <1>3, <2>1 DEF Unmarked, HubUnmarked
  <2> QED BY <1>3, <1>6, <2>1, <2>2, <2>3
<1>11. CASE Proceeds(m, w, AtRest) /\ UNCHANGED <<raced, reached>>
  <2>1. /\ WorkerOK(AtRest, docLog') /\ LocalKept(AtRest, docLog') /\ Follows(AtRest, reached[m], docLog')
        /\ Unmarked(AtRest) /\ Beside(m, w, AtRest)
    <3>1. reached[m] \in Nat
      BY <1>8
    <3>2. Beside(m, w, AtRest)
      BY <1>3 DEF Beside, Place, t
    <3> QED BY <3>1, <3>2, RestingOK
  <2>2. MachinesTypeOK'
    BY <1>1, <1>3, <1>11 DEF MachinesTypeOK
  <2>3. reached[m] <= reached[m]
    BY <1>8
  <2> QED BY <1>3, <1>5, <1>7, <1>8, <1>9, <1>10, <1>11, <2>1, <2>2, <2>3, StepKeeps
<1>12. CASE /\ Accepted(t.text, t.st.rev) /\ Proceeds(m, w, s)
            /\ Takes(m, RevAfter(t.text, t.st.rev), ~(t.text.edits \subseteq docFile[m].edits))
  <2>1. /\ doc'.rev \in 1 .. MaxDocRev /\ docLog'[doc'.rev] = t.text
        /\ s = Records(t.op, Synced(doc'.rev, t.text))
        /\ reached' = [reached EXCEPT ![m] = doc'.rev]
        /\ raced' = IF ~(t.text.edits \subseteq docFile[m].edits) THEN raced \cup {m} ELSE raced
    BY <1>5, <1>12 DEF Takes
  <2>2. Synced(doc'.rev, t.text) \in DocStates /\ Synced(doc'.rev, t.text).rev = doc'.rev
        /\ Synced(doc'.rev, t.text).hash = t.text
    BY <1>2, <2>1
  <2>3. /\ s \in WorkerStates /\ s.at = "record" /\ s.op = t.op /\ s.st.rev = doc'.rev /\ s.st.hash = t.text
        /\ s.local = Missing
    BY <1>2, <2>1, <2>2
  <2> HIDE DEF s
  <2>4. MachinesTypeOK' /\ reached'[m] = doc'.rev /\ \A n \in Machines \ {m} : reached'[n] = reached[n]
    BY <1>1, <1>3, <2>1 DEF MachinesTypeOK
  <2>5. WorkerOK(s, docLog') /\ LocalKept(s, docLog')
    <3>1. t.text.edits \subseteq KnownEdits(docLog')
      BY <2>1 DEF KnownEdits
    <3> QED BY <1>4, <2>1, <2>3, <3>1 DEF WorkerOK, WasShown, LocalKept, Recorded
  <2>6. ASSUME raced' = {}
        PROVE  /\ Chain(docLog') /\ reached[m] <= reached'[m]
               /\ FileFollows(docFile'[m], sidecar'[m], reached'[m], docLog')
               /\ Follows(s, reached'[m], docLog')
    <3>1. raced = {} /\ t.text.edits \subseteq docFile[m].edits
      BY <2>1, <2>6
    <3>2. reached[m] <= doc'.rev
      BY <1>5, <1>8, <1>9, <2>1, <3>1 DEF FileFollows, WasShown, LogOK
    <3>3. FileFollows(docFile[m], sidecar[m], doc'.rev, docLog')
      BY <1>4, <1>8, <1>9, <2>1, <3>1, <3>2 DEF FileFollows, WasShown, LogEdits
    <3>4. Follows(s, doc'.rev, docLog')
      BY <2>1, <2>3 DEF Follows
    <3> QED BY <1>3, <1>9, <2>4, <3>1, <3>2, <3>3, <3>4
  <2>7. Unmarked(s) /\ Beside(m, w, s)
    BY <1>3, <1>4, <2>3 DEF Unmarked, Beside, Place, t
  <2>8. raced \subseteq raced'
    BY <2>1
  <2> QED BY <1>3, <1>5, <1>7, <1>8, <1>10, <1>12, <2>3, <2>4, <2>5, <2>6, <2>7, <2>8, StepKeeps
<1> QED BY <1>3, <1>11, <1>12

LEMMA UpdateDocKeeps ==
    ASSUME DocsInv, NEW m \in Machines, NEW w \in DocWorkers, NEW e \in DocEdits, UpdateDoc(m, w, e)
    PROVE  DocsInv'
<1> USE DocTextFacts, AtRestFacts
<1> DEFINE base == agent[m].rev
           f(body) == [at |-> "write", op |-> "update", st |-> Synced(RevAfter(body, base), body),
                       local |-> docFile[m], text |-> body]
<1>1. DocsOK /\ MachinesTypeOK /\ docFile[m] \in DocTexts /\ sidecar[m] \in DocStates /\ agent[m] \in DocStates
  BY DEF DocsInv, DocsOK, MachinesTypeOK
<1>2. PICK body \in After(agent[m].hash, e) :
        Accepted(body, base) /\ PutText(body, base) /\ Starts(m, w, f(body))
  BY DEF UpdateDoc, PutText
<1>3. /\ base > 0 /\ agent' = [agent EXCEPT ![m] = Unsynced]
      /\ UNCHANGED <<docFile, sidecar, reached, raced>>
  BY DEF UpdateDoc
<1>4. /\ base \in 1 .. MaxDocRev /\ WasShown(base, docLog) /\ agent[m].hash = docLog[base]
      /\ agent[m].hash \in DocTexts
  BY <1>1, <1>3 DEF DocStates, DocsOK, AgentOK
<1>5. body \in DocTexts /\ body.there /\ agent[m].hash.edits \subseteq body.edits
      /\ (~agent[m].hash.marks => ~body.marks)
  BY <1>4, AfterFacts
<1> HIDE DEF base
<1>6. /\ HubTypeOK' /\ LogOK(doc', docLog') /\ Grows
      /\ RevAfter(body, base) = doc'.rev /\ doc'.rev \in 1 .. MaxDocRev /\ docLog'[doc'.rev] = body
  BY <1>1, <1>2, <1>4, <1>5, PutFacts
<1>7. /\ Chain(docLog) /\ LogEdits(base, docLog) \subseteq body.edits => Chain(docLog')
      /\ HubUnmarked /\ ~body.marks /\ (\A n \in Machines : ~agent'[n].hash.marks) => HubUnmarked'
  BY <1>1, <1>2, <1>4, <1>5, PutKeeps
<1>8. LogEdits(base, docLog) \subseteq body.edits
  BY <1>4, <1>5 DEF LogEdits
<1>9. Synced(doc'.rev, body) \in DocStates /\ Synced(doc'.rev, body).rev = doc'.rev
      /\ Synced(doc'.rev, body).hash = body
  BY <1>5, <1>6
<1> DEFINE s == f(body)
<1>10. /\ s \in WorkerStates /\ s.at = "write" /\ s.op = "update" /\ s.st.rev = doc'.rev /\ s.st.hash = body
       /\ s.local = docFile[m] /\ s.text = body
  BY <1>1, <1>5, <1>6, <1>9 DEF WorkerStates, DocPlaces, DocOps
<1> HIDE DEF f, s
<1>11. Starts(m, w, s)
  BY <1>2 DEF s
<1>12. /\ Proceeds(m, w, s) /\ docWorker[m][w].op # "merge" /\ Place(m, w) = "rest"
       /\ exposed \subseteq exposed' /\ exposed' \subseteq Machines /\ (exposed' = {} => Beside(m, w, s))
  BY <1>10, <1>11, Started
<1>13. /\ docLog' \in [1 .. MaxDocRev -> DocTexts]
       /\ \A n \in Machines : AgentOK(agent'[n], docLog')
       /\ \A n \in Machines : agent'[n] = IF n = m THEN Unsynced ELSE agent[n]
  <2>1. \A n \in Machines : agent'[n] = IF n = m THEN Unsynced ELSE agent[n]
    BY <1>1, <1>3 DEF MachinesTypeOK
  <2>2. AgentOK(Unsynced, docLog')
    BY DEF AgentOK, WasShown
  <2> QED BY <1>1, <1>6, <2>1, <2>2, AgentGrows DEF HubTypeOK
<1>14. MachinesTypeOK'
  <2>1. agent' \in [Machines -> DocStates]
    BY <1>1, <1>3 DEF MachinesTypeOK
  <2> QED BY <1>1, <1>3, <1>12, <2>1 DEF MachinesTypeOK
<1>15. WorkerOK(s, docLog') /\ LocalKept(s, docLog')
  <2>1. body.edits \subseteq KnownEdits(docLog')
    BY <1>6 DEF KnownEdits
  <2> QED BY <1>5, <1>6, <1>10, <2>1 DEF WorkerOK, WasShown, LocalKept, Recorded
<1>16. /\ sidecar[m].rev \in 0 .. MaxDocRev /\ reached[m] \in 0 .. MaxDocRev
  BY <1>1 DEF MachinesTypeOK, DocStates
<1>17. WasShown(sidecar'[m].rev, docLog') /\ Recorded(sidecar'[m].hash, docLog')
  <2>1. WasShown(sidecar[m].rev, docLog) /\ Recorded(sidecar[m].hash, docLog)
    BY DEF DocsInv, DocsOK, FilesKept
  <2> QED BY <1>1, <1>3, <1>6, <1>13, <1>16, <2>1, GrowsKeeps
<1>18. ASSUME raced' = {}
       PROVE  /\ Chain(docLog') /\ reached[m] <= reached'[m]
              /\ FileFollows(docFile'[m], sidecar'[m], reached'[m], docLog')
              /\ Follows(s, reached'[m], docLog')
  <2>1. Chain(docLog) /\ FileFollows(docFile[m], sidecar[m], reached[m], docLog)
    BY <1>3, <1>18 DEF DocsInv, HubKept
  <2>2. FileFollows(docFile[m], sidecar[m], reached[m], docLog')
    BY <1>1, <1>6, <1>13, <1>16, <2>1, GrowsKeeps DEF FileFollows
  <2>3. LogEdits(s.st.rev, docLog') \subseteq s.text.edits \cup (LogEdits(0, docLog') \ s.local.edits)
    BY <1>6, <1>10 DEF LogEdits
  <2>4. reached[m] <= reached[m] /\ 0 <= reached[m] /\ 0 \in 0 .. MaxDocRev
    BY <1>16
  <2>5. Follows(s, reached[m], docLog')
    BY <1>10, <2>3, <2>4 DEF Follows
  <2> QED BY <1>3, <1>7, <1>8, <2>1, <2>2, <2>4, <2>5
<1>19. ASSUME exposed' = {}
       PROVE  /\ HubUnmarked' /\ Unmarked(s)
              /\ docFile'[m].marks =>
                    /\ \A v \in DocWorkers : Spared(docWorker'[m][v], docFile'[m])
                    /\ sidecar'[m].hash = docFile'[m] \/ \E v \in DocWorkers : docWorker'[m][v].op = "merge"
  <2>1. HubUnmarked /\ MarksHeld(m)
    BY <1>12, <1>19 DEF DocsInv, MarksInv
  <2>2. ~body.marks /\ \A n \in Machines : ~agent'[n].hash.marks
    BY <1>5, <1>13, <2>1 DEF HubUnmarked
  <2>3. Unmarked(s) /\ Spared(s, docFile[m])
    BY <1>10, <2>2 DEF Unmarked, Spared
  <2>4. \A v \in DocWorkers : docWorker'[m][v] = IF v = w THEN s ELSE docWorker[m][v]
    BY <1>1, <1>10, <1>12, OneWorker
  <2> QED BY <1>3, <1>7, <1>12, <2>1, <2>2, <2>3, <2>4 DEF MarksHeld
<1>20. raced \subseteq raced'
  BY <1>3
<1> QED BY <1>3, <1>6, <1>10, <1>12, <1>13, <1>14, <1>15, <1>17, <1>18, <1>19, <1>20, StepKeeps

(***************************************************************************)
(* What is to be shown of a step of the user, the agent or the console.    *)
(***************************************************************************)
LEMMA OutsideKeeps ==
    ASSUME DocsInv, UNCHANGED <<docWorker, sidecar, reached, raced>>,
           HubTypeOK', MachinesTypeOK', LogOK(doc', docLog'), Grows,
           \A n \in Machines : AgentOK(agent'[n], docLog') /\ docFile[n].edits \subseteq docFile'[n].edits,
           raced = {} => Chain(docLog'),
           exposed \subseteq exposed',
           exposed' = {} => /\ HubUnmarked'
                            /\ \A n \in Machines : docFile'[n].marks => docFile'[n] = docFile[n]
    PROVE  DocsInv'
<1>1. DocsOK /\ docLog' \in [1 .. MaxDocRev -> DocTexts] /\ MaxDocRev \in Nat
  BY DocTextFacts DEF DocsInv, HubTypeOK
<1>2. \A n \in Machines : sidecar[n].rev \in 0 .. MaxDocRev /\ reached[n] \in 0 .. MaxDocRev
  BY <1>1 DEF DocsOK, MachinesTypeOK, DocStates
<1>3. \A n \in Machines, v \in DocWorkers : docWorker[n][v] \in WorkerStates
  BY <1>1 DEF DocsOK
<1>4. DocsOK'
  <2>1. \A n \in Machines, v \in DocWorkers : WorkerOK(docWorker[n][v], docLog')
    BY <1>1, <1>3, WorkerGrows DEF DocsOK
  <2>2. \A n \in Machines : WasShown(sidecar[n].rev, docLog')
    BY <1>1, <1>2, GrowsKeeps DEF DocsOK
  <2> QED BY <1>1, <2>1, <2>2 DEF DocsOK
<1>5. HubKept'
  <2> SUFFICES ASSUME raced = {} PROVE HubKept'
    BY DEF HubKept
  <2>1. /\ \A n \in Machines : FileFollows(docFile[n], sidecar[n], reached[n], docLog)
        /\ \A n \in Machines, v \in DocWorkers : Follows(docWorker[n][v], reached[n], docLog)
    BY DEF DocsInv, HubKept
  <2>2. \A n \in Machines : FileFollows(docFile'[n], sidecar[n], reached[n], docLog')
    BY <1>1, <1>2, <2>1, GrowsKeeps DEF FileFollows
  <2>3. ASSUME NEW n \in Machines, NEW v \in DocWorkers PROVE Follows(docWorker[n][v], reached[n], docLog')
    <3>1. reached[n] <= reached[n]
      BY <1>2
    <3> QED BY <1>1, <1>2, <1>3, <2>1, <3>1, WorkerGrows DEF DocsOK
  <2> QED BY <2>2, <2>3 DEF HubKept
<1>6. FilesKept'
  <2>1. \A n \in Machines, v \in DocWorkers : LocalKept(docWorker[n][v], docLog')
    BY <1>1, <1>3, WorkerGrows DEF DocsInv, FilesKept
  <2>2. \A n \in Machines : Recorded(sidecar[n].hash, docLog')
    BY <1>1, GrowsKeeps DEF DocsInv, FilesKept
  <2> QED BY <2>1, <2>2 DEF FilesKept
<1>7. MarksInv'
  <2> SUFFICES ASSUME exposed' = {}, NEW n \in Machines PROVE MarksHeld(n)'
    BY DEF MarksInv
  <2>1. MarksHeld(n)
    BY DEF DocsInv, MarksInv
  <2> QED BY <2>1 DEF MarksHeld
<1> QED BY <1>4, <1>5, <1>6, <1>7 DEF DocsInv

LEMMA ReadDocKeeps == ASSUME DocsInv, NEW m \in Machines, ReadDoc(m) PROVE DocsInv'
<1> USE DocTextFacts
<1> DEFINE read == Synced(doc.rev, doc.body)
<1>1. DocsOK /\ HubTypeOK /\ MachinesTypeOK /\ Shown /\ ~doc.deleted
  BY DEF DocsInv, DocsOK, ReadDoc, Shown
<1>2. agent' = [agent EXCEPT ![m] = read]
      /\ UNCHANGED <<doc, docLog, docFile, sidecar, docWorker, reached, raced, exposed>>
  BY DEF ReadDoc, docsHistory
<1>3. read \in DocStates /\ read.rev = doc.rev /\ read.hash = doc.body
  BY <1>1, BodyFacts
<1>4. AgentOK(read, docLog)
  BY <1>1, <1>3, BodyFacts DEF AgentOK
<1> HIDE DEF read
<1>5. MachinesTypeOK' /\ \A n \in Machines : agent'[n] = IF n = m THEN read ELSE agent[n]
  BY <1>1, <1>2, <1>3 DEF MachinesTypeOK
<1>6. \A n \in Machines : AgentOK(agent'[n], docLog)
  BY <1>1, <1>4, <1>5 DEF DocsOK
<1>7. HubTypeOK' /\ LogOK(doc', docLog') /\ Grows /\ (raced = {} => Chain(docLog'))
  BY <1>1, <1>2 DEF HubTypeOK, DocsOK, DocsInv, HubKept, Grows
<1>8. exposed' = {} => HubUnmarked'
  <2>1. exposed' = {} => HubUnmarked /\ docLog[doc.rev] = doc.body
    BY <1>1, <1>2, BodyFacts DEF DocsInv, MarksInv
  <2> QED BY <1>2, <1>3, <1>5, <2>1 DEF HubUnmarked
<1> QED BY <1>2, <1>5, <1>6, <1>7, <1>8, OutsideKeeps

LEMMA EditKeeps == ASSUME DocsInv, NEW m \in Machines, NEW e \in DocEdits, Edit(m, e) PROVE DocsInv'
<1>1. DocsOK /\ HubTypeOK /\ MachinesTypeOK
  BY DEF DocsInv, DocsOK
<1>2. PICK text \in After(docFile[m], e) : /\ docFile' = [docFile EXCEPT ![m] = text]
                                           /\ exposed' = IF text.marks THEN exposed \cup {m} ELSE exposed
  BY DEF Edit
<1>3. UNCHANGED <<doc, docLog, sidecar, docWorker, agent, reached, raced>>
  BY DEF Edit
<1>4. text \in DocTexts /\ docFile[m].edits \subseteq text.edits
  BY <1>1, AfterFacts DEF MachinesTypeOK
<1>5. MachinesTypeOK' /\ \A n \in Machines : docFile'[n] = IF n = m THEN text ELSE docFile[n]
  BY <1>1, <1>2, <1>3, <1>4 DEF MachinesTypeOK
<1>6. exposed \subseteq exposed' /\ (exposed' = {} => ~text.marks /\ exposed = {})
  BY <1>2
<1> QED BY <1>3, <1>4, <1>5, <1>6, HubSame, OutsideKeeps

LEMMA SaveInConsoleKeeps == ASSUME DocsInv, NEW e \in DocEdits, SaveInConsole(e) PROVE DocsInv'
<1> USE DocTextFacts
<1>1. DocsOK /\ HubTypeOK /\ MachinesTypeOK /\ LogOK(doc, docLog)
  BY DEF DocsInv, DocsOK
<1>2. PICK body \in After(doc.body, e) : PutText(body, doc.rev)
  BY DEF SaveInConsole, PutText
<1>3. /\ doc.rev > 0 => ~doc.deleted
      /\ UNCHANGED <<docFile, sidecar, docWorker, agent, reached, raced, exposed>>
  BY DEF SaveInConsole, docsHistory
<1>4. ~doc.deleted
  BY <1>1, <1>3 DEF LogOK
<1>5. /\ doc.rev \in 0 .. MaxDocRev /\ doc.body \in DocTexts /\ WasShown(doc.rev, docLog)
      /\ doc.body.edits = LogEdits(doc.rev, docLog)
  BY <1>1, <1>4, BodyFacts
<1>6. body \in DocTexts /\ body.there /\ doc.body.edits \subseteq body.edits /\ (~doc.body.marks => ~body.marks)
  BY <1>5, AfterFacts
<1>7. HubTypeOK' /\ LogOK(doc', docLog') /\ Grows
  BY <1>1, <1>2, <1>5, <1>6, PutFacts
<1>8. /\ Chain(docLog) => Chain(docLog')
      /\ HubUnmarked /\ ~body.marks /\ (\A n \in Machines : ~agent'[n].hash.marks) => HubUnmarked'
  BY <1>1, <1>2, <1>5, <1>6, PutKeeps
<1>9. exposed' = {} => HubUnmarked'
  BY <1>3, <1>6, <1>8 DEF DocsInv, MarksInv, HubUnmarked
<1>10. MachinesTypeOK' /\ \A n \in Machines : AgentOK(agent'[n], docLog')
  BY <1>1, <1>3, <1>7, AgentGrows DEF MachinesTypeOK
<1> QED BY <1>3, <1>7, <1>8, <1>9, <1>10, OutsideKeeps DEF DocsInv, HubKept

LEMMA RetireKeeps == ASSUME DocsInv, Retire PROVE DocsInv'
<1> USE DocTextFacts
<1>1. DocsOK /\ HubTypeOK /\ MachinesTypeOK /\ LogOK(doc, docLog)
      /\ doc.rev \in 0 .. MaxDocRev /\ docLog \in [1 .. MaxDocRev -> DocTexts]
  BY DEF DocsInv, DocsOK, HubTypeOK
<1>2. /\ Shown /\ doc.rev < MaxDocRev /\ PutDoc(EmptyText, TRUE, doc.rev)
      /\ UNCHANGED <<docFile, sidecar, docWorker, agent, reached, raced, exposed>>
  BY DEF Retire, docsHistory
<1>3. ~SameDoc(EmptyText, TRUE) /\ ~Refuses(EmptyText, TRUE, doc.rev)
  BY <1>1, <1>2 DEF SameDoc, Refuses, Shown, HubTypeOK
<1>4. /\ doc' = [rev |-> doc.rev + 1, body |-> EmptyText, deleted |-> TRUE]
      /\ docLog' = [docLog EXCEPT ![doc.rev + 1] = Missing]
  BY <1>2, <1>3 DEF PutDoc
<1>5. docLog[doc.rev + 1] = Missing /\ docLog' = docLog
  BY <1>1, <1>2, <1>4 DEF LogOK
<1>6. HubTypeOK' /\ LogOK(doc', docLog') /\ Grows
  BY <1>1, <1>2, <1>4, <1>5 DEF HubTypeOK, LogOK, Grows
<1>7. MachinesTypeOK' /\ \A n \in Machines : AgentOK(agent'[n], docLog')
  BY <1>1, <1>2, <1>6, AgentGrows DEF MachinesTypeOK
<1>8. exposed' = {} => HubUnmarked'
  BY <1>2, <1>4, <1>5 DEF DocsInv, MarksInv, HubUnmarked
<1> QED BY <1>2, <1>5, <1>6, <1>7, <1>8, OutsideKeeps DEF DocsInv, HubKept

LEMMA DocsInvStep == DocsInv /\ [DocsNext]_docsVars => DocsInv'
<1> SUFFICES ASSUME DocsInv, [DocsNext]_docsVars PROVE DocsInv'
  OBVIOUS
<1>1. CASE UNCHANGED docsVars
  BY <1>1 DEF docsVars, docsHistory, DocsInv, DocsOK, HubTypeOK, MachinesTypeOK, HubKept, FilesKept, MarksInv,
     HubUnmarked, MarksHeld
<1>2. ASSUME NEW m \in Machines, NEW w \in DocWorkers,
             \/ StartSync(m, w) \/ LoadSidecar(m, w) \/ ReadLocal(m, w) \/ FetchCurrent(m, w) \/ WriteFile(m, w)
             \/ RecordSidecar(m, w) \/ SaveStale(m, w) \/ StopWorker(m, w)
      PROVE  DocsInv'
  BY <1>2, StartSyncKeeps, LoadSidecarKeeps, ReadLocalKeeps, FetchCurrentKeeps, WriteFileKeeps, RecordsKeep,
     StopWorkerKeeps
<1>3. ASSUME NEW m \in Machines, NEW w \in DocWorkers,
             \/ StartPublish(m, w) \/ ReadBound(m, w) \/ PushDoc(m, w) \/ LoadRevision(m, w) \/ PutHubDoc(m, w)
             \/ PullDoc(m, w) \/ CheckLocal(m, w) \/ MergeDoc(m, w) \/ FetchToMerge(m, w) \/ MergeTexts(m, w)
      PROVE  DocsInv'
  BY <1>3, StartPublishKeeps, ReadBoundKeeps, PushDocKeeps, LoadRevisionKeeps, PutHubDocKeeps, PullDocKeeps,
     CheckLocalKeeps, MergeDocKeeps, FetchToMergeKeeps, MergeTextsKeeps
<1>4. ASSUME NEW m \in Machines, NEW w \in DocWorkers, NEW e \in DocEdits, UpdateDoc(m, w, e) PROVE DocsInv'
  BY <1>4, UpdateDocKeeps
<1>5. ASSUME NEW m \in Machines, ReadDoc(m) \/ \E e \in DocEdits : Edit(m, e) PROVE DocsInv'
  BY <1>5, ReadDocKeeps, EditKeeps
<1>6. ASSUME (\E e \in DocEdits : SaveInConsole(e)) \/ Retire PROVE DocsInv'
  BY <1>6, SaveInConsoleKeeps, RetireKeeps
<1> QED BY <1>1, <1>2, <1>3, <1>4, <1>5, <1>6 DEF DocsNext

(***************************************************************************)
(* No markers reach the hub until a user saves, pushes or merges a file in *)
(* which they stand, or a merge is stopped or has company.  A file gets    *)
(* markers from a merge alone, beside which no worker of its machine has   *)
(* read anything; whoever looks at the file afterwards finds its hash in   *)
(* the sidecar, and neither merges nor publishes it.                       *)
(***************************************************************************)
THEOREM NoMarkersPublishedHolds == DocsSpec => []NoMarkersPublished
<1>1. DocsInv => NoMarkersPublished
  BY DEF DocsInv, MarksInv, HubUnmarked, NoMarkersPublished
<1> QED BY DocsInvInit, DocsInvStep, <1>1, PTL DEF DocsSpec

\* The steps that write the hub's document, and those that write a file.
LEMMA WhoWrites ==
    ASSUME [DocsNext]_docsVars
    PROVE  /\ \/ UNCHANGED doc \/ Retire \/ \E e \in DocEdits : SaveInConsole(e)
              \/ \E m \in Machines, w \in DocWorkers : PutHubDoc(m, w) \/ \E e \in DocEdits : UpdateDoc(m, w, e)
           /\ \/ UNCHANGED docFile
              \/ \E m \in Machines, w \in DocWorkers : WriteFile(m, w)
              \/ \E m \in Machines, e \in DocEdits : Edit(m, e)
<1>1. CASE UNCHANGED docsVars
  BY <1>1 DEF docsVars
<1>2. ASSUME NEW m \in Machines, NEW w \in DocWorkers,
             \/ StartSync(m, w) \/ LoadSidecar(m, w) \/ ReadLocal(m, w) \/ FetchCurrent(m, w)
             \/ RecordSidecar(m, w) \/ SaveStale(m, w) \/ StopWorker(m, w)
      PROVE  UNCHANGED <<doc, docFile>>
  BY <1>2 DEF StartSync, LoadSidecar, ReadLocal, FetchCurrent, RecordSidecar, SaveStale, StopWorker
<1>3. ASSUME NEW m \in Machines, NEW w \in DocWorkers,
             \/ StartPublish(m, w) \/ ReadBound(m, w) \/ PushDoc(m, w) \/ LoadRevision(m, w)
             \/ PullDoc(m, w) \/ CheckLocal(m, w) \/ MergeDoc(m, w) \/ FetchToMerge(m, w) \/ MergeTexts(m, w)
      PROVE  UNCHANGED <<doc, docFile>>
  BY <1>3 DEF StartPublish, ReadBound, PushDoc, LoadRevision, PullDoc, CheckLocal, MergeDoc, FetchToMerge, MergeTexts
<1>4. ASSUME NEW m \in Machines, NEW w \in DocWorkers, WriteFile(m, w) PROVE UNCHANGED doc
  BY <1>4 DEF WriteFile
<1>5. ASSUME NEW m \in Machines, NEW w \in DocWorkers, PutHubDoc(m, w) \/ \E e \in DocEdits : UpdateDoc(m, w, e)
      PROVE  UNCHANGED docFile
  BY <1>5 DEF PutHubDoc, UpdateDoc
<1>6. ASSUME NEW m \in Machines, ReadDoc(m) PROVE UNCHANGED <<doc, docFile>>
  BY <1>6 DEF ReadDoc
<1>7. ASSUME NEW m \in Machines, NEW e \in DocEdits, Edit(m, e) PROVE UNCHANGED doc
  BY <1>7 DEF Edit
<1>8. ASSUME (\E e \in DocEdits : SaveInConsole(e)) \/ Retire PROVE UNCHANGED docFile
  BY <1>8 DEF SaveInConsole, Retire
<1> QED BY <1>1, <1>2, <1>3, <1>4, <1>5, <1>6, <1>7, <1>8 DEF DocsNext

(***************************************************************************)
(* Until a worker races, the hub takes no revision that lacks an edit of   *)
(* the one before.  A revision is written over the one its writer names,   *)
(* and its writer's text contains that: the agent and the console start    *)
(* from it, and a file contains the revision that its sidecar names.       *)
(***************************************************************************)
THEOREM HubKeepsEditsHolds == DocsSpec => HubKeepsEdits
<1> DEFINE Kept == raced = {} /\ doc'.rev # doc.rev /\ ~doc.deleted /\ ~doc'.deleted
                   => doc.body.edits \subseteq doc'.body.edits
<1>1. DocsInv /\ [DocsNext]_docsVars => [Kept]_docsVars
  <2> SUFFICES ASSUME DocsInv, [DocsNext]_docsVars, raced = {}, doc'.rev # doc.rev, ~doc.deleted, ~doc'.deleted
               PROVE  doc.body.edits \subseteq doc'.body.edits
    OBVIOUS
  <2>1. DocsOK /\ HubTypeOK /\ MachinesTypeOK
    BY DEF DocsInv, DocsOK
  <2>2. ASSUME NEW body \in DocTexts, body.there, NEW base \in 0 .. MaxDocRev, WasShown(base, docLog),
               PutText(body, base), LogEdits(base, docLog) \subseteq body.edits
        PROVE  doc.body.edits \subseteq doc'.body.edits
    BY <2>1, <2>2, PutKeeps
  <2>3. ASSUME NEW m \in Machines, NEW w \in DocWorkers, PutHubDoc(m, w)
        PROVE  doc.body.edits \subseteq doc'.body.edits
    <3> DEFINE t == docWorker[m][w]
    <3>1. t \in WorkerStates /\ WorkerOK(t, docLog) /\ Follows(t, reached[m], docLog)
      BY <2>1 DEF DocsOK, DocsInv, HubKept
    <3>2. t.at = "put" /\ PutText(t.text, t.st.rev)
      BY <2>3 DEF PutHubDoc, PutText
    <3>3. t.text \in DocTexts /\ t.st.rev \in 0 .. MaxDocRev
      BY <3>1 DEF WorkerStates, DocStates
    <3>4. t.text.there /\ WasShown(t.st.rev, docLog) /\ LogEdits(t.st.rev, docLog) \subseteq t.text.edits
      BY <3>1, <3>2 DEF WorkerOK, Follows
    <3> HIDE DEF t
    <3> QED BY <2>2, <3>2, <3>3, <3>4
  <2>4. ASSUME NEW m \in Machines, NEW w \in DocWorkers, NEW e \in DocEdits, UpdateDoc(m, w, e)
        PROVE  doc.body.edits \subseteq doc'.body.edits
    <3> DEFINE base == agent[m].rev
    <3>1. PICK body \in After(agent[m].hash, e) : PutText(body, base)
      BY <2>4 DEF UpdateDoc, PutText
    <3>2. /\ base \in 1 .. MaxDocRev /\ WasShown(base, docLog) /\ agent[m].hash = docLog[base]
          /\ agent[m].hash \in DocTexts
      BY <2>1, <2>4 DEF UpdateDoc, MachinesTypeOK, DocStates, DocsOK, AgentOK
    <3>3. body \in DocTexts /\ body.there /\ LogEdits(base, docLog) \subseteq body.edits
      BY <3>2, AfterFacts DEF LogEdits
    <3>4. base \in 0 .. MaxDocRev
      BY <3>2
    <3> HIDE DEF base
    <3> QED BY <2>2, <3>1, <3>2, <3>3, <3>4
  <2>5. ASSUME NEW e \in DocEdits, SaveInConsole(e) PROVE doc.body.edits \subseteq doc'.body.edits
    <3>1. PICK body \in After(doc.body, e) : PutText(body, doc.rev)
      BY <2>5 DEF SaveInConsole, PutText
    <3>2. /\ doc.rev \in 0 .. MaxDocRev /\ doc.body \in DocTexts /\ WasShown(doc.rev, docLog)
          /\ doc.body.edits = LogEdits(doc.rev, docLog)
      BY <2>1, BodyFacts
    <3>3. body \in DocTexts /\ body.there /\ doc.body.edits \subseteq body.edits
      BY <3>2, AfterFacts
    <3> QED BY <2>2, <3>1, <3>2, <3>3
  <2>6. CASE Retire
    <3>1. ~SameDoc(EmptyText, TRUE) /\ ~Refuses(EmptyText, TRUE, doc.rev) /\ PutDoc(EmptyText, TRUE, doc.rev)
      BY <2>1, <2>6 DEF SameDoc, Refuses, Shown, HubTypeOK, Retire
    <3>2. doc' = [rev |-> doc.rev + 1, body |-> EmptyText, deleted |-> TRUE]
      BY <3>1 DEF PutDoc
    <3> QED BY <3>2
  <2>7. CASE UNCHANGED doc
    BY <2>7
  <2>8. \/ UNCHANGED doc \/ Retire \/ \E e \in DocEdits : SaveInConsole(e)
        \/ \E m \in Machines, w \in DocWorkers : PutHubDoc(m, w) \/ \E e \in DocEdits : UpdateDoc(m, w, e)
    BY WhoWrites
  <2> QED BY <2>3, <2>4, <2>5, <2>6, <2>7, <2>8
<1> QED BY DocsInvInit, DocsInvStep, <1>1, PTL DEF DocsSpec, HubKeepsEdits

(***************************************************************************)
(* Of the edits that no revision has, a write loses those that were saved  *)
(* after its worker read the file, or what update_doc did not read, or     *)
(* what stood among markers, and no others.  What a merge leaves out of    *)
(* the text that it read was in its base, and what is taken for unchanged  *)
(* has a recorded hash: each is a revision's.                              *)
(***************************************************************************)
THEOREM LostOnlyInGapsHolds == DocsSpec => LostOnlyInGaps
<1> DEFINE InGap(m) == Loses(m) # {} => \E w \in DocWorkers :
                          /\ Place(m, w) = "write"
                          /\ \/ Loses(m) \cap docWorker[m][w].local.edits = {}
                             \/ docWorker[m][w].op = "update"
                             \/ docWorker[m][w].local.marks
<1>1. DocsInv /\ [DocsNext]_docsVars => [\A m \in Machines : InGap(m)]_docsVars
  <2> SUFFICES ASSUME DocsInv, [DocsNext]_docsVars, NEW m \in Machines PROVE InGap(m)
    OBVIOUS
  <2>1. Loses(m) = docFile[m].edits \ (docFile'[m].edits \cup KnownEdits(docLog))
    BY DEF Loses, KnownEdits
  <2>2. docFile \in [Machines -> DocTexts]
    BY DEF DocsInv, DocsOK, MachinesTypeOK
  <2>3. CASE docFile[m].edits \subseteq docFile'[m].edits
    BY <2>1, <2>3
  <2>4. ASSUME NEW w \in DocWorkers, WriteFile(m, w) PROVE InGap(m)
    <3> DEFINE t == docWorker[m][w]
    <3>1. t.at = "write" /\ docFile'[m] = t.text
      BY <2>2, <2>4 DEF WriteFile
    <3>2. t.local.marks \/ t.op = "update" \/ t.local.edits \subseteq t.text.edits \cup KnownEdits(docLog)
      BY <3>1 DEF DocsInv, FilesKept, LocalKept
    <3>3. t.local.marks \/ t.op = "update" \/ Loses(m) \cap t.local.edits = {}
      BY <2>1, <3>1, <3>2
    <3> QED BY <3>1, <3>3 DEF Place
  <2>5. ASSUME NEW n \in Machines, NEW w \in DocWorkers, WriteFile(n, w), n # m
        PROVE  docFile[m].edits \subseteq docFile'[m].edits
    BY <2>2, <2>5 DEF WriteFile
  <2>6. ASSUME NEW n \in Machines, NEW e \in DocEdits, Edit(n, e)
        PROVE  docFile[m].edits \subseteq docFile'[m].edits
    <3>1. PICK text \in After(docFile[n], e) : docFile' = [docFile EXCEPT ![n] = text]
      BY <2>6 DEF Edit
    <3>2. docFile[n].edits \subseteq text.edits
      BY <2>2, AfterFacts
    <3> QED BY <2>2, <3>1, <3>2
  <2>7. \/ UNCHANGED docFile
        \/ \E n \in Machines, w \in DocWorkers : WriteFile(n, w)
        \/ \E n \in Machines, e \in DocEdits : Edit(n, e)
    BY WhoWrites
  <2> HIDE DEF InGap
  <2> QED BY <2>3, <2>4, <2>5, <2>6, <2>7
<1> QED BY DocsInvInit, DocsInvStep, <1>1, PTL DEF DocsSpec, LostOnlyInGaps
===============================================================================
