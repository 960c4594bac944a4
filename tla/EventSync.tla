------------------------------ MODULE EventSync ------------------------------
(***************************************************************************)
(* Anti-entropy of event journals between machines and a hub               *)
(* (cmd/aimem/sync_http.go, server/sync.go, main.go importEventsFrom and   *)
(* localMaxEventID, store.go Append and DumpSince, uuidv7 ShiftBack).      *)
(*                                                                         *)
(* Every site gives an event an id of its own when it appends it, and the  *)
(* id is the time by the site's clock.  A machine remembers per hub how    *)
(* far it pushed and pulled.  Both cursors are its newest id over all the  *)
(* journals it can open, taken after the leg, and a leg sends from one     *)
(* Overlap before.  A leg goes on past a project that its sender cannot    *)
(* open, and counts as complete without it.                                *)
(***************************************************************************)
EXTENDS Integers, FiniteSets, FiniteSetsExt

CONSTANTS
    SyncMachines,
    SyncHub,
    SyncProjects,
    OldProjects,        \* those every machine has from the start
    SyncEvents,         \* idempotency keys
    BadEvents,          \* events that a site may refuse
    EventProject,       \* the project of each event
    Skew,               \* how far a machine's clock is ahead of the hub's
    Overlap,            \* one hour
    LegTime,            \* the client's timeout for one leg, 15 minutes
    MaxTime             \* bound

ASSUME SyncAssumption ==
    /\ SyncHub \notin SyncMachines
    /\ OldProjects \subseteq SyncProjects /\ BadEvents \subseteq SyncEvents /\ SyncEvents # {}
    /\ EventProject \in [SyncEvents -> SyncProjects]
    /\ Skew \in [SyncMachines -> Nat]
    /\ {Overlap, LegTime, MaxTime} \subseteq Nat
    /\ \A m \in SyncMachines : Skew[m] + LegTime <= Overlap

VARIABLES
    time,       \* the hub's clock
    journal,    \* per site and event, its id there; NoEvent without it
    queued,     \* per machine, imports its spool keeps for a local service that is down
    bound,      \* per machine, the projects it has that belong to the hub
    cursor,     \* per machine, the push and pull cursors
    sync,       \* per machine, its sync under way
    passed      \* history: per machine and leg, what a cursor passed over unsent

syncVars == <<time, journal, queued, bound, cursor, sync, passed>>

NoEvent == -1
NoSync == [phase |-> "none", ids |-> {}, todo |-> {}, since |-> 0, started |-> 0,
           failed |-> FALSE, landed |-> FALSE, cut |-> FALSE, unread |-> {}]

EventSyncInit ==
    /\ time = 0
    /\ journal = [s \in SyncMachines \cup {SyncHub} |-> [e \in SyncEvents |-> NoEvent]]
    /\ queued = [m \in SyncMachines |-> {}]
    /\ bound = [m \in SyncMachines |-> OldProjects]
    /\ cursor = [m \in SyncMachines |-> [push |-> NoEvent, pull |-> NoEvent]]
    /\ sync = [m \in SyncMachines |-> NoSync]
    /\ passed = [m \in SyncMachines |-> [push |-> {}, pull |-> {}]]

Clock(s) == IF s = SyncHub THEN time ELSE time + Skew[s]

Has(s, e) == journal[s][e] # NoEvent

\* Append at a site: an event that is there already keeps its id.
AppendTo(s, events, old) ==
    [e \in SyncEvents |-> IF e \in events /\ old[e] = NoEvent THEN Clock(s) ELSE old[e]]

\* Mutant: a leg sends only what is newer than its cursor.
ShiftBack_NotAtAll(id) == id

ShiftBack(id) == id - Overlap

\* DumpSince of one project.
DumpSince(s, p, since) == {e \in SyncEvents : EventProject[e] = p /\ Has(s, e) /\ journal[s][e] >= since}

\* Over the journals that the machine can open.
LocalMaxEventID(m, opened) ==
    Max({NoEvent} \cup {journal[m][e] : e \in {x \in SyncEvents : EventProject[x] \in opened}})

Tick ==
    /\ time < MaxTime
    /\ \A m \in SyncMachines : sync[m].phase # "none" => time < sync[m].started + LegTime
    /\ time' = time + 1
    /\ UNCHANGED <<journal, queued, bound, cursor, sync, passed>>

(***************************************************************************)
(* A hook submits an event of a project of its machine; its push to the    *)
(* hub may or may not arrive.  A first event makes the project there.      *)
(***************************************************************************)
SubmitEvent(m, e) ==
    /\ \A s \in SyncMachines \cup {SyncHub} : ~Has(s, e)
    /\ \A n \in SyncMachines : e \notin queued[n]
    /\ bound' = [bound EXCEPT ![m] = @ \cup {EventProject[e]}]
    /\ \E pushed \in BOOLEAN :
          journal' = [journal EXCEPT ![m] = AppendTo(m, {e}, @),
                                     ![SyncHub] = IF pushed THEN AppendTo(SyncHub, {e}, @) ELSE @]
    /\ UNCHANGED <<time, queued, cursor, sync, passed>>

\* A machine outside the model pushes an event to the hub.
SubmitElsewhere(e) ==
    /\ \A s \in SyncMachines \cup {SyncHub} : ~Has(s, e)
    /\ journal' = [journal EXCEPT ![SyncHub] = AppendTo(SyncHub, {e}, @)]
    /\ UNCHANGED <<time, queued, bound, cursor, sync, passed>>

\* Replay of the machine's spool.
ReplayImport(m, e) ==
    /\ e \in queued[m]
    /\ queued' = [queued EXCEPT ![m] = @ \ {e}]
    /\ journal' = [journal EXCEPT ![m] = AppendTo(m, {e}, @)]
    /\ UNCHANGED <<time, bound, cursor, sync, passed>>

(***************************************************************************)
(* One run of syncOneHTTP.  The projects are those bound when it starts.   *)
(***************************************************************************)
Leg(m, phase, ids, from) ==
    sync' = [sync EXCEPT ![m] = [NoSync EXCEPT !.phase = phase, !.ids = ids, !.todo = ids,
                                               !.since = ShiftBack(from), !.started = time]]

Stops(m) == sync' = [sync EXCEPT ![m] = NoSync]

BeginSync(m) ==
    /\ sync[m].phase = "none"
    /\ Leg(m, "push", bound[m], cursor[m].push)
    /\ UNCHANGED <<time, journal, queued, bound, cursor, passed>>

Sent(m, p, failed, landed) ==
    sync' = [sync EXCEPT ![m].todo = @ \ {p}, ![m].failed = @ \/ failed # {},
                         ![m].landed = @ \/ landed # {}]

PushProject(m, p) ==
    /\ sync[m].phase = "push" /\ p \in sync[m].todo
    /\ LET sent == DumpSince(m, p, sync[m].since) IN
       \E failed \in SUBSET (sent \cap BadEvents) :
          /\ journal' = [journal EXCEPT ![SyncHub] = AppendTo(SyncHub, sent \ failed, @)]
          /\ Sent(m, p, failed, sent \ failed)
    /\ UNCHANGED <<time, queued, bound, cursor, passed>>

\* A project that its sender cannot open is left out of the stream without a word, and
\* what it should have sent is passed over if the cursor advances.
SkipProject(m, p) ==
    /\ sync[m].phase \in {"push", "pull"} /\ p \in sync[m].todo
    /\ LET sender == IF sync[m].phase = "push" THEN m ELSE SyncHub IN
       sync' = [sync EXCEPT ![m].todo = @ \ {p},
                            ![m].unread = @ \cup DumpSince(sender, p, sync[m].since)]
    /\ UNCHANGED <<time, journal, queued, bound, cursor, passed>>

\* The cursor after a leg that counts as complete.
AdvanceCursor(m, leg) ==
    \E opened \in SUBSET SyncProjects :
       LET newest == LocalMaxEventID(m, opened) IN
       IF newest = NoEvent
       THEN UNCHANGED <<cursor, passed>>
       ELSE /\ cursor' = [cursor EXCEPT ![m][leg] = newest]
            /\ passed' = [passed EXCEPT ![m][leg] = @ \cup sync[m].unread]

\* Nothing but refusals is an error, and the sync ends; otherwise it goes on to pull.
EndPush(m) ==
    /\ sync[m].phase = "push" /\ sync[m].todo = {}
    /\ IF sync[m].failed /\ ~sync[m].landed
       THEN Stops(m) /\ UNCHANGED <<cursor, passed>>
       ELSE AdvanceCursor(m, "push") /\ Leg(m, "pull", sync[m].ids, cursor[m].pull)
    /\ UNCHANGED <<time, journal, queued, bound>>

\* Each line is posted to the local service, or spooled while that is down.
PullProject(m, p) ==
    /\ sync[m].phase = "pull" /\ p \in sync[m].todo
    /\ LET sent == DumpSince(SyncHub, p, sync[m].since) IN
       \E failed \in SUBSET (sent \cap BadEvents) : \E spooled \in SUBSET (sent \ failed) :
          /\ journal' = [journal EXCEPT ![m] = AppendTo(m, sent \ (failed \cup spooled), @)]
          /\ queued' = [queued EXCEPT ![m] = @ \cup spooled]
          /\ Sent(m, p, failed, sent \ failed)
    /\ UNCHANGED <<time, bound, cursor, passed>>

\* The hub stops in mid-stream: what is left looks like the end of it.
CutStream(m) ==
    /\ sync[m].phase = "pull" /\ sync[m].todo # {}
    /\ sync' = [sync EXCEPT ![m].todo = {}, ![m].cut = TRUE]
    /\ UNCHANGED <<time, journal, queued, bound, cursor, passed>>

\* verifyEventStream: the terminator counts the lines of a complete stream.
StreamComplete(m) == ~sync[m].cut

EndPull(m) ==
    /\ sync[m].phase = "pull" /\ sync[m].todo = {}
    /\ IF StreamComplete(m) /\ (sync[m].failed => sync[m].landed)
       THEN AdvanceCursor(m, "pull")
       ELSE UNCHANGED <<cursor, passed>>
    /\ Stops(m)
    /\ UNCHANGED <<time, journal, queued, bound>>

\* The connection breaks while lines are sent, or the process is killed.
BreakSync(m) ==
    /\ sync[m].phase # "none"
    /\ Stops(m)
    /\ UNCHANGED <<time, journal, queued, bound, cursor, passed>>

EventSyncNext ==
    \/ Tick
    \/ \E e \in SyncEvents : SubmitElsewhere(e)
    \/ \E m \in SyncMachines :
          \/ \E e \in SyncEvents : SubmitEvent(m, e) \/ ReplayImport(m, e)
          \/ \E p \in SyncProjects : PushProject(m, p) \/ PullProject(m, p) \/ SkipProject(m, p)
          \/ BeginSync(m) \/ EndPush(m) \/ CutStream(m) \/ EndPull(m) \/ BreakSync(m)

EventSyncSpec == EventSyncInit /\ [][EventSyncNext]_syncVars
-----------------------------------------------------------------------------
WillPush(m, e) == journal[m][e] >= ShiftBack(cursor[m].push)
WillPull(m, e) == journal[SyncHub][e] >= ShiftBack(cursor[m].pull)

(***************************************************************************)
(* A cursor passes over an event only with a leg whose sender could not    *)
(* open the event's project: of a project the machine had from the start,  *)
(* whatever else one side has and the other has not is still inside what   *)
(* the next push or pull sends, unless a site refused it among others.     *)
(* The clocks' skew, appends during a leg, journals that localMaxEventID   *)
(* cannot open, cut streams and killed syncs are within the overlap.       *)
(***************************************************************************)
NoEventSkipped ==
    \A m \in SyncMachines, e \in SyncEvents \ BadEvents :
       EventProject[e] \in OldProjects =>
          /\ Has(m, e) /\ ~Has(SyncHub, e) => WillPush(m, e) \/ e \in passed[m].push
          /\ Has(SyncHub, e) /\ ~Has(m, e) =>
                WillPull(m, e) \/ e \in queued[m] \/ e \in passed[m].pull

(***************************************************************************)
(* What main.go says of the pull cursor: "the local max bounds everything  *)
(* we have seen from this peer too".  It also passes over what nobody has  *)
(* seen: the hub's history of a project the machine takes up later.        *)
(***************************************************************************)
PullCursorBoundsWhatWasSeen ==
    \A m \in SyncMachines, e \in SyncEvents \ BadEvents :
       EventProject[e] \in bound[m] /\ Has(SyncHub, e) /\ ~Has(m, e) =>
          WillPull(m, e) \/ e \in queued[m] \/ e \in passed[m].pull
=============================================================================
