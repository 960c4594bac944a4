----------------------------- MODULE TaskLocator -----------------------------
(***************************************************************************)
(* Finding the project of a task (internal/store/taskloc.go, taskprefix.go)*)
(* from its id or from the start of its id, beside the operations that     *)
(* move, merge and remove projects.                                        *)
(*                                                                         *)
(* A scan lists the project directories once and then reads one project    *)
(* after the other.  It is no snapshot: a rename moves a task behind it,   *)
(* and a checkpoint under the old name makes an empty project where the    *)
(* task was.  Only Registry.lifecycleGen, advanced when an operation       *)
(* begins and when it ends, tells a scan that it must not be believed.     *)
(***************************************************************************)
EXTENDS Naturals, FiniteSets

CONSTANTS
    LocProjects,        \* project names
    LocTasks,
    Prefix,             \* the start of an id, shared by all tasks
    Lookups,            \* requests that look for a task
    MaxLifecycle        \* bound: lifecycle operations

LocIDs == LocTasks \cup {Prefix}
Nowhere == "nowhere"
MaxAttempts == 3

\* A project has no name that an answer would be mistaken for.
ASSUME LocatorAssumption ==
    {Nowhere, "notFound"} \cap LocProjects = {} /\ Prefix \notin LocTasks /\ MaxLifecycle \in Nat

VARIABLES
    exists,         \* the project directories
    home,           \* per task, the project that holds it
    loc,            \* taskHints.loc: where a task was last found
    miss,           \* taskHints.miss: ids that a scan did not find
    lifecycleGen,
    moving,         \* the lifecycle operation that holds the registry
    lookup          \* per request: where its lookup stands

locatorVars == <<exists, home, loc, miss, lifecycleGen, moving, lookup>>

IdleLookup == [phase |-> "new", id |-> Prefix, gen |-> 0, attempt |-> 0, todo |-> {},
               found |-> {}, unreadable |-> FALSE, answer |-> "none"]

Still == [kind |-> "none", from |-> Nowhere, to |-> Nowhere]

LocatorInit ==
    /\ exists \in (SUBSET LocProjects) \ {{}}
    /\ home = [t \in LocTasks |-> Nowhere]
    /\ loc = [t \in LocTasks |-> Nowhere]
    /\ miss = {}
    /\ lifecycleGen = 0
    /\ moving = Still
    /\ lookup = [l \in Lookups |-> IdleLookup]

StartsId(id, t) == id \in {t, Prefix}

\* taskHints.put and noteMiss.
PutHint(t, p) ==
    /\ loc' = [loc EXCEPT ![t] = p]
    /\ miss' = {id \in miss : ~StartsId(id, t)}

(***************************************************************************)
(* CreateTask commits, records where, and answers the id.                  *)
(***************************************************************************)
CreateLocated(t, p) ==
    /\ home[t] = Nowhere
    /\ p \in exists /\ moving = Still
    /\ home' = [home EXCEPT ![t] = p]
    /\ PutHint(t, p)
    /\ UNCHANGED <<exists, lifecycleGen, moving, lookup>>

\* A checkpoint under any name makes its project (Registry.Open).
MakeProject(p) ==
    /\ moving = Still
    /\ p \notin exists
    /\ exists' = exists \cup {p}
    /\ UNCHANGED <<home, loc, miss, lifecycleGen, moving, lookup>>

(***************************************************************************)
(* Rename, Drop and the end of MergeProject, under Registry.mu, between    *)
(* two advances of lifecycleGen.                                           *)
(***************************************************************************)
HoldsTask(p) == \E t \in LocTasks : home[t] = p

BeginMove(kind, from, to) ==
    /\ moving = Still
    /\ lifecycleGen + 2 <= 2 * MaxLifecycle
    /\ from \in exists
    /\ \/ kind = "rename" /\ to \in LocProjects \ exists
       \/ kind = "remove" /\ to = Nowhere
    /\ moving' = [kind |-> kind, from |-> from, to |-> to]
    /\ lifecycleGen' = lifecycleGen + 1
    /\ UNCHANGED <<exists, home, loc, miss, lookup>>

EndMove ==
    /\ moving # Still
    /\ IF moving.kind = "rename"
       THEN /\ exists' = (exists \ {moving.from}) \cup {moving.to}
            /\ home' = [t \in LocTasks |-> IF home[t] = moving.from THEN moving.to ELSE home[t]]
       ELSE /\ exists' = IF HoldsTask(moving.from) THEN exists ELSE exists \ {moving.from}
            /\ UNCHANGED home
    /\ moving' = Still
    /\ lifecycleGen' = lifecycleGen + 1
    /\ UNCHANGED <<loc, miss, lookup>>

(***************************************************************************)
(* A lookup, LocateTask for a full id and ResolveTaskID for a prefix.      *)
(***************************************************************************)
Answer(l, answer) ==
    lookup' = [lookup EXCEPT ![l] = [IdleLookup EXCEPT !.phase = "done", !.id = lookup[l].id,
                                        !.attempt = lookup[l].attempt, !.answer = answer]]

\* A full id is known only from an answer; a prefix anyone can try.
Look(l, id) ==
    /\ lookup[l].phase \in {"new", "done"}
    /\ id \in {t \in LocTasks : home[t] # Nowhere} \cup {Prefix}
    /\ lookup' = [lookup EXCEPT ![l] = [IdleLookup EXCEPT !.phase = "hint", !.id = id]]
    /\ UNCHANGED <<exists, home, loc, miss, lifecycleGen, moving>>

\* A hint is checked against the project it names; opening waits for the registry.
TryHint(l) ==
    LET id == lookup[l].id IN
    /\ lookup[l].phase = "hint"
    /\ IF id # Prefix /\ loc[id] # Nowhere
       THEN /\ moving = Still
            /\ IF home[id] = loc[id]
               THEN Answer(l, home[id]) /\ UNCHANGED loc
               ELSE /\ loc' = [loc EXCEPT ![id] = Nowhere]
                    /\ lookup' = [lookup EXCEPT ![l].phase = "miss"]
       ELSE lookup' = [lookup EXCEPT ![l].phase = "miss"] /\ UNCHANGED loc
    /\ UNCHANGED <<exists, home, miss, lifecycleGen, moving>>

TryMiss(l) ==
    /\ lookup[l].phase = "miss"
    /\ IF lookup[l].id \in miss
       THEN Answer(l, "notFound")
       ELSE lookup' = [lookup EXCEPT ![l].phase = "begin"]
    /\ UNCHANGED <<exists, home, loc, miss, lifecycleGen, moving>>

BeginScan(l) ==
    /\ lookup[l].phase = "begin"
    /\ lookup' = [lookup EXCEPT ![l].phase = "list", ![l].gen = lifecycleGen,
                                ![l].attempt = @ + 1, ![l].found = {}, ![l].unreadable = FALSE]
    /\ UNCHANGED <<exists, home, loc, miss, lifecycleGen, moving>>

ListProjects(l) ==
    /\ lookup[l].phase = "list"
    /\ lookup' = [lookup EXCEPT ![l].phase = "scan", ![l].todo = exists]
    /\ UNCHANGED <<exists, home, loc, miss, lifecycleGen, moving>>

\* One project: gone, or its handle closed under the read, it is unreadable.
ScanProject(l, p) ==
    LET here == {t \in LocTasks : home[t] = p /\ StartsId(lookup[l].id, t)} IN
    /\ lookup[l].phase = "scan"
    /\ p \in lookup[l].todo
    /\ moving = Still
    /\ \E readable \in BOOLEAN :
          /\ readable => p \in exists
          /\ lookup' = [lookup EXCEPT
                ![l].todo = IF readable /\ here # {} /\ lookup[l].id # Prefix THEN {} ELSE @ \ {p},
                ![l].found = IF readable THEN @ \cup {<<t, p>> : t \in here} ELSE @,
                ![l].unreadable = @ \/ ~readable]
    /\ UNCHANGED <<exists, home, loc, miss, lifecycleGen, moving>>

\* Mutant: a scan is believed whatever happened to the projects meanwhile.
Undisturbed_Always(l) == TRUE

Undisturbed(l) == lifecycleGen = lookup[l].gen

\* What a finished scan of a full id means, and what is remembered of it.
ConcludeTask(l) ==
    LET id == lookup[l].id
        result == CASE lookup[l].found # {} -> "found"
                    [] lookup[l].found = {} /\ lookup[l].unreadable -> "incomplete"
                    [] OTHER -> "notFound" IN
    /\ lookup[l].phase = "scan" /\ id # Prefix
    /\ lookup[l].todo = {}
    /\ IF Undisturbed(l)
       THEN /\ \/ /\ result = "found"
                  /\ \E p \in LocProjects : <<id, p>> \in lookup[l].found /\ PutHint(id, p)
               \/ result = "notFound" /\ miss' = miss \cup {id} /\ UNCHANGED loc
               \/ result = "incomplete" /\ UNCHANGED <<loc, miss>>
            /\ Answer(l, result)
       ELSE /\ IF lookup[l].attempt < MaxAttempts
               THEN lookup' = [lookup EXCEPT ![l].phase = "begin"]
               ELSE Answer(l, result)
            /\ UNCHANGED <<loc, miss>>
    /\ UNCHANGED <<exists, home, lifecycleGen, moving>>

\* The one task of a prefix is remembered whatever moved; a scan is made once.
ConcludePrefix(l) ==
    LET found == lookup[l].found IN
    /\ lookup[l].phase = "scan" /\ lookup[l].id = Prefix
    /\ lookup[l].todo = {} \/ lookup[l].unreadable
    /\ \/ lookup[l].unreadable /\ Answer(l, "incomplete") /\ UNCHANGED <<loc, miss>>
       \/ /\ ~lookup[l].unreadable /\ found = {}
          /\ miss' = IF Undisturbed(l) THEN miss \cup {Prefix} ELSE miss
          /\ Answer(l, "notFound") /\ UNCHANGED loc
       \/ /\ ~lookup[l].unreadable /\ Cardinality(found) = 1
          /\ \E f \in found : PutHint(f[1], f[2])
          /\ Answer(l, "found")
       \/ /\ ~lookup[l].unreadable /\ Cardinality(found) > 1
          /\ Answer(l, "ambiguous") /\ UNCHANGED <<loc, miss>>
    /\ UNCHANGED <<exists, home, lifecycleGen, moving>>

\* A miss expires after 30 seconds; a full map is emptied.
ForgetMiss(id) ==
    /\ id \in miss
    /\ miss' = miss \ {id}
    /\ UNCHANGED <<exists, home, loc, lifecycleGen, moving, lookup>>

ForgetHints ==
    /\ loc' = [t \in LocTasks |-> Nowhere]
    /\ loc' # loc
    /\ UNCHANGED <<exists, home, miss, lifecycleGen, moving, lookup>>

LocatorNext ==
    \/ \E t \in LocTasks, p \in LocProjects : CreateLocated(t, p)
    \/ \E p \in LocProjects : MakeProject(p)
    \/ \E kind \in {"rename", "remove"}, from \in LocProjects, to \in LocProjects \cup {Nowhere} :
          BeginMove(kind, from, to)
    \/ EndMove
    \/ \E l \in Lookups :
          \/ \E id \in LocIDs : Look(l, id)
          \/ TryHint(l) \/ TryMiss(l) \/ BeginScan(l) \/ ListProjects(l)
          \/ \E p \in LocProjects : ScanProject(l, p)
          \/ ConcludeTask(l) \/ ConcludePrefix(l)
    \/ \E id \in LocIDs : ForgetMiss(id)
    \/ ForgetHints

LocatorSpec == LocatorInit /\ [][LocatorNext]_locatorVars
-----------------------------------------------------------------------------
(***************************************************************************)
(* A task a client was told of is never remembered as missing, however     *)
(* its project was renamed behind a scan and its old name taken again by   *)
(* an empty project.                                                       *)
(***************************************************************************)
NoFalseMiss == \A t \in LocTasks : home[t] # Nowhere => t \notin miss

(***************************************************************************)
(* Such a task is answered "notFound" only by a lookup that met a          *)
(* lifecycle operation in each of its three scans.                         *)
(***************************************************************************)
NotFoundOnlyInChurn ==
    \A l \in Lookups :
       lookup[l].answer = "notFound" /\ lookup[l].id \in LocTasks =>
          lookup[l].attempt = MaxAttempts
=============================================================================
