# A TLA+ model of aimem

aimem is one Go binary that is a client (agent hooks, CLI, MCP server), a local
service, and a hub: a server over per-project SQLite stores which teams of agents
share. This directory models what is hardest to get right in it: who may write a
task of the hub at any moment, what happens to commands that are retried, to
projects that are renamed under their users, to events, facts and documents that
several machines exchange, to one-time codes whose redemption is interrupted, and
to a client's records when the service is away and processes are killed. TLC checks
every model on small instances; TLAPS proves most of the safety properties, and
that the hub implements the abstract specification of it, for every instance.

    tlc -config MCHub.cfg MCHub.tla           # any run of the table of section 3
    tlapm HubCoordination_proofs.tla          # any module of the table of section 4

## 1. The system

| component | state | operations | interacts with |
|---|---|---|---|
| Task store (`internal/store/tasks.go`, `task_triage.go`) | task rows with revision, history, dependencies | create, update, triage, comment | every mechanism below writes the same rows |
| Request receipts (`tasks.go` `checkedTaskMutation`) | one row per actor, operation, scope and key: digest, result | first application, replay, conflict | all mutations |
| Server task routes (`server/tasks.go`, `triage.go`, `textcheck.go`, `admin.go`) | the project's switch, the text check | locate, authorize, probe, check the text, call the store | task store, task lookup |
| Task lookup (`taskloc.go`, `taskprefix.go`) | hints, remembered misses, the lifecycle counter | locate by ID, resolve a prefix | registry and lifecycle |
| Registry and lifecycle (`store.go`) | open stores, the registry's lock, directories | open, drop, rename, merge | everything in a project |
| Team sessions (`teams.go`, `team_sessions.go`, `team_handoff.go`, `team_token.go`) | enrollments, sessions with generation and token, the coordinator slot's generation | configure, join, profile, heartbeat, resume, leave, handoff, token replacement | attempts (rebind), access tokens |
| Assignment attempts (`team_assignments.go`, `team_work.go`, `team_results.go`, `team_recovery.go`) | attempt rows: task, worker and its generation, state | offer, accept, decline, withdraw, block, resume, request stop, stop, close, submit, review, recover | task rows, the managed table, sessions, holds |
| Managed tasks (`team_managed.go`) | which team manages a task | edit, finalize, release | task rows |
| Team messages (`team_messages.go`) | messages, deliveries, cursors | send, page, acknowledge | sessions |
| Reservation ledger (`task_reservations*.go`, `server/reservation*.go`, `server/recovery.go`) | one hold per task with fence and binding; a row per service | claim, update, transfer, release, finalize, recover | task rows, managed table, aicrew facts |
| Claims over the dependency graph (`task_reservation_dependencies.go`) | write transactions in several projects | walk, lock in order, validate, commit | all projects a task depends on, lifecycle, writers |
| Events and sync (`cmd/aimem/sync_http.go`, `server/sync.go`) | event journal, push and pull cursors | append, push, pull | other machines, the hub |
| Origin labels (`memory.go`, `syncconfig.go`) | citations of group facts, the alias map | rename, relabel, import, export | lifecycle, sync |
| Facts (`store/memory.go`, `curate/curate.go`) | facts with expiry, successor, pin, tags; their vectors | remember, supersede, forget, pin, tag; the curator's writes, the sweep, import | other copies of the project, by sync |
| Shared documents (`store/docs.go`, `adapter/docs.go`, `cmd/aimem/docs.go`) | revisions at the hub; a bound file and a sidecar per machine | put, pull, merge, publish, reconcile | the three-way merge, users' files |
| Three-way merge (`diff3`) | none | diff, cluster, merge | documents |
| Enrollment (`access/enrollments.go`, `enrollment_redeem.go`, `cmd/aimem/enroll_redeem.go`) | the ledger of codes; pending files, `hub.json`, the creation lock | issue, revoke, redeem, replay; the redeem command | access tokens |
| Submission path (`adapter/spool.go`) | `pending.jsonl` and claims `.replay-<pid>` | submit, spool, sweep, replay | other processes of the machine, the service |

`PROJECT.json` lists every component, those without a model with the reason.

What makes these hard:

* **Two mechanisms, one table.** Team coordination and the reservation ledger were
  built at different times and own tasks exclusively of each other and of ordinary
  writers. Nothing but a handful of `SELECT EXISTS` checks, each in the other's
  transaction, keeps them apart.
* **Stale commands and retries.** A command is decided on what its author last saw,
  and is sent again when its answer is lost. Revisions, session and slot generations,
  fences, hold IDs and receipts must between them make every overtaken command fail
  and every repeated one return what the first did.
* **Facts checked outside the transaction**: whether tasks are enabled, whether a
  text is readable, what aicrew says of an attempt, whether an attempt has stopped,
  the dependency graph of a claim, the file a sync compares.
* **Stores that move.** A project's directory is renamed, merged and removed while
  requests hold handles of it, and while lookups scan from project to project.
* **Locks in several stores.** A claim holds write transactions of several projects
  while writers, transitions and lifecycle operations wait for one another.
* **Cursors** that summarise a set by its largest element: message pages, the push
  and the pull of events under clocks that differ.
* **Statements without a transaction.** A fact is retired by another statement, often
  of another process, than the one that wrote or found its successor, and "staleness
  wins" when copies meet.
* **Killed processes and shared directories.** Hooks, syncs and the redeem command
  are processes that may be killed at any system call and coordinate by files.

What makes each component correct:

| component | correct means |
|---|---|
| Task store, receipts, routes | a write applies to exactly the revision it named, only if the writer owns the task, and once; its retry gets the first answer |
| Sessions | at most one coordinator per team, always under a generation nobody used before |
| Attempts | task row and attempt row agree; a task and a worker are reserved once; the worker keeps command of its work; reserved work outlives its session |
| Managed tasks | a task between attempts is ready for the next or rests on an accepted result; giving it back makes a new revision |
| Messages | a client that goes on from its cursor passes over nothing it never saw |
| Ledger | a held task is open and the ledger's alone; every change advances the fence; a hold passes once, to the worker it named; a service can always learn what became of its hold |
| Both together | one authority per task, moving only along the edges of `TaskAuthority` |
| Dependency claims | no cycle of waits; a claim commits only on the graph as it is |
| Lifecycle, lookup | a committed task stays, except for the known race of a rename; what exists is found |
| Sync, labels | no event is skipped by a cursor for good; a citation names a living project |
| Facts | what nobody ended keeps an active fact; a pin holds against automatic writes; a fold carries the tags over |
| Documents, merge | no writer drops another's edit, no markers are published, no side of an overlap is taken silently |
| Enrollment | what the hub redeemed can be opened by somebody; an outage costs no identity |
| Spool | a record whose client was told it is spooled is never lost, and arrives |

## 2. The modules

    TaskStore <-- TeamCoordination <--.
        ^ ^------ ReservationLedger <--+-- HubCoordination --implements--> TaskAuthority
        |                                        ^
        '-- TaskRequests                         '-- HubCoordination_proofs <-- HubTeams_proofs
    DependencyClaim   TeamMessages   ProjectLifecycle   TaskLocator   EventSync
    OriginAliases     Enrollment     SharedDocs         Diff3         Spool   Memories

    DependencyClaim                       <-- DependencyClaim_proofs --> NumberSets
    TaskRequests, TeamMessages            <-- TaskRequests_proofs    --> NumberSets
    TaskLocator, ProjectLifecycle, OriginAliases  <-- Projects_proofs --> NumberSets
    EventSync, Enrollment, SharedDocs     <-- Machines_proofs        --> NumberSets
    Memories, Spool                       <-- Knowledge_proofs       --> NumberSets

* **TaskStore**: the task rows (`tasks`), the table of managing teams (`managed`),
  the hold of each task (`hold`, opaque here but for its ID) and the project's switch
  (`enabled`). `WriteTask`, `SaveTask`, `SetState` are the three levels of the code
  (`writeTask`, `saveTask`, and its callers that only set the state) that all other
  modules write tasks through. Every project store has one connection and begins its
  transactions immediately, so **an action is a whole transaction**, here and in the
  modules built on it.
* **TeamCoordination**: sessions, the coordinator slot and attempts, one action per
  store operation. A command carries a handle, a slot generation and a revision; a
  command with an old one is refused, so an action states what the accepted command
  does, and "refused for good" is a property of the counters (`FreshSlotGeneration`).
  The uniqueness indexes of the schema are not assumed.
* **ReservationLedger**: holds, fences, per-service rows, and the rules about who may
  take which transition on which fact. aicrew's facts are modelled by what they
  entitle to: the reference to an offer or attempt, the pin of a process, a stop. The
  ID of a hold (a UUID) is the fence of its claim. A claim is one step here.
* **HubCoordination**: both mechanisms and ordinary writers over the same rows, with
  the refinement mapping `AuthorityOf` to **TaskAuthority**, the abstract promise:
  `hold <-> open -> attempt <-> team -> open`, where taking a task leaves its revision
  alone and giving it back advances it.
* **TaskRequests**: a task command at the server, stage by stage (locate and
  authorize, the probe for a committed retry, the text check, the transaction with
  its receipt, the answer, which may be lost), for create, update, triage and
  comment, beside ordinary writers and the switch. `answered` remembers what each
  command was told.
* **DependencyClaim**: the protocol under the ledger's claim: the walk of the
  dependency graph without locks, the write transactions taken in the order of project
  names, the second walk under them, commit or rollback, beside writers that take a
  project's connection before its lock, ledger transitions under the lifecycle lock,
  and renames and drops. The budget of a claim is a timeout at any wait.
* **TeamMessages**: sends with keys and the quota, recipients as of the send,
  lifecycle messages, pages of the inbox with the cursor rule of `TeamMessages`,
  acknowledgements in any order, resumed and departed sessions.
* **ProjectLifecycle**: the registry (`Open`, `OpenExisting` with its look for the
  directory outside the lock, the cached handles, the lock `mu`) and
  Drop, Rename and Merge in their phases, beside requests that obtained a handle
  before. A store is apart from its name, so a handle follows a moved directory; a
  connection is taken before SQLite's write lock.
* **TaskLocator**: `LocateTask` and the prefix scan, project by project with its
  repetition, hints and remembered misses, beside lifecycle operations that move
  tasks between projects.
* **EventSync**: journals, clocks that are ahead of the hub's, the legs of `syncOneHTTP` in order,
  events imported late under old IDs, counts, the end marker, broken streams, and
  projects that the sender of a leg cannot open and leaves out (`SkipProject`). `passed`
  remembers what a cursor then passed over.
* **OriginAliases**: the alias map (`MergeOriginAliases`, with the random order of
  Go's map walk as a choice), relabelling, the normalization of imported citations and
  the exchange of facts and maps between copies that renamed on their own. Nothing in the
  code orders two applications of aliases, or an application and an import, at one
  database, so a worker takes one statement at a time: the read of the map, each UPDATE,
  each DELETE, each INSERT, the write of the map. A statement may fail where the code
  ignores its error, and a worker may die. `disturbed` remembers where that, or an
  overlap, happened since the last application that was alone.
* **Memories**: the facts of a project on the copies that hold it. A worker (a request,
  a curator, a sweep, a leg of a sync) goes from statement to statement (`at`);
  `Find`, `Insert`, `CountChapters` and `PutTag` are `Remember` for whoever calls it,
  and `then` is where it returns to. Texts with the same topic are near. `past` holds
  what the properties need: topics a user ended, overlaps, which copies retired facts.
* **Enrollment**: the hub's ledger of codes, decided in one transaction per request,
  and the redeem command step by step: several runs share a pending file per bundle,
  `hub.json` and the creation lock, any answer may be lost, and a run may stop between
  any two steps. Credentials are accepted or not; expiry and retention are sets of
  what has passed.
* **SharedDocs**: the hub's compare-and-set with its retained revisions, and on each
  machine any number of workers that interleave step by step. A worker is a process that
  runs the sync (list, sidecar, file, fetch, write, save, then publish), the checkpoint
  (publish), `docs push` of one document, `docs pull`, `docs merge` (file, fetch, base,
  write, sidecar) or `update_doc` (put, write, sidecar). The user saves the file, with or
  without the markers in it, between any two steps, and the console saves at the hub. A
  text is the set of edits in it and whether it has conflict markers. Three histories
  state what the properties except: `reached` and `raced` (a worker used what had been
  changed since it read it), `exposed` (markers were handled as other text). A user may
  also restore an old revision by hand in the console; such an edit takes edits back on
  purpose and is not part of the model.
* **Diff3**: `diff`, `overlaps`, the clustering loop, `applyWithin` and `Merge` as
  functions on sequences, evaluated for every base and two sides. A conflict is one
  element that holds both sides.
* **Spool**: one action per system call of `submit`, `spool`,
  `sweepOrphanedClaims` and `ReplaySpool`. A file is apart from its name, so a handle
  follows its file through a rename. A process may be killed between any two calls;
  the service comes and goes; a post that fails may or may not have been stored.
* **…_proofs** modules hold the theorems about the modules they extend, with the
  inductive invariants and lemmas those need (section 4). **NumberSets** has what five of
  them share: a finite set of numbers has a greatest and a least element, induction for a
  set of numbers, and the equations of a recursive function over the numbers.
* **MC…** modules give the constants their values; a `.cfg` is one run. Where parts
  share no state, one run checks several: `focus` (in `MCTeams`, `scenario`) is chosen
  in the initial state, the part in focus moves and the others stay as they began, so
  the run explores the sum, not the product, of their states.
* Operators named `X_Something` directly above `X` are faulty variants of `X`
  (a dropped check, a missing reset). They are used by no specification; replacing
  `X` by its variant breaks the property `PROJECT.json` pairs it with, which shows
  that the property depends on that code.

## 3. The runs

| run | question | instance |
|---|---|---|
| `teams` | can two sessions coordinate? do a task and its attempts stay together and under command? can a task or a worker be reserved twice? | scenarios of 1 team: *sessions* (3 sessions of 2 users, a revocable token, an admin), *work* (1 task, 2 consecutive attempts, ordinary writers), *pool* (2 tasks, 3 sessions, competing offers); revisions to 6, session and slot generations to 3 |
| `hub` | do both mechanisms and ordinary writers keep to one authority? | 1 task, 2 sessions, 2 attempts, members of one service and a person; revisions and fences to 4 |
| `commands` | what happens to what is repeated, overtaken or exchanged: five parts, each in focus in turn | see below |
| `parts` | seven parts that meet no other, each in focus in turn | see below |
| `spool` | is a spooled record ever lost? | 3 processes (2 may be killed), 1 record, 4 files, 3 process IDs |
| `spool_live` | does it arrive? | 2 processes, one of which may be killed; fair |
| `spool_late` | *(violated)* may a spooled record vanish? | 2 hooks, 2 records |
| `lost_task` | *(violated)* does a create commit or fail? | the *projects* part |
| `sync_late` | *(violated)* does the pull cursor bound what the machine has seen? | the *events* part, a project taken up late |
| `alias_back` | *(violated)* does a rename keep the citations of facts? | 1 site, 1 worker without failures, a rename there and back |
| `enroll_rerun` | *(violated)* does running the redeem command again resume it? | the *enrollment* part |
| `docs_markers` | *(violated)* are local edits safe inside a marker block? | 1 machine, 1 worker |

The parts of `commands`:

| focus | instance | properties |
|---|---|---|
| requests | commands that share keys, two handlers, one actor | `OneEffectPerKey`, `CommittedRetryReturns` |
| messages | 2 sessions, pages of 1, quota 1 | `CursorMissesNothing` |
| facts | 2 copies, 2 facts, 2 near texts, 1 tag, 4 operations one after another (pins and embeddings at any time) | `KnowledgeStays`, `PinnedSpared`, `TagsFollowTheFold` |
| events | 1 machine whose clock is ahead of the hub's, 2 projects, 2 events, overlap 2, left-out projects, broken legs | `NoEventSkipped` |
| documents | 1 machine with 2 workers that run any operations beside each other, 2 edits, 2 revisions of which 1 is retained | `NoMarkersPublished`, `HubKeepsEdits`, `LostOnlyInGaps` |

The parts of `parts`:

| focus | instance | properties |
|---|---|---|
| reservations | 1 task; a crew of 3, an independent of another service, a person; 2 offers, 2 attempts; fences to 8 | `LedgerTypeOK`, `HeldTaskIsLive`, `HoldStage`, `ServiceEvidence`, `FenceMarksChange`, `HoldChangesHandsOnce`, `StopEvidenceClosesStoppedWork` |
| projects | 2 names, 3 stores, 3 handles, 3 lifecycle operations, 1 create, 2 appends | `TaskLostOnlyByRename` |
| lookups | 2 tasks in 2 projects, 1 lookup, 2 lifecycle operations, common prefix | `NoFalseMiss`, `NotFoundOnlyInChurn` |
| labels | a hub with 2 workers and a machine with 1, 3 labels, 2 renames or merges, 3 operations, failing statements | `NoGhostCitation`, `LostOnlyToOwnAlias` |
| enrollment | 1 code, 2 runs of the command, 2 keys, `hub.json` with and without an older credential | `KeysOutliveRedemption`, `SpentOnlyWhenRefused` |
| claims | 2 claims over 3 tasks in 2 projects, 1 writer, 1 mover | `NoWaitCycle`, `ClaimSeesCurrentGraph` |
| merges | every base and two sides of up to 5 lines over 2 letters, 4 lines a merge | `NoSideTaken`, `LocalLinesKept` |

**Why the bounds suffice.** `MaxRevision`, `MaxFence`, `MaxGeneration`,
`MaxSlotGeneration`, `MaxProfile` and `MaxDocRev` cut counters the code only compares
for equality and increments. Each is large enough for the counter to be reused by the
wrong party if it could be: three slot generations let the slot go to another session
and back; three session generations let a handle go stale twice during one attempt;
six revisions take a task through a full attempt, its edit, release and a second
offer; eight fences are three holds with a transfer each; the fence's own maximum
stands for 2^63-1, at which the code refuses; two document revisions with one
retained make a base expire, and two workers are what a worker and the one that
overtakes it need. Two attempts on one task are one that is closed and one
that could collide with it. Two claims in opposite directions over two projects are the
smallest circle; a third project only lengthens it. Two runs of the redeem command
are the one that is stopped and the one that finishes, and the creation lock decides
between two at a time. Two lifecycle operations are one during the first scan of a
lookup and one during the second. Three operations on labels are a rename, one that
overlaps it and a sync between the copies. Two units of time are the skew and the length
of a leg; `NoEventSkipped` fails there as soon as either, or the overlap, is off by one. Two facts and four operations
are a pair of near facts, written or imported, with a sweep, an update or a sync of
both copies after it; five operations, and two workers with three, were checked too,
and added nothing. Two letters and five lines contain every pattern of
the merge loop (a touching, a nested, an equal and a repeated hunk). Sessions,
attempts, tasks, files and the aicrew references are interchangeable until first used,
hence the symmetry; it is not used in `spool_live`. All runs set
`CHECK_DEADLOCK FALSE`, since bounded IDs and counters run out and every client of the
spool, every run and every machine may have ended. Waiting in a circle is therefore
stated as a property of its own, `NoWaitCycle`.

**Fairness.** The store modules are checked for safety only: nothing in the code
makes a client send its next command, a user run a command again or an admin act.
`FairSpoolSpec` assumes that a running process takes its next system call (weak
fairness of `Step`), and that the client which is not killed goes on having contact
with the service (weak fairness of `Contact`: the next hook of a working agent).
Killed processes are under the same fairness until they are killed, and killing is
never required. `SpooledRecordArrives` asks for delivery only if the service
eventually stays up.

**What the violated runs show.**

* `spool_late`: `spool` opens the file and writes it in two calls. A replay that
  renames, reads and removes the file in between takes the record with it, against
  "never a silent drop" (`spool.go:3-4`). Apart from this and the import below, `spool`
  shows that interrupted replays and sweeps lose nothing.
* `lost_task`: a rename closes the handles of the project but does not drain them. A
  create that waits for SQLite's write lock follows the moved file; a drop of the new
  name finds no handle to drain and no task, and removes the directory; the create
  then commits into nothing (`store.go:237-239` says it commits or fails).
* `sync_late`: the pull cursor is one per hub, so the older events of a project that a
  machine takes up later are never asked for (`main.go:1712`).
* `alias_back`: a project renamed and named back maps to itself in the alias map, and
  the relabelling deletes the citations it has just rewritten.
* `enroll_rerun`: a redemption that replaces a credential the hub refuses, stopped
  between the pending file and `hub.json`, verifies the old credential at every rerun
  and never resumes (`enroll_redeem.go:49-52` says to run it again).
* `docs_markers`: the marked file counts as unchanged, so a pull, or the sync once the
  hub moved on, writes over it with the local edits inside (`docs.go:222-223`).

**What else the modelling showed**, without a run of its own:

* `authorizeTaskWrite` reads the project's switch before the store's transaction,
  which never reads it again: a write admitted before tasks are switched off changes a
  task after (`server/tasks.go:190`, against 228-235).
* A sweep removes a claim by name after copying it. When the owner is an import, which
  claims again under the same process ID, the name may be that of its next claim, not
  yet read (`spool.go:261`; `Importers = {p1}` shows it).
* A retry of a committed comment or triage is answered by the receipt only if the text
  check before it still says what it said (`server/tasks.go:763`, `triage.go:75`);
  updates and creates ask for the receipt first.
* A merge copies events page by page and ignores those appended behind the last page
  or refused by the target, then removes the source (`store.go:427`).
* A coordinator who is removed from the team's configuration holds the slot and can do
  nothing with it; only a new configuration helps (`teams.go:98`).
* `hub.json` is written whole from what was read at the start of the redeem command:
  two redemptions for different hub names may undo one another
  (`enroll_redeem.go:298`). A run stopped between creating its keys and looking again
  leaves keys nobody uses; after the hub's retention, a rerun reports the code as
  invalid although the machine is enrolled.
* The sweep merges the loser's tags and sources into the survivor by `Remember` of the
  survivor's text, which takes the first row with that text. If the two texts are
  identical (two machines remembered the same, then synced), that row is the older
  one, the loser itself: tags and sources go with it (`curate.go:545`, against
  506-510). The same happens with a third fact of that text. `TagsFollowTheFold` excepts
  a kept fact that is not the first with its text for this reason.
* Two copies that retire each other's survivor (an update there and back, or sweeps of
  which one sees a pin) lose both facts at the next sync, for staleness wins
  (`memory.go:868`). `KnowledgeStays` therefore asks that one copy alone retires facts. It
  counts a dump as an operation on the copy it reads: a dump under way is older than what
  that copy retires meanwhile, and its import can leave the other copy with the retired
  fact and without the successor.
* "Re-points chains to their terminal target" (`memory.go:200-201`) does not hold of a name
  that leads into a cycle, as copies that renamed against each other get one: the walk
  stops inside the cycle, at a name that is an alias itself, so the name may come back
  under that one. `NoGhostCitation` speaks of names whose alias is final (`Retired`).
* A leg of the event sync leaves out a project whose sender cannot open it
  (`sync_http.go:243-246`, `server/sync.go:78-81`) and counts as complete: the hub's end
  marker counts the lines it sent. The cursor then moves to the newest event of all
  journals, and what the project had for this leg is passed over for good, against
  "the cursor advances only over a stream proven complete" (`sync_http.go:275`).
  `NoEventSkipped` excepts it (`passed`).
* Two overlapping applications of aliases at one database (`memory.go:230-263` takes no
  lock) each write the map they merged: one alias is lost, and a name it had retired may
  come back, against "the alias makes the relabel permanent" (`memory.go:186`). An UPDATE
  that fails before its DELETE succeeds takes a citation (247-252). A recorded map that
  cannot be read counts as none, and the next application writes over it (189). A merge
  that is refused because its source does not exist and nothing cites it, as a typo
  (`store.go:366-367`), has already recorded its alias (396). `NoGhostCitation` and
  `LostOnlyToOwnAlias` say what holds in spite of these.
* `docs merge` reads the file (`docs.go:236`), asks the hub once or twice and then writes
  without looking again (269): an edit saved in between is lost ("Local edits can never be
  lost", 222-223), as it is to the sync. It loads the sidecar's revision after the fetch
  (252), so that a publish in between makes the base newer than the text it merges, and
  the merge takes the published edits back out of the file. `docs push` of one document
  reads the file before the sidecar's revision (162, 169) and may put an old text over a
  newer revision. `update_doc` rewrites the bound file unread (`mcp.go:932`).
  `HubKeepsEdits` and `LostOnlyInGaps` except exactly these.
* "Conflict markers must never reach the hub on their own" (`docs.go:286-287`), nor
  "unnoticed" (`docs/DESIGN-doc-collab.md:119`): but the publisher compares hashes only
  (`adapter/docs.go:170-174`), so one save of a file that still has markers publishes
  them at the next checkpoint. A second `docs merge` of such a file may merge cleanly, record
  the hub's hash and have the same effect; so have a merge that is killed before it
  records the sidecar, and a checkpoint that loaded the sidecar before a merge beside it.
  `NoMarkersPublished` excepts exactly these (`exposed`).
* `OpenExisting` looks for the directory outside the registry's lock and then calls
  `Open`, which makes it (`store.go:154-157`): a request may bring a project back, empty,
  that was dropped or renamed in between, which a task write "must not"
  (`server/tasks.go:257-259`). The properties hold with it.

## 4. The proofs

Each theorem is for any sets of tasks, teams, sessions, members, projects, machines,
processes and so on, and any bounds. The theorem of a property has its name with
`Holds` behind it, or the name in parentheses.

| module | properties proved |
|---|---|
| `HubCoordination_proofs` | `StoreTypeOK`, `TeamTypeOK`, `LedgerTypeOK` (`Typing`); `AttemptTaskAgreement`, `ExclusiveReservation`, `OneCoordinator`, `HeldTaskIsLive`, `CoordinatorSlot`; `HoldStage`, `ServiceEvidence`, `FenceMarksChange`, `HoldChangesHandsOnce`, `StopEvidenceClosesStoppedWork` |
| `HubTeams_proofs` | `WorkerHandleFollows`, `ManagedIdleShape`, `RevisionMarksChange`, `ReservedWorkSurvives`, `FreshSlotGeneration`; `HubImplementsTaskAuthority`: `HubSpec => Authority!Spec` under the mapping `AuthorityOf` |
| `DependencyClaim_proofs` | `NoWaitCycle`, `ClaimSeesCurrentGraph` |
| `TaskRequests_proofs` | `OneEffectPerKey`, `CommittedRetryReturns`; `CursorMissesNothing` |
| `Projects_proofs` | `NoFalseMiss`, `NotFoundOnlyInChurn`; `TaskLostOnlyByRename`; `NoGhostCitation` (`DeadNamesStayDead`), `LostOnlyToOwnAlias` (`CitationsLostToOwnAlias`) |
| `Machines_proofs` | `NoEventSkipped`; `KeysOutliveRedemption`, `SpentOnlyWhenRefused`; `NoMarkersPublished`, `HubKeepsEdits`, `LostOnlyInGaps` |
| `Knowledge_proofs` | `PinnedSpared` (`PinnedFactsAreSpared`), `TagsFollowTheFold` (`NoFoldLosesTags`), `KnowledgeStays` (`MaintenanceLosesNothing`); `KeptUnlessLate` |

The theorems about the hub are all of `HubSpec`, with both mechanisms and the ordinary
writers, which is more than the runs `teams` and `parts` check, where each mechanism
is alone with the ordinary writers.

**Assumptions.** Those of the modules: the "no such thing" values are not members of
the sets they stand beside (`StoreAssumption`, `TeamAssumption`, `LedgerAssumption`,
`LocatorAssumption`, `LifecycleAssumption`, `SpoolAssumption`, `EnrollAssumption`,
`AliasAssumption`, which also says that there are finitely many labels, and
`MemoriesAssumption`),
submitted contents and configurations are well-formed, bounds are numbers, an operation
that is not a create names a task (`RequestAssumption`, which also says that there are
finitely many commands, as the count of effects needs). `ProcessAssumption` tells the
processes of DependencyClaim apart and says that the projects' names, which are
ordered, have a last one. `SyncAssumption` says that the overlap covers the skew of a
machine's clock and the length of a leg, for which the code's constants are chosen;
without it `NoEventSkipped` is false. Nothing is assumed about fairness, about the
schema's uniqueness indexes or about the number of anything.

One theorem has a hypothesis of its own, since the property is false without it:
`Importers = {}` in `KeptUnlessLateHolds`. The clients are hooks, which have a process ID
per submission; for an import see section 3.

**The invariants.** Hardly any property is inductive; most of the work is what each
needs beside it. Every invariant was checked by TLC before it was proved.

* `TypeInv` = types and `Anchored`: a session in use belongs to a team and an attempt
  in use names a task, a team and a session. Types alone are not inductive, because
  an operation reads the rows that its session or attempt names.
* `SafeInv` = `TypeInv`, `ExclusiveReservation`, and two statements that need each
  other: `Agrees(a)`, that a task under a reserved attempt is managed, in the state
  of the attempt and not held, and `LiveHold(t)`, that a held task is live and not
  managed. An offer is safe because it refuses a held task, so that the hold's task
  stays unmanaged; a claim is safe because it refuses a managed task, and by `Agrees`
  every task with a reserved attempt is managed. Ordinary writes are refused in both
  cases. `UnmanagedIsFree` is the lemma in the middle: a task that no team manages
  has no reserved attempt.
* `SlotInv` = `TypeInv` and `CoordinatorSlot`, which is inductive as it stands:
  every way into the slot takes the next generation and requires the slot to be
  empty or empties it in the same step. `FreshSlotGeneration` follows from it.
* `HoldInv` adds to `SafeInv` what a hold's stage is (`Staged`), that its ID is at most
  its fence, what a service's row says (`RowTells`: of a hold that is over, the closing
  fence is above the ID and not above the current fence) and that the evidence for a
  recovery is of a stop. The lemma `LedgerSteps` sorts all operations of the ledger into
  four moves of one hold (taken, passed, worked under, freed), and the action
  properties are read off those.
* `HandleInv` adds to `SafeInv` that a reserved attempt names a worker of its team and
  that the generation it has of the worker is at most the session's, equal once the
  work is accepted and while the session is active: every resume and token replacement
  rebinds the attempt in the same transaction, every other way out ends the session.
* `ManagedInv` adds `Idle(t)`: a managed task without a reserved attempt is not archived
  and READY, or rests on an attempt its team accepted. Each end of an attempt needs
  `Agrees` to know in which state it finds the task.
* *The refinement.* `AuthorityOf` chooses an attempt of the task; `OneAuthority` says
  that there is no choice (from `ExclusiveReservation`), and what it reads off the state.
  `HubSteps` sorts every step of `HubNext` into a step of ordinary writers or of management,
  a step of one attempt, a step of one hold, and those that change no task; each sort is
  an action of `TaskAuthority` for its task, and leaves all others alone.
* `LockInv` says who may hold what in which phase, and that a walking claim's locks come
  before all other projects of its graph in the order of names (`LocksInOrder`). *No
  circle:* a drop that holds the lifecycle lock waits at most for a writer, who waits for
  nobody by then (`WaitsUnderLifecycle`). Otherwise (`WaitsOtherwise`) a circle has a
  claim that holds write transactions, and such a claim waits only for one with a later
  name, held by such a claim again: the greatest name in the circle is not the greatest.
* `ClaimInv` adds `WalkCloses` (every dependency met was read or is still to be read) and
  `Validated`: a claim that has validated holds the lock of every project it read, so
  nobody else can have changed them at the commit.
* `RequestInv`: the tasks made are as many as the receipts of creates and every comment
  has the receipt of its key (`Effects`); a handler that serves a retry has a receipt to
  find, knows it after the probe, and answers from it (`Served`).
* `MessagesInv`: every delivery up to the cursor is in a page that arrived, in the page
  under way, or acknowledged; the cursor of a page is its last message, and messages
  are numbered in the order of their transactions.
* `LocatorInv`: while no lifecycle operation began or ended since a scan read the
  counter, the project that has the task is still to be read, or was found, or could not
  be read (`Sees`). A task is always in a project that exists (`Housed`), which two steps
  of a move need.
* `LifecycleInv`: directories, open handles and requests fit together (`Directories`,
  `Serves`): a handle that is not cached is closed, and whoever waits under a closed
  handle waits under a renamed one. Drop's drain is exactly what makes `Serves` inductive.
* `SyncInv`: what one side has and the other has not is in reach of the cursor, unless a
  leg that could not open its project passed over it; and if the leg under way is done
  with its project and read it, it was appended since the leg began
  (`Reached`), so that the overlap brings the next leg back to it; no id or cursor is
  ahead of its clock, no leg is longer than its timeout.
* `EnrollInv`: between reading and writing, a run's keys are those of the pending file
  until the bundle is enrolled, or its file is still empty and the creation lock its own;
  a code is redeemed with the keys on disk.
* `DocsInv` has three independent parts beside the types, one for each property. While no
  worker has raced (`HubKept`): the log is a chain (each revision contains those before
  it), a file contains the revision it was brought up to, a sidecar names none that is
  later, and what a worker will put contains the revision it will put it over (`Follows`).
  The subtle case is a merge: its text may lack what the file lacked of its base, but if
  the file is still what was read, it lacks nothing, as it contains the base. Whatever
  interleaves (`FilesKept`): a recorded hash without markers was a revision of the hub, and
  what a worker has read it will write, but for what revisions have. While no markers are
  exposed (`MarksInv`): the hub has none, a merge is alone on its machine, and a file with
  markers has its hash in the sidecar or in the hand of the merge that will record it.
* `AliasInv` rests on what a merge and a relabelling compute in *every* order of Go's map
  walk. A merge leaves its map settled, as long as nothing else touches it: an alias of an
  alias is an alias again (`Settled`), whatever order the chains are re-pointed in, so a
  name is either final or leads into a cycle. In a settled map what a name is rewritten to
  is never a dead name. That much holds however workers interleave (`AliasesSettled`), as
  does what an UPDATE leaves for its DELETE (`ApplicationOK`): not the old label alone,
  unless that is its own alias. At a site that is not disturbed (`SiteClean`), an
  application is alone and the dead names still cited are those it has still to delete
  (`AloneAndClean`), and an import brings no dead name (`ImportClean`).
* `MemoryInv` is what an operation on facts may count on whatever interferes: the row it
  has in hand is known and keeps its text, a fact has one text in all copies and dumps
  (`IdsOK`), and of the facts that were pinned when it began, none that is still pinned
  is the one it will retire (`Spares`; a fact that is unpinned meanwhile leaves `spared`).
  A curator's read of a pin can be stale only by a `Pin` in between, which began after it.
* `CalmInv` is what it may count on while operations on a copy do not overlap (`Alone`):
  the facts of the pairs a sweep has still to fold are active, with the topic and the
  text it read, none is both kept and dropped (`Undisturbed`), so that no fold retires the
  survivor of another; and the tags of a fact to be dropped are in the pair, then in the
  operation, then on the first row with the kept text (`Carried`).
* `KnowledgeInv`: every topic keeps an active fact among what a copy has *or is about to
  import*, counting as retired what an import will retire (`Kept(Told, Gone, …)`). That
  alone is not inductive: the import of a retired row needs its successor to come from the
  same place. So the copies are in line: of two copies one has retired all that the other
  has, and the one that retires facts has retired all. Both fail as soon as two copies
  retire, which is the finding of section 3.
* `SpoolInv`: a record is safe in the spool, or in a claim that nobody may remove as far
  as this record goes (`Safe`, `Condemns`): whoever will remove a claim has copied the
  record from it, or had an answer for it. A claim's name has one owner, and before the
  owner has claimed the spool nobody sweeps it (`OwnNames`), which is what fails for an
  import.

There is one lemma per operation, or per group of operations that move the same thing.

**What the proofs changed.** A lifecycle operation of `TaskLocator` could take the name
of an existing project; the code refuses it, and the proof of `Housed` failed there.
`CommittedRetryReturns` excepted only rights that were lost; a comment's or triage's text
is judged anew before the receipt is looked up, which TLC could not reach with the texts
of its commands. `NoGhostCitation` said that no alias points to another, which the proof
of `Settled` refuted for cycles; `KnowledgeStays` did not count a dump as an operation on
the copy it reads, and `TagsFollowTheFold` excepted two equal texts in a pair but not a
third fact with the kept text. All three need more facts, renames or workers than the
runs have. The sorted reads of `Memories` and the walks of `OriginAliases` are stated by
what they return, or as recursive functions over numbers: `Recursion` of `NumberSets`
gives such a function its equations, and `SetInduction` and `BoundedInduction` take the
set of numbers for which a statement holds, where the library's theorems take an operator,
which the provers cannot instantiate.

**Only model-checked:** `NoSideTaken` and `LocalLinesKept`. The functions of `Diff3` recur
over pairs of positions and over a worklist of hunks, and what the properties say of the
merged text is an induction over all of them at once. Liveness (`SpooledRecordArrives`) is
beyond the prover as well. No module declares a RECURSIVE operator.

## 5. What the models leave out

* *Tasks*: references, history, epics, listing; a text is readable or not. *Teams*:
  audit events, text fields, the delay after which a session counts as silent
  (recovery is possible at any time).
* *Ledger*: the session and credential of a binding (a holder is a user, mode,
  profile and role), holds from before bindings existed, digests of stop evidence, the
  512-node limit of the dependency walk, scope pages, receipts of its transitions.
* *Sync*: the ssh transport, the leg that exchanges configuration beyond the origin
  labels. *Facts*: sources (in OriginAliases), links, confidence, kinds, recall, the
  audit trail, and the choice of what to remember (extraction). *Documents*: listing,
  search, the secret scan, `--force`, the revival of a retired document, the clipped text
  in `update_doc`'s answer to a conflict. *Enrollment*: shape checks, rate limits, trust pins;
  they only refuse.
* *Spool*: disk errors, Windows file locks, redaction, the push to a project's hub
  (same shape, a spool per hub); a process ID is reused only by the import that owns
  it.

**Not modelled**, with the reason:

* *Hub push*: the protocol of the spool once more, per hub.
* *Extraction and the budget of curation runs*: what a model proposes, and a sum over
  the ledger of runs.
* *Collections and epics*: one revision compared and advanced in one transaction, as
  in TaskStore, and no other component reads it.
* *Access and aicrew introspection*: token and grant checks refuse or do not; the
  models have that as the freedom of a command not to be taken (`RevokeToken`, `Others`)
  and aicrew's facts as what they entitle to.
* *Process bundles, MCP server, CLI, team setup, guides, installer, TUI, providers,
  embedding, redaction, schema and text rules*: translation, content handling,
  one-machine file I/O and string functions, sequential and without state that two
  actors share.

These are most of the repository's lines, and the reason that a map of the models
onto the source covers only a part of it.

## 6. Plan

Done: all modules of section 2 and the theorems of section 4. Next, in this order:

1. Proofs: `NoSideTaken`, from what `diff` and the clustering return; `KeptUnlessLate`
   with imports, for records no import has had in hand.
2. `DependencyClaim` as an implementation of the ledger's claim: the checks of
   `ReservationLedger`'s one-step claim hold when `DependencyClaim` commits.
3. The budget of concurrent curations; `KnowledgeStays` for copies that both retire.
4. Liveness of coordination: from which states an administrator alone, or the team
   alone, can free a stuck slot, attempt or hold.
