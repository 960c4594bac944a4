--------------------------- MODULE ProjectLifecycle ---------------------------
(***************************************************************************)
(* The registry of project stores (internal/store/store.go): directories   *)
(* under the data root, the cache of open handles, and the operations that *)
(* remove, rename or merge a project while requests hold handles.          *)
(*                                                                         *)
(* A handle is a database/sql pool of one connection.  Closing it refuses  *)
(* new work and does not end a transaction under way, nor one that is      *)
(* still waiting for SQLite's write lock; a file stays writable after it   *)
(* was removed, or moved with its directory.                               *)
(*                                                                         *)
(* Drop, Rename and Merge run one at a time under Registry.teamMu; Drop,   *)
(* Rename and the end of Merge hold Registry.mu as well, without which no  *)
(* request gets a handle.                                                  *)
(***************************************************************************)
EXTENDS Naturals, FiniteSets, Sequences

CONSTANTS
    ProjectNames,
    TaskRequests,       \* requests that create a task
    EventRequests,      \* requests that append an event
    MaxStores,          \* bound: project directories ever made
    MaxHandles,         \* bound: handles ever opened
    MaxOperations,      \* bound: lifecycle operations
    AppendFaults        \* whether the target of a merge may refuse an event

Requests == TaskRequests \cup EventRequests

NoRequestHere == "nobody"

ASSUME LifecycleAssumption ==
    /\ TaskRequests \cap EventRequests = {}
    /\ NoRequestHere \notin Requests
    /\ {MaxStores, MaxHandles, MaxOperations} \subseteq Nat
    /\ AppendFaults \in BOOLEAN

VARIABLES
    dirs,       \* per name, the store in its directory; 0 for none
    stores,     \* what each store's journal holds
    handles,    \* handles in the order they were opened
    cache,      \* Registry.dbs: per name, a handle; 0 for none
    writing,    \* per store, the request in its write transaction
    serving,    \* per request: its phase and its handle
    found,      \* per request for a task, the project whose directory it found
    operation,  \* the lifecycle operation under way
    operations  \* how many were begun

lifecycleVars == <<dirs, stores, handles, cache, writing, serving, found, operation, operations>>

NoOperation == [kind |-> "none", phase |-> "none", from |-> "none", to |-> "none", read |-> {}]

LifecycleInit ==
    /\ dirs = [n \in ProjectNames |-> 0]
    /\ stores = <<>>
    /\ handles = <<>>
    /\ cache = [n \in ProjectNames |-> 0]
    /\ writing = [s \in 1..MaxStores |-> NoRequestHere]
    /\ serving = [r \in Requests |-> [phase |-> "new", handle |-> 0]]
    /\ found = [r \in Requests |-> {}]
    /\ operation = NoOperation
    /\ operations = 0

\* Registry.mu is held by drop and rename throughout, by merge at its end.
MutexFree == operation.phase \in {"none", "copying"}

StoreOf(h) == handles[h].store

HandleOf(store) == [store |-> store, closed |-> FALSE, renamed |-> FALSE]

(***************************************************************************)
(* Open gives a request the cached handle or opens the directory, which it *)
(* makes when there is none.  A write of tasks goes through OpenExisting,  *)
(* so that it "must not resurrect a dropped project" (taskProject): that   *)
(* returns what is cached, or looks for the directory and calls Open.  It  *)
(* looks without Registry.mu, and what it found may have been dropped or   *)
(* renamed when Open makes it again.                                       *)
(***************************************************************************)
FindProject(r, n) ==
    /\ serving[r].phase = "new" /\ found[r] = {}
    /\ dirs[n] # 0
    /\ found' = [found EXCEPT ![r] = {n}]
    /\ UNCHANGED <<dirs, stores, handles, cache, writing, serving, operation, operations>>

GetHandle(r, n) ==
    /\ serving[r].phase = "new"
    /\ r \in TaskRequests => found[r] = {n} \/ (found[r] = {} /\ cache[n] # 0)
    /\ MutexFree
    /\ IF cache[n] # 0
       THEN /\ serving' = [serving EXCEPT ![r] = [phase |-> "opened", handle |-> cache[n]]]
            /\ UNCHANGED <<dirs, stores, handles, cache>>
       ELSE LET made == Len(stores) + 1
                store == IF dirs[n] # 0 THEN dirs[n] ELSE made
                handle == Len(handles) + 1 IN
            /\ handle <= MaxHandles
            /\ dirs[n] = 0 => made <= MaxStores
            /\ dirs' = [dirs EXCEPT ![n] = store]
            /\ stores' = IF dirs[n] # 0 THEN stores
                         ELSE Append(stores, [items |-> {}, removed |-> FALSE])
            /\ handles' = Append(handles, HandleOf(store))
            /\ cache' = [cache EXCEPT ![n] = handle]
            /\ serving' = [serving EXCEPT ![r] = [phase |-> "opened", handle |-> handle]]
    /\ found' = [found EXCEPT ![r] = {}]
    /\ UNCHANGED <<writing, operation, operations>>

InUse(h) == \E r \in Requests : serving[r].handle = h /\ serving[r].phase \in {"begun", "writing"}

\* Begin takes the pool's connection; SQLite's BEGIN IMMEDIATE then waits for the lock.
BeginWrite(r) ==
    /\ serving[r].phase = "opened"
    /\ ~handles[serving[r].handle].closed
    /\ ~InUse(serving[r].handle)
    /\ serving' = [serving EXCEPT ![r].phase = "begun"]
    /\ UNCHANGED <<dirs, stores, handles, cache, writing, operation, operations, found>>

LockWrite(r) ==
    /\ serving[r].phase = "begun"
    /\ writing[StoreOf(serving[r].handle)] = NoRequestHere
    /\ writing' = [writing EXCEPT ![StoreOf(serving[r].handle)] = r]
    /\ serving' = [serving EXCEPT ![r].phase = "writing"]
    /\ UNCHANGED <<dirs, stores, handles, cache, operation, operations, found>>

CommitWrite(r) ==
    /\ serving[r].phase = "writing"
    /\ stores' = [stores EXCEPT ![StoreOf(serving[r].handle)].items = @ \cup {r}]
    /\ writing' = [writing EXCEPT ![StoreOf(serving[r].handle)] = NoRequestHere]
    /\ serving' = [serving EXCEPT ![r].phase = "committed"]
    /\ UNCHANGED <<dirs, handles, cache, operation, operations, found>>

\* A closed handle, or a lock that did not come in time.
FailWrite(r) ==
    /\ \/ serving[r].phase = "opened" /\ handles[serving[r].handle].closed
       \/ serving[r].phase = "begun"
    /\ serving' = [serving EXCEPT ![r].phase = "failed"]
    /\ UNCHANGED <<dirs, stores, handles, cache, writing, operation, operations, found>>

(***************************************************************************)
(* Lifecycle operations.                                                   *)
(***************************************************************************)
HasTasks(s) == stores[s].items \cap TaskRequests # {}

Begins(op) ==
    /\ operation = NoOperation
    /\ operations < MaxOperations
    /\ operations' = operations + 1
    /\ operation' = op

Steps(phase) == operation' = [operation EXCEPT !.phase = phase]

Refused == operation' = NoOperation /\ UNCHANGED <<dirs, stores, handles, cache>>

BeginDrop(n) ==
    /\ dirs[n] # 0
    /\ Begins([NoOperation EXCEPT !.kind = "drop", !.phase = "locked", !.from = n])
    /\ UNCHANGED <<dirs, stores, handles, cache, writing, serving, found>>

\* HasTasks through the cached handle waits for its connection; then the handle closes.
CheckLive ==
    /\ operation.phase = "locked"
    /\ LET h == cache[operation.from] IN
       IF h = 0
       THEN Steps("drained") /\ UNCHANGED <<dirs, stores, handles, cache>>
       ELSE /\ ~InUse(h)
            /\ IF HasTasks(StoreOf(h))
               THEN Refused
               ELSE /\ Steps("closing")
                    /\ UNCHANGED <<dirs, stores, handles, cache>>
    /\ UNCHANGED <<writing, serving, operations, found>>

\* Mutant: the handle is closed and forgotten without waiting for what is under way.
Drained_AtOnce(h) == TRUE

\* closeAndDrain: every connection the pool lent out is back.
Drained(h) == ~InUse(h)

\* The wait outlasts the busy timeout: only a transaction under way exceeds it.
DrainExpires(h) == \E r \in Requests : serving[r] = [phase |-> "writing", handle |-> h]

CloseHandle ==
    /\ operation.phase = "closing"
    /\ LET h == cache[operation.from] IN
       IF ~handles[h].closed
       THEN /\ handles' = [handles EXCEPT ![h].closed = TRUE]
            /\ UNCHANGED <<dirs, stores, cache, operation>>
       ELSE /\ \/ Drained(h) /\ Steps("drained")
               \/ DrainExpires(h) /\ operation' = NoOperation
            /\ cache' = [cache EXCEPT ![operation.from] = 0]
            /\ UNCHANGED <<dirs, stores, handles>>
    /\ UNCHANGED <<writing, serving, operations, found>>

\* fileHasTasks looks in a write transaction of its own, so it waits for the lock.
RemoveDirectory ==
    /\ operation.phase = "drained"
    /\ LET s == dirs[operation.from] IN
       /\ writing[s] = NoRequestHere
       /\ IF HasTasks(s)
          THEN Refused
          ELSE /\ dirs' = [dirs EXCEPT ![operation.from] = 0]
               /\ stores' = [stores EXCEPT ![s].removed = TRUE]
               /\ operation' = NoOperation
               /\ UNCHANGED <<handles, cache>>
    /\ UNCHANGED <<writing, serving, operations, found>>

\* moveProject closes both handles, does not drain them, and moves the directory.
Rename(old, new) ==
    /\ operation = NoOperation
    /\ dirs[old] # 0 /\ dirs[new] = 0
    /\ operations < MaxOperations
    /\ operations' = operations + 1
    /\ handles' = [h \in 1..Len(handles) |->
          IF h \in {cache[old], cache[new]} THEN [handles[h] EXCEPT !.closed = TRUE, !.renamed = TRUE]
          ELSE handles[h]]
    /\ cache' = [cache EXCEPT ![old] = 0, ![new] = 0]
    /\ dirs' = [dirs EXCEPT ![old] = 0, ![new] = dirs[old]]
    /\ UNCHANGED <<stores, writing, serving, operation, found>>

\* MergeProject holds Registry.mu only from its second look at the tasks on.
BeginMerge(old, new) ==
    /\ old # new
    /\ dirs[old] # 0 /\ dirs[new] # 0
    /\ ~HasTasks(dirs[old])
    /\ Begins([kind |-> "merge", phase |-> "copying", from |-> old, to |-> new, read |-> {}])
    /\ LET open == Len(handles)
           target == IF cache[new] # 0 THEN cache[new] ELSE open + 1
           source == IF cache[old] # 0 THEN cache[old] ELSE IF target > open THEN open + 2 ELSE open + 1
           opened == {target, source} \ 1..open IN
       /\ open + Cardinality(opened) <= MaxHandles
       /\ handles' = [h \in 1..(open + Cardinality(opened)) |->
                         IF h <= open THEN handles[h] ELSE HandleOf(dirs[IF h = target THEN new ELSE old])]
       /\ cache' = [cache EXCEPT ![new] = target, ![old] = source]
    /\ UNCHANGED <<dirs, stores, writing, serving, found>>

\* One page of EventsSince; an event the target refuses is passed over.
CopyPage ==
    /\ operation.phase = "copying"
    /\ LET page == (stores[dirs[operation.from]].items \cap EventRequests) \ operation.read
           target == dirs[operation.to] IN
       IF page = {}
       THEN Steps("locked") /\ UNCHANGED stores
       ELSE /\ writing[target] = NoRequestHere
            /\ \E refused \in IF AppendFaults THEN SUBSET page ELSE {{}} :
                  stores' = [stores EXCEPT ![target].items = @ \cup (page \ refused)]
            /\ operation' = [operation EXCEPT !.read = @ \cup page]
    /\ UNCHANGED <<dirs, handles, cache, writing, serving, operations, found>>

LifecycleNext ==
    \/ \E r \in Requests :
          \/ BeginWrite(r) \/ LockWrite(r) \/ CommitWrite(r) \/ FailWrite(r)
          \/ \E n \in ProjectNames : GetHandle(r, n)
    \/ \E r \in TaskRequests, n \in ProjectNames : FindProject(r, n)
    \/ \E n \in ProjectNames : BeginDrop(n)
    \/ \E old, new \in ProjectNames : Rename(old, new) \/ BeginMerge(old, new)
    \/ CopyPage \/ CheckLive \/ CloseHandle \/ RemoveDirectory

LifecycleSpec == LifecycleInit /\ [][LifecycleNext]_lifecycleVars
-----------------------------------------------------------------------------
Kept(r) == \E s \in 1..Len(stores) : r \in stores[s].items /\ ~stores[s].removed

(***************************************************************************)
(* A task whose creation was answered is never removed with its project,   *)
(* whatever drop, merge and the request did to each other, unless a rename *)
(* had closed the request's handle while it waited for the write lock.     *)
(***************************************************************************)
TaskLostOnlyByRename ==
    \A r \in TaskRequests :
       serving[r].phase = "committed" /\ ~Kept(r) => handles[serving[r].handle].renamed

(***************************************************************************)
(* What Drop says: "a create that raced us either commits first (and we    *)
(* refuse) or fails".  A rename does not drain the handle it closes: a     *)
(* create that still waits for the lock commits after the project was      *)
(* dropped under its new name.                                             *)
(***************************************************************************)
CreateCommitsOrFails ==
    \A r \in TaskRequests : serving[r].phase = "committed" => Kept(r)

=============================================================================
