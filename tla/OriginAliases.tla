---------------------------- MODULE OriginAliases ----------------------------
(***************************************************************************)
(* Where a group's fact comes from (store/memory.go, syncconfig.go,        *)
(* store.go renameSources).  A fact cites projects by name.  When one is   *)
(* renamed or merged, its name becomes an alias, citations are relabelled, *)
(* and the aliases travel with the group's configuration, because every    *)
(* copy of the database unions citations back in.                          *)
(*                                                                         *)
(* Nothing but SQLite orders what is done at one database: an application  *)
(* of aliases reads the recorded map, then runs an UPDATE and a DELETE per *)
(* alias, each committed by itself and its error ignored, and then writes  *)
(* the map it merged; an import reads the map and then inserts citation by *)
(* citation.  So each worker here takes one statement at a time.           *)
(*                                                                         *)
(* Go walks a map in any order, so the merge of two alias maps is a set of *)
(* outcomes, one per order, and the relabelling takes any alias next.      *)
(***************************************************************************)
EXTENDS Naturals, FiniteSets, Functions

CONSTANTS
    Sites,
    AliasWorkers,       \* requests and commands, each at one database
    SiteOf,
    Labels,
    NoAlias,
    AliasFaults,        \* whether statements fail and workers die
    MaxRenames,         \* bound: renames and merges
    MaxAliasOps         \* bound: operations of the workers

ASSUME AliasAssumption ==
    /\ IsFiniteSet(Labels) /\ NoAlias \notin Labels
    /\ SiteOf \in [AliasWorkers -> Sites]
    /\ AliasFaults \in BOOLEAN /\ MaxRenames \in Nat /\ MaxAliasOps \in Nat

VARIABLES
    aliases,    \* per site, the meta "origin_aliases": a name's new name
    cites,      \* per site, the projects that one fact of the group cites
    projects,   \* per site, the projects that exist
    worker,     \* per worker, what it has read and has still to do
    disturbed,  \* history: per site, whether an application overlapped or failed
    renames, aliasOps

aliasVars == <<aliases, cites, projects, worker, disturbed, renames, aliasOps>>

NoAliases == [n \in Labels |-> NoAlias]

\* "read" and "normalize": about to read the map; the names or aliases are in hand.
Unoccupied ==
    [phase |-> "idle", moves |-> FALSE, gone |-> {}, map |-> NoAliases, local |-> NoAliases,
     todo |-> {}, key |-> NoAlias, left |-> {}]

AliasInit ==
    /\ aliases = [s \in Sites |-> NoAliases]
    /\ cites = [s \in Sites |-> {}]
    /\ projects \in [Sites -> (SUBSET Labels) \ {{}}]
    /\ worker = [w \in AliasWorkers |-> Unoccupied]
    /\ disturbed = [s \in Sites |-> FALSE]
    /\ renames = 0 /\ aliasOps = 0

Keys(m) == {n \in Labels : m[n] # NoAlias}
Orders(m) == Bijection(1..Cardinality(Keys(m)), Keys(m))

\* Follow a name to where it ends; a cycle stops at what was seen.
Follow(m, at) ==
    IF at.name \in Keys(m) \ at.seen
    THEN [name |-> m[at.name], seen |-> at.seen \cup {at.name}]
    ELSE at

Terminal(m, k) ==
    LET walk[i \in 0..Cardinality(Labels)] ==
            IF i = 0 THEN [name |-> m[k], seen |-> {k}] ELSE Follow(m, walk[i - 1]) IN
    walk[Cardinality(Labels)].name

RePoint(m, k) == [m EXCEPT ![k] = Terminal(m, k)]

\* The local map wins on a conflict.
Union(local, peer) == [n \in Labels |-> IF local[n] # NoAlias THEN local[n] ELSE peer[n]]

\* Every chain of the union is re-pointed, each in the map the ones before it left.
MergeOriginAliases(local, peer) ==
    LET union == Union(local, peer)
        count == Cardinality(Keys(union))
        RePointed(order) ==
            LET upTo[i \in 0..count] ==
                    IF i = 0 THEN union ELSE RePoint(upTo[i - 1], order[i]) IN
            upTo[count] IN
    {RePointed(order) : order \in Orders(union)}

\* Mutant: the arguments of the UPDATE are swapped.
Updated_Swapped(c, m, k) == IF m[k] \in c /\ k \notin c THEN (c \ {m[k]}) \cup {k} ELSE c

\* UPDATE OR IGNORE the label of one alias: a fact that cites the new one keeps both rows.
Updated(c, m, k) == IF k \in c /\ m[k] \notin c THEN (c \ {k}) \cup {m[k]} ELSE c

\* Mutant: a citation arrives under the name its sender knew.
Normalize_Not(m, n) == n

\* addSources: one step through the alias map, whose chains are re-pointed.
Normalize(m, n) == IF m[n] = NoAlias THEN n ELSE m[n]

Working(s, phases) == \E w \in AliasWorkers : SiteOf[w] = s /\ worker[w].phase \in phases
Applying(s) == Working(s, {"relabel", "delete"})
Busy(s) == Working(s, {"relabel", "delete", "insert"})

\* A statement whose error the code ignores, and a map that could not be read for none.
Succeeds == IF AliasFaults THEN BOOLEAN ELSE {TRUE}
ReadMaps(s) == {aliases[s]} \cup (IF AliasFaults THEN {NoAliases} ELSE {})

Becomes(w, state) == worker' = [worker EXCEPT ![w] = state]

Begin(w, state) ==
    /\ worker[w] = Unoccupied
    /\ aliasOps < MaxAliasOps
    /\ aliasOps' = aliasOps + 1
    /\ Becomes(w, state)

(***************************************************************************)
(* Renames and merges exclude each other at a site (Registry.teamMu), and  *)
(* nothing else.  A rename moves the directory first; a merge removes its  *)
(* source last.  A merge whose source is gone relabels what still cites    *)
(* it, and it records its alias also when nothing does and it is refused.  *)
(***************************************************************************)
BeginRelabel(w, old, new, gone) ==
    /\ renames < MaxRenames
    /\ renames' = renames + 1
    /\ old # new
    /\ \A v \in AliasWorkers : SiteOf[v] = SiteOf[w] => ~worker[v].moves
    /\ Begin(w, [Unoccupied EXCEPT !.phase = "read", !.moves = TRUE, !.gone = gone,
                             !.map = [NoAliases EXCEPT ![old] = new]])
    /\ UNCHANGED <<aliases, cites, disturbed>>

RenameProject(w, old, new) ==
    LET s == SiteOf[w] IN
    /\ old \in projects[s] /\ new \notin projects[s]
    /\ BeginRelabel(w, old, new, {})
    /\ projects' = [projects EXCEPT ![s] = (@ \ {old}) \cup {new}]

MergeProject(w, old, new) ==
    /\ new \in projects[SiteOf[w]]
    /\ BeginRelabel(w, old, new, projects[SiteOf[w]] \cap {old})
    /\ UNCHANGED projects

\* The group's configuration arrives from another site.
BeginGroupConfig(w, from) ==
    /\ from # SiteOf[w] /\ aliases[from] # NoAliases
    /\ Begin(w, [Unoccupied EXCEPT !.phase = "read", !.map = aliases[from]])
    /\ UNCHANGED <<aliases, cites, projects, disturbed, renames>>

\* ApplyOriginAliases reads the recorded map and merges the new aliases into it.
ReadAliases(w) ==
    LET s == SiteOf[w] IN
    /\ worker[w].phase = "read"
    /\ \E local \in ReadMaps(s) :
          /\ \E merged \in MergeOriginAliases(local, worker[w].map) :
                Becomes(w, [worker[w] EXCEPT !.phase = "relabel", !.map = merged, !.local = local,
                                             !.todo = Keys(merged)])
          /\ disturbed' = [disturbed EXCEPT ![s] = Busy(s) \/ local # aliases[s]]
    /\ UNCHANGED <<aliases, cites, projects, renames, aliasOps>>

UpdateLabel(w, k) ==
    LET s == SiteOf[w] IN
    /\ worker[w].phase = "relabel" /\ k \in worker[w].todo
    /\ \E done \in Succeeds :
          LET c == Updated(cites[s], worker[w].map, k) IN
          /\ cites' = [cites EXCEPT ![s] = IF done THEN c ELSE @]
          /\ Becomes(w, [worker[w] EXCEPT !.phase = "delete", !.key = k, !.todo = @ \ {k},
                                          !.left = IF done THEN c ELSE {}])
    /\ UNCHANGED <<aliases, projects, disturbed, renames, aliasOps>>

DeleteLabel(w) ==
    LET s == SiteOf[w] IN
    /\ worker[w].phase = "delete"
    /\ \E done \in Succeeds :
          /\ cites' = [cites EXCEPT ![s] = IF done THEN @ \ {worker[w].key} ELSE @]
          /\ disturbed' = [disturbed EXCEPT ![s] = @ \/ ~done]
    /\ Becomes(w, [worker[w] EXCEPT !.phase = "relabel", !.key = NoAlias, !.left = {}])
    /\ UNCHANGED <<aliases, projects, renames, aliasOps>>

\* The merged map replaces the recorded one if it differs from what was read.
StoreAliases(w) ==
    LET s == SiteOf[w] IN
    /\ worker[w].phase = "relabel" /\ worker[w].todo = {}
    /\ aliases' = [aliases EXCEPT ![s] = IF worker[w].map # worker[w].local THEN worker[w].map ELSE @]
    /\ Becomes(w, IF worker[w].gone = {} THEN Unoccupied
                   ELSE [Unoccupied EXCEPT !.phase = "retire", !.moves = TRUE, !.gone = worker[w].gone])
    /\ UNCHANGED <<cites, projects, disturbed, renames, aliasOps>>

\* A merge removes its source.
RetireSource(w) ==
    /\ worker[w].phase = "retire"
    /\ projects' = [projects EXCEPT ![SiteOf[w]] = @ \ worker[w].gone]
    /\ Becomes(w, Unoccupied)
    /\ UNCHANGED <<aliases, cites, disturbed, renames, aliasOps>>

\* Curation cites a project of the site; a sync brings what another copy cites.
BeginAdding(w, names) ==
    /\ names # {}
    /\ Begin(w, [Unoccupied EXCEPT !.phase = "normalize", !.todo = names])
    /\ UNCHANGED <<aliases, cites, projects, disturbed, renames>>

Curate(w, p) == p \in projects[SiteOf[w]] /\ BeginAdding(w, {p})

SyncMemories(w, from) == from # SiteOf[w] /\ BeginAdding(w, cites[from])

\* addSources reads the map once, and inserts one citation after the other.
NormalizeNames(w) ==
    LET s == SiteOf[w] IN
    /\ worker[w].phase = "normalize"
    /\ \E local \in ReadMaps(s) :
          /\ Becomes(w, [worker[w] EXCEPT !.phase = "insert", !.todo = {Normalize(local, n) : n \in @}])
          /\ disturbed' = [disturbed EXCEPT ![s] = @ \/ Applying(s) \/ local # aliases[s]]
    /\ UNCHANGED <<aliases, cites, projects, renames, aliasOps>>

InsertSource(w, n) ==
    /\ worker[w].phase = "insert" /\ n \in worker[w].todo
    /\ cites' = [cites EXCEPT ![SiteOf[w]] = @ \cup {n}]
    /\ Becomes(w, IF worker[w].todo = {n} THEN Unoccupied ELSE [worker[w] EXCEPT !.todo = @ \ {n}])
    /\ UNCHANGED <<aliases, projects, disturbed, renames, aliasOps>>

\* A worker dies, or what it has still to do fails.
Abandon(w) ==
    /\ AliasFaults /\ worker[w].phase # "idle"
    /\ disturbed' = [disturbed EXCEPT ![SiteOf[w]] = @ \/ worker[w].phase \in {"relabel", "delete"}]
    /\ Becomes(w, Unoccupied)
    /\ UNCHANGED <<aliases, cites, projects, renames, aliasOps>>

AliasNext ==
    \E w \in AliasWorkers :
       \/ \E old, new \in Labels : RenameProject(w, old, new) \/ MergeProject(w, old, new)
       \/ \E p \in Labels : Curate(w, p) \/ UpdateLabel(w, p) \/ InsertSource(w, p)
       \/ \E from \in Sites : SyncMemories(w, from) \/ BeginGroupConfig(w, from)
       \/ ReadAliases(w) \/ DeleteLabel(w) \/ StoreAliases(w) \/ RetireSource(w)
       \/ NormalizeNames(w) \/ Abandon(w)

AliasSpec == AliasInit /\ [][AliasNext]_aliasVars
-----------------------------------------------------------------------------
\* A name whose alias is final: what it points to is no alias itself.
Retired(s) == {n \in Keys(aliases[s]) : aliases[s][n] \notin Keys(aliases[s])}

(***************************************************************************)
(* One application of aliases that runs by itself and without an error     *)
(* cleans a site, and it stays clean: while a name's final alias is        *)
(* recorded no citation uses the name, whatever copies with the old name   *)
(* are imported afterwards, until an application meets another one or an   *)
(* import, a statement fails or a worker dies; the next one that is alone  *)
(* repairs that.  A name that leads into a cycle is not final: it points   *)
(* to a name of the cycle, and that one may come back.                     *)
(***************************************************************************)
NoGhostCitation ==
    \A s \in Sites : ~Busy(s) /\ ~disturbed[s] => cites[s] \cap Retired(s) = {}

(***************************************************************************)
(* What Rename and ApplyOriginAliases say: citations "are rewritten".  A   *)
(* fact that cites a project goes on citing one.  It does not when a       *)
(* project is renamed and later gets its first name back: the merged map   *)
(* then has a name for its own alias, and the DELETE of the old label      *)
(* takes the rewritten one.                                                *)
(***************************************************************************)
CitationsKept == [][\A s \in Sites : cites[s] # {} => cites'[s] # {}]_aliasVars

(***************************************************************************)
(* A fact loses its last citation only to the DELETE of a name that is its *)
(* own alias, or one whose UPDATE failed, or one before which another      *)
(* worker wrote a citation since the UPDATE; in whatever order maps are    *)
(* walked, and however the copies' aliases conflict and workers overlap.   *)
(***************************************************************************)
LostOnlyToOwnAlias ==
    [][\A s \in Sites : cites[s] # {} /\ cites'[s] = {} =>
          \E w \in AliasWorkers :
             /\ SiteOf[w] = s /\ worker[w].phase = "delete"
             /\ worker[w].map[worker[w].key] = worker[w].key \/ cites[s] # worker[w].left]_aliasVars
=============================================================================
