------------------------------ MODULE SharedDocs ------------------------------
(***************************************************************************)
(* One shared document (store/docs.go) and the machines on which a file is *)
(* bound to it (adapter/docs.go, cmd/aimem/docs.go, the update_doc tool of *)
(* mcp/mcp.go).                                                            *)
(*                                                                         *)
(* The hub writes a revision only over the revision its writer names.  A   *)
(* machine keeps, beside the file, a sidecar with the revision and hash it *)
(* last had in common with the hub.  Nothing locks the file or the         *)
(* sidecar: the periodic sync (fast-forward or merge, then publish), the   *)
(* checkpoint (publish), the commands `docs push`, `docs pull` and `docs   *)
(* merge` and the tool update_doc read the file, ask the hub, write the    *)
(* file and record the sidecar in steps of their own, and the user saves   *)
(* the file between them.  A worker is a process that runs any of these.   *)
(*                                                                         *)
(* A text is the set of edits that it contains and whether conflict        *)
(* markers stand in it; a hash is the text itself.  Edits are never taken    *)
(* back, so a text without an edit it once had has lost it.                *)
(***************************************************************************)
EXTENDS Naturals

CONSTANTS
    Machines,
    DocWorkers,         \* processes of each machine
    DocEdits,
    Markers,            \* whether `docs merge` may leave conflict markers
    OtherDocs,          \* whether other documents share the sidecar
    DocHistoryKeep,     \* docHistoryKeep
    MaxDocRev           \* bound: revisions

ASSUME DocsAssumption ==
    {Markers, OtherDocs} \subseteq BOOLEAN /\ DocHistoryKeep \in Nat \ {0} /\ MaxDocRev \in Nat

VARIABLES
    doc,        \* the row of docs; revision 0 is no row
    docLog,     \* doc_revisions, with those that were pruned
    docFile,    \* the bound file of each machine
    sidecar,    \* docsync/<project>.json
    docWorker,  \* what each worker of a machine does, has read and will write
    agent,      \* what an agent on the machine has read with read_doc
    edited,     \* the edits made so far
    reached,    \* history: the latest revision that each file was brought up to
    raced,      \* history: the machines where a worker used a file that was changed since
    exposed     \* history: the machines where markers were handled as other text

docsHistory == <<reached, raced, exposed>>
docsVars == <<doc, docLog, docFile, sidecar, docWorker, agent, edited, docsHistory>>
hubUnchanged == UNCHANGED <<doc, docLog>>

Text(edits, marks) == [there |-> TRUE, edits |-> edits, marks |-> marks]
EmptyText == Text({}, FALSE)
Missing == [there |-> FALSE, edits |-> {}, marks |-> FALSE]
Synced(rev, hash) == [rev |-> rev, hash |-> hash]
Unsynced == Synced(0, Missing)

\* st: the sidecar as it was loaded, the hub's document as it was fetched, or what to record.
AtRest == [at |-> "rest", op |-> "none", st |-> Unsynced, local |-> Missing, text |-> Missing]
Reconciled == [AtRest EXCEPT !.at = "publish", !.op = "sync"]
Records(op, st) == [AtRest EXCEPT !.at = "record", !.op = op, !.st = st]

DocsInit ==
    /\ doc = [rev |-> 0, body |-> EmptyText, deleted |-> FALSE]
    /\ docLog = [r \in 1..MaxDocRev |-> Missing]
    /\ docFile = [m \in Machines |-> Missing]
    /\ sidecar = [m \in Machines |-> Unsynced]
    /\ docWorker = [m \in Machines |-> [w \in DocWorkers |-> AtRest]]
    /\ agent = [m \in Machines |-> Unsynced]
    /\ edited = {}
    /\ reached = [m \in Machines |-> 0] /\ raced = {} /\ exposed = {}

(***************************************************************************)
(* The hub.                                                                *)
(***************************************************************************)
\* Mutant: newest wins.
Refuses_Never(body, deleted, base) == FALSE

Refuses(body, deleted, base) == base # doc.rev

\* An identical text is no write, whatever its base.
SameDoc(body, deleted) == doc.rev > 0 /\ body = doc.body /\ deleted = doc.deleted

Retained(rev) == rev \in 1..doc.rev /\ rev + DocHistoryKeep > doc.rev

PutDoc(body, deleted, base) ==
    IF SameDoc(body, deleted) \/ Refuses(body, deleted, base) THEN hubUnchanged
    ELSE /\ doc.rev < MaxDocRev
         /\ doc' = [rev |-> base + 1, body |-> IF deleted THEN EmptyText ELSE body, deleted |-> deleted]
         /\ docLog' = [docLog EXCEPT ![base + 1] = IF deleted THEN Missing ELSE body]

Accepted(body, base) == SameDoc(body, FALSE) \/ ~Refuses(body, FALSE, base)
RevAfter(body, base) == IF SameDoc(body, FALSE) THEN doc.rev ELSE base + 1
Shown == doc.rev > 0 /\ ~doc.deleted

(***************************************************************************)
(* The three-way merge (diff3.MergeText): what each side changed since the *)
(* base.  Changes of both sides may meet; without a base they do, because  *)
(* both then insert at the same place.  Markers in a text are lines of it. *)
(***************************************************************************)
MergedText(base, local, hub) ==
    Text((local.edits \cap hub.edits) \cup (local.edits \ base.edits) \cup (hub.edits \ base.edits),
         IF local.marks = base.marks THEN hub.marks ELSE local.marks)

MayConflict(base, local, hub) == local # base /\ hub # base /\ local # hub

Clean(base, local, hub) ==
    IF base = EmptyText /\ MayConflict(base, local, hub) THEN {} ELSE {MergedText(base, local, hub)}

\* What meets is there twice, between markers.
Marked(base, local, hub) ==
    {Text(MergedText(base, local, hub).edits \cup both, TRUE) : both \in SUBSET (local.edits \cup hub.edits)}

\* The base is fetched apart: an error, or a revision that was pruned, leaves none.
Bases(rev) == {EmptyText} \cup (IF Retained(rev) /\ docLog[rev].there THEN {docLog[rev]} ELSE {})

(***************************************************************************)
(* The workers.                                                            *)
(***************************************************************************)
Place(m, w) == docWorker[m][w].at
Proceeds(m, w, state) == docWorker' = [docWorker EXCEPT ![m][w] = state]

\* A worker takes the file for revision rev, with cause or by what it read too long ago.
Takes(m, rev, stale) ==
    /\ reached' = [reached EXCEPT ![m] = rev]
    /\ raced' = IF stale THEN raced \cup {m} ELSE raced

\* Markers are at risk when their file is merged or pushed, and beside any worker while
\* a merge is under way.
Starts(m, w, state) ==
    /\ Place(m, w) = "rest"
    /\ Proceeds(m, w, state)
    /\ exposed' = IF \/ state.op \in {"merge", "push"} /\ state.local.marks
                     \/ \E v \in DocWorkers \ {w} :
                           Place(m, v) # "rest" /\ "merge" \in {state.op, docWorker[m][v].op}
                  THEN exposed \cup {m} ELSE exposed

\* The file is written over whatever it holds now.
WriteFile(m, w) ==
    LET s == docWorker[m][w] IN
    /\ s.at = "write"
    /\ docFile' = [docFile EXCEPT ![m] = s.text]
    /\ Proceeds(m, w, Records(s.op, s.st))
    /\ Takes(m, s.st.rev, docFile[m] # s.local \/ s.st.rev < reached[m])
    /\ UNCHANGED <<doc, docLog, sidecar, agent, edited, exposed>>

RecordSidecar(m, w) ==
    /\ Place(m, w) = "record"
    /\ sidecar' = [sidecar EXCEPT ![m] = docWorker[m][w].st]
    /\ Proceeds(m, w, IF docWorker[m][w].op = "sync" THEN Reconciled ELSE AtRest)
    /\ UNCHANGED <<doc, docLog, docFile, agent, edited, docsHistory>>

\* A worker that carried another document saves the sidecar with this one as it was loaded.
SaveStale(m, w) ==
    /\ OtherDocs
    /\ Place(m, w) \in {"loaded", "publishing"}
    /\ sidecar' = [sidecar EXCEPT ![m] = docWorker[m][w].st]
    /\ Proceeds(m, w, IF docWorker[m][w].op = "sync" THEN Reconciled ELSE AtRest)
    /\ UNCHANGED <<doc, docLog, docFile, agent, edited, docsHistory>>

\* Killed, refused, or the hub cannot be reached.
StopWorker(m, w) ==
    LET s == docWorker[m][w] IN
    /\ s.at # "rest"
    /\ Proceeds(m, w, AtRest)
    /\ exposed' = IF s.at = "record" /\ s.op = "merge" /\ s.st.hash.marks THEN exposed \cup {m} ELSE exposed
    /\ UNCHANGED <<doc, docLog, docFile, sidecar, agent, edited, reached, raced>>

(***************************************************************************)
(* ReconcileDocs, by the sync.  It lists the hub's documents first.        *)
(***************************************************************************)
StartSync(m, w) ==
    /\ Starts(m, w, IF Shown THEN [AtRest EXCEPT !.op = "sync", !.at = "listed", !.st.rev = doc.rev]
                    ELSE Reconciled)
    /\ UNCHANGED <<doc, docLog, docFile, sidecar, agent, edited, reached, raced>>

LoadSidecar(m, w) ==
    LET s == docWorker[m][w] IN
    /\ s.at = "listed"
    /\ Proceeds(m, w, IF s.st.rev <= sidecar[m].rev THEN Reconciled
                  ELSE [s EXCEPT !.at = "loaded", !.st = sidecar[m]])
    /\ UNCHANGED <<doc, docLog, docFile, sidecar, agent, edited, docsHistory>>

ReadLocal(m, w) ==
    /\ Place(m, w) = "loaded"
    /\ Proceeds(m, w, IF docFile[m].there
                  THEN [docWorker[m][w] EXCEPT !.at = "read", !.local = docFile[m]]
                  ELSE Reconciled)
    /\ UNCHANGED <<doc, docLog, docFile, sidecar, agent, edited, docsHistory>>

\* Mutant: what changed since the sidecar is overwritten like the rest.
Verdicts_AlwaysFastForward(st, local) == {doc.body}

\* What the sync will write: the hub's text over an unchanged file, a clean merge, or nothing.
Verdicts(st, local) ==
    IF local = st.hash THEN {doc.body}
    ELSE UNION {Clean(base, local, doc.body) : base \in Bases(st.rev)}

FetchCurrent(m, w) ==
    LET s == docWorker[m][w] IN
    /\ s.at = "read"
    /\ \/ /\ ~doc.deleted
          /\ \E text \in Verdicts(s.st, s.local) :
                Proceeds(m, w, [s EXCEPT !.at = "write", !.text = text, !.st = Synced(doc.rev, doc.body)])
       \/ /\ \/ doc.deleted
             \/ /\ s.local # s.st.hash
                /\ \E base \in Bases(s.st.rev) : MayConflict(base, s.local, doc.body)
          /\ Proceeds(m, w, Reconciled)     \* at most a preview beside the file
    /\ UNCHANGED <<doc, docLog, docFile, sidecar, agent, edited, docsHistory>>

(***************************************************************************)
(* PublishDocs, by the sync at its end and by every checkpoint, and        *)
(* `docs push` of one document, which reads the file first.                *)
(***************************************************************************)
StartPublish(m, w) ==
    LET state == [AtRest EXCEPT !.op = "publish", !.at = "publishing", !.st = sidecar[m]] IN
    /\ \/ Starts(m, w, state)
       \/ Place(m, w) = "publish" /\ Proceeds(m, w, state) /\ UNCHANGED exposed
    /\ UNCHANGED <<doc, docLog, docFile, sidecar, agent, edited, reached, raced>>

\* Mutant: a text with markers is published like any other.
ReadBound_Always(m, w) ==
    /\ Place(m, w) = "publishing"
    /\ Proceeds(m, w, IF docFile[m].there THEN [docWorker[m][w] EXCEPT !.at = "put", !.text = docFile[m]]
                  ELSE AtRest)
    /\ UNCHANGED <<doc, docLog, docFile, sidecar, agent, edited, docsHistory>>

ReadBound(m, w) ==
    /\ Place(m, w) = "publishing"
    /\ Proceeds(m, w, IF docFile[m].there /\ docFile[m] # docWorker[m][w].st.hash
                  THEN [docWorker[m][w] EXCEPT !.at = "put", !.text = docFile[m]]
                  ELSE AtRest)
    /\ UNCHANGED <<doc, docLog, docFile, sidecar, agent, edited, docsHistory>>

PushDoc(m, w) ==
    /\ docFile[m].there
    /\ Starts(m, w, [AtRest EXCEPT !.op = "push", !.at = "pushing", !.local = docFile[m]])
    /\ UNCHANGED <<doc, docLog, docFile, sidecar, agent, edited, reached, raced>>

LoadRevision(m, w) ==
    /\ Place(m, w) = "pushing"
    /\ Proceeds(m, w, [AtRest EXCEPT !.op = "push", !.at = "put", !.st = sidecar[m],
                                 !.text = docWorker[m][w].local])
    /\ raced' = IF docFile[m] # docWorker[m][w].local THEN raced \cup {m} ELSE raced
    /\ UNCHANGED <<doc, docLog, docFile, sidecar, agent, edited, reached, exposed>>

\* The answer may be lost: then the sidecar stays as it was.
PutHubDoc(m, w) ==
    LET s == docWorker[m][w]
        rev == RevAfter(s.text, s.st.rev) IN
    /\ s.at = "put"
    /\ PutDoc(s.text, FALSE, s.st.rev)
    /\ \/ /\ Accepted(s.text, s.st.rev)
          /\ Proceeds(m, w, Records(s.op, Synced(rev, s.text)))
          /\ Takes(m, rev, ~(s.text.edits \subseteq docFile[m].edits))
       \/ Proceeds(m, w, AtRest) /\ UNCHANGED <<raced, reached>>
    /\ UNCHANGED <<docFile, sidecar, agent, edited, exposed>>

(***************************************************************************)
(* `docs pull` without --force, and `docs merge`.                          *)
(***************************************************************************)
PullDoc(m, w) ==
    /\ Shown
    /\ Starts(m, w, [AtRest EXCEPT !.op = "pull", !.at = "fetched", !.st = Synced(doc.rev, doc.body)])
    /\ UNCHANGED <<doc, docLog, docFile, sidecar, agent, edited, reached, raced>>

CheckLocal(m, w) ==
    LET s == docWorker[m][w] IN
    /\ s.at = "fetched" /\ s.op = "pull"
    /\ docFile[m] \in {Missing, sidecar[m].hash, s.st.hash}
    /\ Proceeds(m, w, [s EXCEPT !.at = "write", !.local = docFile[m], !.text = s.st.hash])
    /\ UNCHANGED <<doc, docLog, docFile, sidecar, agent, edited, docsHistory>>

MergeDoc(m, w) ==
    /\ docFile[m].there
    /\ Starts(m, w, [AtRest EXCEPT !.op = "merge", !.at = "merging", !.local = docFile[m]])
    /\ UNCHANGED <<doc, docLog, docFile, sidecar, agent, edited, reached, raced>>

FetchToMerge(m, w) ==
    LET s == docWorker[m][w] IN
    /\ s.at = "merging"
    /\ Shown
    /\ Proceeds(m, w, IF s.local = doc.body THEN Records("merge", Synced(doc.rev, doc.body))
                  ELSE [s EXCEPT !.at = "fetched", !.st = Synced(doc.rev, doc.body)])
    /\ IF s.local = doc.body THEN Takes(m, doc.rev, ~(s.local.edits \subseteq docFile[m].edits))
       ELSE UNCHANGED <<reached, raced>>
    /\ UNCHANGED <<doc, docLog, docFile, sidecar, agent, edited, exposed>>

\* The revision in the sidecar is read only now, and may be later than the one fetched.
MergeTexts(m, w) ==
    LET s == docWorker[m][w] IN
    /\ s.at = "fetched" /\ s.op = "merge"
    /\ sidecar[m].rev # s.st.rev
    /\ \E base \in Bases(sidecar[m].rev) :
          \/ \E text \in Clean(base, s.local, s.st.hash) :
                Proceeds(m, w, [s EXCEPT !.at = "write", !.text = text])
          \/ /\ Markers /\ MayConflict(base, s.local, s.st.hash)
             /\ \E text \in Marked(base, s.local, s.st.hash) :
                   Proceeds(m, w, [s EXCEPT !.at = "write", !.text = text, !.st.hash = text])
    /\ UNCHANGED <<doc, docLog, docFile, sidecar, agent, edited, docsHistory>>

(***************************************************************************)
(* The user, the agent and the console.                                    *)
(***************************************************************************)
MakeEdit(e) == e \notin edited /\ edited' = edited \cup {e}

\* A text after one more edit, by which its markers are resolved or not.
After(text, e) == {Text(text.edits \cup {e}, marks) : marks \in {FALSE, text.marks}}

Edit(m, e) ==
    /\ MakeEdit(e)
    /\ \E text \in After(docFile[m], e) :
          /\ docFile' = [docFile EXCEPT ![m] = text]
          /\ exposed' = IF text.marks THEN exposed \cup {m} ELSE exposed
    /\ UNCHANGED <<doc, docLog, sidecar, docWorker, agent, reached, raced>>

\* The console saves over the revision it shows.
SaveInConsole(e) ==
    /\ MakeEdit(e)
    /\ doc.rev > 0 => ~doc.deleted
    /\ doc.rev < MaxDocRev
    /\ \E text \in After(doc.body, e) : PutDoc(text, FALSE, doc.rev)
    /\ UNCHANGED <<docFile, sidecar, docWorker, agent, docsHistory>>

ReadDoc(m) ==
    /\ Shown
    /\ agent' = [agent EXCEPT ![m] = Synced(doc.rev, doc.body)]
    /\ UNCHANGED <<doc, docLog, docFile, sidecar, docWorker, edited, docsHistory>>

\* update_doc: after the hub's write, the bound file is rewritten unread.
UpdateDoc(m, w, e) ==
    LET base == agent[m].rev IN
    /\ base > 0
    /\ MakeEdit(e)
    /\ \E body \in After(agent[m].hash, e) :
          /\ Accepted(body, base)
          /\ PutDoc(body, FALSE, base)
          /\ Starts(m, w, [at |-> "write", op |-> "update", st |-> Synced(RevAfter(body, base), body),
                           local |-> docFile[m], text |-> body])
    /\ agent' = [agent EXCEPT ![m] = Unsynced]
    /\ UNCHANGED <<docFile, sidecar, reached, raced>>

\* docs rm --force.
Retire ==
    /\ Shown
    /\ doc.rev < MaxDocRev
    /\ PutDoc(EmptyText, TRUE, doc.rev)
    /\ UNCHANGED <<docFile, sidecar, docWorker, agent, edited, docsHistory>>

DocsNext ==
    \/ \E m \in Machines :
          \/ \E w \in DocWorkers :
                \/ StartSync(m, w) \/ LoadSidecar(m, w) \/ ReadLocal(m, w) \/ FetchCurrent(m, w)
                \/ WriteFile(m, w) \/ RecordSidecar(m, w) \/ SaveStale(m, w) \/ StopWorker(m, w)
                \/ StartPublish(m, w) \/ ReadBound(m, w) \/ PushDoc(m, w) \/ LoadRevision(m, w)
                \/ PutHubDoc(m, w)
                \/ PullDoc(m, w) \/ CheckLocal(m, w)
                \/ MergeDoc(m, w) \/ FetchToMerge(m, w) \/ MergeTexts(m, w)
                \/ \E e \in DocEdits : UpdateDoc(m, w, e)
          \/ ReadDoc(m)
          \/ \E e \in DocEdits : Edit(m, e)
    \/ \E e \in DocEdits : SaveInConsole(e)
    \/ Retire

DocsSpec == DocsInit /\ [][DocsNext]_docsVars
-----------------------------------------------------------------------------
(***************************************************************************)
(* No writer drops an edit of another from the hub's document: a revision  *)
(* contains what the one before it contained, however sidecars are saved   *)
(* over each other and wherever a worker stops.  That holds as long as on  *)
(* no machine a worker has written over a file that was saved, or brought  *)
(* to a later revision, since it read it, has published what the file no   *)
(* longer contains, or has pushed a file under a sidecar loaded after the  *)
(* file changed.                                                           *)
(***************************************************************************)
HubKeepsEdits ==
    [][raced = {} /\ doc'.rev # doc.rev /\ ~doc.deleted /\ ~doc'.deleted
       => doc.body.edits \subseteq doc'.body.edits]_docsVars

(***************************************************************************)
(* The comment at docs merge says: "Conflict markers must never reach the  *)
(* hub on their own".  They reach it only when a user saves, pushes or     *)
(* merges again a file in which they still stand, or when a merge is       *)
(* stopped before its sidecar is recorded or runs beside another worker.   *)
(***************************************************************************)
NoMarkersPublished == exposed = {} => ~doc.body.marks

(***************************************************************************)
(* ReconcileDocs is not quite "loss-free by construction".  A file loses   *)
(* edits that no revision of the hub has only when a worker writes over    *)
(* them, and what it had read of them it loses only if it is update_doc,   *)
(* which reads nothing, or if it had read them with conflict markers.      *)
(***************************************************************************)
Loses(m) == docFile[m].edits \ (docFile'[m].edits \cup UNION {docLog[r].edits : r \in 1..MaxDocRev})

LostOnlyInGaps ==
    [][\A m \in Machines :
          Loses(m) # {} =>
             \E w \in DocWorkers :
                /\ Place(m, w) = "write"
                /\ \/ Loses(m) \cap docWorker[m][w].local.edits = {}
                   \/ docWorker[m][w].op = "update"
                   \/ docWorker[m][w].local.marks]_docsVars

(***************************************************************************)
(* What docs merge says: "Local edits can never be lost: they end up       *)
(* merged or inside a marker block."  They are lost when, before the       *)
(* markers are resolved, the user pulls or the hub moves on and the sync   *)
(* runs: the sidecar has the hash of the marked file, so both take it for  *)
(* unchanged and write the hub's text over it.                             *)
(***************************************************************************)
MarkedEditsKept == [][\A m \in Machines : docFile[m].marks => Loses(m) = {}]_docsVars
=============================================================================
