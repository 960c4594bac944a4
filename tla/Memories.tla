------------------------------ MODULE Memories ------------------------------
(***************************************************************************)
(* The curated facts of a project or a group, on the machines that hold a  *)
(* copy of them (store/memory.go), and who retires them without being      *)
(* asked: the curator's write-time dedup (curate.go, remember) and the     *)
(* retroactive sweep (DedupProject).                                       *)
(*                                                                         *)
(* No operation here is a transaction: each statement commits on its own,  *)
(* and the service, the curator's process and a sync work on a copy at     *)
(* once.  An action is one statement, or a start with the first read.      *)
(* Two texts are near (cosine at least the threshold) iff they have the    *)
(* same topic.  IDs are in the order of minting, as UUIDv7 are, and        *)
(* created_at is in the order of the IDs.  Confidence, kinds, links, the   *)
(* audit trail and sources (see OriginAliases) are left out.               *)
(***************************************************************************)
EXTENDS Integers, Sequences, FiniteSets, Functions

CONSTANTS
    Copies,             \* the copies of the project, one database each
    FactWorkers,        \* requests, curator runs, sweeps and sync legs under way
    Texts, NoText,      \* texts of facts; of a fact that is not in the copy
    Topic,              \* the topic of a text
    FactTags, NoTag,    \* tags
    Chapters,           \* those that file a fact in a chapter
    MaxChaptersPerFact,
    MaxFacts,           \* bound: facts minted
    MaxFactOps          \* bound: operations started

Facts == 1..MaxFacts
NoFact == 0
Absent == [text |-> NoText, expired |-> FALSE, by |-> NoFact, pinned |-> FALSE, tags |-> {}, vector |-> FALSE]
NoWork == [at |-> "idle"]

ASSUME MemoriesAssumption ==
    /\ NoText \notin Texts /\ NoTag \notin FactTags /\ Chapters \subseteq FactTags
    /\ {MaxFacts, MaxFactOps, MaxChaptersPerFact} \subseteq Nat

VARIABLES
    facts,      \* copy -> fact -> its row
    rowids,     \* copy -> the facts in the order of their rows
    minted,     \* facts minted so far
    work,       \* worker -> what it does, and where it stands
    started,    \* operations started (bound)
    past        \* what the properties must remember; no operation reads it

memoryVars == <<facts, rowids, minted, work, started, past>>

Known(c) == {f \in Facts : facts[c][f].text # NoText}

\* expired_at IS NULL AND superseded_by IS NULL; the two columns are set together.
Live(c) == {f \in Known(c) : ~facts[c][f].expired}

Near(a, b) == Topic[a] = Topic[b]

\* The first row of the scan for an active fact with this text.
Twin(c, text) ==
    LET found == {i \in 1..Len(rowids[c]) :
                     rowids[c][i] \in Live(c) /\ facts[c][rowids[c][i]].text = text}
    IN  IF found = {} THEN NoFact ELSE rowids[c][CHOOSE i \in found : \A j \in found : i <= j]

\* addTagsOpt: a fact keeps its first filing when a twin is folded in; explicit filing may add more.
Refused(op, tag) ==
    LET filed == facts[op.copy][op.fact].tags \cap Chapters
    IN  tag \in Chapters \ filed /\ Cardinality(filed) >= IF op.filing THEN MaxChaptersPerFact ELSE 1

Busy(c) == \E w \in FactWorkers : work[w] # NoWork /\ work[w].copy = c

Blank(c) ==
    [copy |-> c, by |-> "user", at |-> "find", text |-> NoText, tags |-> {}, filing |-> FALSE, tag |-> NoTag,
     old |-> NoFact, fact |-> NoFact, then |-> "done", read |-> <<>>, folds |-> {}, kept |-> NoFact,
     spared |-> {f \in Live(c) : facts[c][f].pinned}]

Overlapping(copies) == past' = [past EXCEPT !.overlapped = @ \cup {c \in copies : Busy(c)}]

\* An operation begins that writes its copy, and may read another one.
Begins(w, op, copies) ==
    /\ work[w] = NoWork /\ started < MaxFactOps
    /\ started' = started + 1
    /\ work' = [work EXCEPT ![w] = op]
    /\ Overlapping(copies)
    /\ UNCHANGED <<facts, rowids, minted>>

Begin(w, op) == Begins(w, op, {op.copy})

Turns(w, op) == work' = [work EXCEPT ![w] = op]

----------------------------------------------------------------------------
(* Requests *)

StartRemember(w, c, text, tags) == Begin(w, [Blank(c) EXCEPT !.text = text, !.tags = tags])

\* Supersede reads that the old fact is active, remembers the new text, and retires the old.
StartSupersede(w, c, old, text) ==
    /\ old \in Live(c)
    /\ Begin(w, [Blank(c) EXCEPT !.text = text, !.old = old, !.then = "replace"])

\* Forget reads the pin and writes the expiry in two statements.
StartForget(w, c, old) ==
    /\ old \in Live(c) /\ ~facts[c][old].pinned
    /\ Begin(w, [Blank(c) EXCEPT !.old = old, !.at = "expire"])

\* Tag: the explicit filing.
StartTag(w, c, f, tag) ==
    /\ f \in Live(c)
    /\ Begin(w, [Blank(c) EXCEPT !.fact = f, !.tags = {tag}, !.filing = TRUE, !.at = "file"])

\* Pin and unpin; an unpinned fact need not be spared any more.
Pin(c, f, pinned) ==
    /\ f \in Live(c) /\ facts[c][f].pinned # pinned
    /\ started < MaxFactOps /\ started' = started + 1
    /\ facts' = [facts EXCEPT ![c][f].pinned = pinned]
    /\ work' = [w \in FactWorkers |->
          IF work[w] # NoWork /\ work[w].copy = c /\ ~pinned
          THEN [work[w] EXCEPT !.spared = @ \ {f}] ELSE work[w]]
    /\ UNCHANGED <<rowids, minted, past>>

RemoveTag(c, f, tag) ==
    /\ f \in Known(c) /\ tag \in facts[c][f].tags
    /\ facts' = [facts EXCEPT ![c][f].tags = @ \ {tag}]
    /\ started < MaxFactOps /\ started' = started + 1
    /\ Overlapping({c})
    /\ UNCHANGED <<rowids, minted, work>>

\* The backfill of embeddings (aimem embed).
EmbedFact(c, f) ==
    /\ f \in Live(c) /\ ~facts[c][f].vector
    /\ facts' = [facts EXCEPT ![c][f].vector = TRUE]
    /\ UNCHANGED <<rowids, minted, work, started, past>>

----------------------------------------------------------------------------
(* The statements of Remember, for whoever calls it *)

\* The scan for an identical active fact.
Find(w) ==
    LET op == work[w]  twin == Twin(op.copy, op.text)
    IN  /\ op.at = "find"
        /\ Turns(w, [op EXCEPT !.fact = twin, !.at = IF twin = NoFact THEN "insert" ELSE "file"])
        /\ UNCHANGED <<facts, rowids, minted, started, past>>

\* The curator stores the vector of a fact it inserted.
Insert(w) ==
    LET op == work[w]  f == minted + 1
    IN  /\ op.at = "insert" /\ minted < MaxFacts
        /\ minted' = f
        /\ facts' = [facts EXCEPT ![op.copy][f] = [Absent EXCEPT !.text = op.text]]
        /\ rowids' = [rowids EXCEPT ![op.copy] = Append(@, f)]
        /\ Turns(w, [op EXCEPT !.fact = f, !.at = "file",
                              !.then = IF op.by = "curator" /\ @ = "done" THEN "embed" ELSE @])
        /\ UNCHANGED <<started, past>>

\* addTagsOpt counts the chapters of the fact, then inserts the tag.
CountChapters(w, tag) ==
    LET op == work[w]
    IN  /\ op.at = "file" /\ tag \in op.tags
        /\ Turns(w, IF Refused(op, tag) THEN [op EXCEPT !.tags = @ \ {tag}]
                   ELSE [op EXCEPT !.tags = @ \ {tag}, !.tag = tag, !.at = "put"])
        /\ UNCHANGED <<facts, rowids, minted, started, past>>

PutTag(w) ==
    LET op == work[w]
    IN  /\ op.at = "put"
        /\ facts' = [facts EXCEPT ![op.copy][op.fact].tags = @ \cup {op.tag}]
        /\ Turns(w, [op EXCEPT !.tag = NoTag, !.at = "file"])
        /\ UNCHANGED <<rowids, minted, started, past>>

\* Mutant: Supersede goes on and retires the fact it just reasserted.
Reasserted_Ignored(op) == FALSE

\* An identical text folds the assertion into the very fact that Supersede was to retire.
Reasserted(op) == op.then = "replace" /\ op.fact = op.old

\* Remember returns to its caller.
Filed(w) ==
    LET op == work[w]
    IN  /\ op.at = "file" /\ op.tags = {}
        /\ Turns(w, CASE Reasserted(op) -> IF op.by = "curator" THEN [op EXCEPT !.at = "embed"] ELSE NoWork
                     [] op.then = "done" -> NoWork
                     [] OTHER -> [op EXCEPT !.at = op.then])
        /\ UNCHANGED <<facts, rowids, minted, started, past>>

SetEmbedding(w) ==
    LET op == work[w]
    IN  /\ op.at = "embed"
        /\ facts' = [facts EXCEPT ![op.copy][op.fact].vector = TRUE]
        /\ Turns(w, NoWork)
        /\ UNCHANGED <<rowids, minted, started, past>>

----------------------------------------------------------------------------
(* Retirement *)

\* The update of Supersede names the row by its ID alone: whatever became of it is overwritten.
Replace(w) ==
    LET op == work[w]  ended == {Topic[facts[op.copy][op.old].text]} \ {Topic[op.text]}
    IN  /\ op.at = "replace"
        /\ facts' = [facts EXCEPT ![op.copy][op.old].expired = TRUE, ![op.copy][op.old].by = op.fact]
        /\ Turns(w, IF op.by = "curator" THEN [op EXCEPT !.at = "embed"] ELSE NoWork)
        /\ past' = [past EXCEPT !.retirers = @ \cup {op.copy}, !.ended = @ \cup ended]
        /\ UNCHANGED <<rowids, minted, started>>

\* The folds are done in the order of the pairs' places in what was read.
Foremost(folds) ==
    {p \in folds : \A q \in folds : p.at[1] < q.at[1] \/ (p.at[1] = q.at[1] /\ p.at[2] <= q.at[2])}

\* Mutant: the tags are merged into the fact that is dropped.
Fold_IntoDropped(op, p) ==
    [op EXCEPT !.text = p.dropped.text, !.kept = p.kept.id, !.tags = p.dropped.tags,
               !.old = p.dropped.id, !.folds = @ \ {p}, !.then = "forget", !.at = "find"]

\* A pair is folded: the kept text is asserted with the tags of the other fact, and that is forgotten.
Fold(op, p) ==
    [op EXCEPT !.text = p.kept.text, !.kept = p.kept.id, !.tags = p.dropped.tags,
               !.old = p.dropped.id, !.folds = @ \ {p}, !.then = "forget", !.at = "find"]

\* The next pair of a sweep, or its end.
NextFold(w, op) ==
    IF op.folds = {} THEN Turns(w, NoWork) ELSE \E p \in Foremost(op.folds) : Turns(w, Fold(op, p))

\* The sweep calls Forget, and stops at the first fact that is pinned or gone.
Forgettable(c, f) == f \in Live(c) /\ ~facts[c][f].pinned

ForgetTwin(w) ==
    LET op == work[w]
    IN  /\ op.at = "forget"
        /\ Turns(w, IF Forgettable(op.copy, op.old) THEN [op EXCEPT !.at = "expire"] ELSE NoWork)
        /\ UNCHANGED <<facts, rowids, minted, started, past>>

Expire(w) ==
    LET op == work[w]
    IN  /\ op.at = "expire"
        /\ facts' = [facts EXCEPT ![op.copy][op.old].expired = TRUE]
        /\ IF op.by = "sweep" THEN NextFold(w, op) ELSE Turns(w, NoWork)
        /\ past' = [past EXCEPT !.retirers = @ \cup {op.copy},
                                !.ended = @ \cup IF op.by = "sweep" THEN {}
                                                 ELSE {Topic[facts[op.copy][op.old].text]}]
        /\ UNCHANGED <<rowids, minted, started>>

----------------------------------------------------------------------------
(* The curator's write: an update of a near fact replaces it, unless a user pinned that *)

StartCurate(w, c, text, tags) ==
    Begin(w, [Blank(c) EXCEPT !.by = "curator", !.text = text, !.tags = tags, !.at = "nearest"])

Nearest(w) ==
    LET op == work[w]
        near == {f \in Live(op.copy) : facts[op.copy][f].vector /\ Near(facts[op.copy][f].text, op.text)}
        same == {f \in near : facts[op.copy][f].text = op.text}
    IN  /\ op.at = "nearest"
        /\ IF same # {} \/ near = {} THEN Turns(w, [op EXCEPT !.at = "find"])
           ELSE \E f \in near : Turns(w, [op EXCEPT !.old = f, !.at = "pinned"])
        /\ UNCHANGED <<facts, rowids, minted, started, past>>

\* Mutant: the curator replaces pinned facts as well.
Protected_Never(c, f) == FALSE

\* IsPinned. A clash with a pinned fact is noted and the pinned fact reasserted.
Protected(c, f) == f \in Live(c) /\ facts[c][f].pinned

IsPinned(w) ==
    LET op == work[w]
    IN  /\ op.at = "pinned"
        /\ Turns(w, IF Protected(op.copy, op.old)
                   THEN [op EXCEPT !.text = facts[op.copy][op.old].text, !.old = NoFact, !.at = "find"]
                   ELSE [op EXCEPT !.at = "supersede"])
        /\ UNCHANGED <<facts, rowids, minted, started, past>>

\* The curator's Supersede; if the near fact is gone, a plain write takes its place.
CuratorSupersede(w) ==
    LET op == work[w]
    IN  /\ op.at = "supersede"
        /\ Turns(w, IF op.old \in Live(op.copy) THEN [op EXCEPT !.then = "replace", !.at = "find"]
                   ELSE [op EXCEPT !.old = NoFact, !.at = "find"])
        /\ UNCHANGED <<facts, rowids, minted, started, past>>

----------------------------------------------------------------------------
(* Reading a copy: pinned facts first, then the newest. The sweep and the dumps read so. *)

Before(c, a, b) == IF facts[c][a].pinned = facts[c][b].pinned THEN a > b ELSE facts[c][a].pinned

\* The rows of S, in the one order that the query gives them.
RowsOf(c, S) ==
    LET places == 1..Cardinality(S)
        ordered == {ids \in Bijection(places, S) :
                       \A i, j \in places : i < j => Before(c, ids[i], ids[j])}
    IN  {[i \in places |-> [id |-> ids[i], row |-> facts[c][ids[i]]]] : ids \in ordered}

StartSweep(w, c) ==
    \E rows \in RowsOf(c, Live(c)) :
        Begin(w, [Blank(c) EXCEPT !.by = "sweep", !.at = "pair", !.read = rows])

\* The pairs of DedupProject among the rows with a vector: a fact is folded into the
\* first near one, unless it is pinned.
Pairs(rows, embedded) ==
    LET places == {i \in 1..Len(rows) : rows[i].id \in embedded}
        near(i, j) == Near(rows[i].row.text, rows[j].row.text)
        first(i) == \A k \in places : k < i => ~near(k, i)
        entry(i) == [id |-> rows[i].id, text |-> rows[i].row.text, tags |-> rows[i].row.tags]
    IN  {[at |-> p, kept |-> entry(p[1]), dropped |-> entry(p[2])] :
            p \in {p \in places \X places :
                     p[1] < p[2] /\ near(p[1], p[2]) /\ ~rows[p[2]].row.pinned /\ first(p[1])}}

\* The second read: the vectors of active facts.
PairUp(w) ==
    LET op == work[w]
        embedded == {f \in Live(op.copy) : facts[op.copy][f].vector}
    IN  /\ op.at = "pair"
        /\ NextFold(w, [op EXCEPT !.read = <<>>, !.folds = Pairs(op.read, embedded)])
        /\ UNCHANGED <<facts, rowids, minted, started, past>>

----------------------------------------------------------------------------
(* Sync: a dump of one copy, imported record by record into another *)

StartImport(w, from, c) ==
    /\ from # c
    /\ \E rows \in RowsOf(from, Known(from)) :
          Begins(w, [Blank(c) EXCEPT !.by = "sync", !.at = "import", !.filing = TRUE, !.then = "import",
                                     !.read = rows], {from, c})

\* ON CONFLICT DO UPDATE: staleness and pins win, on either side.
Merged(mine, theirs) ==
    [mine EXCEPT !.expired = @ \/ theirs.expired,
                 !.by = IF @ = NoFact THEN theirs.by ELSE @,
                 !.pinned = @ \/ theirs.pinned]

ImportMemory(w) ==
    LET op == work[w]  in == Head(op.read)  c == op.copy  known == in.id \in Known(c)
    IN  /\ op.at = "import" /\ op.read # <<>>
        /\ facts' = [facts EXCEPT ![c][in.id] =
              IF known THEN Merged(@, in.row) ELSE [in.row EXCEPT !.tags = {}, !.vector = FALSE]]
        /\ rowids' = [rowids EXCEPT ![c] = IF known THEN @ ELSE Append(@, in.id)]
        /\ Turns(w, [op EXCEPT !.read = Tail(@), !.fact = in.id, !.tags = in.row.tags, !.at = "file"])
        /\ UNCHANGED <<minted, started, past>>

\* The stream ends, or breaks off.
EndImport(w) ==
    LET op == work[w]
    IN  /\ op.at = "import"
        /\ Turns(w, NoWork)
        /\ past' = [past EXCEPT !.torn = IF op.read = <<>> THEN @ ELSE @ \cup {op.copy}]
        /\ UNCHANGED <<facts, rowids, minted, started>>

----------------------------------------------------------------------------
MemoriesInit ==
    /\ facts = [c \in Copies |-> [f \in Facts |-> Absent]]
    /\ rowids = [c \in Copies |-> <<>>]
    /\ minted = 0
    /\ work = [w \in FactWorkers |-> NoWork]
    /\ started = 0
    /\ past = [ended |-> {}, overlapped |-> {}, retirers |-> {}, torn |-> {}]

Requests(w) ==
    \E c \in Copies :
        \/ \E text \in Texts, tags \in SUBSET FactTags :
              StartRemember(w, c, text, tags) \/ StartCurate(w, c, text, tags)
        \/ \E f \in Facts, text \in Texts : StartSupersede(w, c, f, text)
        \/ \E f \in Facts : StartForget(w, c, f)
        \/ \E f \in Facts, tag \in FactTags : StartTag(w, c, f, tag)
        \/ StartSweep(w, c)
        \/ \E from \in Copies : StartImport(w, from, c)

Statements(w) ==
    /\ work[w] # NoWork
    /\ \/ Find(w) \/ Insert(w) \/ \E tag \in FactTags : CountChapters(w, tag)
       \/ PutTag(w) \/ Filed(w) \/ SetEmbedding(w)
       \/ Replace(w) \/ ForgetTwin(w) \/ Expire(w)
       \/ Nearest(w) \/ IsPinned(w) \/ CuratorSupersede(w) \/ PairUp(w)
       \/ ImportMemory(w) \/ EndImport(w)

MemoriesNext ==
    \/ \E w \in FactWorkers : Requests(w) \/ Statements(w)
    \/ \E c \in Copies, f \in Facts :
        \/ \E pinned \in BOOLEAN : Pin(c, f, pinned)
        \/ \E tag \in FactTags : RemoveTag(c, f, tag)
        \/ EmbedFact(c, f)

MemoriesSpec == MemoriesInit /\ [][MemoriesNext]_memoryVars

----------------------------------------------------------------------------
KnownTopics(c) == {Topic[facts[c][f].text] : f \in Known(c)}
LiveTopics(c) == {Topic[facts[c][f].text] : f \in Live(c)}

(***************************************************************************)
(* Maintenance loses no knowledge: a topic that no user ended keeps an     *)
(* active fact wherever it is known, through reassertions, updates, sweeps *)
(* and syncs (Supersede: "the fact just vanishes" must not happen), as     *)
(* long as operations on a copy do not overlap (a dump of it is one), one  *)
(* copy alone retires facts, and no stream broke off.                      *)
(***************************************************************************)
Calm(c) == past.overlapped = {} /\ past.torn = {} /\ ~Busy(c)

KnowledgeStays ==
    \A c \in Copies :
        Calm(c) /\ Cardinality(past.retirers) <= 1
        => KnownTopics(c) \ past.ended \subseteq LiveTopics(c)

(***************************************************************************)
(* A fact that is pinned when an automatic write or a forget begins, and   *)
(* stays pinned, is not retired by it ("never rewrite it automatically").  *)
(***************************************************************************)
Retires(w) ==
    /\ work[w] # NoWork
    /\ work[w].at = "expire" \/ (work[w].at = "replace" /\ work[w].by = "curator")

PinnedSpared ==
    [][\A w \in FactWorkers : Retires(w) /\ work'[w] # work[w] => work[w].old \notin work[w].spared]_memoryVars

(***************************************************************************)
(* "The loser's tags and sources merge onto the kept fact before the loser *)
(* is retired" (DedupProject), chapters aside, when nothing interferes.    *)
(* Excepted is a kept fact whose text another row has as well: Remember    *)
(* takes the first active row with that text, be it the loser or a third   *)
(* fact, and the tags go there.                                            *)
(***************************************************************************)
TagsFollowTheFold ==
    [][\A w \in FactWorkers :
          LET op == work[w]  row == facts[op.copy]
          IN  op # NoWork /\ op.at = "expire" /\ op.by = "sweep" /\ work'[w] # op
              => past.overlapped # {} \/ Twin(op.copy, row[op.kept].text) # op.kept
                 \/ row[op.old].tags \ Chapters \subseteq row[op.kept].tags]_memoryVars
=============================================================================
