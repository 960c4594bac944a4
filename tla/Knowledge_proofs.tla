--------------------------- MODULE Knowledge_proofs ---------------------------
(***************************************************************************)
(* Theorems about what agents have learned, on its way and where it is     *)
(* kept.                                                                   *)
(*                                                                         *)
(* Facts: an automatic write retires no fact that a user has pinned; a     *)
(* sweep loses no tag; and a topic that no user ended keeps an active      *)
(* fact.  Three invariants, each resting on the one before: what every     *)
(* operation counts on whatever interferes, what it counts on while        *)
(* nothing does, and what all copies have of a topic.                      *)
(*                                                                         *)
(* Checkpoints: what a client was told is spooled stays in a file with a   *)
(* name until the service has it, for any number of hooks that are killed  *)
(* anywhere.  An import, which claims the spool again under the same       *)
(* process ID, is excepted: a sweep may remove its second claim for the    *)
(* first.                                                                  *)
(***************************************************************************)
EXTENDS Memories, Spool, NumberSets, TLAPS

-----------------------------------------------------------------------------
(* Facts: types, and what an operation counts on. *)

FactIDs == Facts \cup {NoFact}
Rows ==
    [text : Texts \cup {NoText}, expired : BOOLEAN, by : FactIDs, pinned : BOOLEAN,
     tags : SUBSET FactTags, vector : BOOLEAN]
ReadRows == [id : Facts, row : Rows]
Entries == [id : Facts, text : Texts, tags : SUBSET FactTags]
Folds == [at : Nat \X Nat, kept : Entries, dropped : Entries]

Phases == {"find", "insert", "file", "put", "embed", "replace", "forget", "expire", "nearest",
           "pinned", "supersede", "pair", "import"}
Ops ==
    [copy : Copies, by : {"user", "curator", "sweep", "sync"}, at : Phases,
     text : Texts \cup {NoText}, tags : SUBSET FactTags, filing : BOOLEAN,
     tag : FactTags \cup {NoTag}, old : FactIDs, fact : FactIDs,
     then : {"done", "replace", "forget", "import", "embed"}, read : Seq(ReadRows),
     folds : SUBSET Folds, kept : FactIDs, spared : SUBSET Facts]

Pasts ==
    [ended : SUBSET {Topic[t] : t \in Texts}, overlapped : SUBSET Copies,
     retirers : SUBSET Copies, torn : SUBSET Copies]

MemoryTypeOK ==
    /\ facts \in [Copies -> [Facts -> Rows]]
    /\ rowids \in [Copies -> Seq(Facts)]
    /\ minted \in 0 .. MaxFacts
    /\ work \in [FactWorkers -> Ops \cup {NoWork}]
    /\ started \in Nat
    /\ past \in Pasts

\* The facts that a copy with these rows knows, and those that are active in it.
KnownIn(row) == {f \in Facts : row[f].text # NoText}
LiveIn(row) == {f \in KnownIn(row) : row[f].expired # TRUE}
PinnedIn(row) == {f \in KnownIn(row) : row[f].pinned = TRUE}

\* The workers that do something, and the rows that one of them has read and not yet used.
Active == {w \in FactWorkers : work[w] # NoWork}
Elements(rows) == {rows[i] : i \in 1 .. Len(rows)}

\* What an operation holds in each phase; K are the facts its copy knows.
InPhase(op, K) ==
    /\ op.at \in {"find", "insert", "nearest", "pinned", "supersede"} => op.text \in Texts
    /\ op.at \in {"nearest", "pinned", "supersede"} => op.by = "curator" /\ op.then = "done"
    /\ op.at = "embed" \/ op.then = "embed" => op.by = "curator"
    /\ op.at \in {"file", "put"} => op.fact \in K
    /\ op.at = "embed" => op.fact \in K
    /\ op.at = "put" => op.tag \in FactTags
    /\ op.at # "put" => op.tag = NoTag
    /\ op.at = "replace" => op.then = "replace" /\ op.fact \in K
    /\ op.then = "replace" => op.by \in {"user", "curator"} /\ op.old \in K /\ op.text \in Texts
    /\ op.by # "sweep" /\ op.at = "expire" => op.by = "user" /\ op.then = "done" /\ op.old \in K
    /\ op.at \in {"forget", "expire", "replace", "import"} => op.tags = {}
    /\ op.by = "sync" => op.then = "import" /\ op.at \in {"import", "file", "put"}
    /\ op.then = "import" \/ op.at = "import" => op.by = "sync"
    /\ op.then = "forget" \/ op.at \in {"pair", "forget"} => op.by = "sweep"
    /\ op.by = "sweep" => op.at \in {"pair", "find", "insert", "file", "put", "forget", "expire"}
    /\ op.by = "sweep" /\ op.at # "pair" => op.then = "forget" /\ op.old \in K /\ op.kept \in K
    /\ op.by # "sweep" \/ op.at = "pair" => op.folds = {}
    /\ op.by # "sync" /\ op.at # "pair" => op.read = <<>>
    /\ \A p \in op.folds : p.kept.id \in K /\ p.dropped.id \in K
    /\ op.at = "pair" => \A r \in Elements(op.read) : r.id \in K /\ r.row.text \in Texts

\* What an automatic write may retire; P are the pinned facts and L the active ones.
Spares(op, P, L) ==
    /\ op.spared \subseteq P
    /\ op.at = "expire" => op.old \notin op.spared
    /\ op.by = "curator" /\ op.then = "replace" => op.old \notin op.spared
    /\ op.at = "supersede" => op.old \notin L \/ op.old \notin op.spared

\* What an operation on a copy with these rows may count on.
OpOK(op, row) == InPhase(op, KnownIn(row)) /\ Spares(op, PinnedIn(row), LiveIn(row))

WorkOK == \A w \in Active : OpOK(work[w], facts[work[w].copy])

\* A fact is minted once and keeps its text, in every copy and every dump.
IdsOK ==
    /\ \A c \in Copies : \A f \in KnownIn(facts[c]) : f <= minted
    /\ \A c, d \in Copies : \A f \in KnownIn(facts[c]) \cap KnownIn(facts[d]) :
          facts[c][f].text = facts[d][f].text
    /\ \A w \in Active : \A r \in Elements(work[w].read) :
          \E d \in Copies : r.id \in KnownIn(facts[d]) /\ r.row.text = facts[d][r.id].text

\* No two operations on a copy at once, as long as none has overlapped.
Alone == past.overlapped = {} => \A v, w \in Active : v # w => work[v].copy # work[w].copy

\* The pairs of a sweep, the one under way included.
Pairing(op) ==
    {<<p.kept.id, p.dropped.id>> : p \in op.folds}
    \cup (IF op.at = "pair" THEN {} ELSE {<<op.kept, op.old>>})

\* While nothing else touches the copy, its rows are as the operation read them.
Undisturbed(op, row) ==
    /\ op.at = "pair" =>
         /\ \A r \in Elements(op.read) :
               r.id \in LiveIn(row) /\ r.row.text = row[r.id].text /\ r.row.tags = row[r.id].tags
         /\ \A i, j \in 1 .. Len(op.read) : op.read[i].id = op.read[j].id => i = j
    /\ op.by = "sweep" =>
         /\ \A p \in op.folds : p.kept.text = row[p.kept.id].text
         /\ op.at # "pair" => op.text = row[op.kept].text
         /\ \A x \in Pairing(op) :
               /\ x[1] \in LiveIn(row) /\ x[2] \in LiveIn(row)
               /\ Topic[row[x[1]].text] = Topic[row[x[2]].text]
         /\ \A x, y \in Pairing(op) :
               /\ x[1] # y[2]
               /\ Topic[row[x[1]].text] = Topic[row[y[1]].text] => x[1] = y[1]
         /\ \A p, q \in op.folds : p.dropped.id = q.dropped.id => p = q
         /\ op.at # "pair" => \A p \in op.folds : p.dropped.id # op.old
         /\ op.at # "insert"
    /\ op.then = "replace" /\ op.at \in {"file", "put", "replace"} =>
         op.fact \in LiveIn(row) /\ row[op.fact].text = op.text
    /\ op.at = "replace" => op.fact # op.old

\* The scan of a copy sees the facts that it knows.
Scanned(row, ids) == Elements(ids) = KnownIn(row)

RowidsOK == \A c \in Copies : Scanned(facts[c], rowids[c])

\* The first active row with a text, of these rows in this order.
Hits(row, ids, text) == {i \in 1 .. Len(ids) : ids[i] \in LiveIn(row) /\ row[ids[i]].text = text}

First(row, ids, text) ==
    IF Hits(row, ids, text) = {} THEN NoFact
    ELSE ids[CHOOSE i \in Hits(row, ids, text) : \A j \in Hits(row, ids, text) : i <= j]

\* Where the tags of the facts to be folded are.
Carried(op, row, ids) ==
    op.by = "sweep" =>
    /\ \A p \in op.folds :
          row[p.dropped.id].tags \subseteq p.dropped.tags \/ First(row, ids, p.kept.text) = p.dropped.id
    /\ op.at = "find" => row[op.old].tags \subseteq op.tags \/ First(row, ids, op.text) = op.old
    /\ op.at \in {"file", "put", "forget", "expire"} =>
          /\ op.fact = First(row, ids, op.text) /\ op.fact \in Facts
          /\ row[op.old].tags \ Chapters \subseteq row[op.fact].tags \cup op.tags \cup {op.tag}

Settled(op, row, ids) == Undisturbed(op, row) /\ Carried(op, row, ids)

SettledOK ==
    past.overlapped = {} =>
    \A w \in Active : LET c == work[w].copy IN Settled(work[w], facts[c], rowids[c])

-----------------------------------------------------------------------------
\* The facts are numbered from one; no fact is number zero.
LEMMA FactsOK ==
    /\ MaxFacts \in Nat /\ Facts = 1 .. MaxFacts /\ Facts \subseteq Nat
    /\ NoFact = 0 /\ NoFact \notin Facts /\ FactIDs \subseteq Nat
    /\ NoText \notin Texts /\ NoTag \notin FactTags
<1>1. MaxFacts \in Nat /\ NoText \notin Texts /\ NoTag \notin FactTags
  BY MemoriesAssumption
<1> QED BY <1>1 DEF Facts, NoFact, FactIDs

\* An idle worker has no operation.
LEMMA NoWorkIsNone == NoWork \notin Ops /\ \A op \in Ops : op.at # "idle"
<1>1. \A op \in Ops : op.at # "idle"
  BY DEF Ops, Phases
<1>2. NoWork.at = "idle"
  BY DEF NoWork
<1> QED BY <1>1, <1>2

\* The row of a fact that is not there.
LEMMA AbsentTyped == Absent \in Rows /\ Absent.text = NoText /\ Absent.expired = FALSE /\ Absent.pinned = FALSE
                     /\ Absent.tags = {} /\ Absent.by = NoFact
BY DEF Absent, Rows, FactIDs

\* What every operation starts from.
LEMMA BlankTyped ==
    ASSUME NEW c \in Copies
    PROVE  /\ Blank(c) \in Ops
           /\ Blank(c).copy = c /\ Blank(c).by = "user" /\ Blank(c).at = "find"
           /\ Blank(c).text = NoText /\ Blank(c).tags = {} /\ Blank(c).tag = NoTag
           /\ Blank(c).old = NoFact /\ Blank(c).fact = NoFact /\ Blank(c).then = "done"
           /\ Blank(c).read = <<>> /\ Blank(c).folds = {} /\ Blank(c).kept = NoFact
           /\ Blank(c).spared = {f \in Live(c) : facts[c][f].pinned}
BY DEF Blank, Ops, Phases, FactIDs, Live, Known

\* A turn of a worker leaves the work typed.
LEMMA TurnsTyped ==
    ASSUME MemoryTypeOK, NEW w \in FactWorkers, NEW n \in Ops \cup {NoWork}, Turns(w, n)
    PROVE  /\ work' \in [FactWorkers -> Ops \cup {NoWork}]
           /\ work'[w] = n /\ \A v \in FactWorkers : v # w => work'[v] = work[v]
BY DEF Turns, MemoryTypeOK

\* Rows that are read are typed.
LEMMA RowsOfTyped ==
    ASSUME MemoryTypeOK, NEW c \in Copies, NEW S \in SUBSET Facts, NEW rows \in RowsOf(c, S)
    PROVE  /\ rows \in Seq(ReadRows)
           /\ \A i \in 1 .. Len(rows) : rows[i].id \in S /\ rows[i].row = facts[c][rows[i].id]
           /\ \A i, j \in 1 .. Len(rows) : rows[i].id = rows[j].id => i = j
           /\ \A f \in S : \E i \in 1 .. Len(rows) : rows[i].id = f
<1> DEFINE n == Cardinality(S)
<1>1. n \in Nat
  <2>1. IsFiniteSet(Facts)
    BY FactsOK, FS_Interval
  <2> QED BY <2>1, FS_Subset, FS_CardinalityType
<1>2. PICK ids \in Bijection(1 .. n, S) : rows = [i \in 1 .. n |-> [id |-> ids[i], row |-> facts[c][ids[i]]]]
  BY DEF RowsOf
<1> HIDE DEF n
<1>3. \A i \in 1 .. n : ids[i] \in S /\ facts[c][ids[i]] \in Rows
  BY <1>2 DEF Bijection, Injection, MemoryTypeOK
<1>4. \A i \in 1 .. n : rows[i] \in ReadRows /\ rows[i].id = ids[i] /\ rows[i].row = facts[c][ids[i]]
  BY <1>2, <1>3 DEF ReadRows
<1>5. rows \in [1 .. n -> ReadRows]
  BY <1>2, <1>4
<1>6. rows \in Seq(ReadRows) /\ Len(rows) = n
  <2> HIDE DEF ReadRows
  <2> QED BY <1>1, <1>5
<1>7. \A i, j \in 1 .. n : ids[i] = ids[j] => i = j
  BY <1>2 DEF Bijection, Injection, IsInjective
<1>8. \A f \in S : \E i \in 1 .. n : ids[i] = f
  BY <1>2 DEF Bijection, Surjection
<1> QED BY <1>3, <1>4, <1>6, <1>7, <1>8

\* The first active row with a text.
LEMMA TwinTyped ==
    ASSUME MemoryTypeOK, NEW c \in Copies, NEW text
    PROVE  /\ Twin(c, text) \in FactIDs
           /\ Twin(c, text) # NoFact => Twin(c, text) \in Live(c) /\ facts[c][Twin(c, text)].text = text
<1> DEFINE Hit(i) == rowids[c][i] \in Live(c) /\ facts[c][rowids[c][i]].text = text
           found == {i \in 1 .. Len(rowids[c]) : Hit(i)}
<1>1. rowids[c] \in Seq(Facts) /\ Len(rowids[c]) \in Nat
  BY DEF MemoryTypeOK
<1>2. found \in SUBSET Nat
  BY <1>1
<1>3. CASE found = {}
  BY <1>3 DEF Twin, FactIDs
<1>4. CASE found # {}
  <2>1. \E i \in found : \A j \in found : i <= j
    <3> HIDE DEF found
    <3> QED BY <1>2, <1>4, Least
  <2> DEFINE i == CHOOSE k \in found : \A j \in found : k <= j
  <2>2. i \in found
    BY <2>1
  <2>3. Twin(c, text) = rowids[c][i]
    BY <1>4 DEF Twin
  <2> HIDE DEF i
  <2>4. Twin(c, text) \in Facts /\ Hit(i)
    BY <1>1, <2>2, <2>3
  <2> QED BY <2>3, <2>4 DEF FactIDs
<1> QED BY <1>3, <1>4

\* What the state keeps when an operation begins.
LEMMA BeginsTyped ==
    ASSUME MemoryTypeOK, NEW w \in FactWorkers, NEW op \in Ops, NEW copies \in SUBSET Copies,
           Begins(w, op, copies)
    PROVE  /\ MemoryTypeOK'
           /\ facts' = facts /\ rowids' = rowids /\ minted' = minted
           /\ work[w] = NoWork /\ work' = [work EXCEPT ![w] = op]
           /\ past'.overlapped = past.overlapped \cup {c \in copies : Busy(c)}
           /\ past'.ended = past.ended /\ past'.retirers = past.retirers /\ past'.torn = past.torn
<1>1. facts' = facts /\ rowids' = rowids /\ minted' = minted /\ started' = started + 1
      /\ work[w] = NoWork /\ work' = [work EXCEPT ![w] = op]
  BY DEF Begins
<1> DEFINE busy == {c \in copies : Busy(c)}
<1>2. past' = [past EXCEPT !.overlapped = @ \cup busy] /\ busy \in SUBSET Copies
  BY DEF Begins, Overlapping
<1> HIDE DEF busy
<1>3. work' \in [FactWorkers -> Ops \cup {NoWork}]
  BY <1>1 DEF MemoryTypeOK
<1>4. past' \in Pasts
  BY <1>2 DEF MemoryTypeOK, Pasts
<1>5. past'.overlapped = past.overlapped \cup busy
      /\ past'.ended = past.ended /\ past'.retirers = past.retirers /\ past'.torn = past.torn
  BY <1>2 DEF MemoryTypeOK, Pasts
<1>6. MemoryTypeOK'
  BY <1>1, <1>3, <1>4 DEF MemoryTypeOK
<1> QED BY <1>1, <1>5, <1>6 DEF busy

\* The names of the model for what a copy knows.
LEMMA KnownLive ==
    ASSUME MemoryTypeOK, NEW c \in Copies
    PROVE  Known(c) = KnownIn(facts[c]) /\ Live(c) = LiveIn(facts[c]) /\ facts[c] \in [Facts -> Rows]
BY DEF Known, Live, KnownIn, LiveIn, MemoryTypeOK, Rows

\* What is never taken back from the rows of a copy; only the explicit Unpin takes a pin.
Onward(row, new) ==
    \A f \in KnownIn(row) :
        /\ new[f].text = row[f].text
        /\ row[f].expired = TRUE => new[f].expired = TRUE
        /\ row[f].pinned = TRUE => new[f].pinned = TRUE

\* A fact that a copy did not know was minted for it or was read in another copy.
Arrives(op, row, new) ==
    \A f \in KnownIn(new) \ KnownIn(row) :
        \/ f = minted' /\ minted' = minted + 1
        \/ \E r \in Elements(op.read) : r.id = f /\ new[f].text = r.row.text

\* The operation goes on as n, on a copy that has these rows then.
GoesOn(op, n, row) ==
    n # NoWork => /\ n.copy = op.copy /\ n.by = op.by /\ n.spared = op.spared
                  /\ Elements(n.read) \subseteq Elements(op.read)
                  /\ OpOK(n, row)

\* A turn: one worker goes on with its operation or ends it, on its own copy.
Turn(w) ==
    LET c == work[w].copy
    IN  /\ MemoryTypeOK'
        /\ \E n \in Ops \cup {NoWork} :
              work' = [work EXCEPT ![w] = n] /\ GoesOn(work[w], n, facts'[c])
        /\ \A d \in Copies : d # c => facts'[d] = facts[d] /\ rowids'[d] = rowids[d]
        /\ Onward(facts[c], facts'[c]) /\ Arrives(work[w], facts[c], facts'[c])
        /\ Scanned(facts[c], rowids[c]) => Scanned(facts'[c], rowids'[c])
        /\ minted <= minted' /\ past'.overlapped = past.overlapped

\* A row that is appended.
LEMMA AppendElements ==
    ASSUME NEW S, NEW ids \in Seq(S), NEW f \in S
    PROVE  Elements(Append(ids, f)) = Elements(ids) \cup {f}
<1>1. Len(ids) \in Nat /\ Len(Append(ids, f)) = Len(ids) + 1 /\ Append(ids, f)[Len(ids) + 1] = f
      /\ \A i \in 1 .. Len(ids) : Append(ids, f)[i] = ids[i]
  OBVIOUS
<1>2. 1 .. Len(ids) + 1 = (1 .. Len(ids)) \cup {Len(ids) + 1}
  BY <1>1
<1> QED BY <1>1, <1>2 DEF Elements

\* Rows go on as they are.
LEMMA OnwardSame ==
    ASSUME NEW row, NEW op
    PROVE  Onward(row, row) /\ Arrives(op, row, row)
BY DEF Onward, Arrives

\* A turn that changes no row.
LEMMA QuietTurn ==
    ASSUME MemoryTypeOK, NEW w \in Active, NEW n \in Ops \cup {NoWork}, Turns(w, n),
           UNCHANGED <<facts, rowids, minted, started>>,
           past' \in {past} \cup {[past EXCEPT !.torn = @ \cup {work[w].copy}]},
           GoesOn(work[w], n, facts[work[w].copy])
    PROVE  Turn(w)
<1>1. work[w] \in Ops /\ minted \in Int
  BY DEF MemoryTypeOK, Active
<1>2. work' = [work EXCEPT ![w] = n] /\ work' \in [FactWorkers -> Ops \cup {NoWork}]
  BY TurnsTyped DEF Turns, Active
<1>3. past'.overlapped = past.overlapped /\ past' \in Pasts
  <2>1. past \in Pasts /\ work[w].copy \in Copies
    BY <1>1 DEF MemoryTypeOK, Ops
  <2>2. CASE past' = past
    BY <2>1, <2>2
  <2>3. CASE past' = [past EXCEPT !.torn = @ \cup {work[w].copy}]
    BY <2>1, <2>3 DEF Pasts
  <2> QED BY <2>2, <2>3
<1>4. facts' = facts /\ rowids' = rowids /\ minted' = minted /\ started' = started
  OBVIOUS
<1>5. MemoryTypeOK'
  BY <1>2, <1>3, <1>4 DEF MemoryTypeOK
<1>6. minted <= minted'
  BY <1>1, <1>4
<1> QED BY <1>2, <1>3, <1>4, <1>5, <1>6, OnwardSame DEF Turn

\* A worker goes on as n, and its copy has these rows then, in this order.
RowsTurn(w, n, row, ids) ==
    LET c == work[w].copy
    IN  /\ n \in Ops \cup {NoWork} /\ Turns(w, n)
        /\ row \in [Facts -> Rows] /\ facts' = [facts EXCEPT ![c] = row]
        /\ ids \in Seq(Facts) /\ rowids' = [rowids EXCEPT ![c] = ids]
        /\ Scanned(facts[c], rowids[c]) => Scanned(row, ids)
        /\ minted' \in minted .. MaxFacts /\ started' = started
        /\ past' \in Pasts /\ past'.overlapped = past.overlapped
        /\ GoesOn(work[w], n, row)
        /\ Onward(facts[c], row) /\ Arrives(work[w], facts[c], row)

\* A turn that changes rows of its copy.
LEMMA RowTurn ==
    ASSUME MemoryTypeOK, NEW w \in Active, NEW n, NEW row, NEW ids, RowsTurn(w, n, row, ids)
    PROVE  Turn(w) /\ facts'[work[w].copy] = row /\ rowids'[work[w].copy] = ids
<1> USE DEF RowsTurn
<1>1. work[w].copy \in Copies
  BY DEF MemoryTypeOK, Active, Ops
<1>2. work' = [work EXCEPT ![w] = n] /\ work' \in [FactWorkers -> Ops \cup {NoWork}]
  BY TurnsTyped DEF Turns, Active
<1> DEFINE c == work[w].copy
<1>3. c \in Copies /\ facts' = [facts EXCEPT ![c] = row] /\ rowids' = [rowids EXCEPT ![c] = ids]
  BY <1>1
<1> HIDE DEF c
<1>4. /\ facts' \in [Copies -> [Facts -> Rows]] /\ rowids' \in [Copies -> Seq(Facts)]
      /\ facts'[c] = row /\ rowids'[c] = ids
      /\ \A d \in Copies : d # c => facts'[d] = facts[d] /\ rowids'[d] = rowids[d]
  BY <1>3 DEF MemoryTypeOK
<1>5. minted' \in 0 .. MaxFacts /\ minted <= minted'
  BY FactsOK DEF MemoryTypeOK
<1>6. MemoryTypeOK'
  BY <1>2, <1>4, <1>5 DEF MemoryTypeOK
<1> QED BY <1>2, <1>4, <1>5, <1>6 DEF Turn, c

\* What is known of an operation under way.
LEMMA Working ==
    ASSUME MemoryTypeOK, WorkOK, NEW w \in Active
    PROVE  /\ w \in FactWorkers /\ work[w] \in Ops /\ work[w].copy \in Copies
           /\ facts[work[w].copy] \in [Facts -> Rows] /\ rowids[work[w].copy] \in Seq(Facts)
           /\ InPhase(work[w], KnownIn(facts[work[w].copy]))
           /\ Spares(work[w], PinnedIn(facts[work[w].copy]), LiveIn(facts[work[w].copy]))
           /\ past \in Pasts /\ minted \in 0 .. MaxFacts
BY DEF MemoryTypeOK, WorkOK, OpOK, Active, Ops

\* The operation goes on as n, which reads nothing new.
LEMMA Proceeds ==
    ASSUME NEW op, NEW n, NEW row, n.copy = op.copy, n.by = op.by, n.spared = op.spared, n.read = op.read,
           InPhase(n, KnownIn(row)), Spares(n, PinnedIn(row), LiveIn(row))
    PROVE  GoesOn(op, n, row)
BY DEF GoesOn, OpOK

\* The scan of Remember.
LEMMA FindTurns ==
    ASSUME MemoryTypeOK, WorkOK, NEW w \in Active, Find(w)
    PROVE  Turn(w)
<1> DEFINE op == work[w]
           row == facts[op.copy]
           twin == Twin(op.copy, op.text)
           n == [op EXCEPT !.fact = twin, !.at = IF twin = NoFact THEN "insert" ELSE "file"]
           K == KnownIn(row)
           P == PinnedIn(row)
           L == LiveIn(row)
<1>1. op \in Ops /\ op.copy \in Copies /\ InPhase(op, K) /\ Spares(op, P, L)
  BY Working
<1>2. twin \in FactIDs /\ (twin # NoFact => twin \in K)
  BY <1>1, TwinTyped, KnownLive DEF Live
<1>3. Turns(w, n) /\ UNCHANGED <<facts, rowids, minted, started, past>> /\ op.at = "find"
  BY DEF Find
<1> HIDE DEF twin, K, P, L
<1>4. n \in Ops /\ n.copy = op.copy /\ n.by = op.by /\ n.spared = op.spared /\ n.read = op.read
  BY <1>1, <1>2 DEF Ops, Phases
<1>5. InPhase(n, K)
  BY <1>1, <1>2, <1>3 DEF InPhase, Ops
<1>6. Spares(n, P, L)
  BY <1>1, <1>3 DEF Spares, Ops
<1>7. GoesOn(op, n, row)
  BY <1>4, <1>5, <1>6, Proceeds, Zenon DEF K, P, L
<1> HIDE DEF n, row
<1> QED BY <1>3, <1>4, <1>7, QuietTurn DEF row

\* The count of the chapters.
LEMMA CountChaptersTurns ==
    ASSUME MemoryTypeOK, WorkOK, NEW w \in Active, NEW tag \in FactTags, CountChapters(w, tag)
    PROVE  Turn(w)
<1> DEFINE op == work[w]
           row == facts[op.copy]
           n1 == [op EXCEPT !.tags = @ \ {tag}]
           n2 == [op EXCEPT !.tags = @ \ {tag}, !.tag = tag, !.at = "put"]
           K == KnownIn(row)
           P == PinnedIn(row)
           L == LiveIn(row)
           Fits(n) == n \in Ops /\ n.copy = op.copy /\ n.by = op.by /\ n.spared = op.spared /\ n.read = op.read
                      /\ InPhase(n, K) /\ Spares(n, P, L)
<1>1. op \in Ops /\ InPhase(op, K) /\ Spares(op, P, L) /\ op.at = "file"
  BY Working DEF CountChapters
<1>2. (Turns(w, n1) \/ Turns(w, n2)) /\ UNCHANGED <<facts, rowids, minted, started, past>>
  BY DEF CountChapters
<1> HIDE DEF K, P, L
<1>3. Fits(n1)
  BY <1>1 DEF Ops, Phases, InPhase, Spares
<1>4. Fits(n2)
  BY <1>1 DEF Ops, Phases, InPhase, Spares
<1>5. PICK n \in {n1, n2} : Turns(w, n)
  BY <1>2
<1> HIDE DEF n1, n2
<1>6. n \in Ops /\ Fits(n)
  BY <1>3, <1>4, <1>5
<1>7. GoesOn(op, n, row)
  BY <1>6, Proceeds, Zenon DEF K, P, L
<1> HIDE DEF row
<1> QED BY <1>2, <1>5, <1>6, <1>7, QuietTurn DEF row

\* The return of Remember.
LEMMA FiledTurns ==
    ASSUME MemoryTypeOK, WorkOK, NEW w \in Active, Filed(w)
    PROVE  Turn(w)
<1> DEFINE op == work[w]
           row == facts[op.copy]
           n1 == [op EXCEPT !.at = "embed"]
           n2 == [op EXCEPT !.at = op.then]
           K == KnownIn(row)
           P == PinnedIn(row)
           L == LiveIn(row)
           Fits(n) == n \in Ops /\ n.copy = op.copy /\ n.by = op.by /\ n.spared = op.spared /\ n.read = op.read
                      /\ InPhase(n, K) /\ Spares(n, P, L)
<1>1. op \in Ops /\ InPhase(op, K) /\ Spares(op, P, L) /\ op.at = "file" /\ op.tags = {}
  BY Working DEF Filed
<1>2. UNCHANGED <<facts, rowids, minted, started, past>>
  BY DEF Filed
<1>3. \/ op.by = "curator" /\ Turns(w, n1)
      \/ op.then # "done" /\ Turns(w, n2)
      \/ Turns(w, NoWork)
  BY DEF Filed
<1> HIDE DEF K, P, L
<1>4. op.by = "curator" => Fits(n1)
  BY <1>1 DEF Ops, Phases, InPhase, Spares
<1>5. op.then # "done" => Fits(n2)
  BY <1>1 DEF Ops, Phases, InPhase, Spares
<1>6. \A n : Fits(n) => GoesOn(op, n, row)
  BY Proceeds, Zenon DEF K, P, L
<1>7. GoesOn(op, NoWork, row)
  BY DEF GoesOn
<1> HIDE DEF n1, n2, row
<1> QED BY <1>2, <1>3, <1>4, <1>5, <1>6, <1>7, QuietTurn DEF row

\* A known row is changed, and nothing taken back.
LEMMA RowChanged ==
    ASSUME NEW row \in [Facts -> Rows], NEW f \in KnownIn(row), NEW r \in Rows, NEW op,
           r.text = row[f].text, row[f].expired = TRUE => r.expired = TRUE,
           row[f].pinned = TRUE => r.pinned = TRUE
    PROVE  LET new == [row EXCEPT ![f] = r]
           IN  /\ new \in [Facts -> Rows] /\ KnownIn(new) = KnownIn(row)
               /\ Onward(row, new) /\ Arrives(op, row, new)
               /\ PinnedIn(row) \subseteq PinnedIn(new) /\ LiveIn(new) \subseteq LiveIn(row)
<1> DEFINE new == [row EXCEPT ![f] = r]
<1>1. f \in Facts
  BY DEF KnownIn
<1>2. new \in [Facts -> Rows] /\ new[f] = r /\ \A g \in Facts : g # f => new[g] = row[g]
  BY <1>1
<1> HIDE DEF new, Rows
<1>3. KnownIn(new) = KnownIn(row)
  BY <1>1, <1>2 DEF KnownIn
<1>4. Onward(row, new)
  BY <1>1, <1>2 DEF KnownIn, Onward
<1>5. Arrives(op, row, new)
  BY <1>3 DEF Arrives
<1>6. PinnedIn(row) \subseteq PinnedIn(new) /\ LiveIn(new) \subseteq LiveIn(row)
  BY <1>1, <1>2, <1>3 DEF KnownIn, PinnedIn, LiveIn
<1> QED BY <1>2, <1>3, <1>4, <1>5, <1>6 DEF new

\* A worker goes on as n, having changed one row that its copy knows.
RowChanges(w, n, f, r) ==
    LET c == work[w].copy  row == facts[c]
    IN  /\ n \in Ops \cup {NoWork} /\ Turns(w, n)
        /\ f \in KnownIn(row) /\ r \in Rows /\ facts' = [facts EXCEPT ![c] = [row EXCEPT ![f] = r]]
        /\ r.text = row[f].text
        /\ row[f].expired = TRUE => r.expired = TRUE
        /\ row[f].pinned = TRUE => r.pinned = TRUE
        /\ rowids' = rowids /\ minted' = minted /\ started' = started
        /\ past' \in Pasts /\ past'.overlapped = past.overlapped
        /\ n # NoWork =>
             /\ n.copy = c /\ n.by = work[w].by /\ n.spared = work[w].spared /\ n.read = work[w].read
             /\ InPhase(n, KnownIn(row))
             /\ \A P, L : PinnedIn(row) \subseteq P /\ L \subseteq LiveIn(row) => Spares(n, P, L)

\* A statement on one row that its copy knows; the worker goes on, or is done.
LEMMA RowChangeTurns ==
    ASSUME MemoryTypeOK, WorkOK, NEW w \in Active, NEW n, NEW f, NEW r, RowChanges(w, n, f, r)
    PROVE  /\ Turn(w)
           /\ facts'[work[w].copy] = [facts[work[w].copy] EXCEPT ![f] = r]
           /\ rowids'[work[w].copy] = rowids[work[w].copy]
<1> DEFINE c == work[w].copy
           row == facts[c]
           new == [row EXCEPT ![f] = r]
           ids == rowids[c]
<1>1. row \in [Facts -> Rows] /\ ids \in Seq(Facts) /\ minted \in 0 .. MaxFacts /\ c \in Copies
  BY Working
<1>2. /\ new \in [Facts -> Rows] /\ KnownIn(new) = KnownIn(row)
      /\ Onward(row, new) /\ Arrives(work[w], row, new)
      /\ PinnedIn(row) \subseteq PinnedIn(new) /\ LiveIn(new) \subseteq LiveIn(row)
  BY <1>1, RowChanged DEF RowChanges
<1>3. facts' = [facts EXCEPT ![c] = new]
  BY DEF RowChanges
<1>4. rowids' = [rowids EXCEPT ![c] = ids]
  BY <1>1 DEF MemoryTypeOK, RowChanges
<1>5. minted' \in minted .. MaxFacts /\ started' = started
  BY <1>1, FactsOK DEF RowChanges
<1>6. GoesOn(work[w], n, new)
  <2>1. n # NoWork => /\ n.copy = work[w].copy /\ n.by = work[w].by /\ n.spared = work[w].spared
                      /\ n.read = work[w].read
                      /\ InPhase(n, KnownIn(new)) /\ Spares(n, PinnedIn(new), LiveIn(new))
    BY <1>2 DEF RowChanges
  <2> HIDE DEF new
  <2> QED BY <2>1 DEF GoesOn, OpOK
<1>7. n \in Ops \cup {NoWork} /\ Turns(w, n) /\ past' \in Pasts /\ past'.overlapped = past.overlapped
  BY DEF RowChanges
<1>8. Scanned(row, ids) => Scanned(new, ids)
  BY <1>2 DEF Scanned
<1> HIDE DEF new
<1>9. RowsTurn(w, n, new, ids)
  BY <1>1, <1>2, <1>3, <1>4, <1>5, <1>6, <1>7, <1>8 DEF RowsTurn
<1>10. Turn(w) /\ facts'[c] = new /\ rowids'[c] = ids
  BY <1>9, RowTurn
<1> QED BY <1>10 DEF new

\* The insert of a tag.
LEMMA PutTagTurns ==
    ASSUME MemoryTypeOK, WorkOK, NEW w \in Active, PutTag(w)
    PROVE  /\ Turn(w)
           /\ LET op == work[w]  row == facts[op.copy]
              IN  facts'[op.copy] = [row EXCEPT ![op.fact] = [row[op.fact] EXCEPT !.tags = @ \cup {op.tag}]]
           /\ rowids'[work[w].copy] = rowids[work[w].copy]
<1> DEFINE op == work[w]
           row == facts[op.copy]
           n == [op EXCEPT !.tag = NoTag, !.at = "file"]
           f == op.fact
           r == [row[f] EXCEPT !.tags = @ \cup {op.tag}]
           K == KnownIn(row)
           P == PinnedIn(row)
           L == LiveIn(row)
<1>1. op \in Ops /\ InPhase(op, K) /\ Spares(op, P, L) /\ op.at = "put" /\ row \in [Facts -> Rows]
      /\ facts \in [Copies -> [Facts -> Rows]] /\ op.copy \in Copies /\ past \in Pasts
  BY Working DEF PutTag, MemoryTypeOK
<1>2. Turns(w, n) /\ UNCHANGED <<rowids, minted, started, past>>
      /\ facts' = [facts EXCEPT ![op.copy][op.fact].tags = @ \cup {op.tag}]
  BY DEF PutTag
<1>3. f \in K /\ f \in Facts /\ op.tag \in FactTags /\ row[f] \in Rows
  BY <1>1 DEF InPhase, KnownIn
<1>4. r \in Rows /\ r.text = row[f].text /\ r.expired = row[f].expired /\ r.pinned = row[f].pinned
  BY <1>3 DEF Rows
<1>5. facts' = [facts EXCEPT ![op.copy] = [row EXCEPT ![f] = r]]
  <2> HIDE DEF Rows, Ops
  <2>1. facts' = [facts EXCEPT ![op.copy] = [facts[op.copy] EXCEPT ![f] = [facts[op.copy][f] EXCEPT !.tags = facts[op.copy][f].tags \cup {op.tag}]]]
    BY <1>2
  <2> QED BY <2>1
<1> HIDE DEF K, P, L
<1>6. n \in Ops /\ n.copy = op.copy /\ n.by = op.by /\ n.spared = op.spared /\ n.read = op.read
      /\ InPhase(n, K)
  BY <1>1 DEF Ops, Phases, InPhase
<1>7. \A P2, L2 : P \subseteq P2 /\ L2 \subseteq L => Spares(n, P2, L2)
  BY <1>1 DEF Ops, Spares
<1>8. f \in KnownIn(row) /\ P = PinnedIn(row) /\ L = LiveIn(row) /\ K = KnownIn(row)
  BY <1>3 DEF K, P, L
<1> HIDE DEF n, r, f
<1>9. RowChanges(w, n, f, r)
  BY <1>1, <1>2, <1>4, <1>5, <1>6, <1>7, <1>8 DEF RowChanges
<1>10. /\ Turn(w) /\ facts'[op.copy] = [row EXCEPT ![f] = r] /\ rowids'[op.copy] = rowids[op.copy]
  BY <1>9, RowChangeTurns
<1> QED BY <1>10 DEF r, f

\* The curator's vector.
LEMMA SetEmbeddingTurns ==
    ASSUME MemoryTypeOK, WorkOK, NEW w \in Active, SetEmbedding(w)
    PROVE  /\ Turn(w) /\ work' = [work EXCEPT ![w] = NoWork]
           /\ LET op == work[w]  row == facts[op.copy]
              IN  facts'[op.copy] = [row EXCEPT ![op.fact] = [row[op.fact] EXCEPT !.vector = TRUE]]
           /\ rowids'[work[w].copy] = rowids[work[w].copy]
<1> DEFINE op == work[w]
           row == facts[op.copy]
           f == op.fact
           r == [row[f] EXCEPT !.vector = TRUE]
<1>1. op \in Ops /\ InPhase(op, KnownIn(row)) /\ op.at = "embed" /\ row \in [Facts -> Rows]
      /\ facts \in [Copies -> [Facts -> Rows]] /\ op.copy \in Copies /\ past \in Pasts
  BY Working DEF SetEmbedding, MemoryTypeOK
<1>2. Turns(w, NoWork) /\ UNCHANGED <<rowids, minted, started, past>>
      /\ facts' = [facts EXCEPT ![op.copy][op.fact].vector = TRUE]
  BY DEF SetEmbedding
<1>3. f \in KnownIn(row) /\ f \in Facts /\ row[f] \in Rows
  BY <1>1 DEF InPhase, KnownIn
<1>4. r \in Rows /\ r.text = row[f].text /\ r.expired = row[f].expired /\ r.pinned = row[f].pinned
  BY <1>3 DEF Rows
<1>5. facts' = [facts EXCEPT ![op.copy] = [row EXCEPT ![f] = r]]
  BY <1>2
<1> HIDE DEF r, f
<1>6. RowChanges(w, NoWork, f, r)
  BY <1>1, <1>2, <1>3, <1>4, <1>5 DEF RowChanges
<1>7. /\ Turn(w) /\ facts'[op.copy] = [row EXCEPT ![f] = r] /\ rowids'[op.copy] = rowids[op.copy]
  BY <1>6, RowChangeTurns
<1> QED BY <1>2, <1>7 DEF r, f, Turns

\* The topic of a known fact is one of the topics.
LEMMA TopicOf ==
    ASSUME NEW row \in [Facts -> Rows], NEW f \in KnownIn(row)
    PROVE  f \in Facts /\ row[f] \in Rows /\ row[f].text \in Texts /\ Topic[row[f].text] \in {Topic[t] : t \in Texts}
<1>1. f \in Facts /\ row[f] \in Rows /\ row[f].text # NoText
  BY DEF KnownIn
<1>2. row[f].text \in Texts
  BY <1>1 DEF Rows
<1> QED BY <1>1, <1>2

\* The update of Supersede.
LEMMA ReplaceTurns ==
    ASSUME MemoryTypeOK, WorkOK, NEW w \in Active, Replace(w)
    PROVE  /\ Turn(w)
           /\ LET op == work[w]  row == facts[op.copy]
              IN  /\ facts'[op.copy] = [row EXCEPT ![op.old] = [row[op.old] EXCEPT !.expired = TRUE, !.by = op.fact]]
                  /\ op.old \in KnownIn(row) /\ op.fact \in KnownIn(row) /\ op.text \in Texts
                  /\ work' = [work EXCEPT ![w] = IF op.by = "curator" THEN [op EXCEPT !.at = "embed"] ELSE NoWork]
                  /\ past'.retirers = past.retirers \cup {op.copy} /\ past'.torn = past.torn
                  /\ past'.ended = past.ended \cup ({Topic[row[op.old].text]} \ {Topic[op.text]})
           /\ rowids'[work[w].copy] = rowids[work[w].copy]
<1> DEFINE op == work[w]
           row == facts[op.copy]
           f == op.old
           r == [row[f] EXCEPT !.expired = TRUE, !.by = op.fact]
           n1 == [op EXCEPT !.at = "embed"]
           n == IF op.by = "curator" THEN n1 ELSE NoWork
           ended == {Topic[row[op.old].text]} \ {Topic[op.text]}
           K == KnownIn(row)
           P == PinnedIn(row)
           L == LiveIn(row)
<1>1. op \in Ops /\ InPhase(op, K) /\ Spares(op, P, L) /\ op.at = "replace" /\ row \in [Facts -> Rows]
      /\ facts \in [Copies -> [Facts -> Rows]] /\ op.copy \in Copies /\ past \in Pasts
  BY Working DEF Replace, MemoryTypeOK
<1>2. Turns(w, n) /\ UNCHANGED <<rowids, minted, started>>
      /\ facts' = [facts EXCEPT ![op.copy][op.old].expired = TRUE, ![op.copy][op.old].by = op.fact]
      /\ past' = [past EXCEPT !.retirers = @ \cup {op.copy}, !.ended = @ \cup ended]
  BY DEF Replace
<1>3. f \in K /\ op.fact \in K /\ op.text \in Texts /\ op.then = "replace" /\ op.fact \in FactIDs
  BY <1>1 DEF InPhase, Ops
<1>4. f \in Facts /\ row[f] \in Rows /\ ended \subseteq {Topic[t] : t \in Texts}
  BY <1>1, <1>3, TopicOf
<1>5. r \in Rows /\ r.text = row[f].text /\ r.expired = TRUE /\ r.pinned = row[f].pinned
  BY <1>3, <1>4 DEF Rows
<1>6. facts' = [facts EXCEPT ![op.copy] = [row EXCEPT ![f] = r]]
  <2> HIDE DEF Rows, Ops
  <2> QED BY <1>1, <1>2, <1>4
<1>7. past' \in Pasts /\ past'.overlapped = past.overlapped /\ past'.torn = past.torn
      /\ past'.retirers = past.retirers \cup {op.copy} /\ past'.ended = past.ended \cup ended
  <2> HIDE DEF ended
  <2> QED BY <1>1, <1>2, <1>4 DEF Pasts
<1> HIDE DEF K, P, L
<1>8. op.by = "curator" => /\ n1 \in Ops /\ n1.copy = op.copy /\ n1.by = op.by /\ n1.spared = op.spared
                           /\ n1.read = op.read /\ InPhase(n1, K)
  BY <1>1, <1>3 DEF Ops, Phases, InPhase
<1>9. op.by = "curator" => \A P2, L2 : P \subseteq P2 /\ L2 \subseteq L => Spares(n1, P2, L2)
  BY <1>1, <1>3 DEF Ops, Spares
<1> HIDE DEF r, f, n1, ended
<1>10. RowChanges(w, n, f, r)
  BY <1>1, <1>2, <1>3, <1>5, <1>6, <1>7, <1>8, <1>9 DEF RowChanges, K, P, L
<1>11. /\ Turn(w) /\ facts'[op.copy] = [row EXCEPT ![f] = r] /\ rowids'[op.copy] = rowids[op.copy]
  BY <1>10, RowChangeTurns
<1> QED BY <1>2, <1>3, <1>7, <1>11 DEF r, f, n1, ended, K, Turns

\* The read of Forget.
LEMMA ForgetTwinTurns ==
    ASSUME MemoryTypeOK, WorkOK, NEW w \in Active, ForgetTwin(w)
    PROVE  Turn(w)
<1> DEFINE op == work[w]
           row == facts[op.copy]
           n == [op EXCEPT !.at = "expire"]
           K == KnownIn(row)
           P == PinnedIn(row)
           L == LiveIn(row)
<1>1. op \in Ops /\ InPhase(op, K) /\ Spares(op, P, L) /\ op.at = "forget" /\ op.copy \in Copies
  BY Working DEF ForgetTwin
<1>2. UNCHANGED <<facts, rowids, minted, started, past>>
      /\ (Turns(w, NoWork) \/ (Turns(w, n) /\ op.old \notin P))
  BY <1>1, KnownLive DEF ForgetTwin, Forgettable, PinnedIn, LiveIn, Rows
<1> HIDE DEF K, P, L
<1>3. n \in Ops /\ n.copy = op.copy /\ n.by = op.by /\ n.spared = op.spared /\ n.read = op.read /\ InPhase(n, K)
  BY <1>1 DEF Ops, Phases, InPhase
<1>4. op.old \notin P => Spares(n, P, L)
  BY <1>1 DEF Ops, Spares
<1>5. op.old \notin P => GoesOn(op, n, row)
  BY <1>3, <1>4, Proceeds, Zenon DEF K, P, L
<1>6. GoesOn(op, NoWork, row)
  BY DEF GoesOn
<1> HIDE DEF n, row
<1> QED BY <1>2, <1>3, <1>5, <1>6, QuietTurn DEF row

\* The insert of a fact.
LEMMA InsertTurns ==
    ASSUME MemoryTypeOK, WorkOK, IdsOK, NEW w \in Active, Insert(w)
    PROVE  /\ Turn(w)
           /\ LET op == work[w]
              IN  /\ facts'[op.copy] = [facts[op.copy] EXCEPT ![minted + 1] = [Absent EXCEPT !.text = op.text]]
                  /\ rowids'[op.copy] = Append(rowids[op.copy], minted + 1)
                  /\ op.text \in Texts
                  /\ work' = [work EXCEPT ![w] =
                        [op EXCEPT !.fact = minted + 1, !.at = "file",
                                   !.then = IF op.by = "curator" /\ @ = "done" THEN "embed" ELSE @]]
           /\ minted' = minted + 1 /\ minted + 1 \in Facts /\ past' = past
<1> DEFINE op == work[w]
           c == op.copy
           f == minted + 1
           then == IF op.by = "curator" /\ op.then = "done" THEN "embed" ELSE op.then
           n == [op EXCEPT !.fact = f, !.at = "file", !.then = then]
           r == [Absent EXCEPT !.text = op.text]
           row == facts[c]
           rows == [row EXCEPT ![f] = r]
           K == KnownIn(row)
           P == PinnedIn(row)
           L == LiveIn(row)
<1>1. op \in Ops /\ c \in Copies /\ row \in [Facts -> Rows] /\ facts \in [Copies -> [Facts -> Rows]]
      /\ rowids[c] \in Seq(Facts) /\ past \in Pasts /\ InPhase(op, K) /\ Spares(op, P, L)
  BY Working DEF MemoryTypeOK
<1>2. f \in Facts /\ f \in minted .. MaxFacts /\ f \notin K
  <2>1. f \in Facts /\ f \in minted .. MaxFacts
    BY FactsOK DEF Insert, MemoryTypeOK
  <2>2. \A g \in K : g <= minted
    BY <1>1 DEF IdsOK
  <2>3. minted \in Int
    BY DEF MemoryTypeOK
  <2> HIDE DEF K
  <2> QED BY <2>1, <2>2, <2>3
<1>3. op.at = "insert" /\ op.text \in Texts /\ op.text # NoText
  BY <1>1, FactsOK DEF Insert, InPhase
<1>4. /\ then \in {"done", "replace", "forget", "import", "embed"} /\ f \in FactIDs
      /\ then = "embed" => op.by = "curator" \/ op.then = "embed"
      /\ then # "embed" => then = op.then
  BY <1>1, <1>2 DEF Ops, FactIDs
<1>5. Turns(w, n) /\ UNCHANGED <<started, past>> /\ minted' = f
      /\ facts' = [facts EXCEPT ![c][f] = r] /\ rowids' = [rowids EXCEPT ![c] = Append(@, f)]
  BY DEF Insert
<1>6. r \in Rows /\ r.text = op.text
  BY <1>1, AbsentTyped DEF Rows, Ops
<1> HIDE DEF r, then
<1>7. n \in Ops /\ n.copy = c /\ n.by = op.by /\ n.spared = op.spared /\ n.read = op.read
  BY <1>1, <1>4 DEF Ops, Phases
<1>8. rows \in [Facts -> Rows] /\ rows[f] = r /\ \A g \in Facts : g # f => rows[g] = row[g]
  BY <1>1, <1>2, <1>6
<1>9. facts' = [facts EXCEPT ![c] = rows]
  BY <1>1, <1>5
<1>10. Append(rowids[c], f) \in Seq(Facts) /\ rowids' = [rowids EXCEPT ![c] = Append(rowids[c], f)]
  BY <1>1, <1>2, <1>5 DEF MemoryTypeOK
<1> HIDE DEF f, rows
<1>11. KnownIn(rows) = K \cup {f} /\ PinnedIn(row) \subseteq PinnedIn(rows)
  BY <1>2, <1>3, <1>6, <1>8 DEF KnownIn, PinnedIn
<1>12. Onward(row, rows)
  BY <1>2, <1>8 DEF Onward, KnownIn
<1>13. Arrives(op, row, rows)
  BY <1>5, <1>11 DEF Arrives, f
<1> HIDE DEF K, P, L
<1>14. InPhase(n, K \cup {f})
  BY <1>1, <1>3, <1>4 DEF InPhase, Ops
<1>15. \A P2, L2 : P \subseteq P2 => Spares(n, P2, L2)
  BY <1>1, <1>3, <1>4, <1>7 DEF Spares, Ops
<1>16. GoesOn(op, n, rows)
  <2>1. InPhase(n, KnownIn(rows)) /\ Spares(n, PinnedIn(rows), LiveIn(rows))
    BY <1>11, <1>14, <1>15 DEF P
  <2> QED BY <1>7, <2>1, Proceeds
<1> DEFINE ids == Append(rowids[c], f)
<1>17. Scanned(row, rowids[c]) => Scanned(rows, ids)
  BY <1>1, <1>2, <1>11, AppendElements DEF Scanned, K
<1> HIDE DEF n, ids
<1>18. RowsTurn(w, n, rows, ids)
  BY <1>1, <1>2, <1>5, <1>7, <1>8, <1>9, <1>10, <1>12, <1>13, <1>16, <1>17 DEF RowsTurn, ids
<1>19. Turn(w) /\ facts'[c] = rows /\ rowids'[c] = ids
  BY <1>18, RowTurn
<1> QED BY <1>2, <1>3, <1>5, <1>19 DEF rows, ids, f, r, n, then, Turns

\* A sweep that may fold its next pair; K are the facts that its copy knows.
Sweeping(op, K) ==
    /\ op \in Ops /\ op.by = "sweep" /\ op.read = <<>> /\ op.tag = NoTag
    /\ \A p \in op.folds : p.kept.id \in K /\ p.dropped.id \in K

\* The sweep goes on as n, with this pair.
Folding(w, op, n, p, K) ==
    /\ p \in Foremost(op.folds) /\ p \in op.folds /\ p \in Folds /\ Turns(w, n)
    /\ n \in Ops /\ n.copy = op.copy /\ n.by = "sweep" /\ n.spared = op.spared /\ n.read = <<>>
    /\ InPhase(n, K) /\ n.at = "find" /\ n.then = "forget" /\ n.tag = NoTag /\ n.fact = op.fact
    /\ n.text = p.kept.text /\ n.tags = p.dropped.tags /\ n.kept = p.kept.id
    /\ n.old = p.dropped.id /\ n.folds = op.folds \ {p}

\* The next fold of a sweep, or its end.
LEMMA FoldTurns ==
    ASSUME NEW w, NEW op, NEW K, NextFold(w, op), Sweeping(op, K)
    PROVE  Turns(w, NoWork) \/ \E n, p : Folding(w, op, n, p, K)
<1> USE DEF Sweeping
<1>1. CASE op.folds = {}
  BY <1>1 DEF NextFold
<1>2. CASE op.folds # {}
  <2>1. PICK p \in Foremost(op.folds) : Turns(w, Fold(op, p))
    BY <1>2 DEF NextFold
  <2>2. p \in op.folds /\ p \in Folds
    BY <2>1 DEF Foremost, Ops
  <2>3. /\ p.kept.id \in Facts /\ p.kept.text \in Texts /\ p.dropped.id \in Facts
        /\ p.dropped.tags \in SUBSET FactTags
    BY <2>2 DEF Folds, Entries
  <2> DEFINE n == Fold(op, p)
  <2>4. /\ n \in Ops /\ n.copy = op.copy /\ n.by = op.by /\ n.spared = op.spared /\ n.read = <<>>
        /\ n.at = "find" /\ n.then = "forget" /\ n.tag = NoTag /\ n.fact = op.fact
        /\ n.text = p.kept.text /\ n.tags = p.dropped.tags /\ n.kept = p.kept.id
        /\ n.old = p.dropped.id /\ n.folds = op.folds \ {p}
    BY <2>3 DEF Ops, Phases, Fold, FactIDs
  <2> HIDE DEF n
  <2>5. InPhase(n, K)
    BY <2>2, <2>3, <2>4 DEF InPhase
  <2> QED BY <2>1, <2>2, <2>4, <2>5 DEF n, Folding
<1> QED BY <1>1, <1>2

\* The expiry, by Forget or by a sweep.
LEMMA ExpireTurns ==
    ASSUME MemoryTypeOK, WorkOK, NEW w \in Active, Expire(w)
    PROVE  /\ Turn(w)
           /\ LET op == work[w]  row == facts[op.copy]
              IN  /\ facts'[op.copy] = [row EXCEPT ![op.old] = [row[op.old] EXCEPT !.expired = TRUE]]
                  /\ op.old \in KnownIn(row)
                  /\ past'.retirers = past.retirers \cup {op.copy} /\ past'.torn = past.torn
                  /\ past'.ended = past.ended \cup IF op.by = "sweep" THEN {} ELSE {Topic[row[op.old].text]}
                  /\ \/ work' = [work EXCEPT ![w] = NoWork]
                     \/ op.by = "sweep" /\ \E n, p : Folding(w, op, n, p, KnownIn(row))
           /\ rowids'[work[w].copy] = rowids[work[w].copy]
<1> DEFINE op == work[w]
           row == facts[op.copy]
           f == op.old
           r == [row[f] EXCEPT !.expired = TRUE]
           ended == IF op.by = "sweep" THEN {} ELSE {Topic[row[op.old].text]}
           K == KnownIn(row)
           P == PinnedIn(row)
           L == LiveIn(row)
<1>1. op \in Ops /\ InPhase(op, K) /\ Spares(op, P, L) /\ op.at = "expire" /\ row \in [Facts -> Rows]
      /\ facts \in [Copies -> [Facts -> Rows]] /\ op.copy \in Copies /\ past \in Pasts
  BY Working DEF Expire, MemoryTypeOK
<1>2. UNCHANGED <<rowids, minted, started>>
      /\ facts' = [facts EXCEPT ![op.copy][op.old].expired = TRUE]
      /\ past' = [past EXCEPT !.retirers = @ \cup {op.copy}, !.ended = @ \cup ended]
      /\ (IF op.by = "sweep" THEN NextFold(w, op) ELSE Turns(w, NoWork))
  BY DEF Expire
<1>3. f \in K
  BY <1>1 DEF InPhase, Ops
<1>4. f \in Facts /\ row[f] \in Rows /\ ended \subseteq {Topic[t] : t \in Texts}
  BY <1>1, <1>3, TopicOf
<1>5. r \in Rows /\ r.text = row[f].text /\ r.expired = TRUE /\ r.pinned = row[f].pinned
  BY <1>4 DEF Rows
<1>6. facts' = [facts EXCEPT ![op.copy] = [row EXCEPT ![f] = r]]
  <2> HIDE DEF Rows, Ops
  <2> QED BY <1>1, <1>2, <1>4
<1>7. past' \in Pasts /\ past'.overlapped = past.overlapped /\ past'.torn = past.torn
      /\ past'.retirers = past.retirers \cup {op.copy} /\ past'.ended = past.ended \cup ended
  <2> HIDE DEF ended
  <2> QED BY <1>1, <1>2, <1>4 DEF Pasts
<1> HIDE DEF K, P, L, r, f, ended
<1>8. Turns(w, NoWork) \/ (op.by = "sweep" /\ \E n, p : Folding(w, op, n, p, K))
  <2>1. CASE op.by # "sweep"
    BY <1>2, <2>1
  <2>2. CASE op.by = "sweep"
    <3>1. Sweeping(op, K) /\ NextFold(w, op)
      BY <1>1, <1>2, <2>2 DEF InPhase, Sweeping
    <3> HIDE DEF op
    <3> QED BY <2>2, <3>1, FoldTurns
  <2> QED BY <2>1, <2>2
<1>9. CASE Turns(w, NoWork)
  <2>1. RowChanges(w, NoWork, f, r)
    BY <1>1, <1>2, <1>3, <1>5, <1>6, <1>7, <1>9 DEF RowChanges, K
  <2>2. /\ Turn(w) /\ facts'[op.copy] = [row EXCEPT ![f] = r] /\ rowids'[op.copy] = rowids[op.copy]
    BY <2>1, RowChangeTurns
  <2> QED BY <1>3, <1>7, <1>9, <2>2 DEF r, f, ended, K, Turns
<1>10. CASE op.by = "sweep" /\ \E n, p : Folding(w, op, n, p, K)
  <2>1. PICK n, p : Folding(w, op, n, p, K)
    BY <1>10
  <2>2. \A P2, L2 : P \subseteq P2 => Spares(n, P2, L2)
    BY <1>1, <1>10, <2>1 DEF Spares, Folding
  <2>3. op.read = <<>>
    BY <1>1, <1>10 DEF InPhase
  <2>4. RowChanges(w, n, f, r)
    BY <1>1, <1>2, <1>3, <1>5, <1>6, <1>7, <1>10, <2>1, <2>2, <2>3 DEF RowChanges, Folding, K, P, L
  <2>5. /\ Turn(w) /\ facts'[op.copy] = [row EXCEPT ![f] = r] /\ rowids'[op.copy] = rowids[op.copy]
    BY <2>4, RowChangeTurns
  <2> QED BY <1>3, <1>7, <1>10, <2>5 DEF r, f, ended, K
<1> QED BY <1>8, <1>9, <1>10

\* The curator's look for a near fact.
LEMMA NearestTurns ==
    ASSUME MemoryTypeOK, WorkOK, NEW w \in Active, Nearest(w)
    PROVE  Turn(w)
<1> DEFINE op == work[w]
           row == facts[op.copy]
           n1 == [op EXCEPT !.at = "find"]
           n2(f) == [op EXCEPT !.old = f, !.at = "pinned"]
           K == KnownIn(row)
           P == PinnedIn(row)
           L == LiveIn(row)
           Fits(n) == n \in Ops /\ n.copy = op.copy /\ n.by = op.by /\ n.spared = op.spared /\ n.read = op.read
                      /\ InPhase(n, K) /\ Spares(n, P, L)
<1>1. op \in Ops /\ InPhase(op, K) /\ Spares(op, P, L) /\ op.at = "nearest" /\ op.copy \in Copies
  BY Working DEF Nearest
<1>2. UNCHANGED <<facts, rowids, minted, started, past>>
      /\ (Turns(w, n1) \/ \E f \in Live(op.copy) : Turns(w, n2(f)))
  BY DEF Nearest
<1>3. Turns(w, n1) \/ \E f \in Facts : Turns(w, n2(f))
  BY <1>2 DEF Live, Known
<1> HIDE DEF K, P, L
<1>4. Fits(n1)
  BY <1>1 DEF Ops, Phases, InPhase, Spares
<1>5. ASSUME NEW f \in Facts PROVE Fits(n2(f))
  BY <1>1 DEF Ops, Phases, InPhase, Spares, FactIDs
<1>6. PICK n : Fits(n) /\ Turns(w, n)
  <2> HIDE DEF n1, n2, Fits
  <2> QED BY <1>3, <1>4, <1>5
<1>7. GoesOn(op, n, row)
  BY <1>6, Proceeds, Zenon DEF K, P, L
<1> HIDE DEF row
<1> QED BY <1>2, <1>6, <1>7, QuietTurn DEF row

\* The curator's look at the pin.
LEMMA IsPinnedTurns ==
    ASSUME MemoryTypeOK, WorkOK, NEW w \in Active, IsPinned(w)
    PROVE  Turn(w)
<1> DEFINE op == work[w]
           row == facts[op.copy]
           n1 == [op EXCEPT !.text = row[op.old].text, !.old = NoFact, !.at = "find"]
           n2 == [op EXCEPT !.at = "supersede"]
           K == KnownIn(row)
           P == PinnedIn(row)
           L == LiveIn(row)
           Fits(n) == n \in Ops /\ n.copy = op.copy /\ n.by = op.by /\ n.spared = op.spared /\ n.read = op.read
                      /\ InPhase(n, K) /\ Spares(n, P, L)
<1>1. op \in Ops /\ InPhase(op, K) /\ Spares(op, P, L) /\ op.at = "pinned" /\ op.copy \in Copies
      /\ row \in [Facts -> Rows]
  BY Working DEF IsPinned
<1>2. (op.old \in K /\ Turns(w, n1)) \/ (~(op.old \in L /\ op.old \in P) /\ Turns(w, n2))
  <2>1. Live(op.copy) = L /\ \A f \in L : facts[op.copy][f].pinned => f \in P
    BY <1>1, KnownLive DEF LiveIn, PinnedIn
  <2>2. \A f \in L : f \in P <=> facts[op.copy][f].pinned
    BY <1>1, <2>1 DEF PinnedIn, LiveIn, KnownIn, Rows
  <2>3. L \subseteq K
    BY DEF LiveIn
  <2> QED BY <2>1, <2>2, <2>3 DEF IsPinned, Protected
<1>3. op.old \in K => row[op.old].text \in Texts
  BY <1>1, TopicOf
<1> HIDE DEF K, P, L
<1>4. op.old \in K => Fits(n1)
  BY <1>1, <1>3 DEF Ops, Phases, InPhase, Spares, FactIDs
<1>5. ~(op.old \in L /\ op.old \in P) => Fits(n2)
  BY <1>1 DEF Ops, Phases, InPhase, Spares
<1>6. PICK n : Fits(n) /\ Turns(w, n)
  <2> HIDE DEF n1, n2, Fits
  <2> QED BY <1>2, <1>4, <1>5
<1>7. GoesOn(op, n, row)
  BY <1>6, Proceeds, Zenon DEF K, P, L
<1>8. UNCHANGED <<facts, rowids, minted, started, past>>
  BY DEF IsPinned
<1> HIDE DEF row
<1> QED BY <1>6, <1>7, <1>8, QuietTurn DEF row

\* The curator's Supersede.
LEMMA CuratorSupersedeTurns ==
    ASSUME MemoryTypeOK, WorkOK, NEW w \in Active, CuratorSupersede(w)
    PROVE  Turn(w)
<1> DEFINE op == work[w]
           row == facts[op.copy]
           n1 == [op EXCEPT !.then = "replace", !.at = "find"]
           n2 == [op EXCEPT !.old = NoFact, !.at = "find"]
           K == KnownIn(row)
           P == PinnedIn(row)
           L == LiveIn(row)
           Fits(n) == n \in Ops /\ n.copy = op.copy /\ n.by = op.by /\ n.spared = op.spared /\ n.read = op.read
                      /\ InPhase(n, K) /\ Spares(n, P, L)
<1>1. op \in Ops /\ InPhase(op, K) /\ Spares(op, P, L) /\ op.at = "supersede" /\ op.copy \in Copies
  BY Working DEF CuratorSupersede
<1>2. (op.old \in L /\ Turns(w, n1)) \/ Turns(w, n2)
  BY <1>1, KnownLive DEF CuratorSupersede
<1>3. L \subseteq K
  BY DEF LiveIn
<1> HIDE DEF K, P, L
<1>4. op.old \in L => Fits(n1)
  BY <1>1, <1>3 DEF Ops, Phases, InPhase, Spares
<1>5. Fits(n2)
  BY <1>1 DEF Ops, Phases, InPhase, Spares, FactIDs
<1>6. PICK n : Fits(n) /\ Turns(w, n)
  <2> HIDE DEF n1, n2, Fits
  <2> QED BY <1>2, <1>4, <1>5
<1>7. GoesOn(op, n, row)
  BY <1>6, Proceeds, Zenon DEF K, P, L
<1>8. UNCHANGED <<facts, rowids, minted, started, past>>
  BY DEF CuratorSupersede
<1> HIDE DEF row
<1> QED BY <1>6, <1>7, <1>8, QuietTurn DEF row

\* What a sweep has read of a row.
Entry(rows, i) == [id |-> rows[i].id, text |-> rows[i].row.text, tags |-> rows[i].row.tags]

\* A pair of rows that a sweep folds, the second into the first.
LEMMA PairsMeant ==
    ASSUME NEW rows, NEW embedded, NEW p \in Pairs(rows, embedded)
    PROVE  \E i, j \in 1 .. Len(rows) :
              /\ p = [at |-> <<i, j>>, kept |-> Entry(rows, i), dropped |-> Entry(rows, j)]
              /\ i < j /\ rows[i].id \in embedded /\ rows[j].id \in embedded
              /\ Topic[rows[i].row.text] = Topic[rows[j].row.text]
              /\ \A k \in 1 .. Len(rows) :
                    k < i /\ rows[k].id \in embedded => Topic[rows[k].row.text] # Topic[rows[i].row.text]
<1> DEFINE places == {i \in 1 .. Len(rows) : rows[i].id \in embedded}
           near(i, j) == Near(rows[i].row.text, rows[j].row.text)
           first(i) == \A k \in places : k < i => ~near(k, i)
<1>1. PICK q \in places \X places :
         /\ q[1] < q[2] /\ near(q[1], q[2]) /\ first(q[1])
         /\ p = [at |-> q, kept |-> Entry(rows, q[1]), dropped |-> Entry(rows, q[2])]
  BY DEF Pairs, Entry
<1>2. PICK i, j \in places : q = <<i, j>>
  BY <1>1
<1>3. q[1] = i /\ q[2] = j
  BY <1>2
<1> QED BY <1>1, <1>2, <1>3 DEF Near

\* The second read of a sweep.
LEMMA PairUpTurns ==
    ASSUME MemoryTypeOK, WorkOK, NEW w \in Active, PairUp(w)
    PROVE  /\ Turn(w)
           /\ LET op == work[w]
                  folds == Pairs(op.read, {f \in Live(op.copy) : facts[op.copy][f].vector})
                  m == [op EXCEPT !.read = <<>>, !.folds = folds]
              IN  /\ op.at = "pair" /\ folds \in SUBSET Folds
                  /\ \/ work' = [work EXCEPT ![w] = NoWork]
                     \/ \E n, p : /\ Folding(w, m, n, p, KnownIn(facts[op.copy]))
                                  /\ work' = [work EXCEPT ![w] = n] /\ p \in folds /\ n.folds = folds \ {p}
           /\ UNCHANGED <<facts, rowids, minted, started, past>>
<1> DEFINE op == work[w]
           row == facts[op.copy]
           embedded == {f \in Live(op.copy) : facts[op.copy][f].vector}
           folds == Pairs(op.read, embedded)
           m == [op EXCEPT !.read = <<>>, !.folds = folds]
           K == KnownIn(row)
           P == PinnedIn(row)
           L == LiveIn(row)
<1>1. op \in Ops /\ InPhase(op, K) /\ Spares(op, P, L) /\ op.at = "pair" /\ op.copy \in Copies
  BY Working DEF PairUp
<1>2. NextFold(w, m) /\ UNCHANGED <<facts, rowids, minted, started, past>>
  BY DEF PairUp
<1> HIDE DEF embedded, K, P, L
<1>3. op.read \in Seq(ReadRows) /\ \A i \in 1 .. Len(op.read) : op.read[i].id \in K /\ op.read[i].row.text \in Texts
  BY <1>1 DEF InPhase, Elements, Ops
<1>4. ASSUME NEW p \in folds PROVE p \in Folds /\ p.kept.id \in K /\ p.dropped.id \in K
  <2>1. PICK i, j \in 1 .. Len(op.read) :
           p = [at |-> <<i, j>>, kept |-> Entry(op.read, i), dropped |-> Entry(op.read, j)]
    BY PairsMeant
  <2>2. op.read[i] \in ReadRows /\ op.read[j] \in ReadRows
    BY <1>3
  <2>3. Entry(op.read, i) \in Entries /\ Entry(op.read, j) \in Entries
    BY <1>3, <2>2 DEF Entry, Entries, ReadRows, Rows
  <2>4. <<i, j>> \in Nat \X Nat
    BY <1>3
  <2>5. p \in Folds
    BY <2>1, <2>3, <2>4 DEF Folds
  <2>6. p.kept.id = op.read[i].id /\ p.dropped.id = op.read[j].id
    BY <2>1 DEF Entry
  <2> QED BY <1>3, <2>5, <2>6
<1> HIDE DEF folds
<1>5. folds \in SUBSET Folds
  BY <1>4
<1>6. m \in Ops /\ m.copy = op.copy /\ m.by = op.by /\ m.spared = op.spared /\ m.read = <<>> /\ m.folds = folds
      /\ m.tag = op.tag
  <2>1. <<>> \in Seq(ReadRows)
    OBVIOUS
  <2> HIDE DEF op
  <2> QED BY <1>1, <1>5, <2>1 DEF Ops
<1> HIDE DEF m
<1>7. Sweeping(m, K)
  BY <1>1, <1>4, <1>6 DEF InPhase, Sweeping
<1>8. Turns(w, NoWork) \/ \E n, p : Folding(w, m, n, p, K)
  BY <1>2, <1>7, FoldTurns
<1>9. CASE Turns(w, NoWork)
  <2>1. GoesOn(op, NoWork, row)
    BY DEF GoesOn
  <2>2. Turn(w)
    BY <1>2, <1>9, <2>1, QuietTurn
  <2> QED BY <1>1, <1>2, <1>5, <1>9, <2>2 DEF Turns, folds, embedded
<1>10. ASSUME NEW n, NEW p, Folding(w, m, n, p, K)
       PROVE  Turn(w) /\ work' = [work EXCEPT ![w] = n] /\ p \in folds /\ n.folds = folds \ {p}
  <2>1. Turns(w, n) /\ n \in Ops /\ p \in folds /\ n.folds = folds \ {p} /\ InPhase(n, K)
        /\ n.copy = op.copy /\ n.by = op.by /\ n.spared = op.spared /\ n.read = <<>> /\ n.at = "find"
    BY <1>1, <1>6, <1>10 DEF Folding, InPhase
  <2>2. Spares(n, P, L)
    BY <1>1, <2>1 DEF Spares, InPhase
  <2>3. GoesOn(op, n, row)
    BY <2>1, <2>2 DEF GoesOn, OpOK, Elements, K, P, L
  <2>4. Turn(w)
    <3> HIDE DEF row
    <3> QED BY <1>2, <2>1, <2>3, QuietTurn DEF row
  <2> QED BY <2>1, <2>4 DEF Turns
<1>11. CASE \E n, p : Folding(w, m, n, p, K)
  <2>1. PICK n, p : Folding(w, m, n, p, K)
    BY <1>11
  <2>2. Turn(w) /\ work' = [work EXCEPT ![w] = n] /\ p \in folds /\ n.folds = folds \ {p}
    BY <2>1, <1>10
  <2> QED BY <1>1, <1>2, <1>5, <2>1, <2>2 DEF m, K, folds, embedded
<1> QED BY <1>8, <1>9, <1>11

\* The head and the tail of the rows that an import has to bring.
LEMMA HeadTail ==
    ASSUME NEW S, NEW rows \in Seq(S), rows # <<>>
    PROVE  /\ Head(rows) \in S /\ Head(rows) \in Elements(rows)
           /\ Tail(rows) \in Seq(S) /\ Elements(rows) = {Head(rows)} \cup Elements(Tail(rows))
<1>1. Len(rows) \in Nat /\ Len(rows) >= 1 /\ Head(rows) = rows[1]
  OBVIOUS
<1>2. Tail(rows) \in Seq(S) /\ Len(Tail(rows)) = Len(rows) - 1
      /\ \A i \in 1 .. Len(rows) - 1 : Tail(rows)[i] = rows[i + 1]
  OBVIOUS
<1>3. Elements(Tail(rows)) = {rows[i + 1] : i \in 1 .. Len(rows) - 1}
  BY <1>2 DEF Elements
<1>4. \A i \in 1 .. Len(rows) : i = 1 \/ \E j \in 1 .. Len(rows) - 1 : i = j + 1
  <2>1. ASSUME NEW i \in 1 .. Len(rows), i # 1 PROVE i - 1 \in 1 .. Len(rows) - 1 /\ i = (i - 1) + 1
    BY <1>1, <2>1
  <2> QED BY <2>1
<1>5. \A j \in 1 .. Len(rows) - 1 : j + 1 \in 1 .. Len(rows)
  BY <1>1
<1>6. 1 \in 1 .. Len(rows)
  BY <1>1
<1>7. Elements(rows) = {rows[1]} \cup {rows[i + 1] : i \in 1 .. Len(rows) - 1}
  BY <1>4, <1>5, <1>6 DEF Elements
<1> QED BY <1>1, <1>2, <1>3, <1>6, <1>7 DEF Elements

\* The end of a stream.
LEMMA EndImportTurns ==
    ASSUME MemoryTypeOK, WorkOK, NEW w \in Active, EndImport(w)
    PROVE  /\ Turn(w) /\ work' = [work EXCEPT ![w] = NoWork]
           /\ UNCHANGED <<facts, rowids, minted, started>>
           /\ past'.ended = past.ended /\ past'.retirers = past.retirers
           /\ past'.torn = past.torn \cup IF work[w].read = <<>> THEN {} ELSE {work[w].copy}
<1> DEFINE op == work[w]
           row == facts[op.copy]
<1>1. op.copy \in Copies /\ past \in Pasts
  BY Working
<1>2. Turns(w, NoWork) /\ UNCHANGED <<facts, rowids, minted, started>>
      /\ past' = [past EXCEPT !.torn = IF op.read = <<>> THEN @ ELSE @ \cup {op.copy}]
  BY DEF EndImport
<1>3. GoesOn(op, NoWork, row)
  BY DEF GoesOn
<1>4. past' \in {past} \cup {[past EXCEPT !.torn = @ \cup {op.copy}]}
  BY <1>1, <1>2 DEF Pasts
<1>5. past'.ended = past.ended /\ past'.retirers = past.retirers
      /\ past'.torn = past.torn \cup IF op.read = <<>> THEN {} ELSE {op.copy}
  BY <1>1, <1>2 DEF Pasts
<1> HIDE DEF row
<1>6. Turn(w)
  BY <1>2, <1>3, <1>4, QuietTurn DEF row
<1> QED BY <1>2, <1>5, <1>6 DEF Turns

\* Staleness and pins win.
LEMMA MergedTyped ==
    ASSUME NEW mine \in Rows, NEW theirs \in Rows
    PROVE  /\ Merged(mine, theirs) \in Rows
           /\ Merged(mine, theirs).text = mine.text /\ Merged(mine, theirs).tags = mine.tags
           /\ Merged(mine, theirs).expired = TRUE <=> mine.expired = TRUE \/ theirs.expired = TRUE
           /\ mine.pinned = TRUE => Merged(mine, theirs).pinned = TRUE
<1> DEFINE e == mine.expired \/ theirs.expired
           p == mine.pinned \/ theirs.pinned
           b == IF mine.by = NoFact THEN theirs.by ELSE mine.by
<1>1. mine.expired \in BOOLEAN /\ theirs.expired \in BOOLEAN /\ mine.pinned \in BOOLEAN /\ theirs.pinned \in BOOLEAN
      /\ b \in FactIDs
  BY DEF Rows
<1>2. e \in BOOLEAN /\ p \in BOOLEAN
  BY <1>1
<1>3. (e = TRUE <=> mine.expired = TRUE \/ theirs.expired = TRUE) /\ (mine.pinned = TRUE => p = TRUE)
  BY <1>1
<1>4. Merged(mine, theirs) = [mine EXCEPT !.expired = e, !.by = b, !.pinned = p]
  BY DEF Merged
<1> HIDE DEF e, p, b
<1>5. LET m == [mine EXCEPT !.expired = e, !.by = b, !.pinned = p]
      IN  m \in Rows /\ m.text = mine.text /\ m.tags = mine.tags /\ m.expired = e /\ m.pinned = p
  BY <1>1, <1>2 DEF Rows
<1> QED BY <1>3, <1>4, <1>5

\* A row that comes in as f, and the row that the copy has of it then.
Imports(w, in, r) ==
    LET op == work[w]  row == facts[op.copy]  known == in.id \in KnownIn(row)
    IN  /\ in \in ReadRows /\ in.row.text \in Texts /\ r \in Rows /\ r.text = in.row.text
        /\ known => row[in.id].text = in.row.text
        /\ r.expired = TRUE <=> in.row.expired = TRUE \/ (known /\ row[in.id].expired = TRUE)
        /\ r.tags = (IF known THEN row[in.id].tags ELSE {})
        /\ facts'[op.copy] = [row EXCEPT ![in.id] = r]
        /\ rowids'[op.copy] = (IF known THEN rowids[op.copy] ELSE Append(rowids[op.copy], in.id))
        /\ op.by = "sync" /\ op.read # <<>>
        /\ Elements(op.read) = {in} \cup Elements(Tail(op.read))
        /\ work' = [work EXCEPT ![w] = [op EXCEPT !.read = Tail(@), !.fact = in.id, !.tags = in.row.tags,
                                                  !.at = "file"]]

\* A record of an import.
LEMMA ImportTurns ==
    ASSUME MemoryTypeOK, WorkOK, IdsOK, NEW w \in Active, ImportMemory(w)
    PROVE  Turn(w) /\ UNCHANGED <<minted, past>> /\ \E in, r : Imports(w, in, r)
<1> DEFINE op == work[w]
           c == op.copy
           row == facts[c]
           K == KnownIn(row)
           P == PinnedIn(row)
           L == LiveIn(row)
           in == Head(op.read)
           known == in.id \in K
           theirs == [in.row EXCEPT !.tags = {}, !.vector = FALSE]
           r == IF known THEN Merged(row[in.id], in.row) ELSE theirs
           ids == IF known THEN rowids[c] ELSE Append(rowids[c], in.id)
           new == [row EXCEPT ![in.id] = r]
           n == [op EXCEPT !.read = Tail(@), !.fact = in.id, !.tags = in.row.tags, !.at = "file"]
<1>1. op \in Ops /\ InPhase(op, K) /\ Spares(op, P, L) /\ op.at = "import" /\ op.read # <<>> /\ c \in Copies
      /\ row \in [Facts -> Rows] /\ facts \in [Copies -> [Facts -> Rows]] /\ rowids \in [Copies -> Seq(Facts)]
      /\ past \in Pasts /\ minted \in 0 .. MaxFacts /\ op.read \in Seq(ReadRows)
  BY Working DEF ImportMemory, MemoryTypeOK, Ops
<1>2. /\ Turns(w, n) /\ UNCHANGED <<minted, started, past>>
      /\ facts' = [facts EXCEPT ![c][in.id] =
                     IF in.id \in Known(c) THEN Merged(@, in.row) ELSE theirs]
      /\ rowids' = [rowids EXCEPT ![c] = IF in.id \in Known(c) THEN @ ELSE Append(@, in.id)]
  BY DEF ImportMemory
<1>3. in \in ReadRows /\ Elements(op.read) = {in} \cup Elements(Tail(op.read)) /\ Tail(op.read) \in Seq(ReadRows)
  BY <1>1, HeadTail
<1>4. in.id \in Facts /\ in.row \in Rows /\ row[in.id] \in Rows
  BY <1>1, <1>3 DEF ReadRows
<1>5. in.row.text # NoText /\ (known => row[in.id].text = in.row.text)
  <2>1. PICK d \in Copies : in.id \in KnownIn(facts[d]) /\ in.row.text = facts[d][in.id].text
    BY <1>3 DEF IdsOK
  <2>2. known => row[in.id].text = facts[d][in.id].text
    BY <1>1, <2>1 DEF IdsOK
  <2> QED BY <2>1, <2>2 DEF KnownIn
<1>6. in.row.text \in Texts
  BY <1>4, <1>5 DEF Rows
<1> HIDE DEF in
<1>7. /\ theirs \in Rows /\ theirs.text = in.row.text /\ theirs.tags = {} /\ theirs.expired = in.row.expired
  <2> HIDE DEF op
  <2> QED BY <1>4 DEF Rows
<1> HIDE DEF theirs
<1>8. /\ r \in Rows /\ r.text = in.row.text
      /\ r.expired = TRUE <=> in.row.expired = TRUE \/ (known /\ row[in.id].expired = TRUE)
      /\ r.tags = IF known THEN row[in.id].tags ELSE {}
      /\ known /\ row[in.id].pinned = TRUE => r.pinned = TRUE
  <2>1. CASE known
    BY <1>4, <1>5, <2>1, MergedTyped
  <2>2. CASE ~known
    BY <1>7, <2>2
  <2> QED BY <2>1, <2>2
<1>9. Known(c) = K
  BY <1>1, KnownLive
<1>10. facts' = [facts EXCEPT ![c] = new] /\ rowids' = [rowids EXCEPT ![c] = ids]
  BY <1>1, <1>2, <1>4, <1>9
<1>11. ids \in Seq(Facts)
  BY <1>1, <1>4
<1> HIDE DEF r, ids
<1>12. new \in [Facts -> Rows] /\ new[in.id] = r /\ \A f \in Facts : f # in.id => new[f] = row[f]
  <2> HIDE DEF Rows, row
  <2> QED BY <1>1, <1>4, <1>8
<1> HIDE DEF new
<1>13. KnownIn(new) = K \cup {in.id} /\ P \subseteq PinnedIn(new)
  BY <1>4, <1>5, <1>8, <1>12 DEF KnownIn, PinnedIn
<1>14. Scanned(row, rowids[c]) => Scanned(new, ids)
  BY <1>1, <1>4, <1>13, AppendElements DEF Scanned, ids
<1>15. Onward(row, new)
  BY <1>4, <1>5, <1>8, <1>12 DEF Onward, KnownIn
<1>16. Arrives(op, row, new)
  BY <1>3, <1>8, <1>12, <1>13 DEF Arrives
<1> HIDE DEF K, P, L
<1>17. n \in Ops /\ n.copy = c /\ n.by = op.by /\ n.spared = op.spared /\ n.read = Tail(op.read) /\ op.by = "sync"
  <2>1. in.id \in FactIDs /\ in.row.tags \in SUBSET FactTags
    BY <1>4 DEF FactIDs, Rows
  <2>2. op.by = "sync"
    BY <1>1 DEF InPhase
  <2> HIDE DEF op
  <2> QED BY <1>1, <1>3, <2>1, <2>2 DEF Ops, Phases
<1>18. InPhase(n, K \cup {in.id})
  BY <1>1, <1>3, <1>17 DEF InPhase, Ops
<1>19. \A P2, L2 : P \subseteq P2 => Spares(n, P2, L2)
  BY <1>1, <1>17 DEF Spares, Ops
<1>20. GoesOn(op, n, new)
  <2>1. InPhase(n, KnownIn(new)) /\ Spares(n, PinnedIn(new), LiveIn(new))
    BY <1>13, <1>18, <1>19
  <2> HIDE DEF n
  <2> QED BY <1>3, <1>17, <2>1 DEF GoesOn, OpOK
<1>21. minted' \in minted .. MaxFacts
  BY <1>1, <1>2, FactsOK
<1> DEFINE nn == n
<1> HIDE DEF nn
<1>22. RowsTurn(w, nn, new, ids)
  BY <1>1, <1>2, <1>10, <1>11, <1>12, <1>15, <1>16, <1>17, <1>20, <1>21, <1>14 DEF RowsTurn, nn
<1>23. Turn(w) /\ facts'[c] = new /\ rowids'[c] = ids
  BY <1>22, RowTurn
<1>24. Imports(w, in, r)
  BY <1>1, <1>2, <1>3, <1>5, <1>6, <1>8, <1>17, <1>23 DEF Imports, Turns, new, ids, K
<1> QED BY <1>2, <1>23, <1>24

\* What an operation counts on stays so, while rows go on.
LEMMA OnwardKeeps ==
    ASSUME NEW op \in Ops, NEW row \in [Facts -> Rows], NEW new \in [Facts -> Rows], OpOK(op, row), Onward(row, new)
    PROVE  OpOK(op, new) /\ KnownIn(row) \subseteq KnownIn(new)
<1> DEFINE K == KnownIn(row)
           K2 == KnownIn(new)
           P == PinnedIn(row)
           P2 == PinnedIn(new)
           L == LiveIn(row)
           L2 == LiveIn(new)
<1>1. K \subseteq K2 /\ P \subseteq P2
  BY DEF Onward, KnownIn, PinnedIn
<1>2. \A f \in L2 : f \in K => f \in L
  BY DEF Onward, KnownIn, LiveIn
<1>3. P \subseteq K
  BY DEF PinnedIn
<1>4. InPhase(op, K) /\ Spares(op, P, L)
  BY DEF OpOK
<1> HIDE DEF K, K2, P, P2, L, L2
<1>5. InPhase(op, K2)
  BY <1>1, <1>4 DEF InPhase, Ops
<1>6. Spares(op, P2, L2)
  BY <1>1, <1>2, <1>3, <1>4 DEF Spares
<1> QED BY <1>1, <1>5, <1>6 DEF OpOK, K, K2, P2, L2

\* A turn keeps what every operation counts on.
LEMMA TurnKeepsWork ==
    ASSUME MemoryTypeOK, WorkOK, NEW w \in Active, Turn(w)
    PROVE  WorkOK'
<1> DEFINE c == work[w].copy
<1>1. MemoryTypeOK' /\ w \in FactWorkers /\ work \in [FactWorkers -> Ops \cup {NoWork}]
  BY DEF Turn, Active, MemoryTypeOK
<1>2. PICK n \in Ops \cup {NoWork} : work' = [work EXCEPT ![w] = n] /\ GoesOn(work[w], n, facts'[c])
  BY DEF Turn
<1>3. Onward(facts[c], facts'[c]) /\ \A d \in Copies : d # c => facts'[d] = facts[d]
  BY DEF Turn
<1>4. SUFFICES ASSUME NEW v \in FactWorkers, work'[v] # NoWork
               PROVE  OpOK(work'[v], facts'[work'[v].copy])
  BY DEF WorkOK, Active
<1>5. CASE v = w
  <2>1. work'[v] = n /\ n # NoWork
    BY <1>1, <1>2, <1>4, <1>5
  <2> QED BY <1>2, <2>1 DEF GoesOn
<1>6. CASE v # w
  <2>1. work'[v] = work[v] /\ v \in Active
    BY <1>1, <1>2, <1>4, <1>6 DEF Active
  <2>2. work[v] \in Ops /\ work[v].copy \in Copies /\ OpOK(work[v], facts[work[v].copy])
    BY <2>1, Working DEF OpOK
  <2>3. facts[work[v].copy] \in [Facts -> Rows] /\ facts'[work[v].copy] \in [Facts -> Rows]
    BY <1>1, <2>2 DEF MemoryTypeOK
  <2>4. Onward(facts[work[v].copy], facts'[work[v].copy])
    BY <1>3, <2>2, OnwardSame
  <2> QED BY <2>1, <2>2, <2>3, <2>4, OnwardKeeps
<1> QED BY <1>5, <1>6

\* A turn mints a fact once, and no fact gets another text.
LEMMA TurnKeepsIds ==
    ASSUME MemoryTypeOK, WorkOK, IdsOK, NEW w \in Active, Turn(w)
    PROVE  IdsOK'
<1> DEFINE c == work[w].copy
           Is(d, f, t) == f \in KnownIn(facts[d]) /\ facts[d][f].text = t
           Will(d, f, t) == f \in KnownIn(facts'[d]) /\ facts'[d][f].text = t
<1>1. /\ MemoryTypeOK' /\ w \in FactWorkers /\ c \in Copies
      /\ minted \in Nat /\ minted' \in Nat /\ minted <= minted'
      /\ work \in [FactWorkers -> Ops \cup {NoWork}]
  BY FactsOK, Working DEF Turn, Active, MemoryTypeOK
<1>2. PICK n \in Ops \cup {NoWork} : work' = [work EXCEPT ![w] = n] /\ GoesOn(work[w], n, facts'[c])
  BY DEF Turn
<1>3. \A d \in Copies : \A f, t : Is(d, f, t) => Will(d, f, t)
  <2> TAKE d \in Copies
  <2> TAKE f, t
  <2>2. CASE d = c
    <3>1. Onward(facts[c], facts'[c]) /\ facts'[c] \in [Facts -> Rows]
      BY <1>1 DEF Turn, MemoryTypeOK
    <3> QED BY <2>2, <3>1 DEF Onward, KnownIn
  <2>3. CASE d # c
    BY <2>3 DEF Turn
  <2> QED BY <2>2, <2>3
<1>4. ASSUME NEW d \in Copies, NEW f, NEW t, Will(d, f, t)
      PROVE  \/ Is(d, f, t)
             \/ d = c /\ f \notin KnownIn(facts[c]) /\ f = minted' /\ minted' = minted + 1
             \/ d = c /\ \E e \in Copies : Is(e, f, t)
  <2>1. CASE d # c
    BY <1>4, <2>1 DEF Turn
  <2>2. CASE d = c /\ f \in KnownIn(facts[c])
    <3>1. facts'[c][f].text = facts[c][f].text
      BY <2>2 DEF Turn, Onward
    <3> QED BY <1>4, <2>2, <3>1
  <2>3. CASE d = c /\ f \notin KnownIn(facts[c])
    <3>1. \/ f = minted' /\ minted' = minted + 1
          \/ \E r \in Elements(work[w].read) : r.id = f /\ facts'[c][f].text = r.row.text
      BY <1>4, <2>3 DEF Turn, Arrives
    <3>2. \A r \in Elements(work[w].read) : \E e \in Copies : Is(e, r.id, r.row.text)
      BY DEF IdsOK
    <3> QED BY <1>4, <2>3, <3>1, <3>2
  <2> QED BY <2>1, <2>2, <2>3
<1>5. \A d \in Copies : \A f, t : Is(d, f, t) => f \in Nat /\ f <= minted
  BY FactsOK DEF IdsOK, KnownIn
<1>6. \A d, e \in Copies : \A f, t, u : Is(d, f, t) /\ Is(e, f, u) => t = u
  BY DEF IdsOK
<1> HIDE DEF Is, Will
<1>7. \A d \in Copies : \A f, t : Will(d, f, t) => f <= minted'
  BY <1>1, <1>4, <1>5
<1>8. \A d, e \in Copies : \A f, t, u : Will(d, f, t) /\ Will(e, f, u) => t = u \/ d = e
  <2>1. ASSUME NEW d \in Copies, NEW f, NEW t, Will(d, f, t), NEW e \in Copies, NEW u, Is(e, f, u)
        PROVE  t = u \/ d = e
    <3>1. ~(f = minted' /\ minted' = minted + 1)
      BY <1>1, <1>5, <2>1
    <3> QED BY <1>4, <1>6, <2>1, <3>1
  <2>2. ASSUME NEW d \in Copies, NEW e \in Copies, NEW f, NEW t, NEW u, Will(d, f, t), Will(e, f, u), d # e
        PROVE  t = u
    <3>1. CASE Is(e, f, u)
      BY <2>1, <2>2, <3>1
    <3>2. CASE Is(d, f, t)
      BY <2>1, <2>2, <3>2
    <3>3. CASE ~Is(e, f, u) /\ ~Is(d, f, t)
      BY <1>4, <2>2, <3>3
    <3> QED BY <3>1, <3>2, <3>3
  <2> QED BY <2>2
<1>9. \A c1, d \in Copies : \A f \in KnownIn(facts'[c1]) \cap KnownIn(facts'[d]) :
         facts'[c1][f].text = facts'[d][f].text
  <2>1. TAKE c1, d \in Copies
  <2>2. TAKE f \in KnownIn(facts'[c1]) \cap KnownIn(facts'[d])
  <2>3. Will(c1, f, facts'[c1][f].text) /\ Will(d, f, facts'[d][f].text)
    BY <2>2 DEF Will
  <2> QED BY <1>8, <2>3
<1>10. \A d \in Copies : \A f \in KnownIn(facts'[d]) : f <= minted'
  BY <1>7 DEF Will
<1>11. ASSUME NEW v \in FactWorkers, work'[v] # NoWork, NEW r \in Elements(work'[v].read)
       PROVE  \E d \in Copies : r.id \in KnownIn(facts'[d]) /\ r.row.text = facts'[d][r.id].text
  <2>1. \E a \in Active : r \in Elements(work[a].read)
    <3>1. CASE v = w
      <4>1. work'[v] = n /\ n # NoWork
        BY <1>1, <1>2, <1>11, <3>1
      <4> QED BY <1>2, <1>11, <4>1 DEF GoesOn
    <3>2. CASE v # w
      BY <1>1, <1>2, <1>11, <3>2 DEF Active
    <3> QED BY <3>1, <3>2
  <2>2. PICK d \in Copies : Is(d, r.id, r.row.text)
    BY <2>1 DEF IdsOK, Is
  <2> QED BY <1>3, <2>2 DEF Will
<1> QED BY <1>9, <1>10, <1>11 DEF IdsOK, Active

\* A request of a user or the curator, a sweep, or an import: what an operation starts with.
Fresh(op, copies) ==
    \/ /\ op.by \in {"user", "curator"} /\ op.read = <<>> /\ copies = {op.copy}
       /\ op.at \in {"find", "expire", "file", "nearest"} /\ (op.then = "replace" => op.at = "find")
    \/ /\ op.by = "sweep" /\ op.at = "pair" /\ copies = {op.copy}
       /\ op.then = "done" /\ op.folds = {} /\ op.read \in RowsOf(op.copy, Live(op.copy))
    \/ /\ op.by = "sync" /\ op.at = "import" /\ op.then = "import"
       /\ \E from \in Copies : copies = {from, op.copy} /\ op.read \in RowsOf(from, Known(from))

Commences(w, op, copies) ==
    /\ op \in Ops /\ copies \in SUBSET Copies /\ op.copy \in copies /\ Begins(w, op, copies)
    /\ OpOK(op, facts[op.copy]) /\ Fresh(op, copies)

\* What is pinned and active when an operation begins is what it spares.
LEMMA BlankSpares ==
    ASSUME MemoryTypeOK, NEW c \in Copies
    PROVE  Blank(c).spared \subseteq PinnedIn(facts[c]) /\ Blank(c).spared \subseteq Facts
<1>1. Blank(c).spared = {f \in Live(c) : facts[c][f].pinned}
  BY BlankTyped
<1>2. Live(c) = LiveIn(facts[c]) /\ facts[c] \in [Facts -> Rows]
  BY KnownLive
<1> QED BY <1>1, <1>2 DEF LiveIn, PinnedIn, KnownIn, Rows

\* The requests of a user and the curator's.
LEMMA UserCommences ==
    ASSUME MemoryTypeOK, NEW w \in FactWorkers, NEW c \in Copies, NEW op \in Ops, Begin(w, op),
           op.copy = c, op.by \in {"user", "curator"}, op.read = <<>>, op.folds = {}, op.tag = NoTag,
           op.then \in {"done", "replace"}, op.spared = Blank(c).spared,
           \/ op.at = "find" /\ op.text \in Texts /\ op.by = "user" /\ (op.then = "replace" => op.old \in KnownIn(facts[c]))
           \/ /\ op.at = "expire" /\ op.by = "user" /\ op.then = "done" /\ op.tags = {}
              /\ op.old \in KnownIn(facts[c]) /\ op.old \notin PinnedIn(facts[c])
           \/ op.at = "file" /\ op.by = "user" /\ op.then = "done" /\ op.fact \in KnownIn(facts[c])
           \/ op.at = "nearest" /\ op.text \in Texts /\ op.by = "curator" /\ op.then = "done"
    PROVE  Commences(w, op, {c})
<1>1. Begins(w, op, {c})
  BY DEF Begin
<1>2. InPhase(op, KnownIn(facts[c]))
  BY DEF InPhase, Ops
<1>3. Spares(op, PinnedIn(facts[c]), LiveIn(facts[c]))
  BY BlankSpares DEF Spares, Ops
<1> QED BY <1>1, <1>2, <1>3 DEF Commences, Fresh, OpOK

\* Every request begins an operation so.
LEMMA RequestsCommence ==
    ASSUME MemoryTypeOK, IdsOK, NEW w \in FactWorkers, Requests(w)
    PROVE  \E op, copies : Commences(w, op, copies)
<1>1. PICK c \in Copies :
        \/ \E text \in Texts, tags \in SUBSET FactTags :
              StartRemember(w, c, text, tags) \/ StartCurate(w, c, text, tags)
        \/ \E f \in Facts, text \in Texts : StartSupersede(w, c, f, text)
        \/ \E f \in Facts : StartForget(w, c, f)
        \/ \E f \in Facts, tag \in FactTags : StartTag(w, c, f, tag)
        \/ StartSweep(w, c)
        \/ \E from \in Copies : StartImport(w, from, c)
  BY DEF Requests
<1> DEFINE b == Blank(c)
           K == KnownIn(facts[c])
           P == PinnedIn(facts[c])
           Known1 == /\ b \in Ops /\ b.copy = c /\ b.by = "user" /\ b.at = "find"
                     /\ b.text = NoText /\ b.tags = {} /\ b.tag = NoTag
                     /\ b.old = NoFact /\ b.fact = NoFact /\ b.then = "done"
                     /\ b.read = <<>> /\ b.folds = {} /\ b.kept = NoFact
<1>2. Known1 /\ b.spared \subseteq P
  BY BlankTyped, BlankSpares
<1>3. Live(c) \subseteq K /\ K \subseteq Facts /\ \A f \in Live(c) : ~facts[c][f].pinned => f \notin P
  BY KnownLive DEF LiveIn, KnownIn, PinnedIn
<1> HIDE DEF b, K, P
<1>4. ASSUME NEW text \in Texts, NEW tags \in SUBSET FactTags, StartRemember(w, c, text, tags)
      PROVE  \E op, copies : Commences(w, op, copies)
  <2> DEFINE op == [b EXCEPT !.text = text, !.tags = tags]
  <2>1. /\ op \in Ops /\ op.copy = c /\ op.by = "user" /\ op.read = <<>> /\ op.folds = {} /\ op.tag = NoTag
        /\ op.then = "done" /\ op.spared = b.spared /\ op.at = "find" /\ op.text \in Texts
    BY <1>2 DEF Ops
  <2>2. Begin(w, op)
    BY <1>4 DEF StartRemember, b
  <2> HIDE DEF op
  <2>3. Commences(w, op, {c})
    BY <2>1, <2>2, UserCommences DEF b
  <2> QED BY <2>3
<1>5. ASSUME NEW text \in Texts, NEW tags \in SUBSET FactTags, StartCurate(w, c, text, tags)
      PROVE  \E op, copies : Commences(w, op, copies)
  <2> DEFINE op == [b EXCEPT !.by = "curator", !.text = text, !.tags = tags, !.at = "nearest"]
  <2>1. /\ op \in Ops /\ op.copy = c /\ op.by = "curator" /\ op.read = <<>> /\ op.folds = {} /\ op.tag = NoTag
        /\ op.then = "done" /\ op.spared = b.spared /\ op.at = "nearest" /\ op.text \in Texts
    BY <1>2 DEF Ops, Phases
  <2>2. Begin(w, op)
    BY <1>5 DEF StartCurate, b
  <2> HIDE DEF op
  <2>3. Commences(w, op, {c})
    BY <2>1, <2>2, UserCommences DEF b
  <2> QED BY <2>3
<1>6. ASSUME NEW f \in Facts, NEW text \in Texts, StartSupersede(w, c, f, text)
      PROVE  \E op, copies : Commences(w, op, copies)
  <2> DEFINE op == [b EXCEPT !.text = text, !.old = f, !.then = "replace"]
  <2>1. /\ op \in Ops /\ op.copy = c /\ op.by = "user" /\ op.read = <<>> /\ op.folds = {} /\ op.tag = NoTag
        /\ op.then = "replace" /\ op.spared = b.spared /\ op.at = "find" /\ op.text \in Texts /\ op.old = f
    BY <1>2 DEF Ops, FactIDs
  <2>2. Begin(w, op) /\ f \in K
    BY <1>3, <1>6 DEF StartSupersede, b
  <2> HIDE DEF op
  <2>3. Commences(w, op, {c})
    BY <2>1, <2>2, UserCommences DEF b, K
  <2> QED BY <2>3
<1>7. ASSUME NEW f \in Facts, StartForget(w, c, f)
      PROVE  \E op, copies : Commences(w, op, copies)
  <2> DEFINE op == [b EXCEPT !.old = f, !.at = "expire"]
  <2>1. /\ op \in Ops /\ op.copy = c /\ op.by = "user" /\ op.read = <<>> /\ op.folds = {} /\ op.tag = NoTag
        /\ op.then = "done" /\ op.spared = b.spared /\ op.at = "expire" /\ op.tags = {} /\ op.old = f
    BY <1>2 DEF Ops, FactIDs, Phases
  <2>2. Begin(w, op) /\ f \in K /\ f \notin P
    BY <1>3, <1>7 DEF StartForget, b
  <2> HIDE DEF op
  <2>3. Commences(w, op, {c})
    BY <2>1, <2>2, UserCommences DEF b, K, P
  <2> QED BY <2>3
<1>8. ASSUME NEW f \in Facts, NEW tag \in FactTags, StartTag(w, c, f, tag)
      PROVE  \E op, copies : Commences(w, op, copies)
  <2> DEFINE op == [b EXCEPT !.fact = f, !.tags = {tag}, !.filing = TRUE, !.at = "file"]
  <2>1. /\ op \in Ops /\ op.copy = c /\ op.by = "user" /\ op.read = <<>> /\ op.folds = {} /\ op.tag = NoTag
        /\ op.then = "done" /\ op.spared = b.spared /\ op.at = "file" /\ op.fact = f
    BY <1>2 DEF Ops, FactIDs, Phases
  <2>2. Begin(w, op) /\ f \in K
    BY <1>3, <1>8 DEF StartTag, b
  <2> HIDE DEF op
  <2>3. Commences(w, op, {c})
    BY <2>1, <2>2, UserCommences DEF b, K
  <2> QED BY <2>3
<1>9. ASSUME StartSweep(w, c)
      PROVE  \E op, copies : Commences(w, op, copies)
  <2>1. PICK rows \in RowsOf(c, Live(c)) : Begin(w, [b EXCEPT !.by = "sweep", !.at = "pair", !.read = rows])
    BY <1>9 DEF StartSweep, b
  <2> DEFINE op == [b EXCEPT !.by = "sweep", !.at = "pair", !.read = rows]
  <2>2. rows \in Seq(ReadRows)
        /\ \A i \in 1 .. Len(rows) : rows[i].id \in Live(c) /\ rows[i].row = facts[c][rows[i].id]
    <3>1. Live(c) \in SUBSET Facts
      BY <1>3
    <3> DEFINE S == Live(c)
    <3>2. rows \in RowsOf(c, S) /\ S \in SUBSET Facts
      BY <2>1, <3>1
    <3> HIDE DEF S
    <3>3. rows \in Seq(ReadRows) /\ \A i \in 1 .. Len(rows) : rows[i].id \in S /\ rows[i].row = facts[c][rows[i].id]
      BY <3>2, RowsOfTyped
    <3> QED BY <3>3 DEF S
  <2>3. /\ op \in Ops /\ op.copy = c /\ op.by = "sweep" /\ op.read = rows /\ op.folds = {} /\ op.tag = NoTag
        /\ op.then = "done" /\ op.spared = b.spared /\ op.at = "pair" /\ op.tags = {}
    BY <1>2, <2>2 DEF Ops, Phases
  <2>4. Begins(w, op, {c})
    BY <2>1, <2>3 DEF Begin
  <2> HIDE DEF op
  <2>5. \A r \in Elements(rows) : r.id \in K /\ r.row.text \in Texts
    BY <1>3, <2>2, TopicOf, KnownLive DEF Elements, K
  <2>6. InPhase(op, K)
    BY <2>3, <2>5 DEF InPhase
  <2>7. Spares(op, P, LiveIn(facts[c]))
    BY <1>2, <2>3 DEF Spares
  <2>8. Commences(w, op, {c})
    BY <2>1, <2>3, <2>4, <2>6, <2>7 DEF Commences, Fresh, OpOK, K, P
  <2> QED BY <2>8
<1>10. ASSUME NEW from \in Copies, StartImport(w, from, c)
       PROVE  \E op, copies : Commences(w, op, copies)
  <2>1. PICK rows \in RowsOf(from, Known(from)) :
           Begins(w, [b EXCEPT !.by = "sync", !.at = "import", !.filing = TRUE, !.then = "import", !.read = rows],
                  {from, c})
    BY <1>10 DEF StartImport, b
  <2> DEFINE op == [b EXCEPT !.by = "sync", !.at = "import", !.filing = TRUE, !.then = "import", !.read = rows]
  <2>2. rows \in Seq(ReadRows)
    <3>1. Known(from) \in SUBSET Facts
      BY DEF Known
    <3> QED BY <2>1, <3>1, RowsOfTyped, Zenon
  <2>3. /\ op \in Ops /\ op.copy = c /\ op.by = "sync" /\ op.read = rows /\ op.folds = {} /\ op.tag = NoTag
        /\ op.then = "import" /\ op.spared = b.spared /\ op.at = "import" /\ op.tags = {}
    BY <1>2, <2>2 DEF Ops, Phases
  <2>4. Begins(w, op, {from, c})
    BY <2>1
  <2> HIDE DEF op
  <2>5. InPhase(op, K)
    BY <2>3 DEF InPhase
  <2>6. Spares(op, P, LiveIn(facts[c]))
    BY <1>2, <2>3 DEF Spares
  <2>7. Commences(w, op, {from, c})
    BY <2>1, <2>3, <2>4, <2>5, <2>6 DEF Commences, Fresh, OpOK, K, P
  <2> QED BY <2>7
<1> QED BY <1>1, <1>4, <1>5, <1>6, <1>7, <1>8, <1>9, <1>10

\* A row is changed beside the operations: its pin, one of its tags, or its vector.
Aside(c, f, r) ==
    LET row == facts[c]
    IN  /\ c \in Copies /\ f \in KnownIn(row) /\ r \in Rows /\ facts' = [facts EXCEPT ![c] = [row EXCEPT ![f] = r]]
        /\ r.text = row[f].text /\ r.expired = row[f].expired
        /\ rowids' = rowids /\ minted' = minted /\ started' \in Nat /\ past' \in Pasts
        /\ past'.ended = past.ended /\ past'.retirers = past.retirers /\ past'.torn = past.torn
        /\ past.overlapped \subseteq past'.overlapped
        /\ r.tags # row[f].tags /\ Busy(c) => c \in past'.overlapped
        /\ work' \in [FactWorkers -> Ops \cup {NoWork}]
        /\ \A v \in FactWorkers :
             \/ work'[v] = work[v] /\ (work[v] # NoWork /\ work[v].copy = c /\ row[f].pinned = TRUE => r.pinned = TRUE)
             \/ work[v] # NoWork /\ work'[v] = [work[v] EXCEPT !.spared = @ \ {f}]

\* Pin and Unpin.
LEMMA PinAside ==
    ASSUME MemoryTypeOK, NEW c \in Copies, NEW f \in Facts, NEW pinned \in BOOLEAN, Pin(c, f, pinned)
    PROVE  \E r : Aside(c, f, r)
<1> DEFINE row == facts[c]
           r == [row[f] EXCEPT !.pinned = pinned]
<1>1. facts \in [Copies -> [Facts -> Rows]] /\ row \in [Facts -> Rows] /\ row[f] \in Rows /\ f \in KnownIn(row)
  BY KnownLive DEF Pin, MemoryTypeOK, LiveIn
<1>2. r \in Rows /\ r.text = row[f].text /\ r.expired = row[f].expired /\ r.tags = row[f].tags /\ r.pinned = pinned
  BY <1>1 DEF Rows
<1>3. facts' = [facts EXCEPT ![c] = [row EXCEPT ![f] = r]]
  BY <1>1 DEF Pin
<1>4. started' \in Nat /\ rowids' = rowids /\ minted' = minted /\ past' = past /\ past \in Pasts
  BY DEF Pin, MemoryTypeOK
<1>5. work' = [w \in FactWorkers |->
          IF work[w] # NoWork /\ work[w].copy = c /\ ~pinned
          THEN [work[w] EXCEPT !.spared = @ \ {f}] ELSE work[w]]
  BY DEF Pin
<1>6. ASSUME NEW v \in FactWorkers
      PROVE  /\ work'[v] \in Ops \cup {NoWork}
             /\ \/ work'[v] = work[v] /\ (work[v] # NoWork /\ work[v].copy = c /\ row[f].pinned = TRUE => r.pinned = TRUE)
                \/ work[v] # NoWork /\ work'[v] = [work[v] EXCEPT !.spared = @ \ {f}]
  <2>1. work[v] \in Ops \cup {NoWork}
    BY DEF MemoryTypeOK
  <2>2. CASE work[v] # NoWork /\ work[v].copy = c /\ ~pinned
    <3>1. work'[v] = [work[v] EXCEPT !.spared = @ \ {f}]
      BY <1>5, <2>2
    <3>2. work'[v] \in Ops
      BY <2>1, <2>2, <3>1 DEF Ops
    <3> QED BY <2>2, <3>1, <3>2
  <2>3. CASE ~(work[v] # NoWork /\ work[v].copy = c /\ ~pinned)
    <3>1. work'[v] = work[v]
      BY <1>5, <2>3
    <3>2. work[v] # NoWork /\ work[v].copy = c => pinned = TRUE
      BY <2>3
    <3> HIDE DEF r
    <3> QED BY <1>2, <2>1, <3>1, <3>2
  <2> QED BY <2>2, <2>3
<1>7. work' \in [FactWorkers -> Ops \cup {NoWork}]
  BY <1>5, <1>6
<1> HIDE DEF r
<1>8. Aside(c, f, r)
  BY <1>1, <1>2, <1>3, <1>4, <1>6, <1>7 DEF Aside
<1> QED BY <1>8

\* The removal of a tag.
LEMMA RemoveTagAside ==
    ASSUME MemoryTypeOK, NEW c \in Copies, NEW f \in Facts, NEW tag, RemoveTag(c, f, tag)
    PROVE  \E r : Aside(c, f, r)
<1> DEFINE row == facts[c]
           r == [row[f] EXCEPT !.tags = @ \ {tag}]
           busy == {d \in {c} : Busy(d)}
<1>1. facts \in [Copies -> [Facts -> Rows]] /\ row \in [Facts -> Rows] /\ row[f] \in Rows /\ f \in KnownIn(row)
  BY KnownLive DEF RemoveTag, MemoryTypeOK
<1>2. r \in Rows /\ r.text = row[f].text /\ r.expired = row[f].expired /\ r.pinned = row[f].pinned
  BY <1>1 DEF Rows
<1>3. facts' = [facts EXCEPT ![c] = [row EXCEPT ![f] = r]]
  BY <1>1 DEF RemoveTag
<1>4. started' \in Nat /\ rowids' = rowids /\ minted' = minted /\ past \in Pasts /\ work' = work
      /\ past' = [past EXCEPT !.overlapped = @ \cup busy] /\ work \in [FactWorkers -> Ops \cup {NoWork}]
  BY DEF RemoveTag, MemoryTypeOK, Overlapping
<1>5. busy \subseteq Copies /\ (Busy(c) => c \in busy)
  OBVIOUS
<1> HIDE DEF r, busy
<1>6. past' \in Pasts /\ past'.overlapped = past.overlapped \cup busy
      /\ past'.ended = past.ended /\ past'.retirers = past.retirers /\ past'.torn = past.torn
  BY <1>4, <1>5 DEF Pasts
<1>7. Aside(c, f, r)
  BY <1>1, <1>2, <1>3, <1>4, <1>5, <1>6 DEF Aside
<1> QED BY <1>7

\* The backfill of a vector.
LEMMA EmbedFactAside ==
    ASSUME MemoryTypeOK, NEW c \in Copies, NEW f \in Facts, EmbedFact(c, f)
    PROVE  \E r : Aside(c, f, r)
<1> DEFINE row == facts[c]
           r == [row[f] EXCEPT !.vector = TRUE]
<1>1. facts \in [Copies -> [Facts -> Rows]] /\ row \in [Facts -> Rows] /\ row[f] \in Rows /\ f \in KnownIn(row)
  BY KnownLive DEF EmbedFact, MemoryTypeOK, LiveIn
<1>2. r \in Rows /\ r.text = row[f].text /\ r.expired = row[f].expired /\ r.pinned = row[f].pinned
      /\ r.tags = row[f].tags
  BY <1>1 DEF Rows
<1>3. facts' = [facts EXCEPT ![c] = [row EXCEPT ![f] = r]]
  BY <1>1 DEF EmbedFact
<1>4. started' \in Nat /\ rowids' = rowids /\ minted' = minted /\ past \in Pasts /\ work' = work
      /\ past' = past /\ work \in [FactWorkers -> Ops \cup {NoWork}]
  BY DEF EmbedFact, MemoryTypeOK
<1> HIDE DEF r
<1>5. Aside(c, f, r)
  BY <1>1, <1>2, <1>3, <1>4 DEF Aside
<1> QED BY <1>5

\* What a change beside the operations leaves as it was.
LEMMA AsideSame ==
    ASSUME MemoryTypeOK, NEW c, NEW f, NEW r, Aside(c, f, r)
    PROVE  /\ MemoryTypeOK'
           /\ \A d \in Copies : d # c => facts'[d] = facts[d]
           /\ facts'[c] \in [Facts -> Rows] /\ f \in Facts /\ facts'[c][f] = r
           /\ \A g \in Facts : g # f => facts'[c][g] = facts[c][g]
           /\ \A d \in Copies : /\ KnownIn(facts'[d]) = KnownIn(facts[d]) /\ LiveIn(facts'[d]) = LiveIn(facts[d])
                                /\ \A g \in Facts : facts'[d][g].text = facts[d][g].text
           /\ \A v \in FactWorkers :
                /\ work'[v] = NoWork <=> work[v] = NoWork
                /\ work[v] # NoWork =>
                     /\ work'[v].spared \subseteq work[v].spared
                     /\ LET a == work[v]  b == work'[v]
                        IN  /\ b \in Ops /\ b.copy = a.copy /\ b.by = a.by /\ b.at = a.at /\ b.text = a.text
                            /\ b.tags = a.tags /\ b.tag = a.tag /\ b.old = a.old /\ b.fact = a.fact
                            /\ b.then = a.then /\ b.read = a.read /\ b.folds = a.folds /\ b.kept = a.kept
<1>1. f \in Facts /\ c \in Copies /\ facts \in [Copies -> [Facts -> Rows]]
  BY DEF Aside, KnownIn, MemoryTypeOK
<1>2. facts' = [facts EXCEPT ![c] = [facts[c] EXCEPT ![f] = r]] /\ r \in Rows
  BY DEF Aside
<1>3. facts' \in [Copies -> [Facts -> Rows]] /\ facts'[c][f] = r
      /\ (\A g \in Facts : g # f => facts'[c][g] = facts[c][g])
      /\ \A d \in Copies : d # c => facts'[d] = facts[d]
  <2> HIDE DEF Rows
  <2> QED BY <1>1, <1>2
<1>4. MemoryTypeOK'
  BY <1>3 DEF MemoryTypeOK, Aside
<1>5. \A g \in Facts : facts'[c][g].text = facts[c][g].text /\ facts'[c][g].expired = facts[c][g].expired
  BY <1>3 DEF Aside
<1>6. \A d \in Copies : \A g \in Facts : facts'[d][g].text = facts[d][g].text /\ facts'[d][g].expired = facts[d][g].expired
  BY <1>3, <1>5
<1>7. \A d \in Copies : KnownIn(facts'[d]) = KnownIn(facts[d]) /\ LiveIn(facts'[d]) = LiveIn(facts[d])
  BY <1>6 DEF KnownIn, LiveIn
<1>8. ASSUME NEW v \in FactWorkers
      PROVE  /\ work'[v] = NoWork <=> work[v] = NoWork
             /\ work[v] # NoWork =>
                     /\ work'[v].spared \subseteq work[v].spared
                     /\ LET a == work[v]  b == work'[v]
                        IN  /\ b \in Ops /\ b.copy = a.copy /\ b.by = a.by /\ b.at = a.at /\ b.text = a.text
                            /\ b.tags = a.tags /\ b.tag = a.tag /\ b.old = a.old /\ b.fact = a.fact
                            /\ b.then = a.then /\ b.read = a.read /\ b.folds = a.folds /\ b.kept = a.kept
  <2>1. work[v] \in Ops \cup {NoWork}
    BY DEF MemoryTypeOK
  <2>2. work'[v] = work[v] \/ (work[v] # NoWork /\ work'[v] = [work[v] EXCEPT !.spared = @ \ {f}])
    BY DEF Aside
  <2>3. CASE work'[v] = work[v]
    BY <2>1, <2>3
  <2>4. CASE work[v] # NoWork /\ work'[v] = [work[v] EXCEPT !.spared = @ \ {f}]
    <3>1. work[v] \in Ops
      BY <2>1, <2>4
    <3>2. work'[v] \in Ops
      BY <2>4, <3>1 DEF Ops
    <3>3. work'[v] # NoWork
      BY <3>2, NoWorkIsNone
    <3>4. /\ work'[v].spared \subseteq work[v].spared
          /\ LET a == work[v]  b == work'[v]
             IN  /\ b.copy = a.copy /\ b.by = a.by /\ b.at = a.at /\ b.text = a.text
                 /\ b.tags = a.tags /\ b.tag = a.tag /\ b.old = a.old /\ b.fact = a.fact
                 /\ b.then = a.then /\ b.read = a.read /\ b.folds = a.folds /\ b.kept = a.kept
      BY <2>4, <3>1 DEF Ops
    <3> QED BY <2>4, <3>2, <3>3, <3>4
  <2> QED BY <2>2, <2>3, <2>4
<1> QED BY <1>1, <1>3, <1>4, <1>6, <1>7, <1>8 DEF MemoryTypeOK

\* An unpinned fact is spared no more; a pinned one that was spared is so still.
LEMMA AsideKeepsWork ==
    ASSUME MemoryTypeOK, WorkOK, NEW c, NEW f, NEW r, Aside(c, f, r)
    PROVE  WorkOK'
<1>1. SUFFICES ASSUME NEW v \in FactWorkers, work'[v] # NoWork
               PROVE  OpOK(work'[v], facts'[work'[v].copy])
  BY DEF WorkOK, Active
<1> DEFINE a == work[v]
           b == work'[v]
           d == a.copy
           row == facts[d]
           new == facts'[d]
<1>2. a # NoWork /\ b.spared \subseteq a.spared
      /\ b \in Ops /\ b.copy = d /\ b.by = a.by /\ b.at = a.at /\ b.text = a.text
      /\ b.tags = a.tags /\ b.tag = a.tag /\ b.old = a.old /\ b.fact = a.fact
      /\ b.then = a.then /\ b.read = a.read /\ b.folds = a.folds /\ b.kept = a.kept
  BY <1>1, AsideSame
<1>3. v \in Active /\ a \in Ops /\ d \in Copies /\ InPhase(a, KnownIn(row)) /\ Spares(a, PinnedIn(row), LiveIn(row))
  BY <1>2, Working DEF Active
<1>4. KnownIn(new) = KnownIn(row) /\ LiveIn(new) = LiveIn(row)
  BY <1>3, AsideSame
<1>5. InPhase(b, KnownIn(new))
  <2> HIDE DEF a, b, new, row, d
  <2> QED BY <1>2, <1>3, <1>4 DEF InPhase
<1>6. b.spared \subseteq PinnedIn(new)
  <2>1. SUFFICES ASSUME NEW g \in b.spared PROVE g \in KnownIn(new) /\ new[g].pinned = TRUE
    BY DEF PinnedIn
  <2>2. g \in KnownIn(row) /\ row[g].pinned = TRUE /\ g \in Facts /\ g \in a.spared
    BY <1>2, <1>3, <2>1 DEF Spares, PinnedIn, KnownIn
  <2>3. CASE d # c \/ g # f
    <3>1. new[g] = row[g]
      BY <1>3, <2>2, <2>3, AsideSame
    <3> QED BY <1>4, <2>2, <3>1
  <2>4. CASE d = c /\ g = f
    <3>1. new[g] = r
      BY <2>4, AsideSame
    <3>2. \/ b = a /\ (a # NoWork /\ d = c /\ facts[c][f].pinned = TRUE => r.pinned = TRUE)
          \/ b = [a EXCEPT !.spared = @ \ {f}]
      BY <1>1 DEF Aside
    <3>3. b = [a EXCEPT !.spared = @ \ {f}] => b.spared = a.spared \ {f}
      <4> HIDE DEF b
      <4> QED BY <1>3 DEF Ops
    <3>4. b = a
      BY <2>1, <2>4, <3>2, <3>3
    <3> QED BY <1>2, <1>4, <2>2, <2>4, <3>1, <3>2, <3>3
  <2> QED BY <2>3, <2>4
<1>7. Spares(b, PinnedIn(new), LiveIn(new))
  <2> HIDE DEF a, b, new, row, d
  <2> QED BY <1>2, <1>3, <1>4, <1>6 DEF Spares
<1> QED BY <1>2, <1>5, <1>7 DEF OpOK

\* A change beside the operations mints no fact.
LEMMA AsideKeepsIds ==
    ASSUME MemoryTypeOK, IdsOK, NEW c, NEW f, NEW r, Aside(c, f, r)
    PROVE  IdsOK'
<1>1. \A d \in Copies : /\ KnownIn(facts'[d]) = KnownIn(facts[d])
                        /\ \A g \in Facts : facts'[d][g].text = facts[d][g].text
  BY AsideSame
<1>2. minted' = minted
  BY DEF Aside
<1>3. \A v \in FactWorkers : work'[v] # NoWork => work[v] # NoWork /\ work'[v].read = work[v].read
  BY AsideSame
<1>4. \A d \in Copies : KnownIn(facts[d]) \subseteq Facts
  BY DEF KnownIn
<1> QED BY <1>1, <1>2, <1>3, <1>4 DEF IdsOK, Active

\* An operation that begins finds what it counts on.
LEMMA CommencesKeeps ==
    ASSUME MemoryTypeOK, WorkOK, IdsOK, NEW w \in FactWorkers, NEW op, NEW copies, Commences(w, op, copies)
    PROVE  /\ MemoryTypeOK' /\ WorkOK' /\ IdsOK'
           /\ facts' = facts /\ rowids' = rowids /\ minted' = minted /\ work[w] = NoWork
           /\ work'[w] = op /\ op # NoWork
           /\ \A v \in FactWorkers : v # w => work'[v] = work[v]
           /\ past'.overlapped = past.overlapped \cup {c \in copies : Busy(c)}
           /\ past'.ended = past.ended /\ past'.retirers = past.retirers /\ past'.torn = past.torn
<1>1. op \in Ops /\ copies \in SUBSET Copies /\ Begins(w, op, copies) /\ OpOK(op, facts[op.copy])
  BY DEF Commences
<1>2. /\ MemoryTypeOK' /\ facts' = facts /\ rowids' = rowids /\ minted' = minted /\ work[w] = NoWork
      /\ work' = [work EXCEPT ![w] = op]
      /\ past'.overlapped = past.overlapped \cup {c \in copies : Busy(c)}
      /\ past'.ended = past.ended /\ past'.retirers = past.retirers /\ past'.torn = past.torn
  BY <1>1, BeginsTyped
<1>3. op # NoWork /\ work'[w] = op /\ \A v \in FactWorkers : v # w => work'[v] = work[v]
  BY <1>1, <1>2, NoWorkIsNone DEF MemoryTypeOK
<1>4. WorkOK'
  BY <1>1, <1>2, <1>3 DEF WorkOK, Active
<1>5. \A r \in Elements(op.read) : \E d \in Copies : r.id \in KnownIn(facts[d]) /\ r.row.text = facts[d][r.id].text
  <2>1. ASSUME NEW from \in Copies, NEW S \in SUBSET Facts, S \subseteq KnownIn(facts[from]), op.read \in RowsOf(from, S)
        PROVE  \A r \in Elements(op.read) : r.id \in KnownIn(facts[from]) /\ r.row.text = facts[from][r.id].text
    <3> DEFINE rows == op.read
    <3> HIDE DEF rows
    <3>1. rows \in RowsOf(from, S)
      BY <2>1 DEF rows
    <3>2. \A i \in 1 .. Len(rows) : rows[i].id \in S /\ rows[i].row = facts[from][rows[i].id]
      BY <3>1, RowsOfTyped
    <3> QED BY <2>1, <3>2 DEF Elements, rows
  <2>2. op.copy \in Copies /\ \A d \in Copies : /\ Known(d) = KnownIn(facts[d]) /\ Live(d) \subseteq KnownIn(facts[d])
                                                /\ Known(d) \in SUBSET Facts /\ Live(d) \in SUBSET Facts
    BY <1>1, KnownLive DEF Ops, Live, KnownIn
  <2>3. \/ op.read = <<>> \/ op.read \in RowsOf(op.copy, Live(op.copy))
        \/ \E from \in Copies : op.read \in RowsOf(from, Known(from))
    BY DEF Commences, Fresh
  <2>4. CASE op.read = <<>>
    BY <2>4 DEF Elements
  <2>5. CASE op.read \in RowsOf(op.copy, Live(op.copy))
    BY <2>1, <2>2, <2>5
  <2>6. CASE \E from \in Copies : op.read \in RowsOf(from, Known(from))
    BY <2>1, <2>2, <2>6
  <2> QED BY <2>3, <2>4, <2>5, <2>6
<1>6. IdsOK'
  <2>1. \A v \in FactWorkers : work'[v] # NoWork => work'[v] = op \/ (v \in Active /\ work'[v] = work[v])
    BY <1>3 DEF Active
  <2>2. \A v \in FactWorkers : work'[v] # NoWork => \A r \in Elements(work'[v].read) :
           \E d \in Copies : r.id \in KnownIn(facts[d]) /\ r.row.text = facts[d][r.id].text
    BY <1>5, <2>1 DEF IdsOK
  <2> QED BY <1>2, <2>2 DEF IdsOK, Active
<1> QED BY <1>2, <1>3, <1>4, <1>6

\* The steps of the specification: a request, a turn of a worker, or a change beside them.
LEMMA MemorySteps ==
    ASSUME MemoryTypeOK, WorkOK, IdsOK, MemoriesNext
    PROVE  \/ \E w \in FactWorkers : \E op, copies : Commences(w, op, copies)
           \/ \E w \in Active : Statements(w) /\ Turn(w)
           \/ \E c, f, r : Aside(c, f, r)
<1>1. CASE \E w \in FactWorkers : Requests(w)
  BY <1>1, RequestsCommence
<1>2. ASSUME NEW w \in FactWorkers, Statements(w)
      PROVE  w \in Active /\ Turn(w)
  <2>1. w \in Active
    BY <1>2 DEF Statements, Active
  <2>2. CASE Find(w)
    BY <2>1, <2>2, FindTurns
  <2>3. CASE Insert(w)
    BY <2>1, <2>3, InsertTurns
  <2>4. CASE \E tag \in FactTags : CountChapters(w, tag)
    BY <2>1, <2>4, CountChaptersTurns
  <2>5. CASE PutTag(w)
    BY <2>1, <2>5, PutTagTurns
  <2>6. CASE Filed(w)
    BY <2>1, <2>6, FiledTurns
  <2>7. CASE SetEmbedding(w)
    BY <2>1, <2>7, SetEmbeddingTurns
  <2>8. CASE Replace(w)
    BY <2>1, <2>8, ReplaceTurns
  <2>9. CASE ForgetTwin(w)
    BY <2>1, <2>9, ForgetTwinTurns
  <2>10. CASE Expire(w)
    BY <2>1, <2>10, ExpireTurns
  <2>11. CASE Nearest(w)
    BY <2>1, <2>11, NearestTurns
  <2>12. CASE IsPinned(w)
    BY <2>1, <2>12, IsPinnedTurns
  <2>13. CASE CuratorSupersede(w)
    BY <2>1, <2>13, CuratorSupersedeTurns
  <2>14. CASE PairUp(w)
    BY <2>1, <2>14, PairUpTurns
  <2>15. CASE ImportMemory(w)
    BY <2>1, <2>15, ImportTurns
  <2>16. CASE EndImport(w)
    BY <2>1, <2>16, EndImportTurns
  <2> QED BY <1>2, <2>1, <2>2, <2>3, <2>4, <2>5, <2>6, <2>7, <2>8, <2>9, <2>10, <2>11, <2>12, <2>13, <2>14,
             <2>15, <2>16 DEF Statements
<1>3. CASE \E c \in Copies, f \in Facts :
        \/ \E pinned \in BOOLEAN : Pin(c, f, pinned)
        \/ \E tag \in FactTags : RemoveTag(c, f, tag)
        \/ EmbedFact(c, f)
  BY <1>3, PinAside, RemoveTagAside, EmbedFactAside
<1> QED BY <1>1, <1>2, <1>3 DEF MemoriesNext

\* What a run counts on whatever interferes.
MemoryInv == MemoryTypeOK /\ WorkOK /\ IdsOK

\* The invariant holds at the start.
LEMMA MemoryInvStarts == MemoriesInit => MemoryInv
<1>1. SUFFICES ASSUME MemoriesInit PROVE MemoryInv
  OBVIOUS
<1>2. Active = {}
  BY <1>1 DEF MemoriesInit, Active
<1>3. \A c \in Copies : facts[c] = [f \in Facts |-> Absent] /\ KnownIn(facts[c]) = {}
  BY <1>1, AbsentTyped DEF MemoriesInit, KnownIn
<1>4. facts \in [Copies -> [Facts -> Rows]] /\ work \in [FactWorkers -> Ops \cup {NoWork}]
  BY <1>1, AbsentTyped DEF MemoriesInit
<1>5. rowids \in [Copies -> Seq(Facts)] /\ minted \in 0 .. MaxFacts /\ started \in Nat /\ past \in Pasts
  BY <1>1, FactsOK DEF MemoriesInit, Pasts
<1> QED BY <1>2, <1>3, <1>4, <1>5 DEF MemoryInv, MemoryTypeOK, WorkOK, IdsOK

\* Each step keeps it.
LEMMA MemoryInvKept == MemoryInv /\ [MemoriesNext]_memoryVars => MemoryInv'
<1>1. SUFFICES ASSUME MemoryInv, [MemoriesNext]_memoryVars PROVE MemoryInv'
  OBVIOUS
<1> USE <1>1 DEF MemoryInv
<1>2. CASE MemoriesNext
  <2>1. CASE \E w \in FactWorkers : \E op, copies : Commences(w, op, copies)
    BY <2>1, CommencesKeeps
  <2>2. CASE \E w \in Active : Statements(w) /\ Turn(w)
    BY <2>2, TurnKeepsWork, TurnKeepsIds DEF Turn
  <2>3. CASE \E c, f, r : Aside(c, f, r)
    BY <2>3, AsideKeepsWork, AsideKeepsIds, AsideSame
  <2> QED BY <1>2, <2>1, <2>2, <2>3, MemorySteps
<1>3. CASE UNCHANGED memoryVars
  BY <1>3 DEF memoryVars, MemoryTypeOK, WorkOK, IdsOK, Active
<1> QED BY <1>2, <1>3

\* The invariant holds in every state.
LEMMA MemoryInvAlways == MemoriesSpec => []MemoryInv
BY MemoryInvStarts, MemoryInvKept, PTL DEF MemoriesSpec

\* Whatever users, the curator, sweeps and syncs do at once: a fact that was pinned when an
\* automatic write or a forget began, and stays pinned, is not retired by it.
THEOREM PinnedFactsAreSpared == MemoriesSpec => PinnedSpared
<1>1. MemoryInv /\ [MemoriesNext]_memoryVars =>
        [\A w \in FactWorkers : Retires(w) /\ work'[w] # work[w] => work[w].old \notin work[w].spared]_memoryVars
  <2>1. SUFFICES ASSUME MemoryInv, NEW w \in FactWorkers, Retires(w)
                 PROVE  work[w].old \notin work[w].spared
    OBVIOUS
  <2>2. w \in Active
    BY <2>1 DEF Retires, Active
  <2>3. InPhase(work[w], KnownIn(facts[work[w].copy])) /\ Spares(work[w], PinnedIn(facts[work[w].copy]), LiveIn(facts[work[w].copy]))
    BY <2>1, <2>2, Working DEF MemoryInv
  <2> QED BY <2>1, <2>3 DEF Retires, Spares, InPhase
<1> QED BY <1>1, MemoryInvAlways, PTL DEF MemoriesSpec, PinnedSpared

\* The first active row with a text is one, and is missing only if there is none.
LEMMA FirstIs ==
    ASSUME NEW row \in [Facts -> Rows], NEW ids \in Seq(Facts), NEW text
    PROVE  /\ First(row, ids, text) \in FactIDs
           /\ First(row, ids, text) # NoFact =>
                 First(row, ids, text) \in LiveIn(row) /\ row[First(row, ids, text)].text = text
           /\ \A f \in Elements(ids) \cap LiveIn(row) : row[f].text = text => First(row, ids, text) # NoFact
<1> DEFINE H == Hits(row, ids, text)
<1>1. Len(ids) \in Nat /\ H \subseteq 1 .. Len(ids) /\ \A i \in 1 .. Len(ids) : ids[i] \in Facts
  BY DEF Hits
<1>2. CASE H = {}
  <2>1. First(row, ids, text) = NoFact
    BY <1>2 DEF First
  <2>2. \A f \in Elements(ids) \cap LiveIn(row) : row[f].text # text
    BY <1>2 DEF Hits, Elements
  <2> QED BY <2>1, <2>2 DEF FactIDs
<1>3. CASE H # {}
  <2>1. H \in SUBSET Nat
    BY <1>1
  <2>2. \E i \in H : \A j \in H : i <= j
    <3> HIDE DEF H
    <3> QED BY <1>3, <2>1, Least
  <2> DEFINE i == CHOOSE k \in H : \A j \in H : k <= j
  <2>3. i \in H
    BY <2>2
  <2>4. First(row, ids, text) = ids[i]
    BY <1>3 DEF First
  <2> HIDE DEF i
  <2>5. ids[i] \in Facts /\ ids[i] \in LiveIn(row) /\ row[ids[i]].text = text
    BY <1>1, <2>3 DEF Hits
  <2>6. ids[i] # NoFact
    BY <2>5, FactsOK
  <2> QED BY <2>4, <2>5, <2>6 DEF FactIDs
<1> QED BY <1>2, <1>3

\* The scan of Remember finds it.
LEMMA TwinIsFirst ==
    ASSUME MemoryTypeOK, NEW c \in Copies, NEW text
    PROVE  Twin(c, text) = First(facts[c], rowids[c], text)
<1>1. Live(c) = LiveIn(facts[c])
  BY KnownLive
<1>2. Hits(facts[c], rowids[c], text) =
        {i \in 1 .. Len(rowids[c]) : rowids[c][i] \in Live(c) /\ facts[c][rowids[c][i]].text = text}
  BY <1>1 DEF Hits
<1> QED BY <1>2 DEF Twin, First

\* Rows with the same active facts have the same first ones.
LEMMA FirstSame ==
    ASSUME NEW row, NEW new, NEW ids \in Seq(Facts), NEW text, LiveIn(new) = LiveIn(row),
           \A f \in Facts : new[f].text = row[f].text
    PROVE  First(new, ids, text) = First(row, ids, text)
<1>1. Hits(new, ids, text) = Hits(row, ids, text)
  BY DEF Hits
<1> QED BY <1>1 DEF First

\* When other facts are retired, the first active row stays the first.
LEMMA FirstStays ==
    ASSUME NEW row \in [Facts -> Rows], NEW new \in [Facts -> Rows], NEW ids \in Seq(Facts), NEW text,
           LiveIn(new) \subseteq LiveIn(row), \A f \in Facts : new[f].text = row[f].text,
           First(row, ids, text) \in LiveIn(new)
    PROVE  First(new, ids, text) = First(row, ids, text)
<1> DEFINE H == Hits(row, ids, text)
           G == Hits(new, ids, text)
           Leasts(S) == {k \in S : \A j \in S : k <= j}
<1>1. Len(ids) \in Nat /\ H \subseteq 1 .. Len(ids) /\ G \subseteq H
  BY DEF Hits
<1>2. H # {}
  <2>1. SUFFICES ASSUME H = {} PROVE FALSE
    OBVIOUS
  <2>2. First(row, ids, text) = NoFact
    BY <2>1 DEF First
  <2> QED BY <2>2, FactsOK DEF LiveIn, KnownIn
<1>3. H \in SUBSET Nat
  BY <1>1
<1>4. \E i \in H : \A j \in H : i <= j
  <2> HIDE DEF H
  <2> QED BY <1>2, <1>3, Least
<1> DEFINE i == CHOOSE k \in H : \A j \in H : k <= j
<1>5. i \in H /\ \A j \in H : i <= j
  BY <1>4
<1>6. First(row, ids, text) = ids[i]
  BY <1>2 DEF First
<1> HIDE DEF i
<1>7. i \in G
  BY <1>5, <1>6 DEF Hits
<1> DEFINE k == CHOOSE k \in G : \A j \in G : k <= j
<1>8. k \in G /\ \A j \in G : k <= j
  BY <1>1, <1>5, <1>7
<1>9. First(new, ids, text) = ids[k]
  BY <1>7 DEF First
<1> HIDE DEF k, G, H
<1>10. k = i
  <2>1. k \in Nat /\ i \in Nat
    BY <1>1, <1>3, <1>5, <1>8
  <2>2. k <= i /\ i <= k
    BY <1>1, <1>5, <1>7, <1>8
  <2> QED BY <2>1, <2>2
<1> QED BY <1>6, <1>9, <1>10

\* What goes on as it was, but for its place, what it inserts and what it spares.
SameFold(op, n) ==
    /\ n.by = op.by /\ n.folds = op.folds /\ n.text = op.text /\ n.kept = op.kept /\ n.old = op.old
    /\ n.then = op.then /\ n.read = op.read

\* Same facts, active and retired, with the same texts.
SameFacts(row, new) == LiveIn(new) = LiveIn(row) /\ \A f \in Facts : new[f].text = row[f].text

\* Whoever does not sweep must only have what it replaces a fact by.
LEMMA NoSweepSettles ==
    ASSUME NEW n, NEW row, NEW ids, n.by # "sweep", n.at # "pair",
           n.then = "replace" /\ n.at \in {"file", "put", "replace"} =>
               n.fact \in LiveIn(row) /\ row[n.fact].text = n.text,
           n.at = "replace" => n.fact # n.old
    PROVE  Settled(n, row, ids)
BY DEF Settled, Undisturbed, Carried

\* The fold of a sweep goes on.
LEMMA SweepGoesOn ==
    ASSUME NEW op, NEW n, NEW row, NEW new, Undisturbed(op, row), SameFold(op, n), SameFacts(row, new),
           InPhase(op, KnownIn(row)), op.by = "sweep", op.at # "pair",
           n.at \in {"file", "put", "forget", "expire"}
    PROVE  Undisturbed(n, new)
<1>1. op.old \in KnownIn(row) /\ op.kept \in KnownIn(row) /\ op.then = "forget"
      /\ \A p \in op.folds : p.kept.id \in KnownIn(row) /\ p.dropped.id \in KnownIn(row)
  BY DEF InPhase
<1>2. KnownIn(row) \subseteq Facts
  BY DEF KnownIn
<1>3. Pairing(n) = Pairing(op) /\ \A x \in Pairing(op) : x[1] \in Facts /\ x[2] \in Facts
  BY <1>1, <1>2 DEF Pairing, SameFold
<1> QED BY <1>1, <1>2, <1>3 DEF Undisturbed, SameFold, SameFacts

\* What a worker's turn leaves, unless it is done.
Settles(w) ==
    work'[w] # NoWork => LET c == work[w].copy IN Settled(work'[w], facts'[c], rowids'[c])

\* The rows of a copy are the facts that it knows.
LEMMA RowOf ==
    ASSUME RowidsOK, NEW c \in Copies
    PROVE  LiveIn(facts[c]) \subseteq Elements(rowids[c])
BY DEF RowidsOK, Scanned, LiveIn

\* A sweep folds b into a, or is to do so.
Paired(op, a, b) == (a = op.kept /\ b = op.old) \/ \E p \in op.folds : a = p.kept.id /\ b = p.dropped.id

\* The pairs are of active facts on one topic, and a topic has one fact that is kept.
PairsApart(op, row) ==
    /\ \A a, b : Paired(op, a, b) =>
          a \in LiveIn(row) /\ b \in LiveIn(row) /\ Topic[row[a].text] = Topic[row[b].text]
    /\ \A a, b, d, e : Paired(op, a, b) /\ Paired(op, d, e) =>
          a # e /\ (Topic[row[a].text] = Topic[row[d].text] => a = d)

\* The pairs of a sweep, stated of facts.
LEMMA PairOf ==
    ASSUME NEW op, NEW row, Undisturbed(op, row), op.by = "sweep", op.at # "pair"
    PROVE  PairsApart(op, row)
<1> DEFINE Pair(a, b) == Paired(op, a, b)
<1>1. \A a, b : Pair(a, b) => <<a, b>> \in Pairing(op)
  BY DEF Pairing, Paired
<1>2. \A a, b : <<a, b>>[1] = a /\ <<a, b>>[2] = b
  OBVIOUS
<1>3. /\ \A x \in Pairing(op) :
           /\ x[1] \in LiveIn(row) /\ x[2] \in LiveIn(row)
           /\ Topic[row[x[1]].text] = Topic[row[x[2]].text]
      /\ \A x, y \in Pairing(op) :
           /\ x[1] # y[2]
           /\ Topic[row[x[1]].text] = Topic[row[y[1]].text] => x[1] = y[1]
  BY DEF Undisturbed
<1> HIDE DEF Pair
<1>4. ASSUME NEW a, NEW b, Pair(a, b)
      PROVE  \E x \in Pairing(op) : x[1] = a /\ x[2] = b
  <2>1. <<a, b>> \in Pairing(op) /\ <<a, b>>[1] = a /\ <<a, b>>[2] = b
    BY <1>1, <1>4
  <2> QED BY <2>1
<1>5. ASSUME NEW a, NEW b, Pair(a, b)
      PROVE  /\ a \in LiveIn(row) /\ b \in LiveIn(row)
             /\ Topic[row[a].text] = Topic[row[b].text]
  <2>1. PICK x \in Pairing(op) : x[1] = a /\ x[2] = b
    BY <1>4, <1>5
  <2> QED BY <1>3, <2>1
<1>6. ASSUME NEW a, NEW b, NEW d, NEW e, Pair(a, b), Pair(d, e)
      PROVE  a # e /\ (Topic[row[a].text] = Topic[row[d].text] => a = d)
  <2>1. PICK x \in Pairing(op) : x[1] = a /\ x[2] = b
    BY <1>4, <1>6
  <2>2. PICK y \in Pairing(op) : y[1] = d /\ y[2] = e
    BY <1>4, <1>6
  <2> QED BY <1>3, <2>1, <2>2
<1>7. \A a, b : Pair(a, b) => /\ a \in LiveIn(row) /\ b \in LiveIn(row)
                             /\ Topic[row[a].text] = Topic[row[b].text]
  BY <1>5
<1>8. \A a, b, d, e : Pair(a, b) /\ Pair(d, e) =>
         a # e /\ (Topic[row[a].text] = Topic[row[d].text] => a = d)
  BY <1>6
<1> QED BY <1>7, <1>8 DEF Pair, PairsApart

\* The scan finds the first active row, and a sweep the one it keeps or a twin of that.
LEMMA FindSettles ==
    ASSUME MemoryTypeOK, WorkOK, RowidsOK, NEW w \in Active, Find(w),
           Settled(work[w], facts[work[w].copy], rowids[work[w].copy])
    PROVE  Settles(w)
<1> DEFINE op == work[w]
           c == op.copy
           row == facts[c]
           ids == rowids[c]
           first == First(row, ids, op.text)
           n == [op EXCEPT !.fact = first, !.at = IF first = NoFact THEN "insert" ELSE "file"]
<1>1. op \in Ops /\ c \in Copies /\ row \in [Facts -> Rows] /\ ids \in Seq(Facts)
      /\ InPhase(op, KnownIn(row)) /\ op.at = "find" /\ op.text \in Texts
  BY Working DEF Find, InPhase
<1>2. work'[w] = n /\ facts'[c] = row /\ rowids'[c] = ids
  BY <1>1, TwinIsFirst DEF Find, Turns, Active, MemoryTypeOK
<1>3. first # NoFact => first \in LiveIn(row) /\ row[first].text = op.text
  BY <1>1, FirstIs
<1>4. /\ n.by = op.by /\ n.then = op.then /\ n.text = op.text /\ n.fact = first /\ n.tags = op.tags /\ n.old = op.old
      /\ n.at = (IF first = NoFact THEN "insert" ELSE "file") /\ n.tag = op.tag /\ n.folds = op.folds
      /\ n.kept = op.kept /\ n.read = op.read
  BY <1>1 DEF Ops
<1> HIDE DEF n, first
<1>5. CASE op.by # "sweep"
  <2>1. Settled(n, row, ids)
    BY <1>3, <1>4, <1>5, NoSweepSettles
  <2> QED BY <1>2, <2>1 DEF Settles
<1>6. CASE op.by = "sweep"
  <2>1. Undisturbed(op, row) /\ Carried(op, row, ids)
    BY DEF Settled
  <2>2. op.kept \in LiveIn(row) /\ row[op.kept].text = op.text
    <3>1. row[op.kept].text = op.text
      BY <1>1, <1>6, <2>1 DEF Undisturbed
    <3>2. op.at # "pair"
      BY <1>1
    <3> HIDE DEF op, row
    <3> QED BY <1>6, <2>1, <3>1, <3>2, PairOf DEF PairsApart, Paired
  <2>3. first # NoFact
    <3>1. op.kept \in Elements(ids) \cap LiveIn(row) /\ row[op.kept].text = op.text
      BY <1>1, <2>2, RowOf
    <3> HIDE DEF op, row, ids
    <3> QED BY <1>1, <3>1, FirstIs DEF first
  <2>4. Undisturbed(n, row)
    BY <1>1, <1>4, <1>6, <2>1, <2>3, SweepGoesOn DEF SameFold, SameFacts
  <2>5. first \in Facts
    BY <1>3, <2>3 DEF LiveIn, KnownIn
  <2>6. Carried(n, row, ids)
    BY <1>1, <1>4, <1>6, <2>1, <2>3, <2>5 DEF Carried, first
  <2> QED BY <1>2, <2>4, <2>6 DEF Settles, Settled
<1> QED BY <1>5, <1>6

\* A tag that is refused is a chapter.
LEMMA CountChaptersSettles ==
    ASSUME MemoryTypeOK, WorkOK, NEW w \in Active, NEW tag \in FactTags, CountChapters(w, tag),
           Settled(work[w], facts[work[w].copy], rowids[work[w].copy])
    PROVE  Settles(w)
<1> DEFINE op == work[w]
           c == op.copy
           row == facts[c]
           ids == rowids[c]
           n1 == [op EXCEPT !.tags = @ \ {tag}]
           n2 == [op EXCEPT !.tags = @ \ {tag}, !.tag = tag, !.at = "put"]
<1>1. op \in Ops /\ c \in Copies /\ InPhase(op, KnownIn(row)) /\ op.at = "file" /\ op.tag = NoTag
  BY Working DEF CountChapters, InPhase
<1>2. /\ work'[w] = n2 \/ (work'[w] = n1 /\ tag \in Chapters)
      /\ facts'[c] = row /\ rowids'[c] = ids
  BY <1>1 DEF CountChapters, Refused, Turns, Active, MemoryTypeOK
<1>3. PICK n : work'[w] = n /\ (n = n2 \/ (n = n1 /\ tag \in Chapters))
  BY <1>2
<1>4. /\ SameFold(op, n) /\ n.fact = op.fact /\ n.at \in {"file", "put"}
      /\ op.tags \ Chapters \subseteq n.tags \cup {n.tag}
  <2> HIDE DEF op
  <2>1. CASE n = n2
    <3>1. SameFold(op, n) /\ n.fact = op.fact /\ n.at = "put"
      BY <1>1, <2>1 DEF Ops, SameFold
    <3>2. n.tags = op.tags \ {tag} /\ n.tag = tag
      BY <1>1, <2>1 DEF Ops
    <3> QED BY <3>1, <3>2
  <2>2. CASE n = n1 /\ tag \in Chapters
    <3>1. SameFold(op, n) /\ n.fact = op.fact /\ n.at = "file"
      BY <1>1, <2>2 DEF Ops, SameFold
    <3>2. n.tags = op.tags \ {tag}
      BY <1>1, <2>2 DEF Ops
    <3> QED BY <2>2, <3>1, <3>2
  <2> QED BY <1>3, <2>1, <2>2
<1> HIDE DEF n1, n2
<1>5. CASE op.by # "sweep"
  <2>1. n.then = "replace" => n.fact \in LiveIn(row) /\ row[n.fact].text = n.text
    BY <1>1, <1>4 DEF Settled, Undisturbed, SameFold
  <2>2. Settled(n, row, ids)
    BY <1>4, <1>5, <2>1, NoSweepSettles DEF SameFold
  <2> QED BY <1>2, <1>3, <2>2 DEF Settles
<1>6. CASE op.by = "sweep"
  <2>1. Undisturbed(op, row) /\ Carried(op, row, ids)
    BY DEF Settled
  <2>2. Undisturbed(n, row)
    BY <1>1, <1>4, <1>6, <2>1, SweepGoesOn DEF SameFacts
  <2>3. /\ op.fact = First(row, ids, op.text) /\ op.fact \in Facts
        /\ row[op.old].tags \ Chapters \subseteq row[op.fact].tags \cup op.tags \cup {op.tag}
        /\ \A p \in op.folds :
             row[p.dropped.id].tags \subseteq p.dropped.tags \/ First(row, ids, p.kept.text) = p.dropped.id
    BY <1>1, <1>6, <2>1 DEF Carried
  <2>4. row[op.old].tags \subseteq FactTags
    <3>1. op.old \in KnownIn(row) /\ row \in [Facts -> Rows]
      BY <1>1, <1>6, Working DEF InPhase
    <3>2. row[op.old] \in Rows
      BY <3>1, TopicOf
    <3> QED BY <3>2 DEF Rows
  <2>5. row[op.old].tags \ Chapters \subseteq row[op.fact].tags \cup n.tags \cup {n.tag}
    BY <1>1, <1>4, <2>3, <2>4, FactsOK
  <2>6. Carried(n, row, ids)
    BY <1>4, <2>3, <2>5 DEF Carried, SameFold
  <2> QED BY <1>2, <1>3, <2>2, <2>6 DEF Settles, Settled
<1> QED BY <1>5, <1>6

\* All tags are filed before the caller goes on.
LEMMA FiledSettles ==
    ASSUME MemoryTypeOK, WorkOK, NEW w \in Active, Filed(w),
           Settled(work[w], facts[work[w].copy], rowids[work[w].copy])
    PROVE  Settles(w)
<1> DEFINE op == work[w]
           c == op.copy
           row == facts[c]
           ids == rowids[c]
           n1 == [op EXCEPT !.at = "embed"]
           n2 == [op EXCEPT !.at = op.then]
<1>1. op \in Ops /\ c \in Copies /\ InPhase(op, KnownIn(row)) /\ op.at = "file" /\ op.tags = {} /\ op.tag = NoTag
  BY Working DEF Filed, InPhase
<1>2. /\ \/ work'[w] = NoWork
         \/ work'[w] = n1 /\ op.by = "curator"
         \/ work'[w] = n2 /\ op.then # "done" /\ ~(op.then = "replace" /\ op.fact = op.old)
      /\ facts'[c] = row /\ rowids'[c] = ids
  BY <1>1 DEF Filed, Reasserted, Turns, Active, MemoryTypeOK
<1>3. CASE work'[w] = NoWork
  BY <1>3 DEF Settles
<1>4. CASE work'[w] = n1 /\ op.by = "curator"
  <2>1. n1.by = "curator" /\ n1.at = "embed" /\ n1.then = op.then
    BY <1>1, <1>4 DEF Ops
  <2>2. Settled(n1, row, ids)
    <3> HIDE DEF n1
    <3> QED BY <2>1, NoSweepSettles
  <2> QED BY <1>2, <1>4, <2>2 DEF Settles
<1>5. CASE work'[w] = n2 /\ op.then # "done" /\ ~(op.then = "replace" /\ op.fact = op.old)
  <2>1. SameFold(op, n2) /\ n2.fact = op.fact /\ n2.tags = op.tags /\ n2.tag = op.tag /\ n2.at = op.then
    BY <1>1 DEF Ops, SameFold
  <2> DEFINE n == n2
  <2> HIDE DEF n2
  <2>2. CASE op.by # "sweep"
    <3>1. n.then = "replace" => n.fact \in LiveIn(row) /\ row[n.fact].text = n.text
      BY <1>1, <2>1 DEF Settled, Undisturbed, SameFold
    <3>2. n.by # "sweep" /\ n.at # "pair" /\ (n.at = "replace" => n.fact # n.old)
      BY <1>1, <1>5, <2>1, <2>2 DEF SameFold, Ops
    <3>3. Settled(n, row, ids)
      BY <3>1, <3>2, NoSweepSettles
    <3> QED BY <1>2, <1>5, <3>3 DEF Settles
  <2>3. CASE op.by = "sweep"
    <3>1. Undisturbed(op, row) /\ Carried(op, row, ids) /\ n.at = "forget"
      BY <1>1, <2>1, <2>3 DEF Settled, InPhase
    <3>2. Undisturbed(n, row)
      BY <1>1, <2>1, <2>3, <3>1, SweepGoesOn DEF SameFacts
    <3>3. Carried(n, row, ids)
      BY <1>1, <2>1, <3>1 DEF Carried, SameFold
    <3> QED BY <1>2, <1>5, <3>2, <3>3 DEF Settles, Settled
  <2> QED BY <2>2, <2>3
<1> QED BY <1>2, <1>3, <1>4, <1>5

\* Forget reads the fact, and changes nothing.
LEMMA ForgetTwinSettles ==
    ASSUME MemoryTypeOK, WorkOK, NEW w \in Active, ForgetTwin(w),
           Settled(work[w], facts[work[w].copy], rowids[work[w].copy])
    PROVE  Settles(w)
<1> DEFINE op == work[w]
           c == op.copy
           row == facts[c]
           ids == rowids[c]
           n == [op EXCEPT !.at = "expire"]
<1>1. op \in Ops /\ c \in Copies /\ InPhase(op, KnownIn(row)) /\ op.at = "forget" /\ op.by = "sweep"
  BY Working DEF ForgetTwin, InPhase
<1>2. (work'[w] = NoWork \/ work'[w] = n) /\ facts'[c] = row /\ rowids'[c] = ids
  BY <1>1 DEF ForgetTwin, Turns, Active, MemoryTypeOK
<1>3. SameFold(op, n) /\ n.fact = op.fact /\ n.tags = op.tags /\ n.tag = op.tag /\ n.at = "expire"
  BY <1>1 DEF Ops, SameFold
<1> HIDE DEF n
<1>4. Undisturbed(op, row) /\ Carried(op, row, ids)
  BY DEF Settled
<1>5. Undisturbed(n, row)
  BY <1>1, <1>3, <1>4, SweepGoesOn DEF SameFacts
<1>6. Carried(n, row, ids)
  BY <1>1, <1>3, <1>4 DEF Carried, SameFold
<1> QED BY <1>2, <1>5, <1>6 DEF Settles, Settled

\* The tag is now with the fact.
LEMMA PutTagSettles ==
    ASSUME MemoryTypeOK, WorkOK, NEW w \in Active, PutTag(w),
           Settled(work[w], facts[work[w].copy], rowids[work[w].copy])
    PROVE  Settles(w)
<1> DEFINE op == work[w]
           c == op.copy
           row == facts[c]
           new == facts'[c]
           ids == rowids[c]
           n == [op EXCEPT !.tag = NoTag, !.at = "file"]
<1>1. op \in Ops /\ c \in Copies /\ InPhase(op, KnownIn(row)) /\ op.at = "put" /\ op.fact \in KnownIn(row)
      /\ row \in [Facts -> Rows] /\ ids \in Seq(Facts) /\ op.text \in Texts \cup {NoText}
  BY Working DEF PutTag, InPhase, Ops
<1>2. work'[w] = n /\ rowids'[c] = ids
      /\ new = [row EXCEPT ![op.fact] = [row[op.fact] EXCEPT !.tags = @ \cup {op.tag}]]
  BY <1>1, PutTagTurns DEF PutTag, Turns, Active, MemoryTypeOK
<1>3. SameFold(op, n) /\ n.fact = op.fact /\ n.tags = op.tags /\ n.tag = NoTag /\ n.at = "file"
  BY <1>1 DEF Ops, SameFold
<1> HIDE DEF n
<1>4. op.fact \in Facts /\ row[op.fact] \in Rows
  BY <1>1, TopicOf
<1>5. /\ new[op.fact].text = row[op.fact].text /\ new[op.fact].expired = row[op.fact].expired
      /\ new[op.fact].tags = row[op.fact].tags \cup {op.tag}
      /\ \A f \in Facts : f # op.fact => new[f] = row[f]
  <2>1. new[op.fact] = [row[op.fact] EXCEPT !.tags = @ \cup {op.tag}] /\ \A f \in Facts : f # op.fact => new[f] = row[f]
    <3> HIDE DEF op, row, new
    <3> QED BY <1>1, <1>2, <1>4
  <2> QED BY <1>4, <2>1 DEF Rows
<1>6. SameFacts(row, new)
  <2>1. \A f \in Facts : new[f].text = row[f].text /\ new[f].expired = row[f].expired
    BY <1>5
  <2> QED BY <2>1 DEF SameFacts, LiveIn, KnownIn
<1>7. Undisturbed(op, row) /\ Carried(op, row, ids)
  BY DEF Settled
<1>8. CASE op.by # "sweep"
  <2>1. n.then = "replace" => n.fact \in LiveIn(new) /\ new[n.fact].text = n.text
    BY <1>1, <1>3, <1>4, <1>6, <1>7 DEF Undisturbed, SameFold, SameFacts
  <2>2. Settled(n, new, ids)
    <3>1. n.by # "sweep"
      BY <1>3, <1>8 DEF SameFold
    <3> HIDE DEF new
    <3> QED BY <1>3, <2>1, <3>1, NoSweepSettles
  <2> QED BY <1>2, <2>2 DEF Settles
<1>9. CASE op.by = "sweep"
  <2>1. Undisturbed(n, new)
    <3> HIDE DEF new, op
    <3> QED BY <1>1, <1>3, <1>6, <1>7, <1>9, SweepGoesOn
  <2>2. \A text : First(new, ids, text) = First(row, ids, text)
    <3> HIDE DEF new, row, ids
    <3> QED BY <1>1, <1>6, FirstSame DEF SameFacts
  <2>3. /\ op.fact = First(row, ids, op.text) /\ op.fact \in Facts
        /\ row[op.old].tags \ Chapters \subseteq row[op.fact].tags \cup op.tags \cup {op.tag}
        /\ \A p \in op.folds :
             row[p.dropped.id].tags \subseteq p.dropped.tags \/ First(row, ids, p.kept.text) = p.dropped.id
    BY <1>1, <1>7, <1>9 DEF Carried
  <2>4. op.old \in Facts /\ (op.old # op.fact => new[op.old].tags = row[op.old].tags)
    BY <1>1, <1>5, <1>9 DEF InPhase, KnownIn
  <2>5. new[op.old].tags \ Chapters \subseteq new[op.fact].tags \cup n.tags \cup {n.tag}
    BY <1>3, <1>5, <2>3, <2>4
  <2>6. ASSUME NEW p \in op.folds
        PROVE  new[p.dropped.id].tags \subseteq p.dropped.tags \/ First(row, ids, p.kept.text) = p.dropped.id
    <3>1. p.dropped.id \in Facts
      BY <1>1 DEF InPhase, KnownIn
    <3>2. CASE p.dropped.id # op.fact
      BY <1>5, <2>3, <3>1, <3>2
    <3>3. CASE p.dropped.id = op.fact
      <4>1. row[op.fact].text = op.text
        <5>1. op.fact # NoFact
          BY <1>4, FactsOK
        <5> HIDE DEF op, row, ids
        <5> QED BY <1>1, <2>3, <5>1, FirstIs
      <4>2. op.text = row[op.kept].text /\ p.kept.text = row[p.kept.id].text
        BY <1>1, <1>7, <1>9 DEF Undisturbed
      <4>3. /\ Topic[row[p.kept.id].text] = Topic[row[p.dropped.id].text]
            /\ Topic[row[p.kept.id].text] = Topic[row[op.kept].text] => p.kept.id = op.kept
        <5>1. op.at # "pair"
          BY <1>1
        <5>2. Paired(op, op.kept, op.old) /\ Paired(op, p.kept.id, p.dropped.id)
          BY DEF Paired
        <5> HIDE DEF op, row
        <5>3. PairsApart(op, row)
          BY <1>7, <1>9, <5>1, PairOf
        <5> QED BY <5>2, <5>3 DEF PairsApart
      <4>4. p.kept.id = op.kept
        BY <3>3, <4>1, <4>2, <4>3
      <4> QED BY <2>3, <3>3, <4>2, <4>4
    <3> QED BY <3>2, <3>3
  <2>7. Carried(n, new, ids)
    BY <1>3, <2>2, <2>3, <2>5, <2>6 DEF Carried, SameFold
  <2> QED BY <1>2, <2>1, <2>7 DEF Settles, Settled
<1> QED BY <1>8, <1>9

\* The rows of a copy after one fact is retired.
RetiredIn(row, new, f) ==
    /\ new \in [Facts -> Rows] /\ KnownIn(new) = KnownIn(row) /\ LiveIn(new) = LiveIn(row) \ {f}
    /\ \A g \in Facts : new[g].text = row[g].text /\ new[g].tags = row[g].tags

\* An expiry touches no text and no tag.
LEMMA RetiredOne ==
    ASSUME NEW row \in [Facts -> Rows], NEW f \in KnownIn(row), NEW r \in Rows,
           r.text = row[f].text, r.tags = row[f].tags, r.expired = TRUE
    PROVE  RetiredIn(row, [row EXCEPT ![f] = r], f)
<1> DEFINE new == [row EXCEPT ![f] = r]
<1>1. f \in Facts /\ row[f].text # NoText
  BY DEF KnownIn
<1>2. r.text = row[f].text /\ r.tags = row[f].tags /\ r.expired = TRUE
  OBVIOUS
<1>3. new \in [Facts -> Rows] /\ new[f] = r /\ \A g \in Facts : g # f => new[g] = row[g]
  <2> HIDE DEF Rows
  <2> QED BY <1>1, <1>2
<1>4. \A g \in Facts : new[g].text = row[g].text /\ new[g].tags = row[g].tags
  BY <1>2, <1>3
<1>5. KnownIn(new) = KnownIn(row)
  BY <1>4 DEF KnownIn
<1> HIDE DEF new
<1>6. LiveIn(new) = LiveIn(row) \ {f}
  BY <1>1, <1>2, <1>3, <1>5 DEF LiveIn, KnownIn
<1> QED BY <1>3, <1>4, <1>5, <1>6 DEF RetiredIn, new

\* The pairs that are left have both their facts; the first active row with a text stays the first.
LEMMA ExpireSettles ==
    ASSUME MemoryTypeOK, WorkOK, NEW w \in Active, Expire(w),
           Settled(work[w], facts[work[w].copy], rowids[work[w].copy])
    PROVE  Settles(w)
<1> DEFINE op == work[w]
           c == op.copy
           row == facts[c]
           new == facts'[c]
           ids == rowids[c]
           K == KnownIn(row)
<1>1. op \in Ops /\ c \in Copies /\ InPhase(op, K) /\ op.at = "expire" /\ row \in [Facts -> Rows] /\ ids \in Seq(Facts)
  BY Working DEF Expire
<1>2. /\ new = [row EXCEPT ![op.old] = [row[op.old] EXCEPT !.expired = TRUE]] /\ op.old \in K
      /\ rowids'[c] = ids
      /\ \/ work' = [work EXCEPT ![w] = NoWork]
         \/ op.by = "sweep" /\ \E n, p : Folding(w, op, n, p, K)
  BY ExpireTurns
<1>3. CASE work'[w] = NoWork
  BY <1>3 DEF Settles
<1>4. CASE work'[w] # NoWork
  <2>1. op.by = "sweep" /\ \E n, p : Folding(w, op, n, p, K)
    BY <1>2, <1>4 DEF MemoryTypeOK, Active
  <2>2. PICK n, p : Folding(w, op, n, p, K)
    BY <2>1
  <2>3. work'[w] = n
    BY <2>2 DEF Folding, Turns, Active, MemoryTypeOK
  <2>4. /\ p \in op.folds /\ n.by = "sweep" /\ n.at = "find" /\ n.then = "forget" /\ n.text = p.kept.text
        /\ n.tags = p.dropped.tags /\ n.kept = p.kept.id /\ n.old = p.dropped.id /\ n.folds = op.folds \ {p}
    BY <2>2 DEF Folding
  <2>5. /\ new \in [Facts -> Rows] /\ LiveIn(new) = LiveIn(row) \ {op.old}
        /\ \A g \in Facts : new[g].text = row[g].text /\ new[g].tags = row[g].tags
    <3> DEFINE r == [row[op.old] EXCEPT !.expired = TRUE]
    <3>1. row[op.old] \in Rows
      BY <1>1, <1>2 DEF KnownIn
    <3>2. r \in Rows /\ r.text = row[op.old].text /\ r.tags = row[op.old].tags /\ r.expired = TRUE
      BY <3>1 DEF Rows
    <3>3. new = [row EXCEPT ![op.old] = r] /\ op.old \in KnownIn(row)
      BY <1>2
    <3> HIDE DEF op, row, r
    <3>4. RetiredIn(row, [row EXCEPT ![op.old] = r], op.old)
      BY <1>1, <3>2, <3>3, RetiredOne
    <3>5. RetiredIn(row, new, op.old)
      BY <3>3, <3>4
    <3> HIDE DEF new
    <3> QED BY <3>5 DEF RetiredIn
  <2>6. Undisturbed(op, row) /\ Carried(op, row, ids)
    BY DEF Settled
  <2> DEFINE Pair(a, b) == Paired(op, a, b)
  <2>7. /\ \A a, b : Pair(a, b) => /\ a \in LiveIn(row) /\ b \in LiveIn(row)
                                   /\ Topic[row[a].text] = Topic[row[b].text]
        /\ \A a, b, d, e : Pair(a, b) /\ Pair(d, e) =>
              a # e /\ (Topic[row[a].text] = Topic[row[d].text] => a = d)
    <3>1. op.at # "pair" /\ op.by = "sweep"
      BY <1>1, <2>1
    <3> HIDE DEF op, row
    <3> QED BY <2>6, <3>1, PairOf DEF PairsApart
  <2>8. /\ \A q \in op.folds : q.kept.text = row[q.kept.id].text /\ q.dropped.id # op.old
        /\ \A q, s \in op.folds : q.dropped.id = s.dropped.id => q = s
    BY <1>1, <2>1, <2>6 DEF Undisturbed
  <2>9. \A q \in op.folds : /\ q.kept.id \in LiveIn(new) /\ q.dropped.id \in LiveIn(new)
                            /\ q.kept.id \in Facts /\ q.dropped.id \in Facts
    <3>1. \A q \in op.folds : Pair(q.kept.id, q.dropped.id) /\ Pair(op.kept, op.old)
      BY DEF Paired
    <3>2. \A q \in op.folds : q.kept.id # op.old
      <4> HIDE DEF Pair
      <4> QED BY <2>7, <3>1
    <3>3. \A q \in op.folds : q.kept.id \in LiveIn(row) /\ q.dropped.id \in LiveIn(row)
      <4> HIDE DEF Pair
      <4> QED BY <2>7, <3>1
    <3> QED BY <2>5, <2>8, <3>2, <3>3 DEF LiveIn, KnownIn
  <2>10. \A x \in Pairing(n) : \E q \in op.folds : x = <<q.kept.id, q.dropped.id>>
    BY <2>4 DEF Pairing
  <2>11. /\ \A x \in Pairing(n) : /\ x[1] \in LiveIn(new) /\ x[2] \in LiveIn(new)
                                  /\ Topic[new[x[1]].text] = Topic[new[x[2]].text]
         /\ \A x, y \in Pairing(n) : /\ x[1] # y[2]
                                     /\ Topic[new[x[1]].text] = Topic[new[y[1]].text] => x[1] = y[1]
    <3>1. \A x \in Pairing(n) : \E q \in op.folds : x[1] = q.kept.id /\ x[2] = q.dropped.id
      BY <2>10
    <3>2. \A x \in Pairing(n) : Pair(x[1], x[2]) /\ x[1] \in Facts /\ x[2] \in Facts
                                /\ x[1] \in LiveIn(new) /\ x[2] \in LiveIn(new)
      BY <2>9, <3>1 DEF Paired
    <3> HIDE DEF Pair, new, op, row
    <3>3. \A x \in Pairing(n) : Topic[row[x[1]].text] = Topic[row[x[2]].text]
      BY <2>7, <3>2
    <3>4. \A x, y \in Pairing(n) : x[1] # y[2] /\ (Topic[row[x[1]].text] = Topic[row[y[1]].text] => x[1] = y[1])
      BY <2>7, <3>2
    <3> QED BY <2>5, <3>2, <3>3, <3>4
  <2>12. \A q \in op.folds : q.kept.text = new[q.kept.id].text
    BY <2>5, <2>8, <2>9
  <2> HIDE DEF new
  <2>13. Undisturbed(n, new)
    BY <2>4, <2>8, <2>11, <2>12 DEF Undisturbed
  <2>14. ASSUME NEW q \in op.folds
         PROVE  new[q.dropped.id].tags \subseteq q.dropped.tags \/ First(new, ids, q.kept.text) = q.dropped.id
    <3>1. row[q.dropped.id].tags \subseteq q.dropped.tags \/ First(row, ids, q.kept.text) = q.dropped.id
      BY <2>1, <2>6 DEF Carried
    <3>2. First(row, ids, q.kept.text) = q.dropped.id => First(new, ids, q.kept.text) = q.dropped.id
      <4>1. LiveIn(new) \subseteq LiveIn(row) /\ (\A g \in Facts : new[g].text = row[g].text)
            /\ q.dropped.id \in LiveIn(new)
        BY <2>5, <2>9
      <4> HIDE DEF row, ids
      <4> QED BY <1>1, <2>5, <4>1, FirstStays
    <3> QED BY <2>5, <2>9, <3>1, <3>2
  <2>15. Carried(n, new, ids)
    BY <2>4, <2>14 DEF Carried
  <2> QED BY <1>2, <2>3, <2>13, <2>15 DEF Settles, Settled, new
<1> QED BY <1>3, <1>4

\* The pairs among rows that are as they were read.
PairsFresh(op, row, folds) ==
    /\ \A p \in folds : /\ p.kept.text = row[p.kept.id].text /\ p.dropped.tags = row[p.dropped.id].tags
                        /\ p.kept.id \in LiveIn(row) /\ p.dropped.id \in LiveIn(row)
                        /\ Topic[row[p.kept.id].text] = Topic[row[p.dropped.id].text]
    /\ \A p, q \in folds : /\ p.kept.id # q.dropped.id
                           /\ Topic[row[p.kept.id].text] = Topic[row[q.kept.id].text] => p.kept.id = q.kept.id
                           /\ p.dropped.id = q.dropped.id => p = q

\* A fact that is kept is dropped in no pair, and one that is dropped is dropped once.
LEMMA PairsAreFresh ==
    ASSUME NEW op, NEW row, Undisturbed(op, row), op.at = "pair", op.read \in Seq(ReadRows), NEW embedded
    PROVE  PairsFresh(op, row, Pairs(op.read, embedded))
<1> DEFINE rows == op.read
           N == 1 .. Len(rows)
           folds == Pairs(rows, embedded)
           T(i) == Topic[rows[i].row.text]
           first(i) == \A k \in N : k < i /\ rows[k].id \in embedded => T(k) # T(i)
           Is(p, i, j) == p = [at |-> <<i, j>>, kept |-> Entry(rows, i), dropped |-> Entry(rows, j)]
                          /\ i < j /\ rows[i].id \in embedded /\ rows[j].id \in embedded /\ T(i) = T(j) /\ first(i)
<1>1. Len(rows) \in Nat
  OBVIOUS
<1>2. \A i \in N : rows[i].id \in LiveIn(row) /\ rows[i].row.text = row[rows[i].id].text
                   /\ rows[i].row.tags = row[rows[i].id].tags
  BY DEF Undisturbed, Elements
<1>3. \A i, j \in N : rows[i].id = rows[j].id => i = j
  BY DEF Undisturbed
<1>4. \A p \in folds : \E i, j \in N : Is(p, i, j)
  <2>1. TAKE p \in folds
  <2>2. PICK i, j \in N :
              /\ p = [at |-> <<i, j>>, kept |-> Entry(rows, i), dropped |-> Entry(rows, j)]
              /\ i < j /\ rows[i].id \in embedded /\ rows[j].id \in embedded
              /\ Topic[rows[i].row.text] = Topic[rows[j].row.text]
              /\ \A k \in 1 .. Len(rows) :
                    k < i /\ rows[k].id \in embedded => Topic[rows[k].row.text] # Topic[rows[i].row.text]
    BY <2>1, PairsMeant
  <2> QED BY <2>2
<1>5. \A p, i, j : Is(p, i, j) => /\ p.kept.id = rows[i].id /\ p.kept.text = rows[i].row.text
                                  /\ p.dropped.id = rows[j].id /\ p.dropped.tags = rows[j].row.tags
                                  /\ i < j /\ T(i) = T(j) /\ first(i) /\ rows[i].id \in embedded
  BY DEF Entry
<1>6. \A p, q, i, j : Is(p, i, j) /\ Is(q, i, j) => p = q
  OBVIOUS
<1> HIDE DEF Is, rows, folds
<1>7. ASSUME NEW p \in folds
      PROVE  /\ p.kept.text = row[p.kept.id].text /\ p.dropped.tags = row[p.dropped.id].tags
             /\ p.kept.id \in LiveIn(row) /\ p.dropped.id \in LiveIn(row)
             /\ Topic[row[p.kept.id].text] = Topic[row[p.dropped.id].text]
  <2>1. PICK i, j \in N : Is(p, i, j)
    BY <1>4
  <2> QED BY <1>2, <1>5, <2>1
<1>8. ASSUME NEW p \in folds, NEW q \in folds
      PROVE  /\ p.kept.id # q.dropped.id
             /\ Topic[row[p.kept.id].text] = Topic[row[q.kept.id].text] => p.kept.id = q.kept.id
             /\ p.dropped.id = q.dropped.id => p = q
  <2>1. PICK i, j \in N : Is(p, i, j)
    BY <1>4
  <2>2. PICK k, l \in N : Is(q, k, l)
    BY <1>4
  <2>3. /\ p.kept.id = rows[i].id /\ p.dropped.id = rows[j].id /\ i < j /\ T(i) = T(j) /\ first(i)
        /\ q.kept.id = rows[k].id /\ q.dropped.id = rows[l].id /\ k < l /\ T(k) = T(l) /\ first(k)
        /\ rows[i].id \in embedded /\ rows[k].id \in embedded
    BY <1>5, <2>1, <2>2
  <2>4. i \in Nat /\ j \in Nat /\ k \in Nat /\ l \in Nat
    BY <1>1
  <2>5. T(i) = T(k) => i = k
    <3>1. T(i) = T(k) => ~(i < k) /\ ~(k < i)
      BY <2>3
    <3> QED BY <2>4, <3>1
  <2>6. i # l
    <3>1. SUFFICES ASSUME i = l PROVE FALSE
      OBVIOUS
    <3>2. T(i) = T(k)
      BY <2>3, <3>1
    <3> QED BY <2>3, <2>4, <2>5, <3>1, <3>2
  <2>7. p.kept.id # q.dropped.id
    BY <1>3, <2>3, <2>6
  <2>8. Topic[row[p.kept.id].text] = T(i) /\ Topic[row[q.kept.id].text] = T(k)
    BY <1>2, <2>3
  <2>9. ASSUME p.dropped.id = q.dropped.id PROVE p = q
    <3>1. j = l
      BY <1>3, <2>3, <2>9
    <3>2. T(i) = T(k)
      BY <2>3, <3>1
    <3>3. i = k
      BY <2>5, <3>2
    <3> QED BY <1>6, <2>1, <2>2, <3>1, <3>3
  <2> QED BY <2>3, <2>5, <2>7, <2>8, <2>9
<1>9. PairsFresh(op, row, folds)
  BY <1>7, <1>8 DEF PairsFresh
<1> QED BY <1>9 DEF folds, rows

\* A sweep starts on rows that are as it read them.
LEMMA PairUpSettles ==
    ASSUME MemoryTypeOK, WorkOK, NEW w \in Active, PairUp(w),
           Settled(work[w], facts[work[w].copy], rowids[work[w].copy])
    PROVE  Settles(w)
<1> DEFINE op == work[w]
           c == op.copy
           row == facts[c]
           ids == rowids[c]
           folds == Pairs(op.read, {f \in Live(op.copy) : facts[op.copy][f].vector})
           m == [op EXCEPT !.read = <<>>, !.folds = folds]
<1>1. op \in Ops /\ c \in Copies /\ op.at = "pair" /\ facts'[c] = row /\ rowids'[c] = ids
  BY Working DEF PairUp
<1>2. \/ work' = [work EXCEPT ![w] = NoWork]
      \/ \E n, p : Folding(w, m, n, p, KnownIn(row)) /\ work' = [work EXCEPT ![w] = n] /\ p \in folds /\ n.folds = folds \ {p}
  BY PairUpTurns
<1>3. CASE work' = [work EXCEPT ![w] = NoWork]
  BY <1>3 DEF Settles, MemoryTypeOK, Active
<1>4. CASE \E n, p : Folding(w, m, n, p, KnownIn(row)) /\ work' = [work EXCEPT ![w] = n] /\ p \in folds /\ n.folds = folds \ {p}
  <2>1. PICK n, p : Folding(w, m, n, p, KnownIn(row)) /\ work' = [work EXCEPT ![w] = n] /\ p \in folds /\ n.folds = folds \ {p}
    BY <1>4
  <2>2. work'[w] = n
    BY <2>1 DEF MemoryTypeOK, Active
  <2>3. /\ p \in folds /\ n.by = "sweep" /\ n.at = "find" /\ n.then = "forget" /\ n.text = p.kept.text
        /\ n.tags = p.dropped.tags /\ n.kept = p.kept.id /\ n.old = p.dropped.id /\ n.folds = folds \ {p}
    BY <2>1 DEF Folding
  <2>4. PairsFresh(op, row, folds)
    <3>1. Undisturbed(op, row) /\ op.read \in Seq(ReadRows)
      BY <1>1 DEF Settled, Ops
    <3> HIDE DEF op, row
    <3> QED BY <1>1, <3>1, PairsAreFresh
  <2> HIDE DEF folds, row, ids
  <2>5. \A x \in Pairing(n) : \E q \in folds : x = <<q.kept.id, q.dropped.id>>
    BY <2>3 DEF Pairing
  <2>6. \A x \in Pairing(n) : \E q \in folds : x[1] = q.kept.id /\ x[2] = q.dropped.id
    BY <2>5
  <2>7. /\ \A x \in Pairing(n) : /\ x[1] \in LiveIn(row) /\ x[2] \in LiveIn(row)
                                 /\ Topic[row[x[1]].text] = Topic[row[x[2]].text]
        /\ \A x, y \in Pairing(n) : /\ x[1] # y[2]
                                    /\ Topic[row[x[1]].text] = Topic[row[y[1]].text] => x[1] = y[1]
    BY <2>4, <2>6 DEF PairsFresh
  <2>8. Undisturbed(n, row)
    BY <2>3, <2>4, <2>7 DEF Undisturbed, PairsFresh
  <2>9. Carried(n, row, ids)
    BY <2>3, <2>4 DEF Carried, PairsFresh
  <2> QED BY <1>1, <2>2, <2>8, <2>9 DEF Settles, Settled
<1> QED BY <1>2, <1>3, <1>4

\* A sweep inserts nothing, and an update has the fact it inserts.
LEMMA InsertSettles ==
    ASSUME MemoryTypeOK, WorkOK, IdsOK, NEW w \in Active, Insert(w),
           Settled(work[w], facts[work[w].copy], rowids[work[w].copy])
    PROVE  Settles(w)
<1> DEFINE op == work[w]
           c == op.copy
           row == facts[c]
           f == minted + 1
           then == IF op.by = "curator" /\ op.then = "done" THEN "embed" ELSE op.then
           n == [op EXCEPT !.fact = f, !.at = "file", !.then = then]
           r == [Absent EXCEPT !.text = op.text]
<1>1. op \in Ops /\ c \in Copies /\ op.at = "insert" /\ row \in [Facts -> Rows]
  BY Working DEF Insert
<1>2. /\ facts'[c] = [row EXCEPT ![f] = r] /\ op.text \in Texts /\ f \in Facts /\ work' = [work EXCEPT ![w] = n]
  BY InsertTurns
<1>3. work'[w] = n
  BY <1>2 DEF MemoryTypeOK, Active
<1>4. op.by # "sweep"
  BY <1>1 DEF Settled, Undisturbed
<1>5. n.by = op.by /\ n.at = "file" /\ n.fact = f /\ n.text = op.text
  <2>1. then \in {"done", "replace", "forget", "import", "embed"} /\ f \in FactIDs
    BY <1>1, <1>2 DEF Ops, FactIDs
  <2> HIDE DEF then, f
  <2> QED BY <1>1, <2>1 DEF Ops
<1>6. f \in LiveIn(facts'[c]) /\ facts'[c][f].text = op.text
  <2>1. facts'[c][f] = r /\ r.text = op.text /\ r.expired = FALSE
    <3>1. r.text = op.text /\ r.expired = FALSE
      BY AbsentTyped DEF Absent
    <3> HIDE DEF r, f, row, op
    <3> QED BY <1>1, <1>2, <3>1
  <2> QED BY <1>2, <2>1, FactsOK DEF LiveIn, KnownIn
<1> HIDE DEF n
<1>7. Settled(n, facts'[c], rowids'[c])
  BY <1>4, <1>5, <1>6, NoSweepSettles
<1> QED BY <1>3, <1>7 DEF Settles

\* The other statements end an operation, or leave it with nothing to replace yet.
LEMMA OthersSettle ==
    ASSUME MemoryTypeOK, WorkOK, IdsOK, NEW w \in Active,
           SetEmbedding(w) \/ Replace(w) \/ Nearest(w) \/ IsPinned(w) \/ CuratorSupersede(w)
           \/ ImportMemory(w) \/ EndImport(w)
    PROVE  Settles(w)
<1> DEFINE op == work[w]
           c == op.copy
<1>1. op \in Ops /\ InPhase(op, KnownIn(facts[c])) /\ work \in [FactWorkers -> Ops \cup {NoWork}]
  BY Working DEF MemoryTypeOK
<1>2. ASSUME NEW n, work'[w] = n, n.by # "sweep", n.at \notin {"pair", "replace"},
             n.at \in {"file", "put"} => n.then # "replace"
      PROVE  Settles(w)
  <2>1. Settled(n, facts'[c], rowids'[c])
    BY <1>2, NoSweepSettles
  <2> QED BY <1>2, <2>1 DEF Settles
<1>3. CASE SetEmbedding(w) \/ EndImport(w)
  BY <1>1, <1>3 DEF SetEmbedding, EndImport, Turns, Settles, Active
<1>4. CASE Replace(w)
  <2>1. op.by \in {"user", "curator"}
    BY <1>1, <1>4 DEF Replace, InPhase
  <2>2. work'[w] = NoWork \/ work'[w] = [op EXCEPT !.at = "embed"]
    BY <1>1, <1>4 DEF Replace, Turns, Active
  <2>3. [op EXCEPT !.at = "embed"].by = op.by /\ [op EXCEPT !.at = "embed"].at = "embed"
    BY <1>1 DEF Ops
  <2>4. CASE work'[w] = NoWork
    BY <2>4 DEF Settles
  <2>5. CASE work'[w] = [op EXCEPT !.at = "embed"]
    BY <1>2, <2>1, <2>3, <2>5
  <2> QED BY <2>2, <2>4, <2>5
<1>5. CASE Nearest(w) \/ IsPinned(w) \/ CuratorSupersede(w)
  <2>1. op.by = "curator"
    BY <1>1, <1>5 DEF Nearest, IsPinned, CuratorSupersede, InPhase
  <2> DEFINE Onto(n) == n.by = op.by /\ n.at \in {"find", "pinned", "supersede"}
             n1 == [op EXCEPT !.at = "find"]
             n2(f) == [op EXCEPT !.old = f, !.at = "pinned"]
             n3(t) == [op EXCEPT !.text = t, !.old = NoFact, !.at = "find"]
             n4 == [op EXCEPT !.at = "supersede"]
             n5 == [op EXCEPT !.then = "replace", !.at = "find"]
             n6 == [op EXCEPT !.old = NoFact, !.at = "find"]
  <2>2. Onto(n1) /\ (\A f : Onto(n2(f))) /\ (\A t : Onto(n3(t))) /\ Onto(n4) /\ Onto(n5) /\ Onto(n6)
    BY <1>1 DEF Ops
  <2>3. \A n : Turns(w, n) => work'[w] = n
    BY <1>1 DEF Turns, Active
  <2>4. \E n : Turns(w, n) /\ Onto(n)
    <3>1. CASE Nearest(w)
      <4>1. Turns(w, n1) \/ \E f : Turns(w, n2(f))
        BY <3>1 DEF Nearest
      <4> HIDE DEF n1, n2, n3, n4, n5, n6, Onto
      <4> QED BY <2>2, <4>1
    <3>2. CASE IsPinned(w)
      <4>1. (\E t : Turns(w, n3(t))) \/ Turns(w, n4)
        BY <3>2 DEF IsPinned
      <4> HIDE DEF n1, n2, n3, n4, n5, n6, Onto
      <4> QED BY <2>2, <4>1
    <3>3. CASE CuratorSupersede(w)
      <4>1. Turns(w, n5) \/ Turns(w, n6)
        BY <3>3 DEF CuratorSupersede
      <4> HIDE DEF n1, n2, n3, n4, n5, n6, Onto
      <4> QED BY <2>2, <4>1
    <3> QED BY <1>5, <3>1, <3>2, <3>3
  <2>5. PICK n : Turns(w, n) /\ Onto(n)
    BY <2>4
  <2> QED BY <1>2, <2>1, <2>3, <2>5
<1>6. CASE ImportMemory(w)
  <2>1. op.by = "sync" /\ op.then = "import"
    BY <1>1, <1>6 DEF ImportMemory, InPhase
  <2> DEFINE n == [op EXCEPT !.read = Tail(@), !.fact = Head(op.read).id, !.tags = Head(op.read).row.tags, !.at = "file"]
  <2>2. n.by = op.by /\ n.at = "file" /\ n.then = op.then
    BY <1>1 DEF Ops
  <2>3. work'[w] = n
    BY <1>1, <1>6 DEF ImportMemory, Turns, Active
  <2> HIDE DEF n
  <2> QED BY <1>2, <2>1, <2>2, <2>3
<1> QED BY <1>3, <1>4, <1>5, <1>6

\* Every statement settles.
LEMMA StatementsSettle ==
    ASSUME MemoryInv, RowidsOK, NEW w \in Active, Statements(w),
           Settled(work[w], facts[work[w].copy], rowids[work[w].copy])
    PROVE  Settles(w)
<1> USE DEF MemoryInv
<1>1. CASE Find(w)
  BY <1>1, FindSettles
<1>2. CASE Insert(w)
  BY <1>2, InsertSettles
<1>3. CASE \E tag \in FactTags : CountChapters(w, tag)
  BY <1>3, CountChaptersSettles
<1>4. CASE PutTag(w)
  BY <1>4, PutTagSettles
<1>5. CASE Filed(w)
  BY <1>5, FiledSettles
<1>6. CASE ForgetTwin(w)
  BY <1>6, ForgetTwinSettles
<1>7. CASE Expire(w)
  BY <1>7, ExpireSettles
<1>8. CASE PairUp(w)
  BY <1>8, PairUpSettles
<1>9. CASE SetEmbedding(w) \/ Replace(w) \/ Nearest(w) \/ IsPinned(w) \/ CuratorSupersede(w)
           \/ ImportMemory(w) \/ EndImport(w)
  BY <1>9, OthersSettle
<1> QED BY <1>1, <1>2, <1>3, <1>4, <1>5, <1>6, <1>7, <1>8, <1>9 DEF Statements

\* What an operation counts on depends on the texts, the tags and the active facts alone.
LEMMA SettledSame ==
    ASSUME NEW a, NEW b, NEW row, NEW new, NEW ids \in Seq(Facts), Settled(a, row, ids), InPhase(a, KnownIn(row)),
           b.by = a.by, b.at = a.at, b.text = a.text, b.tags = a.tags, b.tag = a.tag, b.old = a.old, b.fact = a.fact,
           b.then = a.then, b.read = a.read, b.folds = a.folds, b.kept = a.kept,
           SameFacts(row, new), \A f \in Facts : new[f].tags = row[f].tags
    PROVE  Settled(b, new, ids)
<1>1. KnownIn(row) \subseteq Facts /\ LiveIn(row) \subseteq Facts
  BY DEF KnownIn, LiveIn
<1>2. \A text : First(new, ids, text) = First(row, ids, text)
  BY FirstSame DEF SameFacts
<1>3. Undisturbed(a, row) /\ Carried(a, row, ids)
  BY DEF Settled
<1>4. Pairing(b) = Pairing(a)
  BY DEF Pairing
<1>5. a.by = "sweep" => \A x \in Pairing(a) : x[1] \in Facts /\ x[2] \in Facts
  BY <1>1, <1>3 DEF Undisturbed
<1>6. Undisturbed(b, new)
  <2>1. b.at = "pair" =>
         /\ \A r \in Elements(b.read) :
               r.id \in LiveIn(new) /\ r.row.text = new[r.id].text /\ r.row.tags = new[r.id].tags
         /\ \A i, j \in 1 .. Len(b.read) : b.read[i].id = b.read[j].id => i = j
    BY <1>1, <1>3 DEF Undisturbed, SameFacts
  <2>2. b.by = "sweep" =>
         /\ \A p \in b.folds : p.kept.text = new[p.kept.id].text
         /\ b.at # "pair" => b.text = new[b.kept].text
    BY <1>1, <1>3 DEF Undisturbed, SameFacts, InPhase
  <2>3. b.by = "sweep" =>
         /\ \A x \in Pairing(b) :
               /\ x[1] \in LiveIn(new) /\ x[2] \in LiveIn(new)
               /\ Topic[new[x[1]].text] = Topic[new[x[2]].text]
         /\ \A x, y \in Pairing(b) :
               /\ x[1] # y[2]
               /\ Topic[new[x[1]].text] = Topic[new[y[1]].text] => x[1] = y[1]
    BY <1>3, <1>4, <1>5 DEF Undisturbed, SameFacts
  <2>4. b.by = "sweep" =>
         /\ \A p, q \in b.folds : p.dropped.id = q.dropped.id => p = q
         /\ b.at # "pair" => \A p \in b.folds : p.dropped.id # b.old
         /\ b.at # "insert"
    BY <1>3 DEF Undisturbed
  <2>5. /\ b.then = "replace" /\ b.at \in {"file", "put", "replace"} =>
             b.fact \in LiveIn(new) /\ new[b.fact].text = b.text
        /\ b.at = "replace" => b.fact # b.old
    BY <1>1, <1>3 DEF Undisturbed, SameFacts
  <2> QED BY <2>1, <2>2, <2>3, <2>4, <2>5 DEF Undisturbed
<1>7. Carried(b, new, ids)
  <2>1. SUFFICES ASSUME a.by = "sweep" PROVE Carried(b, new, ids)
    BY DEF Carried
  <2>2. \A p \in b.folds :
          new[p.dropped.id].tags \subseteq p.dropped.tags \/ First(new, ids, p.kept.text) = p.dropped.id
    BY <1>1, <1>2, <1>3, <2>1 DEF Carried, InPhase
  <2>3. a.at = "find" => new[a.old].tags \subseteq a.tags \/ First(new, ids, a.text) = a.old
    BY <1>1, <1>2, <1>3, <2>1 DEF Carried, InPhase
  <2>4. a.at \in {"file", "put", "forget", "expire"} =>
          /\ a.fact = First(new, ids, a.text) /\ a.fact \in Facts
          /\ new[a.old].tags \ Chapters \subseteq new[a.fact].tags \cup a.tags \cup {a.tag}
    <3>1. SUFFICES ASSUME a.at \in {"file", "put", "forget", "expire"}
                   PROVE  /\ a.fact = First(new, ids, a.text) /\ a.fact \in Facts
                          /\ new[a.old].tags \ Chapters \subseteq new[a.fact].tags \cup a.tags \cup {a.tag}
      OBVIOUS
    <3>2. a.fact = First(row, ids, a.text) /\ a.fact \in Facts /\ row[a.old].tags \ Chapters \subseteq row[a.fact].tags \cup a.tags \cup {a.tag}
      BY <1>3, <2>1, <3>1 DEF Carried
    <3>3. a.old \in Facts
      BY <1>1, <2>1, <3>1 DEF InPhase
    <3> QED BY <1>2, <3>2, <3>3
  <2> QED BY <2>1, <2>2, <2>3, <2>4 DEF Carried
<1> QED BY <1>6, <1>7 DEF Settled

\* While nothing has overlapped, no operation meets another on its copy, and each finds the rows as it left them.
CalmInv == Alone /\ RowidsOK /\ SettledOK

\* At first nobody works and no copy has a row.
LEMMA CalmInvStarts == MemoriesInit => CalmInv
<1>1. SUFFICES ASSUME MemoriesInit PROVE CalmInv
  OBVIOUS
<1>2. Active = {}
  BY <1>1 DEF MemoriesInit, Active
<1>3. \A c \in Copies : KnownIn(facts[c]) = {} /\ rowids[c] = <<>>
  BY <1>1, AbsentTyped DEF MemoriesInit, KnownIn
<1>4. RowidsOK
  BY <1>3 DEF RowidsOK, Scanned, Elements
<1> QED BY <1>2, <1>4 DEF CalmInv, Alone, SettledOK

\* A turn of one worker leaves the others' copies alone.
LEMMA TurnKeepsCalm ==
    ASSUME MemoryInv, CalmInv, NEW w \in Active, Statements(w), Turn(w)
    PROVE  CalmInv'
<1> DEFINE c == work[w].copy
<1>1. /\ w \in FactWorkers /\ c \in Copies /\ work \in [FactWorkers -> Ops \cup {NoWork}]
      /\ past'.overlapped = past.overlapped
  BY Working DEF MemoryInv, MemoryTypeOK, Turn, Active
<1>2. PICK n \in Ops \cup {NoWork} : work' = [work EXCEPT ![w] = n] /\ GoesOn(work[w], n, facts'[c])
  BY DEF Turn
<1>3. \A d \in Copies : d # c => facts'[d] = facts[d] /\ rowids'[d] = rowids[d]
  BY DEF Turn
<1>4. work'[w] = n /\ (n # NoWork => n.copy = c) /\ \A v \in FactWorkers : v # w => work'[v] = work[v]
  BY <1>1, <1>2 DEF GoesOn
<1>5. Scanned(facts[c], rowids[c]) => Scanned(facts'[c], rowids'[c])
  BY DEF Turn
<1>6. RowidsOK'
  BY <1>1, <1>3, <1>5 DEF CalmInv, RowidsOK
<1>7. \A v \in FactWorkers : work'[v] # NoWork => v \in Active /\ work'[v].copy = work[v].copy
  BY <1>1, <1>4 DEF Active
<1>8. Alone'
  BY <1>1, <1>7 DEF CalmInv, Alone, Active
<1>9. ASSUME past.overlapped = {}, NEW v \in FactWorkers, work'[v] # NoWork
      PROVE  LET d == work'[v].copy IN Settled(work'[v], facts'[d], rowids'[d])
  <2>1. v \in Active /\ work'[v].copy = work[v].copy /\ work[v].copy \in Copies
    BY <1>7, <1>9, Working DEF MemoryInv
  <2>2. Settled(work[v], facts[work[v].copy], rowids[work[v].copy])
    BY <1>9, <2>1 DEF CalmInv, SettledOK
  <2>3. CASE v = w
    <3>1. Settles(w)
      BY <2>2, <2>3, StatementsSettle DEF CalmInv
    <3> QED BY <1>9, <2>1, <2>3, <3>1 DEF Settles
  <2>4. CASE v # w
    <3>1. work[v].copy # c
      BY <1>9, <2>1, <2>4 DEF CalmInv, Alone
    <3> QED BY <1>3, <1>4, <2>1, <2>2, <2>4, <3>1
  <2> QED BY <2>3, <2>4
<1>10. SettledOK'
  BY <1>1, <1>9 DEF SettledOK, Active
<1> QED BY <1>6, <1>8, <1>10 DEF CalmInv

\* A change beside the operations disturbs none, or it overlaps one.
LEMMA AsideKeepsCalm ==
    ASSUME MemoryInv, CalmInv, NEW c, NEW f, NEW r, Aside(c, f, r)
    PROVE  CalmInv'
<1> USE DEF MemoryInv
<1>1. /\ facts'[c] \in [Facts -> Rows] /\ f \in Facts /\ facts'[c][f] = r
      /\ \A g \in Facts : g # f => facts'[c][g] = facts[c][g]
      /\ \A d \in Copies : d # c => facts'[d] = facts[d]
      /\ \A d \in Copies : /\ KnownIn(facts'[d]) = KnownIn(facts[d]) /\ LiveIn(facts'[d]) = LiveIn(facts[d])
                           /\ \A g \in Facts : facts'[d][g].text = facts[d][g].text
  BY AsideSame
<1>2. rowids' = rowids /\ past.overlapped \subseteq past'.overlapped
      /\ (r.tags # facts[c][f].tags /\ Busy(c) => c \in past'.overlapped)
  BY DEF Aside
<1>3. RowidsOK'
  BY <1>1, <1>2 DEF CalmInv, RowidsOK, Scanned
<1>4. \A v \in FactWorkers : work'[v] # NoWork => v \in Active /\ work'[v].copy = work[v].copy
  BY AsideSame DEF Active
<1>5. Alone'
  BY <1>2, <1>4 DEF CalmInv, Alone, Active
<1>6. ASSUME past'.overlapped = {}, NEW v \in FactWorkers, work'[v] # NoWork
      PROVE  LET d == work'[v].copy IN Settled(work'[v], facts'[d], rowids'[d])
  <2> DEFINE a == work[v]
             b == work'[v]
             d == a.copy
  <2>1. v \in Active /\ d \in Copies /\ InPhase(a, KnownIn(facts[d])) /\ rowids[d] \in Seq(Facts)
    BY <1>4, <1>6, Working
  <2>2. Settled(a, facts[d], rowids[d])
    BY <1>2, <1>6, <2>1 DEF CalmInv, SettledOK
  <2>3. /\ b.copy = d /\ b.by = a.by /\ b.at = a.at /\ b.text = a.text
        /\ b.tags = a.tags /\ b.tag = a.tag /\ b.old = a.old /\ b.fact = a.fact
        /\ b.then = a.then /\ b.read = a.read /\ b.folds = a.folds /\ b.kept = a.kept
    BY <1>6, <2>1, AsideSame DEF Active
  <2>4. \A g \in Facts : facts'[d][g].tags = facts[d][g].tags
    <3>1. CASE d # c
      BY <1>1, <2>1, <3>1
    <3>2. CASE d = c
      <4>1. Busy(c)
        BY <2>1, <3>2 DEF Busy, Active
      <4>2. r.tags = facts[c][f].tags
        BY <1>2, <1>6, <4>1
      <4> QED BY <1>1, <3>2, <4>2
    <3> QED BY <3>1, <3>2
  <2>5. SameFacts(facts[d], facts'[d])
    BY <1>1, <2>1 DEF SameFacts
  <2>6. Settled(b, facts'[d], rowids[d])
    <3> HIDE DEF a, b, d
    <3> QED BY <2>1, <2>2, <2>3, <2>4, <2>5, SettledSame
  <2> QED BY <1>2, <2>3, <2>6
<1>7. SettledOK'
  BY <1>6 DEF SettledOK, Active
<1> QED BY <1>3, <1>5, <1>7 DEF CalmInv

\* An operation begins on a copy where nothing is under way, or it overlaps.
LEMMA CommencesCalm ==
    ASSUME MemoryInv, CalmInv, NEW w \in FactWorkers, NEW op, NEW copies, Commences(w, op, copies)
    PROVE  CalmInv'
<1> USE DEF MemoryInv
<1>1. /\ facts' = facts /\ rowids' = rowids /\ work'[w] = op /\ op # NoWork
      /\ \A v \in FactWorkers : v # w => work'[v] = work[v]
      /\ past'.overlapped = past.overlapped \cup {c \in copies : Busy(c)}
  BY CommencesKeeps
<1>2. op \in Ops /\ op.copy \in copies /\ op.copy \in Copies /\ Fresh(op, copies)
  BY DEF Commences
<1>3. RowidsOK'
  BY <1>1 DEF CalmInv, RowidsOK
<1>4. past'.overlapped = {} => past.overlapped = {} /\ ~Busy(op.copy)
  BY <1>1, <1>2
<1>5. past'.overlapped = {} => \A v \in Active : work[v].copy # op.copy
  BY <1>4 DEF Busy, Active
<1>6. \A v \in FactWorkers : work'[v] # NoWork => v = w \/ (v \in Active /\ work'[v] = work[v])
  BY <1>1 DEF Active
<1>7. Alone'
  BY <1>1, <1>4, <1>5, <1>6 DEF CalmInv, Alone, Active
<1>8. past'.overlapped = {} => Settled(op, facts[op.copy], rowids[op.copy])
  <2> DEFINE c == op.copy
             row == facts[c]
  <2>1. CASE op.by \in {"user", "curator"} /\ op.at \in {"find", "expire", "file", "nearest"}
             /\ (op.then = "replace" => op.at = "find")
    BY <2>1, NoSweepSettles
  <2>2. CASE op.by = "sync" /\ op.at = "import"
    BY <2>2, NoSweepSettles
  <2>3. CASE op.by = "sweep" /\ op.at = "pair" /\ op.then = "done" /\ op.folds = {} /\ op.read \in RowsOf(c, Live(c))
    <3>1. Live(c) = LiveIn(row) /\ Live(c) \in SUBSET Facts
      BY <1>2, KnownLive DEF LiveIn, KnownIn
    <3> DEFINE rows == op.read
               S == Live(c)
    <3>2. rows \in RowsOf(c, S) /\ S \in SUBSET Facts /\ c \in Copies
      BY <1>2, <2>3, <3>1
    <3> HIDE DEF rows, S, c
    <3>3. /\ \A i \in 1 .. Len(rows) : rows[i].id \in S /\ rows[i].row = facts[c][rows[i].id]
          /\ \A i, j \in 1 .. Len(rows) : rows[i].id = rows[j].id => i = j
      BY <3>2, RowsOfTyped
    <3>4. \A r \in Elements(rows) : r.id \in LiveIn(row) /\ r.row.text = row[r.id].text /\ r.row.tags = row[r.id].tags
      BY <3>1, <3>3 DEF Elements, S
    <3>5. Pairing(op) = {}
      BY <2>3 DEF Pairing
    <3>6. Undisturbed(op, row)
      BY <2>3, <3>3, <3>4, <3>5 DEF Undisturbed, rows
    <3>7. Carried(op, row, rowids[c])
      BY <2>3 DEF Carried
    <3> QED BY <3>6, <3>7 DEF Settled, c
  <2> QED BY <1>2, <2>1, <2>2, <2>3 DEF Fresh
<1>9. SettledOK'
  BY <1>1, <1>4, <1>6, <1>8 DEF CalmInv, SettledOK, Active
<1> QED BY <1>3, <1>7, <1>9 DEF CalmInv

\* Each step keeps it.
LEMMA CalmInvKept == MemoryInv /\ CalmInv /\ [MemoriesNext]_memoryVars => CalmInv'
<1>1. SUFFICES ASSUME MemoryInv, CalmInv, [MemoriesNext]_memoryVars PROVE CalmInv'
  OBVIOUS
<1>2. CASE MemoriesNext
  <2>1. CASE \E w \in FactWorkers : \E op, copies : Commences(w, op, copies)
    BY <1>1, <2>1, CommencesCalm
  <2>2. CASE \E w \in Active : Statements(w) /\ Turn(w)
    BY <1>1, <2>2, TurnKeepsCalm
  <2>3. CASE \E c, f, r : Aside(c, f, r)
    BY <1>1, <2>3, AsideKeepsCalm
  <2> QED BY <1>1, <1>2, <2>1, <2>2, <2>3, MemorySteps DEF MemoryInv
<1>3. CASE UNCHANGED memoryVars
  <2>1. facts' = facts /\ rowids' = rowids /\ work' = work /\ past' = past
    BY <1>3 DEF memoryVars
  <2>2. Alone'
    BY <1>1, <2>1 DEF CalmInv, Alone, Active
  <2>3. RowidsOK'
    BY <1>1, <2>1 DEF CalmInv, RowidsOK, KnownIn
  <2>4. SettledOK'
    BY <1>1, <2>1 DEF CalmInv, SettledOK, Active
  <2> QED BY <2>2, <2>3, <2>4 DEF CalmInv
<1> QED BY <1>1, <1>2, <1>3

\* The invariant holds in every state.
LEMMA CalmInvAlways == MemoriesSpec => []CalmInv
<1>1. MemoriesInit => CalmInv
  BY CalmInvStarts
<1> QED BY <1>1, CalmInvKept, MemoryInvAlways, PTL DEF MemoriesSpec

\* A sweep retires a fact only when the fact it keeps has the tags of it, chapters aside, as long as
\* nothing overlaps and the kept fact is the first active one with its text.
THEOREM NoFoldLosesTags == MemoriesSpec => TagsFollowTheFold
<1> DEFINE Follows ==
      \A w \in FactWorkers :
          LET op == work[w]  row == facts[op.copy]
          IN  op # NoWork /\ op.at = "expire" /\ op.by = "sweep" /\ work'[w] # op
              => past.overlapped # {} \/ Twin(op.copy, row[op.kept].text) # op.kept
                 \/ row[op.old].tags \ Chapters \subseteq row[op.kept].tags
<1>1. MemoryInv /\ CalmInv => Follows
  <2>1. SUFFICES ASSUME MemoryInv, CalmInv, NEW w \in FactWorkers, work[w] # NoWork, work[w].at = "expire",
                        work[w].by = "sweep", past.overlapped = {},
                        Twin(work[w].copy, facts[work[w].copy][work[w].kept].text) = work[w].kept
                 PROVE  facts[work[w].copy][work[w].old].tags \ Chapters
                          \subseteq facts[work[w].copy][work[w].kept].tags
    OBVIOUS
  <2> DEFINE op == work[w]
             c == op.copy
             row == facts[c]
  <2>2. w \in Active
    BY <2>1 DEF Active
  <2>3. c \in Copies /\ InPhase(op, KnownIn(row)) /\ row \in [Facts -> Rows]
    BY <2>1, <2>2, Working DEF MemoryInv
  <2>4. Undisturbed(op, row) /\ Carried(op, row, rowids[c])
    BY <2>1, <2>2 DEF CalmInv, SettledOK, Settled
  <2>5. op.tags = {} /\ op.tag = NoTag /\ op.old \in KnownIn(row)
    BY <2>1, <2>3 DEF InPhase
  <2>6. op.fact = First(row, rowids[c], op.text)
        /\ row[op.old].tags \ Chapters \subseteq row[op.fact].tags \cup op.tags \cup {op.tag}
    BY <2>1, <2>4 DEF Carried
  <2>7. op.text = row[op.kept].text
    BY <2>1, <2>4 DEF Undisturbed
  <2>8. op.fact = op.kept
    BY <2>1, <2>3, <2>6, <2>7, TwinIsFirst DEF MemoryInv
  <2>9. NoTag \notin row[op.old].tags
    <3>1. row[op.old] \in Rows
      BY <2>3, <2>5, TopicOf
    <3> QED BY <3>1, FactsOK DEF Rows
  <2> QED BY <2>5, <2>6, <2>8, <2>9
<1>2. MemoryInv /\ CalmInv /\ [MemoriesNext]_memoryVars =>
        [\A w \in FactWorkers :
          LET op == work[w]  row == facts[op.copy]
          IN  op # NoWork /\ op.at = "expire" /\ op.by = "sweep" /\ work'[w] # op
              => past.overlapped # {} \/ Twin(op.copy, row[op.kept].text) # op.kept
                 \/ row[op.old].tags \ Chapters \subseteq row[op.kept].tags]_memoryVars
  BY <1>1
<1> QED BY <1>2, MemoryInvAlways, CalmInvAlways, PTL DEF MemoriesSpec, TagsFollowTheFold

-----------------------------------------------------------------------------
(* Knowledge *)

\* The rows that imports have still to bring to a copy, the facts it has or will have then,
\* and those of them that are retired.
Delivery(op, c) == IF op # NoWork /\ op.by = "sync" /\ op.copy = c THEN Elements(op.read) ELSE {}
Coming(c) == UNION {Delivery(work[w], c) : w \in FactWorkers}
Told(c) == KnownIn(facts[c]) \cup {r.id : r \in Coming(c)}
Gone(c) == (KnownIn(facts[c]) \ LiveIn(facts[c])) \cup {r.id : r \in {q \in Coming(c) : q.row.expired = TRUE}}

\* The topics of a fact, wherever it is known; each has one.
TopicsIn(all, f) == {Topic[all[c][f].text] : c \in {d \in Copies : f \in KnownIn(all[d])}}
OneText(all) ==
    \A c, d \in Copies : \A f \in KnownIn(all[c]) \cap KnownIn(all[d]) : all[c][f].text = all[d][f].text

\* A topic that no user ended has an active fact among these facts.
Kept(told, gone, all, ended) ==
    \A f \in told : TopicsIn(all, f) \subseteq ended
                    \/ \E g \in told \ gone : TopicsIn(all, f) = TopicsIn(all, g)

\* What the property asks for.
Untroubled == past.overlapped = {} /\ past.torn = {} /\ Cardinality(past.retirers) <= 1

\* The copies are in line: of two, one has retired all that the other has, and the one that
\* retires facts has retired all.  So what an import retires has a successor where it comes from.
KnowledgeOK ==
    Untroubled =>
    /\ \A c \in Copies \ past.retirers : Gone(c) = {} \/ \E r \in past.retirers : Gone(c) \subseteq Gone(r)
    /\ \A c, d \in Copies : Gone(c) \subseteq Gone(d) \/ Gone(d) \subseteq Gone(c)
    /\ \A c \in Copies : Kept(Told(c), Gone(c), facts, past.ended)

KnowledgeInv == IsFiniteSet(past.retirers) /\ KnowledgeOK

\* Texts, once known, stay.
TextsStay(all, next) ==
    \A d \in Copies : \A g \in KnownIn(all[d]) : g \in KnownIn(next[d]) /\ next[d][g].text = all[d][g].text

\* The topic of a fact can be read in any copy that knows it.
LEMMA TopicsAre ==
    ASSUME NEW all, OneText(all), NEW c \in Copies, NEW f \in KnownIn(all[c])
    PROVE  TopicsIn(all, f) = {Topic[all[c][f].text]}
BY DEF TopicsIn, OneText

\* And it does not change.
LEMMA TopicsStay ==
    ASSUME NEW all, NEW next, OneText(all), OneText(next), TextsStay(all, next),
           NEW c \in Copies, NEW f \in KnownIn(all[c])
    PROVE  TopicsIn(next, f) = TopicsIn(all, f)
<1>1. f \in KnownIn(next[c]) /\ next[c][f].text = all[c][f].text
  BY DEF TextsStay
<1>2. TopicsIn(all, f) = {Topic[all[c][f].text]} /\ TopicsIn(next, f) = {Topic[next[c][f].text]}
  BY <1>1, TopicsAre
<1> QED BY <1>1, <1>2

\* What an import has still to bring is known elsewhere.
LEMMA ToldKnown ==
    ASSUME MemoryInv, NEW c \in Copies, NEW f \in Told(c)
    PROVE  f \in Facts /\ f <= minted /\ \E d \in Copies : f \in KnownIn(facts[d])
<1>1. \E d \in Copies : f \in KnownIn(facts[d])
  <2>1. CASE f \in KnownIn(facts[c])
    BY <2>1
  <2>2. CASE \E r \in Coming(c) : f = r.id
    <3>1. PICK w \in FactWorkers : work[w] # NoWork /\ \E r \in Elements(work[w].read) : f = r.id
      BY <2>2 DEF Coming, Delivery
    <3> QED BY <3>1 DEF MemoryInv, IdsOK, Active
  <2> QED BY <2>1, <2>2 DEF Told
<1>2. PICK d \in Copies : f \in KnownIn(facts[d])
  BY <1>1
<1> QED BY <1>1, <1>2 DEF MemoryInv, IdsOK, KnownIn

\* What is to come changes with the one worker that moves.
LEMMA ComingMoves ==
    ASSUME NEW w \in FactWorkers, \A v \in FactWorkers : v # w => work'[v] = work[v], NEW c
    PROVE  \E others : Coming(c) = Delivery(work[w], c) \cup others /\ Coming(c)' = Delivery(work'[w], c) \cup others
<1> DEFINE D(v) == Delivery(work[v], c)
           E(v) == Delivery(work'[v], c)
           others == UNION {D(v) : v \in FactWorkers \ {w}}
<1>1. \A v \in FactWorkers : v # w => E(v) = D(v)
  OBVIOUS
<1>2. Coming(c) = UNION {D(v) : v \in FactWorkers} /\ Coming(c)' = UNION {E(v) : v \in FactWorkers}
  BY DEF Coming
<1> HIDE DEF D, E
<1>3. Coming(c) = D(w) \cup others /\ Coming(c)' = E(w) \cup others
  BY <1>1, <1>2
<1> QED BY <1>3 DEF D, E

\* Trouble does not pass.
LEMMA UntroubledBefore ==
    ASSUME IsFiniteSet(past.retirers), Untroubled', NEW c,
           past.overlapped \subseteq past'.overlapped, past.torn \subseteq past'.torn,
           past'.retirers \in {past.retirers, past.retirers \cup {c}}
    PROVE  Untroubled /\ (past'.retirers = past.retirers \cup {c} => past.retirers \subseteq {c})
<1> DEFINE R == past.retirers
           S == past'.retirers
<1>1. IsFiniteSet(R) /\ IsFiniteSet(S) /\ R \subseteq S
  BY FS_AddElement
<1>2. Cardinality(S) <= 1 /\ Cardinality(R) \in Nat /\ Cardinality(S) \in Nat
  BY <1>1, FS_CardinalityType DEF Untroubled
<1>3. Cardinality(R) <= Cardinality(S)
  BY <1>1, FS_Subset
<1>4. S = R \cup {c} => R \subseteq {c}
  <2>1. SUFFICES ASSUME S = R \cup {c} PROVE R \subseteq {c}
    OBVIOUS
  <2>2. c \in S /\ Cardinality(S) = 1
    <3>1. S # {}
      BY <2>1
    <3>2. Cardinality(S) # 0
      BY <1>1, <3>1, FS_EmptySet
    <3> QED BY <1>2, <2>1, <3>2
  <2>3. \E x : S = {x}
    BY <1>1, <2>2, FS_Singleton
  <2> QED BY <1>1, <2>2, <2>3
<1> QED BY <1>2, <1>3, <1>4 DEF Untroubled

\* A step that retires nothing anywhere, and brings nothing that was not to come.
Maintains ==
    /\ \A c \in Copies : Told(c)' = Told(c) /\ Gone(c)' = Gone(c)
    /\ TextsStay(facts, facts')
    /\ past'.retirers = past.retirers /\ past.ended \subseteq past'.ended
    /\ past.overlapped \subseteq past'.overlapped /\ past.torn \subseteq past'.torn

\* Such a step loses nothing.
LEMMA MaintainsKeeps ==
    ASSUME MemoryInv, KnowledgeInv, IdsOK', Maintains
    PROVE  KnowledgeInv'
<1>1. OneText(facts) /\ OneText(facts')
  BY DEF MemoryInv, IdsOK, OneText
<1>2. SUFFICES ASSUME Untroubled' PROVE KnowledgeOK'
  BY DEF KnowledgeInv, KnowledgeOK, Maintains
<1>3. Untroubled
  BY <1>2, UntroubledBefore DEF KnowledgeInv, Maintains
<1>4. ASSUME NEW c \in Copies, NEW f \in Told(c) PROVE TopicsIn(facts', f) = TopicsIn(facts, f)
  <2>1. PICK d \in Copies : f \in KnownIn(facts[d])
    BY ToldKnown
  <2> QED BY <1>1, <2>1, TopicsStay DEF Maintains
<1>5. ASSUME NEW c \in Copies PROVE Kept(Told(c)', Gone(c)', facts', past'.ended)
  <2>1. Kept(Told(c), Gone(c), facts, past.ended)
    BY <1>3 DEF KnowledgeInv, KnowledgeOK
  <2>2. Told(c)' = Told(c) /\ Gone(c)' = Gone(c) /\ past.ended \subseteq past'.ended
    BY DEF Maintains
  <2> QED BY <1>4, <2>1, <2>2 DEF Kept
<1>6. /\ \A c \in Copies \ past'.retirers : Gone(c)' = {} \/ \E r \in past'.retirers : Gone(c)' \subseteq Gone(r)'
      /\ \A c, d \in Copies : Gone(c)' \subseteq Gone(d)' \/ Gone(d)' \subseteq Gone(c)'
  <2>1. past.retirers \subseteq Copies
    BY DEF MemoryInv, MemoryTypeOK, Pasts
  <2> QED BY <1>3, <2>1 DEF KnowledgeInv, KnowledgeOK, Maintains
<1> QED BY <1>5, <1>6 DEF KnowledgeOK

\* A fact f of a copy is retired by a statement there; another active fact has its topic, or a user ended that.
RetiresOne(c, f) ==
    /\ c \in Copies /\ f \in Told(c)
    /\ \A d \in Copies : Told(d)' = Told(d) /\ (d # c => Gone(d)' = Gone(d))
    /\ Gone(c)' = Gone(c) \cup {f}
    /\ TextsStay(facts, facts')
    /\ past'.retirers = past.retirers \cup {c} /\ past.ended \subseteq past'.ended
    /\ past.overlapped \subseteq past'.overlapped /\ past.torn \subseteq past'.torn
    /\ Untroubled => \/ TopicsIn(facts, f) \subseteq past'.ended
                     \/ \E g \in Told(c) \ (Gone(c) \cup {f}) : TopicsIn(facts, f) = TopicsIn(facts, g)

\* The one copy that retires facts has retired all that any has.
LEMMA RetiresOneKeeps ==
    ASSUME MemoryInv, KnowledgeInv, IdsOK', NEW c, NEW f, RetiresOne(c, f)
    PROVE  KnowledgeInv'
<1>1. OneText(facts) /\ OneText(facts') /\ c \in Copies
  BY DEF MemoryInv, IdsOK, OneText, RetiresOne
<1>2. IsFiniteSet(past'.retirers)
  BY FS_AddElement DEF KnowledgeInv, RetiresOne
<1>3. SUFFICES ASSUME Untroubled' PROVE KnowledgeOK'
  BY <1>2 DEF KnowledgeInv, KnowledgeOK
<1>4. Untroubled /\ past.retirers \subseteq {c} /\ past'.retirers = {c}
  BY <1>3, UntroubledBefore DEF KnowledgeInv, RetiresOne
<1>5. ASSUME NEW d \in Copies, NEW g \in Told(d) PROVE TopicsIn(facts', g) = TopicsIn(facts, g)
  <2>1. PICK e \in Copies : g \in KnownIn(facts[e])
    BY ToldKnown
  <2> QED BY <1>1, <2>1, TopicsStay DEF RetiresOne
<1>6. \A d \in Copies : Gone(d) \subseteq Gone(c)
  BY <1>1, <1>4 DEF KnowledgeInv, KnowledgeOK
<1>7. \A d \in Copies : Gone(d)' \subseteq Gone(c)' /\ (d # c => Gone(d)' = Gone(d))
  BY <1>6 DEF RetiresOne
<1>8. \A d, e \in Copies : Gone(d)' \subseteq Gone(e)' \/ Gone(e)' \subseteq Gone(d)'
  <2>1. \A d, e \in Copies : Gone(d) \subseteq Gone(e) \/ Gone(e) \subseteq Gone(d)
    BY <1>4 DEF KnowledgeInv, KnowledgeOK
  <2> QED BY <1>7, <2>1
<1>9. ASSUME NEW d \in Copies PROVE Kept(Told(d)', Gone(d)', facts', past'.ended)
  <2>1. Kept(Told(d), Gone(d), facts, past.ended) /\ Told(d)' = Told(d) /\ past.ended \subseteq past'.ended
    BY <1>4 DEF KnowledgeInv, KnowledgeOK, RetiresOne
  <2>2. CASE d # c
    BY <1>5, <1>7, <2>1, <2>2 DEF Kept
  <2>3. CASE d = c
    <3>1. Gone(c)' = Gone(c) \cup {f} /\ f \in Told(c)
      BY DEF RetiresOne
    <3>2. \/ TopicsIn(facts, f) \subseteq past'.ended
          \/ \E g \in Told(c) \ (Gone(c) \cup {f}) : TopicsIn(facts, f) = TopicsIn(facts, g)
      BY <1>4 DEF RetiresOne
    <3>3. ASSUME NEW h \in Told(c)
          PROVE  \/ TopicsIn(facts, h) \subseteq past'.ended
                 \/ \E g \in Told(c) \ (Gone(c) \cup {f}) : TopicsIn(facts, h) = TopicsIn(facts, g)
      <4>1. TopicsIn(facts, h) \subseteq past.ended
            \/ \E g \in Told(c) \ Gone(c) : TopicsIn(facts, h) = TopicsIn(facts, g)
        BY <2>1, <2>3 DEF Kept
      <4>2. ASSUME NEW g \in Told(c) \ Gone(c), TopicsIn(facts, h) = TopicsIn(facts, g)
            PROVE  \/ TopicsIn(facts, h) \subseteq past'.ended
                   \/ \E k \in Told(c) \ (Gone(c) \cup {f}) : TopicsIn(facts, h) = TopicsIn(facts, k)
        <5>1. CASE g = f
          BY <3>2, <4>2, <5>1
        <5>2. CASE g # f
          BY <4>2, <5>2
        <5> QED BY <5>1, <5>2
      <4> QED BY <2>1, <4>1, <4>2
    <3>4. Told(c)' = Told(c)
      BY <2>1, <2>3
    <3> QED BY <1>1, <1>5, <2>3, <3>1, <3>3, <3>4 DEF Kept
  <2> QED BY <2>2, <2>3
<1> QED BY <1>1, <1>4, <1>7, <1>8, <1>9 DEF KnowledgeOK

\* A fact is minted in a copy, as an active one.
MintsOne(c, f) ==
    /\ c \in Copies /\ f = minted + 1
    /\ \A d \in Copies : Gone(d)' = Gone(d) /\ (d # c => Told(d)' = Told(d))
    /\ Told(c)' = Told(c) \cup {f}
    /\ TextsStay(facts, facts') /\ past' = past

\* It keeps its own topic.
LEMMA MintsOneKeeps ==
    ASSUME MemoryInv, KnowledgeInv, IdsOK', NEW c, NEW f, MintsOne(c, f)
    PROVE  KnowledgeInv'
<1>1. OneText(facts) /\ OneText(facts') /\ c \in Copies
  BY DEF MemoryInv, IdsOK, OneText, MintsOne
<1>2. past' = past
  BY DEF MintsOne
<1>3. SUFFICES ASSUME Untroubled PROVE KnowledgeOK'
  BY <1>2 DEF KnowledgeInv, KnowledgeOK, Untroubled
<1>4. ASSUME NEW d \in Copies, NEW g \in Told(d) PROVE TopicsIn(facts', g) = TopicsIn(facts, g)
  <2>1. PICK e \in Copies : g \in KnownIn(facts[e])
    BY ToldKnown
  <2> QED BY <1>1, <2>1, TopicsStay DEF MintsOne
<1>5. /\ \A d \in Copies \ past'.retirers : Gone(d)' = {} \/ \E r \in past'.retirers : Gone(d)' \subseteq Gone(r)'
      /\ \A d, e \in Copies : Gone(d)' \subseteq Gone(e)' \/ Gone(e)' \subseteq Gone(d)'
  <2>1. past.retirers \subseteq Copies
    BY DEF MemoryInv, MemoryTypeOK, Pasts
  <2> QED BY <1>2, <1>3, <2>1 DEF KnowledgeInv, KnowledgeOK, MintsOne
<1>6. Gone(c) \subseteq Told(c)
  BY DEF Gone, Told
<1>7. f \notin Gone(c)
  <2>1. minted \in Int
    BY DEF MemoryInv, MemoryTypeOK
  <2>2. \A g \in Told(c) : g <= minted
    BY <1>1, ToldKnown
  <2> QED BY <1>6, <2>1, <2>2 DEF MintsOne
<1>8. ASSUME NEW d \in Copies PROVE Kept(Told(d)', Gone(d)', facts', past'.ended)
  <2>1. Kept(Told(d), Gone(d), facts, past.ended) /\ Gone(d)' = Gone(d)
    BY <1>3 DEF KnowledgeInv, KnowledgeOK, MintsOne
  <2>2. CASE d # c
    <3>1. Told(d)' = Told(d)
      BY <2>2 DEF MintsOne
    <3> QED BY <1>2, <1>4, <2>1, <3>1 DEF Kept
  <2>3. CASE d = c
    <3>1. Told(c)' = Told(c) \cup {f}
      BY DEF MintsOne
    <3> QED BY <1>2, <1>4, <1>7, <2>1, <2>3, <3>1 DEF Kept
  <2> QED BY <2>2, <2>3
<1> QED BY <1>5, <1>8 DEF KnowledgeOK

\* The facts of one copy are to come to another one.
Learns(c, from) ==
    /\ c \in Copies /\ from \in Copies
    /\ \A d \in Copies : d # c => Told(d)' = Told(d) /\ Gone(d)' = Gone(d)
    /\ Untroubled' => Told(c)' = Told(c) \cup Told(from) /\ Gone(c)' = Gone(c) \cup Gone(from)
    /\ facts' = facts
    /\ past'.retirers = past.retirers /\ past.ended = past'.ended
    /\ past.overlapped \subseteq past'.overlapped /\ past.torn \subseteq past'.torn

\* One of the two has retired all that the other has: where a topic has lost a fact of the
\* other, it has another one.
LEMMA LearnsKeeps ==
    ASSUME MemoryInv, KnowledgeInv, NEW c, NEW from, Learns(c, from)
    PROVE  KnowledgeInv'
<1>1. c \in Copies /\ from \in Copies
  BY DEF Learns
<1>2. IsFiniteSet(past'.retirers)
  BY DEF KnowledgeInv, Learns
<1>3. SUFFICES ASSUME Untroubled' PROVE KnowledgeOK'
  BY <1>2 DEF KnowledgeInv, KnowledgeOK
<1>4. Untroubled
  BY <1>3, UntroubledBefore DEF KnowledgeInv, Learns
<1>5. /\ \A d \in Copies \ past.retirers : Gone(d) = {} \/ \E r \in past.retirers : Gone(d) \subseteq Gone(r)
      /\ \A d, e \in Copies : Gone(d) \subseteq Gone(e) \/ Gone(e) \subseteq Gone(d)
      /\ \A d \in Copies : Kept(Told(d), Gone(d), facts, past.ended)
  BY <1>4 DEF KnowledgeInv, KnowledgeOK
<1>6. Gone(c)' = Gone(c) \cup Gone(from) /\ Told(c)' = Told(c) \cup Told(from)
      /\ \A d \in Copies : d # c => Told(d)' = Told(d) /\ Gone(d)' = Gone(d)
  BY <1>3 DEF Learns
<1>7. Gone(c)' = Gone(c) \/ Gone(c)' = Gone(from)
  BY <1>1, <1>5, <1>6
<1>8. past'.retirers = past.retirers /\ past'.ended = past.ended /\ facts' = facts /\ past.retirers \subseteq Copies
  BY DEF Learns, MemoryInv, MemoryTypeOK, Pasts
<1>9. \A d, e \in Copies : Gone(d)' \subseteq Gone(e)' \/ Gone(e)' \subseteq Gone(d)'
  BY <1>1, <1>5, <1>6, <1>7
<1>10. \A d \in Copies \ past.retirers : Gone(d)' = {} \/ \E r \in past.retirers : Gone(d)' \subseteq Gone(r)'
  <2>1. \A d \in Copies : Gone(d) \subseteq Gone(d)'
    BY <1>6
  <2>2. \A d \in Copies : Gone(d) = {} \/ \E r \in past.retirers : Gone(d) \subseteq Gone(r)
    BY <1>5
  <2>3. \A d \in Copies : Gone(d)' = Gone(d) \/ Gone(d)' = Gone(from)
    BY <1>6, <1>7
  <2>4. \A d \in Copies : Gone(d)' = {} \/ \E r \in past.retirers : Gone(d)' \subseteq Gone(r)
    BY <1>1, <2>2, <2>3
  <2> QED BY <1>8, <2>1, <2>4
<1>11. Kept(Told(c) \cup Told(from), Gone(c) \cup Gone(from), facts, past.ended)
  <2>1. SUFFICES ASSUME NEW f \in Told(c) \cup Told(from), ~(TopicsIn(facts, f) \subseteq past.ended)
                 PROVE  \E g \in (Told(c) \cup Told(from)) \ (Gone(c) \cup Gone(from)) :
                          TopicsIn(facts, f) = TopicsIn(facts, g)
    BY DEF Kept
  <2>2. Gone(c) \subseteq Told(c) /\ Gone(from) \subseteq Told(from)
    BY DEF Gone, Told
  <2>3. Kept(Told(c), Gone(c), facts, past.ended) /\ Kept(Told(from), Gone(from), facts, past.ended)
    BY <1>1, <1>5
  <2>4. \A a, b \in {c, from} : Gone(a) \subseteq Gone(b) /\ f \in Told(a) =>
          \E g \in (Told(a) \cup Told(b)) \ Gone(b) : TopicsIn(facts, f) = TopicsIn(facts, g)
    BY <2>1, <2>2, <2>3 DEF Kept
  <2>5. Gone(c) \subseteq Gone(from) \/ Gone(from) \subseteq Gone(c)
    BY <1>1, <1>5
  <2>6. CASE Gone(c) \subseteq Gone(from)
    BY <2>1, <2>4, <2>6
  <2>7. CASE Gone(from) \subseteq Gone(c)
    BY <2>1, <2>4, <2>7
  <2> QED BY <2>5, <2>6, <2>7
<1>12. \A d \in Copies : Kept(Told(d)', Gone(d)', facts', past'.ended)
  BY <1>5, <1>6, <1>8, <1>11
<1> QED BY <1>8, <1>9, <1>10, <1>12 DEF KnowledgeOK

\* A statement that is not one of a stream leaves what the stream has to bring.
LEMMA StreamsGoOn ==
    ASSUME MemoryInv, NEW w \in Active, Statements(w), Turn(w), ~ImportMemory(w), ~EndImport(w), NEW d
    PROVE  Delivery(work'[w], d) = Delivery(work[w], d)
<1> DEFINE op == work[w]
           n == work'[w]
<1>1. w \in FactWorkers /\ op \in Ops /\ InPhase(op, KnownIn(facts[op.copy])) /\ op # NoWork
      /\ work \in [FactWorkers -> Ops \cup {NoWork}]
  BY Working DEF MemoryInv, Active, MemoryTypeOK
<1>2. n # NoWork => n.by = op.by /\ n.copy = op.copy
  BY <1>1 DEF Turn, GoesOn
<1>3. CASE op.by # "sync"
  BY <1>2, <1>3 DEF Delivery
<1>4. CASE op.by = "sync"
  <2>1. op.at \in {"import", "file", "put"} /\ op.then = "import"
    BY <1>1, <1>4 DEF InPhase
  <2>2. (\E tag \in FactTags : CountChapters(w, tag)) \/ PutTag(w) \/ Filed(w)
    BY <2>1 DEF Statements, Find, Insert, SetEmbedding, Replace, ForgetTwin, Expire, Nearest, IsPinned,
                CuratorSupersede, PairUp
  <2>3. \A m : Turns(w, m) => n = m
    BY <1>1 DEF Turns
  <2>4. n # NoWork /\ n.read = op.read
    <3>1. CASE \E tag \in FactTags : CountChapters(w, tag)
      <4>1. PICK tag \in FactTags : CountChapters(w, tag)
        BY <3>1
      <4> DEFINE m1 == [op EXCEPT !.tags = @ \ {tag}]
                 m2 == [op EXCEPT !.tags = @ \ {tag}, !.tag = tag, !.at = "put"]
      <4>2. n \in {m1, m2}
        BY <2>3, <4>1 DEF CountChapters
      <4>3. m1 \in Ops /\ m2 \in Ops /\ m1.read = op.read /\ m2.read = op.read
        BY <1>1 DEF Ops, Phases
      <4> HIDE DEF m1, m2
      <4> QED BY <4>2, <4>3, NoWorkIsNone
    <3>2. CASE PutTag(w)
      <4> DEFINE m == [op EXCEPT !.tag = NoTag, !.at = "file"]
      <4>1. n = m
        BY <2>3, <3>2 DEF PutTag
      <4>2. m \in Ops /\ m.read = op.read
        BY <1>1 DEF Ops, Phases
      <4> HIDE DEF m
      <4> QED BY <4>1, <4>2, NoWorkIsNone
    <3>3. CASE Filed(w)
      <4> DEFINE m == [op EXCEPT !.at = op.then]
      <4>1. n = m
        BY <2>1, <2>3, <3>3 DEF Filed, Reasserted
      <4>2. m \in Ops /\ m.read = op.read
        BY <1>1, <2>1 DEF Ops, Phases
      <4> HIDE DEF m
      <4> QED BY <4>1, <4>2, NoWorkIsNone
    <3> QED BY <2>2, <3>1, <3>2, <3>3
  <2> QED BY <1>1, <1>2, <1>4, <2>4 DEF Delivery
<1> QED BY <1>3, <1>4

\* A turn leaves the others' streams.
LEMMA TurnMoves ==
    ASSUME MemoryInv, NEW w \in Active, Turn(w)
    PROVE  /\ w \in FactWorkers /\ \A v \in FactWorkers : v # w => work'[v] = work[v]
           /\ TextsStay(facts, facts') /\ past'.overlapped = past.overlapped
           /\ work[w].copy \in Copies /\ \A d \in Copies : d # work[w].copy => facts'[d] = facts[d]
<1>1. w \in FactWorkers /\ work \in [FactWorkers -> Ops \cup {NoWork}] /\ work[w].copy \in Copies
  BY Working DEF MemoryInv, MemoryTypeOK, Active
<1>2. \A v \in FactWorkers : v # w => work'[v] = work[v]
  BY <1>1 DEF Turn
<1>3. \A d \in Copies : Onward(facts[d], facts'[d])
  BY <1>1, OnwardSame DEF Turn
<1>4. \A d \in Copies : \A g \in KnownIn(facts[d]) : g \in Facts /\ facts[d][g].text # NoText
  BY DEF KnownIn
<1>5. TextsStay(facts, facts')
  BY <1>3, <1>4 DEF TextsStay, Onward, KnownIn
<1> QED BY <1>1, <1>2, <1>5 DEF Turn

\* What is to come goes on, unless the stream moves.
LEMMA ComingGoesOn ==
    ASSUME MemoryInv, NEW w \in Active, Statements(w), Turn(w), ~ImportMemory(w), ~EndImport(w), NEW d
    PROVE  Coming(d)' = Coming(d)
<1>1. w \in FactWorkers /\ \A v \in FactWorkers : v # w => work'[v] = work[v]
  BY TurnMoves
<1>2. PICK others : Coming(d) = Delivery(work[w], d) \cup others /\ Coming(d)' = Delivery(work'[w], d) \cup others
  BY <1>1, ComingMoves, Zenon
<1>3. Delivery(work'[w], d) = Delivery(work[w], d)
  BY StreamsGoOn
<1> QED BY <1>2, <1>3

\* A fact with another tag or a vector is as active as before.
LEMMA TouchedSame ==
    ASSUME NEW row \in [Facts -> Rows], NEW f \in KnownIn(row), NEW r \in Rows,
           r.text = row[f].text, r.expired = row[f].expired
    PROVE  LET new == [row EXCEPT ![f] = r] IN KnownIn(new) = KnownIn(row) /\ LiveIn(new) = LiveIn(row)
<1> DEFINE new == [row EXCEPT ![f] = r]
<1>1. f \in Facts
  BY DEF KnownIn
<1>2. \A g \in Facts : new[g].text = row[g].text /\ new[g].expired = row[g].expired
  BY <1>1
<1> HIDE DEF new
<1> QED BY <1>2 DEF KnownIn, LiveIn, new

\* The statements that retire nothing and mint nothing.
LEMMA QuietMaintains ==
    ASSUME MemoryInv, NEW w \in Active, Statements(w), Turn(w),
           ~Insert(w), ~Replace(w), ~Expire(w), ~ImportMemory(w), ~EndImport(w)
    PROVE  Maintains
<1> DEFINE op == work[w]
           c == op.copy
           row == facts[c]
<1>1. \/ Find(w) \/ ForgetTwin(w) \/ Nearest(w) \/ IsPinned(w) \/ CuratorSupersede(w) \/ PairUp(w) \/ Filed(w)
      \/ \E tag \in FactTags : CountChapters(w, tag)
      \/ PutTag(w)
      \/ SetEmbedding(w)
  BY DEF Statements
<1>2. past' = past
  BY <1>1 DEF Find, ForgetTwin, Nearest, IsPinned, CuratorSupersede, PairUp, Filed, CountChapters, PutTag, SetEmbedding
<1>3. op \in Ops /\ c \in Copies /\ row \in [Facts -> Rows] /\ InPhase(op, KnownIn(row))
      /\ \A d \in Copies : d # c => facts'[d] = facts[d]
  BY Working, TurnMoves DEF MemoryInv
<1>4. KnownIn(facts'[c]) = KnownIn(row) /\ LiveIn(facts'[c]) = LiveIn(row)
  <2>1. CASE PutTag(w)
    <3> DEFINE f == op.fact
               r == [row[f] EXCEPT !.tags = @ \cup {op.tag}]
    <3>1. f \in KnownIn(row) /\ op.tag \in FactTags
      BY <1>3, <2>1 DEF PutTag, InPhase
    <3>2. row[f] \in Rows
      BY <1>3, <3>1 DEF KnownIn
    <3>3. r \in Rows /\ r.text = row[f].text /\ r.expired = row[f].expired
      BY <3>1, <3>2 DEF Rows
    <3>4. facts'[c] = [row EXCEPT ![f] = r]
      BY <2>1, PutTagTurns DEF MemoryInv
    <3> HIDE DEF f, r, row
    <3>5. KnownIn([row EXCEPT ![f] = r]) = KnownIn(row) /\ LiveIn([row EXCEPT ![f] = r]) = LiveIn(row)
      BY <1>3, <3>1, <3>3, TouchedSame
    <3> HIDE DEF c
    <3> QED BY <3>4, <3>5
  <2>2. CASE SetEmbedding(w)
    <3> DEFINE f == op.fact
               r == [row[f] EXCEPT !.vector = TRUE]
    <3>1. f \in KnownIn(row)
      BY <1>3, <2>2 DEF SetEmbedding, InPhase
    <3>2. row[f] \in Rows
      BY <1>3, <3>1 DEF KnownIn
    <3>3. r \in Rows /\ r.text = row[f].text /\ r.expired = row[f].expired
      BY <3>1, <3>2 DEF Rows
    <3>4. facts'[c] = [row EXCEPT ![f] = r]
      BY <2>2, SetEmbeddingTurns DEF MemoryInv
    <3> HIDE DEF f, r, row
    <3>5. KnownIn([row EXCEPT ![f] = r]) = KnownIn(row) /\ LiveIn([row EXCEPT ![f] = r]) = LiveIn(row)
      BY <1>3, <3>1, <3>3, TouchedSame
    <3> HIDE DEF c
    <3> QED BY <3>4, <3>5
  <2>3. CASE ~PutTag(w) /\ ~SetEmbedding(w)
    <3>1. facts' = facts
      BY <1>1, <2>3 DEF Find, ForgetTwin, Nearest, IsPinned, CuratorSupersede, PairUp, Filed, CountChapters
    <3> QED BY <3>1
  <2> QED BY <2>1, <2>2, <2>3
<1>5. ASSUME NEW d \in Copies PROVE Told(d)' = Told(d) /\ Gone(d)' = Gone(d)
  <2>1. Coming(d)' = Coming(d)
    BY ComingGoesOn
  <2>2. KnownIn(facts'[d]) = KnownIn(facts[d]) /\ LiveIn(facts'[d]) = LiveIn(facts[d])
    BY <1>3, <1>4
  <2> QED BY <2>1, <2>2 DEF Told, Gone
<1>6. TextsStay(facts, facts')
  BY TurnMoves
<1> QED BY <1>2, <1>5, <1>6 DEF Maintains

\* What a copy has and has lost when one of its facts is retired.
LEMMA RetiringGone ==
    ASSUME MemoryInv, NEW w \in Active, Statements(w), Turn(w), ~ImportMemory(w), ~EndImport(w),
           NEW c, c = work[w].copy, NEW f \in KnownIn(facts[c]),
           KnownIn(facts'[c]) = KnownIn(facts[c]), LiveIn(facts'[c]) = LiveIn(facts[c]) \ {f}
    PROVE  /\ \A d \in Copies : Told(d)' = Told(d) /\ (d # c => Gone(d)' = Gone(d))
           /\ Gone(c)' = Gone(c) \cup {f}
           /\ f \in Told(c) /\ c \in Copies
           /\ TextsStay(facts, facts') /\ past.overlapped \subseteq past'.overlapped
<1>1. \A d \in Copies : Coming(d)' = Coming(d)
  BY ComingGoesOn
<1>2. c \in Copies /\ (\A d \in Copies : d # c => facts'[d] = facts[d]) /\ TextsStay(facts, facts')
      /\ past'.overlapped = past.overlapped
  BY TurnMoves
<1>3. ASSUME NEW d \in Copies PROVE Told(d)' = Told(d) /\ (d # c => Gone(d)' = Gone(d))
  <2>1. KnownIn(facts'[d]) = KnownIn(facts[d]) /\ (d # c => LiveIn(facts'[d]) = LiveIn(facts[d]))
    BY <1>2
  <2> QED BY <1>1, <2>1 DEF Told, Gone
<1>4. Gone(c)' = Gone(c) \cup {f}
  <2>1. Coming(c)' = Coming(c) /\ f \in KnownIn(facts[c])
    BY <1>1, <1>2
  <2> QED BY <2>1 DEF Gone
<1> QED BY <1>2, <1>3, <1>4 DEF Told

\* While nothing overlaps, the copy of an operation that is no import has nothing to come.
LEMMA NothingComes ==
    ASSUME MemoryInv, Alone, past.overlapped = {}, NEW w \in Active, work[w].by # "sync", NEW c, c = work[w].copy
    PROVE  Told(c) = KnownIn(facts[c]) /\ Gone(c) = KnownIn(facts[c]) \ LiveIn(facts[c])
<1>1. \A v \in FactWorkers : Delivery(work[v], c) = {}
  BY DEF Delivery, Alone, Active
<1>2. Coming(c) = {}
  BY <1>1 DEF Coming
<1> QED BY <1>2 DEF Told, Gone

\* The update of Supersede: the new fact is active, and a topic that goes with the old one the user ended.
LEMMA ReplaceRetires ==
    ASSUME MemoryInv, CalmInv, NEW w \in Active, Statements(w), Replace(w)
    PROVE  \E c, f : RetiresOne(c, f)
<1> USE DEF MemoryInv
<1>1. PICK c \in Copies : c = work[w].copy
  BY Working
<1>2. PICK op : op = work[w]
  OBVIOUS
<1> DEFINE row == facts[c]
           new == facts'[c]
           f == op.old
           r == [row[f] EXCEPT !.expired = TRUE, !.by = op.fact]
<1>3. /\ Turn(w) /\ new = [row EXCEPT ![f] = r]
      /\ f \in KnownIn(row) /\ op.fact \in KnownIn(row) /\ op.text \in Texts
      /\ past'.retirers = past.retirers \cup {c} /\ past'.torn = past.torn
      /\ past'.ended = past.ended \cup ({Topic[row[f].text]} \ {Topic[op.text]})
  BY <1>1, <1>2, ReplaceTurns
<1>4. op \in Ops /\ InPhase(op, KnownIn(row)) /\ op.at = "replace" /\ row \in [Facts -> Rows]
  BY <1>1, <1>2, Working DEF Replace
<1>5. RetiredIn(row, new, f)
  <2>1. row[f] \in Rows /\ op.fact \in FactIDs
    BY <1>3, <1>4 DEF KnownIn, Ops
  <2>2. r \in Rows /\ r.text = row[f].text /\ r.tags = row[f].tags /\ r.expired = TRUE
    BY <2>1 DEF Rows
  <2> HIDE DEF r, f, row, new
  <2>3. RetiredIn(row, [row EXCEPT ![f] = r], f)
    BY <1>3, <1>4, <2>2, RetiredOne
  <2> QED BY <1>3, <2>3
<1>6. op.by # "sync" /\ op.then = "replace"
  BY <1>4 DEF InPhase
<1>7. /\ \A d \in Copies : Told(d)' = Told(d) /\ (d # c => Gone(d)' = Gone(d))
      /\ Gone(c)' = Gone(c) \cup {f}
      /\ f \in Told(c) /\ TextsStay(facts, facts') /\ past.overlapped \subseteq past'.overlapped
  <2>1. ~ImportMemory(w) /\ ~EndImport(w)
    BY <1>2, <1>4 DEF ImportMemory, EndImport
  <2>2. KnownIn(new) = KnownIn(row) /\ LiveIn(new) = LiveIn(row) \ {f}
    BY <1>5 DEF RetiredIn
  <2> HIDE DEF f
  <2> QED BY <1>1, <1>3, <2>1, <2>2, RetiringGone
<1>8. ASSUME Untroubled
      PROVE  \/ TopicsIn(facts, f) \subseteq past'.ended
             \/ \E g \in Told(c) \ (Gone(c) \cup {f}) : TopicsIn(facts, f) = TopicsIn(facts, g)
  <2>1. past.overlapped = {} /\ Alone
    BY <1>8 DEF Untroubled, CalmInv
  <2>2. Told(c) = KnownIn(row) /\ Gone(c) = KnownIn(row) \ LiveIn(row)
    BY <1>1, <1>2, <1>6, <2>1, NothingComes
  <2>3. Undisturbed(op, row)
    BY <1>1, <1>2, <2>1 DEF CalmInv, SettledOK, Settled
  <2>4. op.fact \in LiveIn(row) /\ row[op.fact].text = op.text /\ op.fact # f
    BY <1>4, <1>6, <2>3 DEF Undisturbed
  <2>5. TopicsIn(facts, f) = {Topic[row[f].text]} /\ TopicsIn(facts, op.fact) = {Topic[row[op.fact].text]}
    <3>1. OneText(facts)
      BY DEF IdsOK, OneText
    <3> QED BY <1>3, <3>1, TopicsAre
  <2>6. op.fact \in Told(c) \ (Gone(c) \cup {f})
    BY <1>3, <2>2, <2>4
  <2>7. CASE Topic[row[f].text] = Topic[op.text]
    BY <2>4, <2>5, <2>6, <2>7
  <2>8. CASE Topic[row[f].text] # Topic[op.text]
    BY <1>3, <2>5, <2>8
  <2> QED BY <2>7, <2>8
<1>9. RetiresOne(c, f)
  BY <1>1, <1>3, <1>7, <1>8 DEF RetiresOne
<1> QED BY <1>9

\* The expiry: a sweep keeps a near fact, and whoever forgets a fact ends its topic.
LEMMA ExpireRetires ==
    ASSUME MemoryInv, CalmInv, NEW w \in Active, Statements(w), Expire(w)
    PROVE  \E c, f : RetiresOne(c, f)
<1> USE DEF MemoryInv
<1>1. PICK c \in Copies : c = work[w].copy
  BY Working
<1>2. PICK op : op = work[w]
  OBVIOUS
<1> DEFINE row == facts[c]
           new == facts'[c]
           f == op.old
           r == [row[f] EXCEPT !.expired = TRUE]
<1>3. /\ Turn(w) /\ new = [row EXCEPT ![f] = r] /\ f \in KnownIn(row)
      /\ past'.retirers = past.retirers \cup {c} /\ past'.torn = past.torn
      /\ past'.ended = past.ended \cup IF op.by = "sweep" THEN {} ELSE {Topic[row[f].text]}
  BY <1>1, <1>2, ExpireTurns
<1>4. op \in Ops /\ InPhase(op, KnownIn(row)) /\ op.at = "expire" /\ row \in [Facts -> Rows]
  BY <1>1, <1>2, Working DEF Expire
<1>5. RetiredIn(row, new, f)
  <2>1. row[f] \in Rows
    BY <1>3, <1>4 DEF KnownIn
  <2>2. r \in Rows /\ r.text = row[f].text /\ r.tags = row[f].tags /\ r.expired = TRUE
    BY <2>1 DEF Rows
  <2> HIDE DEF r, f, row, new
  <2>3. RetiredIn(row, [row EXCEPT ![f] = r], f)
    BY <1>3, <1>4, <2>2, RetiredOne
  <2> QED BY <1>3, <2>3
<1>6. op.by # "sync"
  BY <1>4 DEF InPhase
<1>7. /\ \A d \in Copies : Told(d)' = Told(d) /\ (d # c => Gone(d)' = Gone(d))
      /\ Gone(c)' = Gone(c) \cup {f}
      /\ f \in Told(c) /\ TextsStay(facts, facts') /\ past.overlapped \subseteq past'.overlapped
  <2>1. ~ImportMemory(w) /\ ~EndImport(w)
    BY <1>2, <1>4 DEF ImportMemory, EndImport
  <2>2. KnownIn(new) = KnownIn(row) /\ LiveIn(new) = LiveIn(row) \ {f}
    BY <1>5 DEF RetiredIn
  <2>3. Turn(w) /\ f \in KnownIn(row)
    BY <1>3
  <2> HIDE DEF f, new, row
  <2>4. c = work[w].copy /\ f \in KnownIn(facts[c]) /\ KnownIn(facts'[c]) = KnownIn(facts[c])
        /\ LiveIn(facts'[c]) = LiveIn(facts[c]) \ {f}
    BY <1>1, <2>2, <2>3 DEF new, row
  <2> QED BY <2>1, <2>3, <2>4, RetiringGone
<1>8. ASSUME Untroubled
      PROVE  \/ TopicsIn(facts, f) \subseteq past'.ended
             \/ \E g \in Told(c) \ (Gone(c) \cup {f}) : TopicsIn(facts, f) = TopicsIn(facts, g)
  <2>1. past.overlapped = {} /\ Alone
    BY <1>8 DEF Untroubled, CalmInv
  <2>2. Told(c) = KnownIn(row) /\ Gone(c) = KnownIn(row) \ LiveIn(row)
    BY <1>1, <1>2, <1>6, <2>1, NothingComes
  <2>3. Undisturbed(op, row)
    BY <1>1, <1>2, <2>1 DEF CalmInv, SettledOK, Settled
  <2>4. OneText(facts)
    BY DEF IdsOK, OneText
  <2>5. TopicsIn(facts, f) = {Topic[row[f].text]}
    BY <1>3, <2>4, TopicsAre
  <2>6. CASE op.by # "sweep"
    BY <1>3, <2>5, <2>6
  <2>7. CASE op.by = "sweep"
    <3>1. PairsApart(op, row)
      BY <1>4, <2>3, <2>7, PairOf
    <3>2. Paired(op, op.kept, f)
      BY DEF Paired
    <3>3. op.kept \in LiveIn(row) /\ Topic[row[op.kept].text] = Topic[row[f].text] /\ op.kept # f
      BY <3>1, <3>2 DEF PairsApart
    <3>4. TopicsIn(facts, op.kept) = {Topic[row[op.kept].text]}
      <4>1. op.kept \in KnownIn(facts[c])
        BY <3>3 DEF LiveIn
      <4> QED BY <1>1, <2>4, <4>1, TopicsAre
    <3>5. op.kept \in Told(c) \ (Gone(c) \cup {f})
      BY <2>2, <3>3 DEF LiveIn
    <3> QED BY <2>5, <3>3, <3>4, <3>5
  <2> QED BY <2>6, <2>7
<1>9. RetiresOne(c, f)
  BY <1>1, <1>3, <1>7, <1>8 DEF RetiresOne
<1> QED BY <1>9

\* The insert: the fact is active, and nothing else changes.
LEMMA InsertMints ==
    ASSUME MemoryInv, NEW w \in Active, Statements(w), Insert(w)
    PROVE  \E c, f : MintsOne(c, f)
<1> USE DEF MemoryInv
<1>1. PICK c \in Copies : c = work[w].copy
  BY Working
<1>2. PICK op : op = work[w]
  OBVIOUS
<1> DEFINE row == facts[c]
           new == facts'[c]
           f == minted + 1
           r == [Absent EXCEPT !.text = op.text]
<1>3. /\ Turn(w) /\ new = [row EXCEPT ![f] = r] /\ op.text \in Texts
      /\ f \in Facts /\ past' = past
  BY <1>1, <1>2, InsertTurns
<1>4. row \in [Facts -> Rows] /\ op.at = "insert"
  BY <1>1, <1>2, Working DEF Insert
<1>5. r.text = op.text /\ r.expired = FALSE /\ op.text # NoText
  BY <1>3, FactsOK DEF Absent
<1>6. f \notin KnownIn(row)
  <2>1. minted \in Int /\ \A g \in KnownIn(facts[c]) : g <= minted
    BY DEF IdsOK, MemoryTypeOK
  <2> QED BY <2>1
<1>7. KnownIn(new) = KnownIn(row) \cup {f} /\ LiveIn(new) = LiveIn(row) \cup {f}
  <2>1. new[f] = r /\ \A g \in Facts : g # f => new[g] = row[g]
    BY <1>3, <1>4
  <2> HIDE DEF new, r, f
  <2>2. KnownIn(new) = KnownIn(row) \cup {f}
    BY <1>3, <1>5, <2>1 DEF KnownIn
  <2> QED BY <1>3, <1>5, <1>6, <2>1, <2>2 DEF LiveIn, KnownIn
<1>8. \A d \in Copies : Coming(d)' = Coming(d)
  <2>1. ~ImportMemory(w) /\ ~EndImport(w)
    BY <1>2, <1>4 DEF ImportMemory, EndImport
  <2> QED BY <1>3, <2>1, ComingGoesOn
<1>9. TextsStay(facts, facts') /\ \A d \in Copies : d # c => facts'[d] = facts[d]
  BY <1>1, <1>3, TurnMoves
<1>10. \A d \in Copies : Gone(d)' = Gone(d) /\ (d # c => Told(d)' = Told(d))
  <2>1. LiveIn(row) \subseteq KnownIn(row)
    BY DEF LiveIn
  <2>2. KnownIn(new) \ LiveIn(new) = KnownIn(row) \ LiveIn(row)
    BY <1>6, <1>7, <2>1
  <2> HIDE DEF f
  <2> QED BY <1>8, <1>9, <2>2 DEF Gone, Told
<1>11. Told(c)' = Told(c) \cup {f}
  <2>1. Coming(c)' = Coming(c)
    BY <1>1, <1>8
  <2> HIDE DEF f
  <2> QED BY <1>7, <2>1 DEF Told
<1>12. MintsOne(c, f)
  BY <1>1, <1>3, <1>9, <1>10, <1>11 DEF MintsOne
<1> QED BY <1>12

\* A record is imported: it was to come, and it comes as it is, or as retired as the copy had it.
LEMMA ImportMaintains ==
    ASSUME MemoryInv, NEW w \in Active, Statements(w), ImportMemory(w)
    PROVE  Maintains
<1> USE DEF MemoryInv
<1>1. PICK c \in Copies : c = work[w].copy
  BY Working
<1>2. PICK op : op = work[w]
  OBVIOUS
<1>3. Turn(w) /\ past' = past
  BY ImportTurns
<1>4. PICK in, r : Imports(w, in, r)
  BY ImportTurns
<1> DEFINE row == facts[c]
           new == facts'[c]
           f == in.id
           known == f \in KnownIn(row)
           rest == Elements(Tail(op.read))
           n == [op EXCEPT !.read = Tail(@), !.fact = in.id, !.tags = in.row.tags, !.at = "file"]
<1>5. op \in Ops /\ w \in FactWorkers /\ row \in [Facts -> Rows] /\ work \in [FactWorkers -> Ops \cup {NoWork}]
      /\ op # NoWork /\ op.copy = c
  BY <1>1, <1>2, Working DEF MemoryTypeOK, Active
<1>6. /\ in \in ReadRows /\ in.row.text \in Texts /\ r \in Rows /\ r.text = in.row.text
      /\ r.expired = TRUE <=> in.row.expired = TRUE \/ (known /\ row[f].expired = TRUE)
      /\ known => row[f].text = in.row.text
      /\ new = [row EXCEPT ![f] = r] /\ op.by = "sync" /\ Elements(op.read) = {in} \cup rest
      /\ work' = [work EXCEPT ![w] = n]
  BY <1>1, <1>2, <1>4 DEF Imports
<1>7. f \in Facts /\ in.row.text # NoText
  BY <1>6, FactsOK DEF ReadRows
<1>8. new[f] = r /\ \A g \in Facts : g # f => new[g] = row[g]
  BY <1>5, <1>6, <1>7
<1>9. KnownIn(new) = KnownIn(row) \cup {f}
  <2> HIDE DEF new, row, f
  <2> QED BY <1>6, <1>7, <1>8 DEF KnownIn
<1>10. KnownIn(new) \ LiveIn(new) = (KnownIn(row) \ LiveIn(row)) \cup (IF in.row.expired = TRUE THEN {f} ELSE {})
  <2> HIDE DEF new, row, f
  <2> QED BY <1>6, <1>7, <1>8, <1>9 DEF KnownIn, LiveIn
<1>11. \A d : Delivery(work[w], d) = (IF d = c THEN {in} \cup rest ELSE {})
  BY <1>2, <1>5, <1>6 DEF Delivery
<1>12. \A d : Delivery(work'[w], d) = IF d = c THEN rest ELSE {}
  <2>1. n \in Ops
    <3>1. Tail(op.read) \in Seq(ReadRows) /\ op.read # <<>>
      <4>1. op.read # <<>> /\ op.read \in Seq(ReadRows)
        BY <1>2, <1>5 DEF ImportMemory, Ops
      <4> QED BY <4>1, HeadTail
    <3>2. in.id \in FactIDs /\ in.row.tags \in SUBSET FactTags
      BY <1>6 DEF ReadRows, Rows, FactIDs
    <3> QED BY <1>5, <3>1, <3>2 DEF Ops, Phases
  <2>2. n.by = "sync" /\ n.copy = c /\ n.read = Tail(op.read)
    BY <1>5, <1>6 DEF Ops
  <2>3. work'[w] = n
    BY <1>5, <1>6
  <2> HIDE DEF n
  <2> QED BY <2>1, <2>2, <2>3, NoWorkIsNone DEF Delivery
<1>13. (\A v \in FactWorkers : v # w => work'[v] = work[v]) /\ TextsStay(facts, facts')
       /\ \A d \in Copies : d # c => facts'[d] = facts[d]
  BY <1>1, <1>3, TurnMoves
<1>14. ASSUME NEW d \in Copies PROVE Told(d)' = Told(d) /\ Gone(d)' = Gone(d)
  <2>1. PICK others : Coming(d) = Delivery(work[w], d) \cup others /\ Coming(d)' = Delivery(work'[w], d) \cup others
    BY <1>5, <1>13, ComingMoves, Zenon
  <2>2. CASE d # c
    <3>1. Coming(d)' = Coming(d)
      BY <1>11, <1>12, <2>1, <2>2
    <3> QED BY <1>13, <2>2, <3>1 DEF Told, Gone
  <2>3. CASE d = c
    <3> DEFINE before == {in} \cup rest \cup others
               after == rest \cup others
    <3>1. Coming(c) = before /\ Coming(c)' = after
      BY <1>11, <1>12, <2>1, <2>3
    <3> HIDE DEF rest
    <3>2. {q.id : q \in before} = {f} \cup {q.id : q \in after}
      OBVIOUS
    <3>3. {q.id : q \in {p \in before : p.row.expired = TRUE}}
            = (IF in.row.expired = TRUE THEN {f} ELSE {}) \cup {q.id : q \in {p \in after : p.row.expired = TRUE}}
      OBVIOUS
    <3>4. Told(c) = KnownIn(row) \cup {q.id : q \in before} /\ Told(c)' = KnownIn(new) \cup {q.id : q \in after}
      BY <3>1 DEF Told
    <3>5. /\ Gone(c) = (KnownIn(row) \ LiveIn(row)) \cup {q.id : q \in {p \in before : p.row.expired = TRUE}}
          /\ Gone(c)' = (KnownIn(new) \ LiveIn(new)) \cup {q.id : q \in {p \in after : p.row.expired = TRUE}}
      BY <3>1 DEF Gone
    <3> HIDE DEF before, after, f, row, new
    <3>6. Told(c)' = Told(c)
      BY <1>9, <3>2, <3>4
    <3>7. Gone(c)' = Gone(c)
      BY <1>10, <3>3, <3>5
    <3> QED BY <2>3, <3>6, <3>7
  <2> QED BY <2>2, <2>3
<1> QED BY <1>3, <1>13, <1>14 DEF Maintains

\* A stream that ends has brought all, or it is torn.
LEMMA EndImportKeeps ==
    ASSUME MemoryInv, KnowledgeInv, IdsOK', NEW w \in Active, Statements(w), EndImport(w)
    PROVE  KnowledgeInv'
<1> USE DEF MemoryInv
<1>1. /\ Turn(w) /\ work' = [work EXCEPT ![w] = NoWork] /\ facts' = facts
      /\ past'.ended = past.ended /\ past'.retirers = past.retirers
      /\ past'.torn = past.torn \cup IF work[w].read = <<>> THEN {} ELSE {work[w].copy}
  BY EndImportTurns
<1>2. CASE work[w].read # <<>>
  <2>1. past'.torn # {}
    BY <1>1, <1>2
  <2> QED BY <1>1, <2>1 DEF KnowledgeInv, KnowledgeOK, Untroubled
<1>3. CASE work[w].read = <<>>
  <2>1. w \in FactWorkers /\ work'[w] = NoWork /\ \A v \in FactWorkers : v # w => work'[v] = work[v]
    BY <1>1, TurnMoves DEF MemoryTypeOK
  <2>2. \A d : Delivery(work[w], d) = {} /\ Delivery(work'[w], d) = {}
    BY <1>3, <2>1 DEF Delivery, Elements
  <2>3. ASSUME NEW d \in Copies PROVE Told(d)' = Told(d) /\ Gone(d)' = Gone(d)
    <3>1. PICK others : Coming(d) = Delivery(work[w], d) \cup others /\ Coming(d)' = Delivery(work'[w], d) \cup others
      BY <2>1, ComingMoves, Zenon
    <3>2. Coming(d)' = Coming(d)
      BY <2>2, <3>1
    <3> QED BY <1>1, <3>2 DEF Told, Gone
  <2>4. TextsStay(facts, facts') /\ past'.overlapped = past.overlapped
    BY <1>1, TurnMoves
  <2>5. Maintains
    BY <1>1, <1>3, <2>3, <2>4 DEF Maintains
  <2> QED BY <2>5, MaintainsKeeps
<1> QED BY <1>2, <1>3

\* A copy on which nothing is under way has nothing to come.
LEMMA IdleTold ==
    ASSUME NEW c \in Copies, ~Busy(c)
    PROVE  Coming(c) = {} /\ Told(c) = KnownIn(facts[c]) /\ Gone(c) = KnownIn(facts[c]) \ LiveIn(facts[c])
<1>1. \A v \in FactWorkers : Delivery(work[v], c) = {}
  BY DEF Delivery, Busy
<1>2. Coming(c) = {}
  BY <1>1 DEF Coming
<1> QED BY <1>2 DEF Told, Gone

\* An import begins with all that the other copy knows; other operations bring nothing.
LEMMA CommencesKeepsKnowledge ==
    ASSUME MemoryInv, KnowledgeInv, NEW w \in FactWorkers, NEW op, NEW copies, Commences(w, op, copies)
    PROVE  KnowledgeInv'
<1> USE DEF MemoryInv
<1>1. /\ IdsOK' /\ facts' = facts /\ work[w] = NoWork /\ work'[w] = op /\ op # NoWork
      /\ \A v \in FactWorkers : v # w => work'[v] = work[v]
      /\ past'.overlapped = past.overlapped \cup {c \in copies : Busy(c)}
      /\ past'.ended = past.ended /\ past'.retirers = past.retirers /\ past'.torn = past.torn
  BY CommencesKeeps
<1>2. op \in Ops /\ op.copy \in Copies /\ Fresh(op, copies)
  BY DEF Commences, Ops
<1>3. \A d : Delivery(work[w], d) = {}
  BY <1>1 DEF Delivery
<1>4. \A d : \E others : Coming(d) = others /\ Coming(d)' = Delivery(op, d) \cup others
  <2> TAKE d
  <2>1. PICK others : Coming(d) = Delivery(work[w], d) \cup others /\ Coming(d)' = Delivery(work'[w], d) \cup others
    BY <1>1, ComingMoves, Zenon
  <2> QED BY <1>1, <1>3, <2>1
<1>5. \A d \in Copies : Delivery(op, d) = {} => Told(d)' = Told(d) /\ Gone(d)' = Gone(d)
  <2> TAKE d \in Copies
  <2>1. Delivery(op, d) = {} => Coming(d)' = Coming(d)
    BY <1>4
  <2> QED BY <1>1, <2>1 DEF Told, Gone
<1>6. TextsStay(facts, facts')
  BY <1>1 DEF TextsStay
<1>7. CASE op.by # "sync"
  <2>1. \A d : Delivery(op, d) = {}
    BY <1>7 DEF Delivery
  <2>2. Maintains
    BY <1>1, <1>5, <1>6, <2>1 DEF Maintains
  <2> QED BY <1>1, <2>2, MaintainsKeeps
<1>8. CASE op.by = "sync"
  <2>1. PICK from \in Copies : copies = {from, op.copy} /\ op.read \in RowsOf(from, Known(from))
    BY <1>2, <1>8 DEF Fresh
  <2>2. PICK c \in Copies : c = op.copy
    BY <1>2
  <2> DEFINE rows == op.read
  <2>3. /\ \A i \in 1 .. Len(rows) : rows[i].id \in KnownIn(facts[from]) /\ rows[i].row = facts[from][rows[i].id]
        /\ \A f \in KnownIn(facts[from]) : \E i \in 1 .. Len(rows) : rows[i].id = f
    <3>1. Known(from) = KnownIn(facts[from]) /\ Known(from) \in SUBSET Facts
      BY <2>1, KnownLive DEF KnownIn
    <3>2. rows \in RowsOf(from, Known(from))
      BY <2>1
    <3> HIDE DEF rows
    <3> QED BY <3>1, <3>2, RowsOfTyped
  <2>4. \A d \in Copies : d # c => Delivery(op, d) = {}
    BY <2>2 DEF Delivery
  <2>5. Delivery(op, c) = Elements(rows)
    BY <1>1, <1>8, <2>2 DEF Delivery
  <2> HIDE DEF rows
  <2>6. ASSUME Untroubled' PROVE Told(c)' = Told(c) \cup Told(from) /\ Gone(c)' = Gone(c) \cup Gone(from)
    <3>1. ~Busy(c) /\ ~Busy(from)
      BY <1>1, <2>1, <2>2, <2>6 DEF Untroubled
    <3>2. /\ Coming(c) = {} /\ Told(c) = KnownIn(facts[c]) /\ Gone(c) = KnownIn(facts[c]) \ LiveIn(facts[c])
          /\ Told(from) = KnownIn(facts[from]) /\ Gone(from) = KnownIn(facts[from]) \ LiveIn(facts[from])
      BY <3>1, IdleTold
    <3>3. Coming(c)' = Elements(rows)
      BY <1>4, <2>5, <3>2
    <3>4. {r.id : r \in Elements(rows)} = KnownIn(facts[from])
      <4>1. \A r \in Elements(rows) : r.id \in KnownIn(facts[from])
        BY <2>3 DEF Elements
      <4>2. \A f \in KnownIn(facts[from]) : \E r \in Elements(rows) : r.id = f
        BY <2>3 DEF Elements
      <4> QED BY <4>1, <4>2
    <3>5. {r.id : r \in {q \in Elements(rows) : q.row.expired = TRUE}} = KnownIn(facts[from]) \ LiveIn(facts[from])
      <4>1. \A q \in Elements(rows) : q.id \in KnownIn(facts[from]) /\ q.row = facts[from][q.id]
        BY <2>3 DEF Elements
      <4>2. \A f \in KnownIn(facts[from]) : \E q \in Elements(rows) : q.id = f
        BY <2>3 DEF Elements
      <4>3. KnownIn(facts[from]) \ LiveIn(facts[from]) = {f \in KnownIn(facts[from]) : facts[from][f].expired = TRUE}
        BY DEF LiveIn
      <4> QED BY <4>1, <4>2, <4>3
    <3> QED BY <1>1, <3>2, <3>3, <3>4, <3>5 DEF Told, Gone
  <2>7. Learns(c, from)
    BY <1>1, <1>5, <2>4, <2>6 DEF Learns
  <2> QED BY <2>7, LearnsKeeps
<1> QED BY <1>7, <1>8

\* A change beside the operations retires nothing.
LEMMA AsideKeepsKnowledge ==
    ASSUME MemoryInv, KnowledgeInv, IdsOK', NEW c, NEW f, NEW r, Aside(c, f, r)
    PROVE  KnowledgeInv'
<1> USE DEF MemoryInv
<1>1. \A d \in Copies : /\ KnownIn(facts'[d]) = KnownIn(facts[d]) /\ LiveIn(facts'[d]) = LiveIn(facts[d])
                        /\ \A g \in Facts : facts'[d][g].text = facts[d][g].text
  BY AsideSame
<1>2. past'.ended = past.ended /\ past'.retirers = past.retirers /\ past'.torn = past.torn
      /\ past.overlapped \subseteq past'.overlapped
  BY DEF Aside
<1>3. ASSUME NEW v \in FactWorkers, NEW d PROVE Delivery(work'[v], d) = Delivery(work[v], d)
  <2>1. /\ work'[v] = NoWork <=> work[v] = NoWork
        /\ work[v] # NoWork => /\ work'[v].copy = work[v].copy /\ work'[v].by = work[v].by
                               /\ work'[v].read = work[v].read
    BY AsideSame
  <2> QED BY <2>1 DEF Delivery
<1>4. ASSUME NEW d \in Copies PROVE Told(d)' = Told(d) /\ Gone(d)' = Gone(d)
  <2>1. Coming(d)' = Coming(d)
    <3> DEFINE D(v) == Delivery(work[v], d)
               E(v) == Delivery(work'[v], d)
    <3>1. \A v \in FactWorkers : E(v) = D(v)
      BY <1>3
    <3>2. Coming(d) = UNION {D(v) : v \in FactWorkers} /\ Coming(d)' = UNION {E(v) : v \in FactWorkers}
      BY DEF Coming
    <3> HIDE DEF D, E
    <3> QED BY <3>1, <3>2
  <2> QED BY <1>1, <2>1 DEF Told, Gone
<1>5. TextsStay(facts, facts')
  BY <1>1 DEF TextsStay, KnownIn
<1>6. Maintains
  BY <1>2, <1>4, <1>5 DEF Maintains
<1> QED BY <1>6, MaintainsKeeps

\* Nothing is known at first.
LEMMA KnowledgeInvStarts == MemoriesInit => KnowledgeInv
<1>1. SUFFICES ASSUME MemoriesInit PROVE KnowledgeInv
  OBVIOUS
<1>2. \A c \in Copies : KnownIn(facts[c]) = {} /\ ~Busy(c)
  BY <1>1, AbsentTyped DEF MemoriesInit, KnownIn, Busy
<1>3. \A c \in Copies : Told(c) = {} /\ Gone(c) = {}
  BY <1>2, IdleTold
<1>4. past.retirers = {}
  BY <1>1 DEF MemoriesInit
<1> QED BY <1>3, <1>4, FS_EmptySet DEF KnowledgeInv, KnowledgeOK, Kept

\* Each step keeps the topics that no user ended.
LEMMA KnowledgeInvKept == MemoryInv /\ CalmInv /\ KnowledgeInv /\ [MemoriesNext]_memoryVars => KnowledgeInv'
<1>1. SUFFICES ASSUME MemoryInv, CalmInv, KnowledgeInv, [MemoriesNext]_memoryVars PROVE KnowledgeInv'
  OBVIOUS
<1>2. IdsOK'
  BY <1>1, MemoryInvKept DEF MemoryInv
<1>3. CASE MemoriesNext
  <2>1. CASE \E w \in FactWorkers : \E op, copies : Commences(w, op, copies)
    BY <1>1, <2>1, CommencesKeepsKnowledge
  <2>2. ASSUME NEW w \in Active, Statements(w), Turn(w) PROVE KnowledgeInv'
    <3>1. CASE Insert(w)
      BY <1>1, <1>2, <2>2, <3>1, InsertMints, MintsOneKeeps
    <3>2. CASE Replace(w)
      BY <1>1, <1>2, <2>2, <3>2, ReplaceRetires, RetiresOneKeeps
    <3>3. CASE Expire(w)
      BY <1>1, <1>2, <2>2, <3>3, ExpireRetires, RetiresOneKeeps
    <3>4. CASE ImportMemory(w)
      BY <1>1, <1>2, <2>2, <3>4, ImportMaintains, MaintainsKeeps
    <3>5. CASE EndImport(w)
      BY <1>1, <1>2, <2>2, <3>5, EndImportKeeps
    <3>6. CASE ~Insert(w) /\ ~Replace(w) /\ ~Expire(w) /\ ~ImportMemory(w) /\ ~EndImport(w)
      BY <1>1, <1>2, <2>2, <3>6, QuietMaintains, MaintainsKeeps
    <3> QED BY <3>1, <3>2, <3>3, <3>4, <3>5, <3>6
  <2>3. CASE \E c, f, r : Aside(c, f, r)
    BY <1>1, <1>2, <2>3, AsideKeepsKnowledge
  <2> QED BY <1>1, <1>3, <2>1, <2>2, <2>3, MemorySteps DEF MemoryInv
<1>4. CASE UNCHANGED memoryVars
  <2>1. facts' = facts /\ work' = work /\ past' = past
    BY <1>4 DEF memoryVars
  <2>2. \A c \in Copies : Told(c)' = Told(c) /\ Gone(c)' = Gone(c)
    BY <2>1 DEF Told, Gone, Coming
  <2>3. Maintains
    BY <2>1, <2>2 DEF Maintains, TextsStay
  <2> QED BY <1>1, <1>2, <2>3, MaintainsKeeps
<1> QED BY <1>1, <1>3, <1>4

\* The invariant holds in every state.
LEMMA KnowledgeInvAlways == MemoriesSpec => []KnowledgeInv
<1>1. MemoriesInit => KnowledgeInv
  BY KnowledgeInvStarts
<1> QED BY <1>1, KnowledgeInvKept, MemoryInvAlways, CalmInvAlways, PTL DEF MemoriesSpec

\* Maintenance loses no knowledge: a topic that no user ended keeps an active fact wherever it is
\* known, as long as nothing overlaps, one copy alone retires facts, and no stream breaks off.
THEOREM MaintenanceLosesNothing == MemoriesSpec => []KnowledgeStays
<1>1. ASSUME MemoryInv, KnowledgeInv PROVE KnowledgeStays
  <2>1. SUFFICES ASSUME NEW c \in Copies, Calm(c), Cardinality(past.retirers) <= 1,
                        NEW t \in KnownTopics(c), t \notin past.ended
                 PROVE  t \in LiveTopics(c)
    BY DEF KnowledgeStays
  <2>2. Known(c) = KnownIn(facts[c]) /\ Live(c) = LiveIn(facts[c])
    BY <1>1, KnownLive DEF MemoryInv
  <2>3. Told(c) = KnownIn(facts[c]) /\ Gone(c) = KnownIn(facts[c]) \ LiveIn(facts[c])
    BY <2>1, IdleTold DEF Calm
  <2>4. PICK f \in KnownIn(facts[c]) : t = Topic[facts[c][f].text]
    BY <2>1, <2>2 DEF KnownTopics
  <2>5. OneText(facts)
    BY <1>1 DEF MemoryInv, IdsOK, OneText
  <2>6. Kept(Told(c), Gone(c), facts, past.ended)
    BY <1>1, <2>1 DEF KnowledgeInv, KnowledgeOK, Untroubled, Calm
  <2>7. TopicsIn(facts, f) = {t}
    BY <2>4, <2>5, TopicsAre
  <2>8. PICK g \in Told(c) \ Gone(c) : TopicsIn(facts, g) = {t}
    BY <2>1, <2>3, <2>6, <2>7 DEF Kept
  <2>9. g \in KnownIn(facts[c]) /\ g \in LiveIn(facts[c])
    BY <2>3, <2>8
  <2>10. Topic[facts[c][g].text] = t
    BY <2>5, <2>8, <2>9, TopicsAre
  <2> QED BY <2>2, <2>9, <2>10 DEF LiveTopics
<1> QED BY <1>1, MemoryInvAlways, KnowledgeInvAlways, PTL

-----------------------------------------------------------------------------
(* Checkpoints: types, and where a record is. *)

SpoolStates ==
    [pc : {"idle", "ended", "glob", "sweep", "unlink", "open", "write", "read", "replay"},
     name : Names \cup {NoName}, fd : Files \cup {NoFile}, hand : SUBSET Records,
     then : {"none", "rest", "unlink", "replay"}, todo : SUBSET Names,
     sweeping : Names \cup {NoName}, data : SUBSET Records]

SpoolTypeOK ==
    /\ spool \in Files \cup {NoFile}
    /\ claim \in [Names -> Files \cup {NoFile}]
    /\ content \in [Files -> SUBSET Records]
    /\ proc \in [Processes -> SpoolStates]

(***************************************************************************)
(* A process in state s appends to the spool, for one of three reasons; it *)
(* copies a claim there or has done so and will remove it; it has read its *)
(* own claim; it has a process ID and has not claimed the spool.           *)
(***************************************************************************)
Appends(s, then) == s.pc \in {"open", "write"} /\ s.then = then
Sweeps(s) == Appends(s, "unlink") \/ s.pc = "unlink"
Replays(s) == Appends(s, "replay") \/ s.pc = "replay"
BeforeClaim(s) == s.pc = "glob" \/ s.pc = "sweep" \/ Appends(s, "rest") \/ Sweeps(s)

StateOK(s) ==
    /\ s.name = NoName <=> s.pc \in {"idle", "ended"}
    /\ s.sweeping # NoName <=> Sweeps(s)
    /\ s.pc \in {"open", "write"} => s.then # "none"
    /\ s.pc \notin {"open", "write"} => s.hand = {}
    /\ s.pc = "write" => s.fd \in Files

\* A process ID has one owner; before its owner has claimed the spool there is no such
\* claim, so nobody sweeps it.
OwnNames ==
    /\ \A p, q \in Processes : p # q /\ proc[p].name = proc[q].name => proc[p].name = NoName
    /\ \A p \in Processes : BeforeClaim(proc[p]) =>
          claim[proc[p].name] = NoFile /\ \A q \in Processes : proc[q].sweeping # proc[p].name

\* The spool's file is no claim's.
Apart == \A n \in Names : claim[n] # NoFile => claim[n] # spool

\* Who copies a claim has all of it in hand, but for what was written late.
FullHand(s) ==
    Appends(s, "unlink") /\ claim[s.sweeping] # NoFile => content[claim[s.sweeping]] \subseteq s.hand \cup late

\* A process in state s may remove claim n as far as r goes: it has copied r, or had an answer for it.
Condemns(s, n, r) ==
    \/ s.pc = "unlink" /\ s.sweeping = n
    \/ Replays(s) /\ s.name = n /\ r \notin s.data /\ r \notin s.hand

SafeIn(n, r) ==
    /\ claim[n] # NoFile /\ r \in content[claim[n]]
    /\ \A p \in Processes : ~Condemns(proc[p], n, r)

Safe(r) ==
    \/ spool # NoFile /\ r \in content[spool]
    \/ \E n \in Names : SafeIn(n, r)

SpoolInv ==
    /\ SpoolTypeOK /\ OwnNames /\ Apart
    /\ \A p \in Processes : StateOK(proc[p]) /\ FullHand(proc[p])
    /\ \A r \in kept \ (settled \cup late) : Safe(r)

\* The states in which a process begins and ends.
LEMMA RestingStates ==
    /\ Idle \in SpoolStates /\ Idle.pc = "idle" /\ Idle.name = NoName /\ Idle.sweeping = NoName /\ Idle.hand = {}
    /\ Ended \in SpoolStates /\ Ended.pc = "ended" /\ Ended.name = NoName /\ Ended.sweeping = NoName /\ Ended.hand = {}
    /\ Idle.todo = {} /\ Idle.then = "none" /\ Idle.data = {}
BY SpoolAssumption DEF Idle, Ended, SpoolStates, SpoolAssumption

\* Outside an import, a submission that is over leaves nothing behind.
LEMMA RestState ==
    ASSUME Importers = {}, NEW p
    PROVE  Rest(p) \in {Idle, Ended}
BY DEF Rest

\* The invariant holds at the start.
LEMMA SpoolInvInit == SpoolInit => SpoolInv
<1> SUFFICES ASSUME SpoolInit PROVE SpoolInv
  OBVIOUS
<1>1. \A p \in Processes : proc[p] = Idle
  BY DEF SpoolInit
<1>2. SpoolTypeOK
  BY RestingStates DEF SpoolInit, SpoolTypeOK
<1>3. StateOK(Idle) /\ FullHand(Idle) /\ ~BeforeClaim(Idle)
  BY RestingStates DEF StateOK, FullHand, BeforeClaim, Sweeps, Appends
<1>4. OwnNames
  BY <1>1, <1>3, RestingStates DEF OwnNames
<1>5. Apart
  BY DEF SpoolInit, Apart
<1> QED BY <1>1, <1>2, <1>3, <1>4, <1>5 DEF SpoolInv, SpoolInit

\* A step of one process.
LEMMA ProcAfter ==
    ASSUME SpoolInv, NEW p \in Processes, NEW s \in SpoolStates, Becomes(p, s)
    PROVE  /\ proc' \in [Processes -> SpoolStates]
           /\ proc'[p] = s /\ \A q \in Processes \ {p} : proc'[q] = proc[q]
BY DEF SpoolInv, SpoolTypeOK, Becomes

\* What the processes may call their own after a step of one of them.
LEMMA NamesKept ==
    ASSUME SpoolInv, NEW p \in Processes, NEW s \in SpoolStates, Becomes(p, s), StateOK(s),
           \A n \in Names : claim'[n] # NoFile => claim[n] # NoFile \/ n = proc[p].name,
           claim' # claim => ~BeforeClaim(s),
           \/ s.name = NoName
           \/ s.name = proc[p].name /\ (BeforeClaim(s) => BeforeClaim(proc[p]))
           \/ claim[s.name] = NoFile /\ claim' = claim
              /\ \A q \in Processes : s.name # proc[q].name /\ s.name # proc[q].sweeping,
           s.sweeping \in {proc[p].sweeping, NoName} \/ claim[s.sweeping] # NoFile
    PROVE  OwnNames'
<1>1. /\ proc'[p] = s /\ \A q \in Processes \ {p} : proc'[q] = proc[q]
      /\ \A q \in Processes : StateOK(proc[q])
  BY ProcAfter DEF SpoolInv
<1>2. \A x \in SpoolStates : BeforeClaim(x) /\ StateOK(x) => x.name \in Names /\ x.name # NoName
  BY SpoolAssumption DEF BeforeClaim, Sweeps, Appends, StateOK, SpoolStates, SpoolAssumption
<1>3. \A q \in Processes : proc[q] \in SpoolStates
  BY DEF SpoolInv, SpoolTypeOK
<1>4. ASSUME NEW q \in Processes, NEW x \in Processes, q # x, proc'[q].name = proc'[x].name
      PROVE  proc'[q].name = NoName
  BY <1>1, <1>4 DEF SpoolInv, OwnNames
<1>5. ASSUME NEW q \in Processes, BeforeClaim(proc'[q])
      PROVE  claim'[proc'[q].name] = NoFile /\ \A x \in Processes : proc'[x].sweeping # proc'[q].name
  <2>1. CASE q # p
    <3>1. /\ proc'[q] = proc[q] /\ BeforeClaim(proc[q]) /\ proc[q].name \in Names /\ proc[q].name # NoName
          /\ claim[proc[q].name] = NoFile /\ \A x \in Processes : proc[x].sweeping # proc[q].name
          /\ proc[q].name # proc[p].name
      BY <1>1, <1>2, <1>3, <1>5, <2>1 DEF SpoolInv, OwnNames
    <3> QED BY <1>1, <3>1
  <2>2. CASE q = p
    <3>1. proc'[q] = s /\ BeforeClaim(s) /\ s.name \in Names /\ s.name # NoName /\ claim' = claim
      BY <1>1, <1>2, <1>5, <2>2
    <3>2. claim[s.name] = NoFile /\ \A x \in Processes : proc[x].sweeping # s.name
      BY <3>1 DEF SpoolInv, OwnNames
    <3> QED BY <1>1, <3>1, <3>2
  <2> QED BY <2>1, <2>2
<1> QED BY <1>4, <1>5 DEF OwnNames

\* A step of one process that leaves the directory alone.
LEMMA QuietStep ==
    ASSUME SpoolInv, NEW p \in Processes, NEW s \in SpoolStates, Becomes(p, s), StateOK(s), FullHand(s),
           UNCHANGED <<spool, claim, content, kept, late>>, settled \subseteq settled',
           \/ s.name = NoName
           \/ s.name = proc[p].name /\ (BeforeClaim(s) => BeforeClaim(proc[p]))
           \/ claim[s.name] = NoFile
              /\ \A q \in Processes : s.name # proc[q].name /\ s.name # proc[q].sweeping,
           s.sweeping \in {proc[p].sweeping, NoName} \/ claim[s.sweeping] # NoFile,
           \A n \in Names : \A r :
              Condemns(s, n, r) /\ claim[n] # NoFile /\ r \in content[claim[n]] /\ r \notin settled'
              => Condemns(proc[p], n, r)
    PROVE  SpoolInv'
<1>1. /\ proc' \in [Processes -> SpoolStates]
      /\ proc'[p] = s /\ \A q \in Processes \ {p} : proc'[q] = proc[q]
  BY ProcAfter
<1>2. OwnNames'
  BY NamesKept
<1>3. SpoolTypeOK' /\ Apart'
  BY <1>1 DEF SpoolInv, SpoolTypeOK, Apart
<1>4. \A q \in Processes : (StateOK(proc[q]) /\ FullHand(proc[q]))'
  <2>1. \A q \in Processes : StateOK(proc'[q]) /\ FullHand(proc'[q])
    BY <1>1 DEF SpoolInv
  <2> QED BY <2>1 DEF FullHand
<1>5. ASSUME NEW r \in kept' \ (settled' \cup late') PROVE Safe(r)'
  <2>1. Safe(r)
    BY DEF SpoolInv
  <2>2. ASSUME NEW n \in Names, SafeIn(n, r) PROVE SafeIn(n, r)'
    BY <1>1, <2>2 DEF SafeIn
  <2> QED BY <2>1, <2>2 DEF Safe
<1> QED BY <1>2, <1>3, <1>4, <1>5 DEF SpoolInv

-----------------------------------------------------------------------------
(* Checkpoints: one lemma per system call. *)

\* What the invariant says of one process.
LEMMA ProcFacts ==
    ASSUME SpoolInv, NEW p \in Processes
    PROVE  /\ proc[p] \in SpoolStates /\ StateOK(proc[p]) /\ FullHand(proc[p])
           /\ claim \in [Names -> Files \cup {NoFile}] /\ content \in [Files -> SUBSET Records]
           /\ spool \in Files \cup {NoFile}
BY DEF SpoolInv, SpoolTypeOK

\* A process whose submission is over, or that is killed.
LEMMA RestStep ==
    ASSUME Importers = {}, SpoolInv, NEW p \in Processes, NEW s \in {Idle, Ended}, Becomes(p, s),
           UNCHANGED <<spool, claim, content, kept, late>>, settled \subseteq settled'
    PROVE  SpoolInv'
<1>1. s \in SpoolStates /\ s.pc \in {"idle", "ended"} /\ s.name = NoName /\ s.sweeping = NoName /\ s.hand = {}
  BY RestingStates
<1>2. StateOK(s) /\ FullHand(s) /\ ~BeforeClaim(s) /\ \A n, r : ~Condemns(s, n, r)
  BY <1>1 DEF StateOK, FullHand, BeforeClaim, Condemns, Sweeps, Replays, Appends
<1> QED BY <1>1, <1>2, QuietStep

\* The process ID of a new submission is nobody's.
LEMMA NewID ==
    ASSUME SpoolInv, NEW p \in Processes, proc[p].name = NoName, NEW n \in ProcessID(p)
    PROVE  /\ n \in Names /\ claim[n] = NoFile
           /\ \A q \in Processes : n # proc[q].name /\ n # proc[q].sweeping
BY DEF ProcessID

\* A checkpoint that gets through starts a replay, under a new process ID.
LEMMA ContactKeeps == ASSUME Importers = {}, SpoolInv, NEW p \in Processes, Contact(p) PROVE SpoolInv'
<1> DEFINE s(n) == [Goes(p, "glob") EXCEPT !.name = n]
<1>1. /\ proc[p].pc = "idle" /\ UNCHANGED <<spool, claim, content, settled, kept, late>>
      /\ \E n \in ProcessID(p) : Becomes(p, s(n))
  BY DEF Contact, At, dirVars, pastVars
<1>2. proc[p] \in SpoolStates /\ StateOK(proc[p])
  BY ProcFacts
<1>3. PICK n \in ProcessID(p) : Becomes(p, s(n))
  BY <1>1
<1>4. proc[p].name = NoName /\ proc[p].sweeping = NoName /\ proc[p].hand = {}
  BY <1>1, <1>2 DEF StateOK, Sweeps, Appends
<1>5. n \in Names /\ claim[n] = NoFile /\ \A q \in Processes : n # proc[q].name /\ n # proc[q].sweeping
  BY <1>4, NewID
<1>6. /\ s(n) \in SpoolStates /\ s(n).pc = "glob" /\ s(n).name = n /\ s(n).sweeping = NoName /\ s(n).hand = {}
  BY <1>2, <1>4, <1>5 DEF Goes, SpoolStates
<1> HIDE DEF s
<1>7. StateOK(s(n)) /\ FullHand(s(n)) /\ \A m, r : ~Condemns(s(n), m, r)
  BY <1>5, <1>6, SpoolAssumption DEF StateOK, FullHand, Condemns, Sweeps, Replays, Appends, SpoolAssumption
<1> QED BY <1>1, <1>3, <1>5, <1>6, <1>7, QuietStep

\* A post starts a replay, ends at once or goes to the spool.
LEMMA SubmitKeeps ==
    ASSUME Importers = {}, SpoolInv, NEW p \in Processes, NEW r \in Records, Submit(p, r) PROVE SpoolInv'
<1> DEFINE named(n) == [proc[p] EXCEPT !.name = n]
           posted(n) == [named(n) EXCEPT !.pc = "glob"]
           refused(n) == ToSpool(named(n), r, "rest")
<1>1. /\ proc[p].pc = "idle" /\ UNCHANGED <<spool, claim, content, kept, late>>
      /\ \E n \in ProcessID(p) :
            \/ settled \subseteq settled' /\ Becomes(p, posted(n))
            \/ settled \subseteq settled' /\ Becomes(p, Rest(p))
            \/ settled \subseteq settled' /\ Becomes(p, refused(n))
  BY DEF Submit, At, dirVars, Answered, Unanswered
<1>2. proc[p] \in SpoolStates /\ StateOK(proc[p])
  BY ProcFacts
<1>3. proc[p].name = NoName /\ proc[p].sweeping = NoName /\ proc[p].hand = {}
  BY <1>1, <1>2 DEF StateOK, Sweeps, Appends
<1>4. PICK n \in ProcessID(p) :
            \/ settled \subseteq settled' /\ Becomes(p, posted(n))
            \/ settled \subseteq settled' /\ Becomes(p, Rest(p))
            \/ settled \subseteq settled' /\ Becomes(p, refused(n))
  BY <1>1
<1>5. n \in Names /\ claim[n] = NoFile /\ \A q \in Processes : n # proc[q].name /\ n # proc[q].sweeping
  BY <1>3, NewID
<1>6. named(n) \in SpoolStates /\ named(n).name = n /\ named(n).sweeping = NoName /\ named(n).hand = {}
  BY <1>2, <1>3, <1>5 DEF SpoolStates
<1>7. CASE settled \subseteq settled' /\ Becomes(p, Rest(p))
  BY <1>1, <1>7, RestStep, RestState
<1>8. CASE settled \subseteq settled' /\ Becomes(p, posted(n))
  <2> HIDE DEF named
  <2>1. /\ posted(n) \in SpoolStates /\ posted(n).pc = "glob" /\ posted(n).name = n
        /\ posted(n).sweeping = NoName /\ posted(n).hand = {}
    BY <1>6 DEF SpoolStates
  <2> HIDE DEF posted
  <2>2. StateOK(posted(n)) /\ FullHand(posted(n)) /\ \A m, x : ~Condemns(posted(n), m, x)
    BY <1>5, <2>1, SpoolAssumption DEF StateOK, FullHand, Condemns, Sweeps, Replays, Appends, SpoolAssumption
  <2> QED BY <1>1, <1>5, <1>8, <2>1, <2>2, QuietStep
<1>9. CASE settled \subseteq settled' /\ Becomes(p, refused(n))
  <2> HIDE DEF named
  <2>1. /\ refused(n) \in SpoolStates /\ refused(n).pc = "open" /\ refused(n).name = n
        /\ refused(n).sweeping = NoName /\ refused(n).then = "rest"
    BY <1>6 DEF SpoolStates, ToSpool
  <2> HIDE DEF refused
  <2>2. StateOK(refused(n)) /\ FullHand(refused(n)) /\ \A m, x : ~Condemns(refused(n), m, x)
    BY <1>5, <2>1, SpoolAssumption DEF StateOK, FullHand, Condemns, Sweeps, Replays, Appends, SpoolAssumption
  <2> QED BY <1>1, <1>5, <1>9, <2>1, <2>2, QuietStep
<1> QED BY <1>4, <1>7, <1>8, <1>9

\* The claims found are only a list.
LEMMA GlobKeeps == ASSUME SpoolInv, NEW p \in Processes, Glob(p) PROVE SpoolInv'
<1> DEFINE found == {n \in Names : claim[n] # NoFile}
           s == [Goes(p, "sweep") EXCEPT !.todo = found]
<1>1. proc[p].pc = "glob" /\ Becomes(p, s) /\ UNCHANGED <<spool, claim, content, settled, kept, late>>
  BY DEF Glob, At, dirVars, pastVars
<1>2. proc[p] \in SpoolStates /\ StateOK(proc[p])
  BY ProcFacts
<1>3. /\ s \in SpoolStates /\ s.pc = "sweep" /\ s.name = proc[p].name /\ s.sweeping = proc[p].sweeping
      /\ s.hand = proc[p].hand
  <2>1. found \in SUBSET Names
    OBVIOUS
  <2> HIDE DEF found
  <2> QED BY <1>2, <2>1 DEF Goes, SpoolStates
<1> HIDE DEF s
<1>4. StateOK(s) /\ FullHand(s) /\ BeforeClaim(proc[p]) /\ \A m, r : ~Condemns(s, m, r)
  BY <1>1, <1>2, <1>3 DEF StateOK, FullHand, Condemns, Sweeps, Replays, Appends, BeforeClaim
<1> QED BY <1>1, <1>3, <1>4, QuietStep

\* Who sweeps a claim has all of it in hand.
LEMMA SweepReadKeeps ==
    ASSUME SpoolInv, NEW p \in Processes, NEW n \in Names, SweepRead(p, n) PROVE SpoolInv'
<1> DEFINE skipped == [proc[p] EXCEPT !.todo = @ \ {n}]
           found == content[claim[n]]
           s == [skipped EXCEPT !.sweeping = n, !.hand = found, !.then = "unlink",
                                !.pc = IF found = {} THEN "unlink" ELSE "open"]
<1>1. /\ proc[p].pc = "sweep" /\ Becomes(p, IF claim[n] = NoFile THEN skipped ELSE s)
      /\ UNCHANGED <<spool, claim, content, settled, kept, late>>
  BY DEF SweepRead, At, dirVars, pastVars
<1>2. /\ proc[p] \in SpoolStates /\ StateOK(proc[p]) /\ BeforeClaim(proc[p])
      /\ claim \in [Names -> Files \cup {NoFile}] /\ content \in [Files -> SUBSET Records]
  BY <1>1, ProcFacts DEF BeforeClaim
<1>3. /\ skipped \in SpoolStates /\ skipped.pc = "sweep" /\ skipped.name = proc[p].name
      /\ skipped.sweeping = proc[p].sweeping /\ skipped.hand = proc[p].hand
  BY <1>1, <1>2 DEF SpoolStates
<1>4. CASE claim[n] = NoFile
  <2> HIDE DEF skipped
  <2>1. Becomes(p, skipped)
    BY <1>1, <1>4
  <2>2. StateOK(skipped) /\ FullHand(skipped) /\ \A m, r : ~Condemns(skipped, m, r)
    BY <1>1, <1>2, <1>3 DEF StateOK, FullHand, Condemns, Sweeps, Replays, Appends
  <2> QED BY <1>1, <1>2, <1>3, <2>1, <2>2, QuietStep
<1>5. CASE claim[n] # NoFile
  <2> HIDE DEF skipped
  <2>1. Becomes(p, s)
    BY <1>1, <1>5
  <2>2. found \in SUBSET Records
    BY <1>2, <1>5
  <2>3. /\ s \in SpoolStates /\ s.pc \in {"unlink", "open"} /\ s.name = proc[p].name
        /\ s.sweeping = n /\ s.hand = found /\ s.then = "unlink" /\ (s.pc = "unlink" => found = {})
    <3> HIDE DEF found
    <3> QED BY <1>3, <2>2 DEF SpoolStates
  <2> HIDE DEF s
  <2>4. StateOK(s)
    BY <1>1, <1>2, <2>3, SpoolAssumption DEF StateOK, Sweeps, Appends, SpoolAssumption
  <2>5. FullHand(s)
    BY <2>3 DEF FullHand
  <2>6. \A m \in Names : \A r : Condemns(s, m, r) /\ r \in content[claim[m]] => FALSE
    BY <2>3 DEF Condemns, Replays, Appends
  <2> QED BY <1>1, <1>2, <1>5, <2>1, <2>3, <2>4, <2>5, <2>6, QuietStep
<1> QED BY <1>4, <1>5

\* Who reads its claim has all of it to post.
LEMMA ReadClaimKeeps == ASSUME Importers = {}, SpoolInv, NEW p \in Processes, ReadClaim(p) PROVE SpoolInv'
<1> DEFINE f == claim[proc[p].name]
           s == [Goes(p, "replay") EXCEPT !.data = content[f]]
<1>1. /\ proc[p].pc = "read" /\ Becomes(p, IF f = NoFile THEN Rest(p) ELSE s)
      /\ UNCHANGED <<spool, claim, content, settled, kept, late>>
  BY DEF ReadClaim, At, dirVars, pastVars
<1>2. /\ proc[p] \in SpoolStates /\ StateOK(proc[p])
      /\ claim \in [Names -> Files \cup {NoFile}] /\ content \in [Files -> SUBSET Records]
  BY ProcFacts
<1>3. CASE f = NoFile
  BY <1>1, <1>3, RestStep, RestState
<1>4. CASE f # NoFile
  <2>1. Becomes(p, s)
    BY <1>1, <1>4
  <2>2. proc[p].name \in Names
    BY <1>1, <1>2 DEF StateOK, SpoolStates
  <2>3. f \in Files /\ content[f] \in SUBSET Records
    BY <1>2, <1>4, <2>2
  <2>4. /\ s \in SpoolStates /\ s.pc = "replay" /\ s.name = proc[p].name /\ s.sweeping = proc[p].sweeping
        /\ s.hand = proc[p].hand /\ s.data = content[f]
    <3> HIDE DEF f
    <3> QED BY <1>2, <2>3 DEF Goes, SpoolStates
  <2> HIDE DEF s
  <2>5. StateOK(s) /\ FullHand(s) /\ ~BeforeClaim(s)
    BY <1>1, <1>2, <2>4 DEF StateOK, FullHand, BeforeClaim, Sweeps, Appends
  <2>6. \A m \in Names : \A r : Condemns(s, m, r) /\ r \in content[claim[m]] => FALSE
    BY <2>4 DEF Condemns, Replays, Appends
  <2> QED BY <1>1, <2>1, <2>4, <2>5, <2>6, QuietStep
<1> QED BY <1>3, <1>4

\* A record posted is settled, or in hand for the spool.
LEMMA ReplayLineKeeps ==
    ASSUME SpoolInv, NEW p \in Processes, NEW r \in Records, ReplayLine(p, r) PROVE SpoolInv'
<1> DEFINE s == [proc[p] EXCEPT !.data = @ \ {r}]
           back == ToSpool(s, r, "replay")
<1>1. /\ proc[p].pc = "replay" /\ r \in proc[p].data
      /\ UNCHANGED <<spool, claim, content, kept, late>>
      /\ \/ settled' = settled \cup {r} /\ Becomes(p, s)
         \/ settled \subseteq settled' /\ Becomes(p, back)
  BY DEF ReplayLine, At, dirVars, pastVars, Answered, Unanswered
<1>2. proc[p] \in SpoolStates /\ StateOK(proc[p]) /\ proc[p].hand = {}
  BY <1>1, ProcFacts DEF StateOK
<1>3. /\ s \in SpoolStates /\ s.pc = "replay" /\ s.name = proc[p].name /\ s.sweeping = proc[p].sweeping
      /\ s.hand = proc[p].hand /\ s.data = proc[p].data \ {r}
  BY <1>1, <1>2 DEF SpoolStates
<1> HIDE DEF s
<1>4. CASE settled' = settled \cup {r} /\ Becomes(p, s)
  <2>1. StateOK(s) /\ FullHand(s) /\ ~BeforeClaim(s)
    BY <1>1, <1>2, <1>3 DEF StateOK, FullHand, BeforeClaim, Sweeps, Appends
  <2>2. \A m \in Names : \A x : Condemns(s, m, x) /\ x \notin settled' => Condemns(proc[p], m, x)
    BY <1>1, <1>3, <1>4 DEF Condemns, Replays, Appends
  <2> QED BY <1>1, <1>3, <1>4, <2>1, <2>2, QuietStep
<1>5. CASE settled \subseteq settled' /\ Becomes(p, back)
  <2>1. /\ back \in SpoolStates /\ back.pc = "open" /\ back.name = proc[p].name
        /\ back.sweeping = proc[p].sweeping /\ back.hand = {r} /\ back.data = proc[p].data \ {r}
        /\ back.then = "replay"
    BY <1>3 DEF SpoolStates, ToSpool
  <2> HIDE DEF back
  <2>2. StateOK(back) /\ FullHand(back) /\ ~BeforeClaim(back)
    BY <1>1, <1>2, <2>1 DEF StateOK, FullHand, BeforeClaim, Sweeps, Appends
  <2>3. \A m \in Names : \A x : Condemns(back, m, x) => Condemns(proc[p], m, x)
    BY <1>1, <1>2, <2>1 DEF Condemns, Replays, Appends
  <2> QED BY <1>1, <1>5, <2>1, <2>2, <2>3, QuietStep
<1> QED BY <1>1, <1>4, <1>5

\* Who is killed removes no claim any more.
LEMMA KilledKeeps == ASSUME Importers = {}, SpoolInv, NEW p \in Processes, Killed(p) PROVE SpoolInv'
BY RestStep DEF Killed, dirVars, pastVars

\* The file that is opened is the spool's, if need be a new one that nobody can reach.
LEMMA OpenSpoolKeeps == ASSUME SpoolInv, NEW p \in Processes, OpenSpool(p) PROVE SpoolInv'
<1>1. proc[p].pc = "open" /\ UNCHANGED <<claim, settled, kept, late>>
  BY DEF OpenSpool, At, pastVars
<1>2. /\ proc[p] \in SpoolStates /\ StateOK(proc[p]) /\ FullHand(proc[p])
      /\ claim \in [Names -> Files \cup {NoFile}] /\ content \in [Files -> SUBSET Records]
      /\ spool \in Files \cup {NoFile}
  BY ProcFacts
<1>3. ASSUME NEW f \in Files
      PROVE  LET s == [Goes(p, "write") EXCEPT !.fd = f] IN
             /\ s \in SpoolStates /\ s.pc = "write" /\ s.fd = f /\ s.name = proc[p].name
             /\ s.sweeping = proc[p].sweeping /\ s.hand = proc[p].hand /\ s.data = proc[p].data
             /\ s.then = proc[p].then
  BY <1>2 DEF Goes, SpoolStates
<1>4. ASSUME NEW s \in SpoolStates, s.pc = "write", s.fd \in Files, s.name = proc[p].name, s.then = proc[p].then,
             s.sweeping = proc[p].sweeping, s.hand = proc[p].hand, s.data = proc[p].data
      PROVE  /\ StateOK(s) /\ FullHand(s) /\ (BeforeClaim(s) <=> BeforeClaim(proc[p]))
             /\ \A n, r : Condemns(s, n, r) <=> Condemns(proc[p], n, r)
  BY <1>1, <1>2, <1>4 DEF StateOK, FullHand, BeforeClaim, Condemns, Sweeps, Replays, Appends
<1>5. CASE /\ spool # NoFile /\ UNCHANGED <<spool, content>>
           /\ Becomes(p, [Goes(p, "write") EXCEPT !.fd = spool])
  <2> DEFINE s == [Goes(p, "write") EXCEPT !.fd = spool]
  <2>1. /\ s \in SpoolStates /\ s.pc = "write" /\ s.fd \in Files /\ s.name = proc[p].name /\ s.then = proc[p].then
        /\ s.sweeping = proc[p].sweeping /\ s.hand = proc[p].hand /\ s.data = proc[p].data /\ Becomes(p, s)
    BY <1>2, <1>3, <1>5
  <2> HIDE DEF s
  <2>2. /\ StateOK(s) /\ FullHand(s) /\ (BeforeClaim(s) <=> BeforeClaim(proc[p]))
        /\ \A n, r : Condemns(s, n, r) <=> Condemns(proc[p], n, r)
    BY <1>4, <2>1
  <2> QED BY <1>1, <1>5, <2>1, <2>2, QuietStep
<1>6. ASSUME spool = NoFile, NEW f \in NewFiles, spool' = f, content' = [content EXCEPT ![f] = {}],
             Becomes(p, [Goes(p, "write") EXCEPT !.fd = f])
      PROVE  SpoolInv'
  <2> DEFINE s == [Goes(p, "write") EXCEPT !.fd = f]
  <2>1. f \in Files /\ \A n \in Names : claim[n] # f
    BY DEF NewFiles
  <2>2. /\ s \in SpoolStates /\ s.pc = "write" /\ s.fd \in Files /\ s.name = proc[p].name /\ s.then = proc[p].then
        /\ s.sweeping = proc[p].sweeping /\ s.hand = proc[p].hand /\ s.data = proc[p].data /\ Becomes(p, s)
    BY <1>3, <1>6, <2>1
  <2> HIDE DEF s
  <2>3. /\ StateOK(s) /\ FullHand(s) /\ (BeforeClaim(s) <=> BeforeClaim(proc[p]))
        /\ \A n, r : Condemns(s, n, r) <=> Condemns(proc[p], n, r)
    BY <1>4, <2>2
  <2>4. proc' \in [Processes -> SpoolStates] /\ proc'[p] = s /\ \A q \in Processes \ {p} : proc'[q] = proc[q]
    BY <2>2, ProcAfter
  <2>5. content' \in [Files -> SUBSET Records] /\ \A x \in Files \ {f} : content'[x] = content[x]
    BY <1>2, <1>6
  <2>6. \A n \in Names : claim[n] # NoFile => claim[n] \in Files \ {f}
    BY <1>2, <2>1
  <2>7. OwnNames'
    BY <1>1, <2>2, <2>3, NamesKept
  <2>8. SpoolTypeOK' /\ Apart'
    BY <1>1, <1>2, <1>6, <2>1, <2>4, <2>5 DEF SpoolTypeOK, Apart
  <2>9. \A q \in Processes : StateOK(proc'[q]) /\ FullHand(proc'[q])
    BY <2>3, <2>4 DEF SpoolInv
  <2>10. ASSUME NEW q \in Processes PROVE FullHand(proc[q])'
    <3>1. FullHand(proc'[q]) /\ proc'[q] \in SpoolStates /\ StateOK(proc'[q])
      BY <2>4, <2>9
    <3>2. Appends(proc'[q], "unlink") => proc'[q].sweeping \in Names
      BY <3>1 DEF StateOK, Sweeps, SpoolStates
    <3> QED BY <1>1, <2>5, <2>6, <3>1, <3>2 DEF FullHand
  <2>11. ASSUME NEW r \in kept' \ (settled' \cup late') PROVE Safe(r)'
    <3>1. PICK n \in Names : SafeIn(n, r)
      BY <1>1, <1>6 DEF SpoolInv, Safe
    <3>2. SafeIn(n, r)'
      BY <1>1, <2>3, <2>4, <2>5, <2>6, <3>1 DEF SafeIn
    <3> QED BY <3>2 DEF Safe
  <2> QED BY <2>7, <2>8, <2>9, <2>10, <2>11 DEF SpoolInv
<1> QED BY <1>5, <1>6 DEF OpenSpool

\* What is written is in the spool, or late; after that the claim it came from may go.
LEMMA WriteSpoolKeeps == ASSUME Importers = {}, SpoolInv, NEW p \in Processes, WriteSpool(p) PROVE SpoolInv'
<1> DEFINE t == proc[p]
           on == [t EXCEPT !.pc = t.then, !.fd = NoFile, !.hand = {}, !.then = "none"]
           s == proc'[p]
<1>1. /\ t.pc = "write" /\ UNCHANGED <<spool, claim, settled>>
      /\ content' = [content EXCEPT ![t.fd] = @ \cup t.hand]
      /\ late' = IF t.fd = spool THEN late ELSE late \cup t.hand
      /\ IF t.then = "rest" THEN Becomes(p, Rest(p)) /\ kept' = kept \cup t.hand
         ELSE Becomes(p, on) /\ kept' = kept
  BY DEF WriteSpool, At
<1>2. /\ t \in SpoolStates /\ StateOK(t) /\ FullHand(t) /\ t.fd \in Files
      /\ claim \in [Names -> Files \cup {NoFile}] /\ content \in [Files -> SUBSET Records]
      /\ spool \in Files \cup {NoFile}
  BY <1>1, ProcFacts DEF StateOK
<1>3. \/ t.then = "rest" /\ s \in {Idle, Ended} /\ kept' = kept \cup t.hand
      \/ /\ t.then \in {"unlink", "replay"} /\ kept' = kept
         /\ s \in SpoolStates /\ s.pc = t.then /\ s.name = t.name /\ s.sweeping = t.sweeping
         /\ s.hand = {} /\ s.data = t.data
  <2>1. CASE t.then = "rest"
    BY <1>1, <2>1, RestState, ProcAfter, RestingStates
  <2>2. CASE t.then # "rest"
    <3>1. t.then \in {"unlink", "replay"}
      BY <1>1, <1>2, <2>2 DEF StateOK, SpoolStates
    <3>2. /\ on \in SpoolStates /\ on.pc = t.then /\ on.name = t.name /\ on.sweeping = t.sweeping
          /\ on.hand = {} /\ on.data = t.data
      BY <1>2, <3>1 DEF SpoolStates
    <3> HIDE DEF on
    <3> QED BY <1>1, <2>2, <3>1, <3>2, ProcAfter
  <2> QED BY <2>1, <2>2
<1>4. /\ Becomes(p, s) /\ proc' \in [Processes -> SpoolStates] /\ s \in SpoolStates
      /\ \A q \in Processes \ {p} : proc'[q] = proc[q]
  <2>1. PICK x \in SpoolStates : Becomes(p, x)
    BY <1>1, <1>3, RestState, RestingStates, ProcAfter DEF Becomes, SpoolInv, SpoolTypeOK
  <2> QED BY <2>1, ProcAfter
<1> HIDE DEF on, s
<1>5. /\ s.name = NoName \/ (s.name = t.name /\ (BeforeClaim(s) => BeforeClaim(t)))
      /\ s.sweeping \in {t.sweeping, NoName} /\ StateOK(s) /\ ~Appends(s, "unlink")
  <2>1. CASE s \in {Idle, Ended}
    BY <2>1, RestingStates DEF StateOK, Sweeps, Appends
  <2>2. CASE /\ t.then \in {"unlink", "replay"}
             /\ s.pc = t.then /\ s.name = t.name /\ s.sweeping = t.sweeping /\ s.hand = {}
    BY <1>1, <1>2, <2>2 DEF StateOK, BeforeClaim, Sweeps, Replays, Appends
  <2> QED BY <1>3, <2>1, <2>2
<1>6. OwnNames'
  BY <1>1, <1>4, <1>5, NamesKept
<1>7. /\ content' \in [Files -> SUBSET Records] /\ content'[t.fd] = content[t.fd] \cup t.hand
      /\ \A f \in Files : content[f] \subseteq content'[f] /\ (f # t.fd => content'[f] = content[f])
  <2>1. t.hand \in SUBSET Records
    BY <1>2 DEF SpoolStates
  <2> HIDE DEF t
  <2> QED BY <1>1, <1>2, <2>1
<1>8. SpoolTypeOK' /\ Apart'
  BY <1>1, <1>2, <1>4, <1>7 DEF SpoolInv, SpoolTypeOK, Apart
<1>9. \A n \in Names : claim[n] # NoFile => claim[n] \in Files /\ content'[claim[n]] \subseteq content[claim[n]] \cup late'
  <2>1. ASSUME NEW n \in Names, claim[n] # NoFile
        PROVE  claim[n] \in Files /\ content'[claim[n]] \subseteq content[claim[n]] \cup late'
    <3>1. claim[n] \in Files /\ claim[n] # spool
      BY <1>2, <2>1 DEF SpoolInv, Apart
    <3> QED BY <1>1, <1>7, <3>1
  <2> QED BY <2>1
<1>10. late \subseteq late'
  BY <1>1
<1>11. ASSUME NEW q \in Processes PROVE (StateOK(proc[q]) /\ FullHand(proc[q]))'
  <2>1. CASE q = p
    BY <1>5, <2>1 DEF FullHand, s
  <2>2. CASE q # p
    <3>1. proc'[q] = proc[q] /\ StateOK(proc[q]) /\ FullHand(proc[q]) /\ proc[q] \in SpoolStates
      BY <1>4, <2>2, ProcFacts
    <3>2. Appends(proc[q], "unlink") => proc[q].sweeping \in Names
      BY <3>1 DEF StateOK, Sweeps, SpoolStates
    <3> QED BY <1>1, <1>9, <1>10, <3>1, <3>2 DEF FullHand
  <2> QED BY <2>1, <2>2
<1>12. ASSUME NEW r \in kept' \ (settled' \cup late') PROVE Safe(r)'
  <2>1. CASE r \in t.hand
    <3>1. t.fd = spool /\ spool # NoFile
      BY <1>1, <1>2, <1>12, <2>1, SpoolAssumption DEF SpoolAssumption
    <3> QED BY <1>1, <1>7, <2>1, <3>1 DEF Safe
  <2>2. CASE r \notin t.hand
    <3>1. Safe(r)
      BY <1>1, <1>3, <1>10, <1>12, <2>2 DEF SpoolInv
    <3>2. CASE spool # NoFile /\ r \in content[spool]
      BY <1>1, <1>2, <1>7, <3>2 DEF Safe
    <3>3. ASSUME NEW n \in Names, SafeIn(n, r) PROVE SafeIn(n, r)'
      <4>1. claim'[n] # NoFile /\ r \in content'[claim'[n]]
        BY <1>1, <1>7, <1>9, <3>3 DEF SafeIn
      <4>2. ~Condemns(s, n, r)
        <5>1. CASE s \in {Idle, Ended}
          BY <5>1, RestingStates DEF Condemns, Replays, Appends
        <5>2. CASE t.then = "unlink" /\ s.pc = "unlink" /\ s.sweeping = t.sweeping
          <6>1. Appends(t, "unlink")
            BY <1>1, <5>2 DEF Appends
          <6>2. t.sweeping # n
            BY <1>1, <1>2, <1>10, <1>12, <2>2, <3>3, <6>1 DEF FullHand, SafeIn
          <6> QED BY <5>2, <6>2 DEF Condemns, Replays, Appends
        <5>3. CASE t.then = "replay" /\ s.pc = "replay" /\ s.name = t.name /\ s.data = t.data
          BY <1>1, <2>2, <3>3, <5>3 DEF Condemns, Replays, Appends, SafeIn
        <5> QED BY <1>3, <5>1, <5>2, <5>3
      <4>3. \A q \in Processes : ~Condemns(proc'[q], n, r)
        BY <1>4, <3>3, <4>2 DEF SafeIn, s
      <4> QED BY <4>1, <4>3 DEF SafeIn
    <3> QED BY <3>1, <3>2, <3>3 DEF Safe
  <2> QED BY <2>1, <2>2
<1> QED BY <1>6, <1>8, <1>11, <1>12 DEF SpoolInv

\* A name goes that was condemned for all that is still to be kept.
LEMMA NameRemoved ==
    ASSUME SpoolInv, NEW p \in Processes, NEW n \in Names, claim' = [claim EXCEPT ![n] = NoFile],
           NEW s \in SpoolStates, Becomes(p, s), StateOK(s), ~Appends(s, "unlink"), s.hand = {},
           UNCHANGED <<spool, content, settled, kept, late>>,
           \/ s.name = NoName /\ ~BeforeClaim(s)
           \/ s.name = proc[p].name /\ BeforeClaim(proc[p]),
           s.sweeping = NoName, s.pc \notin {"unlink", "replay", "open", "write"},
           \A r : Condemns(proc[p], n, r)
    PROVE  SpoolInv'
<1>1. /\ proc' \in [Processes -> SpoolStates]
      /\ proc'[p] = s /\ \A q \in Processes \ {p} : proc'[q] = proc[q]
  BY ProcAfter
<1>2. /\ claim' \in [Names -> Files \cup {NoFile}] /\ claim'[n] = NoFile
      /\ \A m \in Names : claim'[m] # NoFile => m # n /\ claim'[m] = claim[m]
  BY ProcFacts
<1>3. OwnNames'
  <2>1. ASSUME NEW q \in Processes, NEW x \in Processes, q # x, proc'[q].name = proc'[x].name
        PROVE  proc'[q].name = NoName
    BY <1>1, <2>1 DEF SpoolInv, OwnNames
  <2>2. ASSUME NEW q \in Processes, BeforeClaim(proc'[q])
        PROVE  claim'[proc'[q].name] = NoFile /\ \A x \in Processes : proc'[x].sweeping # proc'[q].name
    <3>1. proc'[q].name = proc[q].name /\ BeforeClaim(proc[q])
      BY <1>1, <2>2
    <3>2. claim[proc[q].name] = NoFile /\ \A x \in Processes : proc[x].sweeping # proc[q].name
      BY <3>1 DEF SpoolInv, OwnNames
    <3>3. proc[q].name \in Names /\ proc[q].name # NoName
      <4>1. proc[q] \in SpoolStates /\ StateOK(proc[q])
        BY ProcFacts
      <4> QED BY <3>1, <4>1 DEF StateOK, BeforeClaim, Sweeps, Appends, SpoolStates
    <3> QED BY <1>1, <1>2, <3>1, <3>2, <3>3
  <2> QED BY <2>1, <2>2 DEF OwnNames
<1>4. SpoolTypeOK' /\ Apart'
  BY <1>1, <1>2 DEF SpoolInv, SpoolTypeOK, Apart
<1>5. ASSUME NEW q \in Processes PROVE (StateOK(proc[q]) /\ FullHand(proc[q]))'
  <2>1. CASE q = p
    BY <1>1, <2>1 DEF FullHand
  <2>2. CASE q # p
    <3>1. proc'[q] = proc[q] /\ StateOK(proc[q]) /\ FullHand(proc[q]) /\ proc[q] \in SpoolStates
      BY <1>1, <2>2, ProcFacts
    <3>2. Appends(proc[q], "unlink") => proc[q].sweeping \in Names
      BY <3>1 DEF StateOK, Sweeps, SpoolStates
    <3> QED BY <1>2, <3>1, <3>2 DEF FullHand
  <2> QED BY <2>1, <2>2
<1>6. ASSUME NEW r \in kept' \ (settled' \cup late') PROVE Safe(r)'
  <2>1. Safe(r)
    BY DEF SpoolInv
  <2>2. ASSUME NEW m \in Names, SafeIn(m, r) PROVE SafeIn(m, r)'
    <3>1. m # n
      BY <2>2 DEF SafeIn
    <3>2. claim'[m] = claim[m]
      BY <3>1, ProcFacts
    <3>3. ~Condemns(s, m, r)
      BY DEF Condemns, Replays, Appends
    <3> QED BY <1>1, <2>2, <3>2, <3>3 DEF SafeIn
  <2> QED BY <2>1, <2>2 DEF Safe
<1> QED BY <1>3, <1>4, <1>5, <1>6 DEF SpoolInv

\* A claim that was copied is removed.
LEMMA SweepUnlinkKeeps == ASSUME SpoolInv, NEW p \in Processes, SweepUnlink(p) PROVE SpoolInv'
<1> DEFINE s == [Goes(p, "sweep") EXCEPT !.sweeping = NoName, !.then = "none"]
           n == proc[p].sweeping
<1>1. /\ proc[p].pc = "unlink" /\ Becomes(p, s) /\ claim' = [claim EXCEPT ![n] = NoFile]
      /\ UNCHANGED <<spool, content, settled, kept, late>>
  BY DEF SweepUnlink, At, pastVars
<1>2. proc[p] \in SpoolStates /\ StateOK(proc[p])
  BY ProcFacts
<1>3. n \in Names /\ proc[p].hand = {}
  BY <1>1, <1>2 DEF StateOK, Sweeps, SpoolStates
<1>4. /\ s \in SpoolStates /\ s.pc = "sweep" /\ s.name = proc[p].name /\ s.sweeping = NoName /\ s.hand = {}
  BY <1>2, <1>3 DEF Goes, SpoolStates
<1>5. \A r : Condemns(proc[p], n, r)
  BY <1>1 DEF Condemns
<1> HIDE DEF s, n
<1>6. StateOK(s) /\ ~Appends(s, "unlink") /\ BeforeClaim(proc[p])
  BY <1>1, <1>2, <1>4 DEF StateOK, Sweeps, Appends, BeforeClaim
<1> QED BY <1>1, <1>3, <1>4, <1>5, <1>6, NameRemoved

\* A claim that was replayed is removed.
LEMMA RemoveClaimKeeps ==
    ASSUME Importers = {}, SpoolInv, NEW p \in Processes, RemoveClaim(p) PROVE SpoolInv'
<1> DEFINE n == proc[p].name
           s == Rest(p)
<1>1. /\ proc[p].pc = "replay" /\ proc[p].data = {} /\ Becomes(p, s) /\ claim' = [claim EXCEPT ![n] = NoFile]
      /\ UNCHANGED <<spool, content, settled, kept, late>>
  BY DEF RemoveClaim, At, pastVars
<1>2. proc[p] \in SpoolStates /\ StateOK(proc[p])
  BY ProcFacts
<1>3. n \in Names /\ proc[p].hand = {}
  BY <1>1, <1>2 DEF StateOK, SpoolStates
<1>4. s \in SpoolStates /\ s.pc \in {"idle", "ended"} /\ s.name = NoName /\ s.sweeping = NoName /\ s.hand = {}
  BY RestState, RestingStates
<1>5. \A r : Condemns(proc[p], n, r)
  BY <1>1, <1>3 DEF Condemns, Replays
<1> HIDE DEF s, n
<1>6. StateOK(s) /\ ~Appends(s, "unlink") /\ ~BeforeClaim(s)
  BY <1>4 DEF StateOK, Sweeps, Appends, BeforeClaim
<1> QED BY <1>1, <1>3, <1>4, <1>5, <1>6, NameRemoved

\* The spool becomes a claim that nobody sweeps and nobody has read.
LEMMA ClaimSpoolKeeps == ASSUME Importers = {}, SpoolInv, NEW p \in Processes, ClaimSpool(p) PROVE SpoolInv'
<1> DEFINE t == proc[p]
           n == t.name
           s == Goes(p, "read")
<1>1. /\ t.pc = "sweep" /\ spool' = NoFile /\ UNCHANGED <<content, settled, kept, late>>
      /\ IF spool = NoFile THEN Becomes(p, Rest(p)) /\ claim' = claim
         ELSE claim' = [claim EXCEPT ![n] = spool] /\ Becomes(p, s)
  BY DEF ClaimSpool, At, pastVars
<1>2. /\ t \in SpoolStates /\ StateOK(t)
      /\ claim \in [Names -> Files \cup {NoFile}] /\ spool \in Files \cup {NoFile}
  BY ProcFacts
<1>3. CASE spool = NoFile
  BY <1>1, <1>3, RestStep, RestState
<1>4. CASE spool # NoFile
  <2>1. n \in Names /\ n # NoName /\ t.hand = {} /\ t.sweeping = NoName /\ BeforeClaim(t)
    BY <1>1, <1>2 DEF StateOK, Sweeps, Appends, SpoolStates, BeforeClaim
  <2>2. claim[n] = NoFile /\ \A q \in Processes : proc[q].sweeping # n
    BY <2>1 DEF SpoolInv, OwnNames
  <2>3. s \in SpoolStates /\ s.pc = "read" /\ s.name = n /\ s.sweeping = NoName /\ s.hand = {} /\ Becomes(p, s)
    BY <1>1, <1>2, <1>4, <2>1 DEF Goes, SpoolStates
  <2>4. \A q \in Processes \ {p} : proc[q].name # n
    BY <2>1 DEF SpoolInv, OwnNames
  <2>5. claim' = [claim EXCEPT ![n] = spool]
    BY <1>1, <1>4
  <2> HIDE DEF s, n
  <2>6. /\ claim' \in [Names -> Files \cup {NoFile}] /\ claim'[n] = spool
        /\ \A m \in Names \ {n} : claim'[m] = claim[m]
    BY <1>2, <2>1, <2>5
  <2>7. StateOK(s) /\ ~Appends(s, "unlink") /\ ~BeforeClaim(s) /\ \A m, r : ~Condemns(s, m, r)
    BY <2>1, <2>3 DEF StateOK, Sweeps, Replays, Appends, BeforeClaim, Condemns
  <2>8. proc' \in [Processes -> SpoolStates] /\ proc'[p] = s /\ \A q \in Processes \ {p} : proc'[q] = proc[q]
    BY <2>3, ProcAfter
  <2>9. OwnNames'
    BY <1>2, <2>1, <2>3, <2>6, <2>7, NamesKept DEF n
  <2>10. SpoolTypeOK' /\ Apart'
    <3>1. SpoolTypeOK'
      BY <1>1, <2>6, <2>8 DEF SpoolInv, SpoolTypeOK
    <3>2. Apart'
      BY <1>1, <2>6, <3>1 DEF Apart
    <3> QED BY <3>1, <3>2
  <2>11. ASSUME NEW q \in Processes PROVE (StateOK(proc[q]) /\ FullHand(proc[q]))'
    <3>1. CASE q = p
      BY <2>7, <2>8, <3>1 DEF FullHand
    <3>2. CASE q # p
      <4>1. proc'[q] = proc[q] /\ StateOK(proc[q]) /\ FullHand(proc[q]) /\ proc[q] \in SpoolStates
        BY <2>8, <3>2, ProcFacts
      <4>2. Appends(proc[q], "unlink") => proc[q].sweeping \in Names \ {n}
        BY <2>2, <4>1 DEF StateOK, Sweeps, SpoolStates
      <4> QED BY <1>1, <2>6, <4>1, <4>2 DEF FullHand
    <3> QED BY <3>1, <3>2
  <2>12. ASSUME NEW r \in kept' \ (settled' \cup late') PROVE Safe(r)'
    <3>1. Safe(r)
      BY <1>1, <2>12 DEF SpoolInv
    <3>2. CASE r \in content[spool]
      <4>1. \A q \in Processes : ~Condemns(proc'[q], n, r)
        <5>1. \A q \in Processes \ {p} : ~Condemns(proc[q], n, r)
          BY <2>2, <2>4 DEF Condemns
        <5> QED BY <2>7, <2>8, <5>1
      <4>2. PICK k \in Names : k = n
        BY <2>1
      <4>3. claim'[k] # NoFile /\ r \in content'[claim'[k]] /\ \A q \in Processes : ~Condemns(proc'[q], k, r)
        BY <1>1, <1>4, <2>6, <3>2, <4>1, <4>2
      <4>4. SafeIn(k, r)'
        BY <4>3 DEF SafeIn
      <4> QED BY <4>4 DEF Safe
    <3>3. ASSUME NEW m \in Names, SafeIn(m, r) PROVE SafeIn(m, r)'
      <4>1. m # n
        BY <2>2, <3>3 DEF SafeIn
      <4> QED BY <1>1, <2>6, <2>7, <2>8, <3>3, <4>1 DEF SafeIn
    <3> QED BY <3>1, <3>2, <3>3 DEF Safe
  <2> QED BY <2>9, <2>10, <2>11, <2>12 DEF SpoolInv
<1> QED BY <1>3, <1>4

\* The other steps, and the steps that change nothing.
LEMMA SpoolInvStep == ASSUME Importers = {}, SpoolInv, [SpoolNext]_spoolVars PROVE SpoolInv'
<1>1. CASE UNCHANGED <<dirVars, proc, pastVars>> /\ settled' = settled
  BY <1>1 DEF SpoolInv, SpoolTypeOK, OwnNames, Apart, FullHand, Safe, SafeIn, dirVars, pastVars
<1>2. ASSUME NEW p \in Processes, NEW r \in Records, Submit(p, r) PROVE SpoolInv'
  BY <1>2, SubmitKeeps
<1>3. ASSUME NEW p \in Processes, Contact(p) PROVE SpoolInv'
  BY <1>3, ContactKeeps
<1>4. ASSUME NEW p \in Processes, Killed(p) PROVE SpoolInv'
  BY <1>4, KilledKeeps
<1>5. ASSUME NEW p \in Processes, Step(p) PROVE SpoolInv'
  <2>1. CASE OpenSpool(p)
    BY <2>1, OpenSpoolKeeps
  <2>2. CASE WriteSpool(p)
    BY <2>2, WriteSpoolKeeps
  <2>3. CASE Glob(p)
    BY <2>3, GlobKeeps
  <2>4. ASSUME NEW n \in Names, SweepRead(p, n) PROVE SpoolInv'
    BY <2>4, SweepReadKeeps
  <2>5. CASE SweepUnlink(p)
    BY <2>5, SweepUnlinkKeeps
  <2>6. CASE ClaimSpool(p)
    BY <2>6, ClaimSpoolKeeps
  <2>7. CASE ReadClaim(p)
    BY <2>7, ReadClaimKeeps
  <2>8. ASSUME NEW r \in Records, ReplayLine(p, r) PROVE SpoolInv'
    BY <2>8, ReplayLineKeeps
  <2>9. CASE RemoveClaim(p)
    BY <2>9, RemoveClaimKeeps
  <2> QED BY <1>5, <2>1, <2>2, <2>3, <2>4, <2>5, <2>6, <2>7, <2>8, <2>9 DEF Step
<1>6. CASE UNCHANGED spoolVars
  BY <1>1, <1>6 DEF spoolVars
<1>7. CASE ServiceSwitches
  BY <1>1, <1>7 DEF ServiceSwitches
<1> QED BY <1>2, <1>3, <1>4, <1>5, <1>6, <1>7 DEF SpoolNext

-----------------------------------------------------------------------------
(* Checkpoints: the theorem. *)

(***************************************************************************)
(* A record whose client was told that it is spooled is in the spool or in *)
(* a claim until the service has stored or refused it, unless it was       *)
(* written through a handle that a replay had renamed away: for any number *)
(* of hooks, killed at any system call, and whatever the service does.     *)
(***************************************************************************)
THEOREM KeptUnlessLateHolds == ASSUME Importers = {} PROVE SpoolSpec => []KeptUnlessLate
<1>1. SpoolInv => KeptUnlessLate
  BY DEF SpoolInv, KeptUnlessLate, Safe, SafeIn, OnDisk
<1>2. SpoolInv /\ [SpoolNext]_spoolVars => SpoolInv'
  BY SpoolInvStep
<1> QED BY SpoolInvInit, <1>1, <1>2, PTL DEF SpoolSpec
=============================================================================
