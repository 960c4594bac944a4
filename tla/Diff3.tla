-------------------------------- MODULE Diff3 --------------------------------
(***************************************************************************)
(* The three-way merge of documents (diff3/diff3.go): the edit scripts     *)
(* from the base to each side, the clusters of hunks that overlap, and the *)
(* merge, in which a conflict is one element that holds both sides.        *)
(*                                                                         *)
(* Lines are numbered from 1 here, and a hunk replaces the lines after     *)
(* `from' up to `to' of the base.                                          *)
(***************************************************************************)
EXTENDS Naturals, Sequences

LOCAL INSTANCE SequencesExt

CONSTANTS
    Lines,
    MaxText,            \* bound: the length of a text
    MaxLines            \* MaxLines

ASSUME MergeAssumption == MaxText \in Nat /\ MaxLines \in Nat

Texts == UNION {[1..n -> Lines] : n \in 0..MaxText}
Times(n) == [i \in 1..n |-> i]
Part(text, from, to) == SubSeq(text, from + 1, to)

(***************************************************************************)
(* diff: the length of the longest common subsequence of what is left of   *)
(* both texts, then one walk through them that opens a hunk at a mismatch  *)
(* and closes it where the texts match again.                              *)
(***************************************************************************)
Lcs(base, other) ==
    LET n == Len(base)
        m == Len(other)
        left[i \in 0..n, j \in 0..m] ==
            IF i = n \/ j = m THEN 0
            ELSE IF base[i + 1] = other[j + 1] THEN left[i + 1, j + 1] + 1
            ELSE LET a == left[i + 1, j]
                     b == left[i, j + 1] IN IF a >= b THEN a ELSE b
    IN left

Hunk(from, to, lines) == [from |-> from, to |-> to, lines |-> lines]

Diff(base, other) ==
    LET n == Len(base)
        m == Len(other)
        left == Lcs(base, other)
        Close(w) ==
            IF w.open THEN Append(w.hunks, Hunk(w.i0, w.i, Part(other, w.j0, w.j))) ELSE w.hunks
        Open(w) == IF w.open THEN w ELSE [w EXCEPT !.open = TRUE, !.i0 = w.i, !.j0 = w.j]
        Step(w, k) ==
            IF w.i = n /\ w.j = m THEN w
            ELSE IF w.i < n /\ w.j < m /\ base[w.i + 1] = other[w.j + 1]
                 THEN [w EXCEPT !.hunks = Close(w), !.open = FALSE, !.i = w.i + 1, !.j = w.j + 1]
            ELSE IF w.j < m /\ (w.i = n \/ left[w.i, w.j + 1] >= left[w.i + 1, w.j])
                 THEN [Open(w) EXCEPT !.j = w.j + 1]
            ELSE [Open(w) EXCEPT !.i = w.i + 1]
        start == [i |-> 0, j |-> 0, i0 |-> 0, j0 |-> 0, open |-> FALSE, hunks |-> <<>>]
    IN Close(FoldLeft(Step, start, Times(n + m)))

(***************************************************************************)
(* Merge.                                                                  *)
(***************************************************************************)
\* Mutant: two insertions at one place do not overlap.
Overlaps_NotInsertions(a, b) == a.from < b.to /\ b.from < a.to

Overlaps(a, b) ==
    \/ a.from < b.to /\ b.from < a.to
    \/ a.from = b.from /\ (a.from = a.to \/ b.from = b.to)

\* The cluster that the earliest hunk opens, with every hunk of either side it grows over.
Cluster(hl, hh, li, hi) ==
    LET first == IF hi > Len(hh) \/ (li <= Len(hl) /\ hl[li].from <= hh[hi].from)
                 THEN hl[li] ELSE hh[hi]
        Grown(c, h) == IF h.to > c.to THEN h.to ELSE c.to
        Absorb(c, k) ==
            IF c.l <= Len(hl) /\ Overlaps(hl[c.l], c)
            THEN [c EXCEPT !.l = c.l + 1, !.to = Grown(c, hl[c.l])]
            ELSE IF c.h <= Len(hh) /\ Overlaps(hh[c.h], c)
            THEN [c EXCEPT !.h = c.h + 1, !.to = Grown(c, hh[c.h])]
            ELSE c
    IN FoldLeft(Absorb, [from |-> first.from, to |-> first.to, l |-> li, h |-> hi],
                Times(Len(hl) + Len(hh)))

\* One side's text for the lines of the base that a cluster covers.
ApplyWithin(base, c, hunks) ==
    LET Replace(w, h) ==
            [at |-> h.to, lines |-> w.lines \o Part(base, w.at, h.from) \o h.lines]
        w == FoldLeft(Replace, [at |-> c.from, lines |-> <<>>], hunks)
    IN w.lines \o Part(base, w.at, c.to)

Conflict(local, hub) == [local |-> local, hub |-> hub]
Same(lines) == [i \in 1..Len(lines) |-> Conflict(<<lines[i]>>, <<lines[i]>>)]

\* Mutant: a region that both sides changed is taken from the hub.
Settle_Hub(lSide, hSide, lChanged, hChanged) == Same(IF hChanged THEN hSide ELSE lSide)

Settle(lSide, hSide, lChanged, hChanged) ==
    IF ~lChanged THEN Same(hSide)
    ELSE IF ~hChanged \/ lSide = hSide THEN Same(lSide)
    ELSE <<Conflict(lSide, hSide)>>

\* A merge is a sequence of parts; one on which the sides agree is a line that both have.
Merge(base, local, hub) ==
    LET hl == Diff(base, local)
        hh == Diff(base, hub)
        Next(w, k) ==
            IF w.l > Len(hl) /\ w.h > Len(hh) THEN w
            ELSE LET c == Cluster(hl, hh, w.l, w.h)
                     lSide == ApplyWithin(base, c, SubSeq(hl, w.l, c.l - 1))
                     hSide == ApplyWithin(base, c, SubSeq(hh, w.h, c.h - 1)) IN
                 [l |-> c.l, h |-> c.h, at |-> c.to,
                  out |-> w.out \o Same(Part(base, w.at, c.from))
                                \o Settle(lSide, hSide, c.l > w.l, c.h > w.h)]
        end == FoldLeft(Next, [l |-> 1, h |-> 1, at |-> 0, out |-> <<>>], Times(Len(hl) + Len(hh)))
    IN end.out \o Same(Part(base, end.at, Len(base)))

VARIABLES
    texts,          \* the arguments of a call
    mergeResult     \* what it returns: the parts of the merge, or a refusal

mergeVars == <<texts, mergeResult>>
Returns(outcome, parts) == [outcome |-> outcome, parts |-> parts]

MergeInit ==
    /\ texts \in [base : Texts, local : Texts, hub : Texts]
    /\ mergeResult = Returns("none", <<>>)

TooLong(t) == Len(t.base) > MaxLines \/ Len(t.local) > MaxLines \/ Len(t.hub) > MaxLines

MergeText ==
    /\ mergeResult.outcome = "none"
    /\ mergeResult' = IF TooLong(texts) THEN Returns("refused", <<>>)
                      ELSE Returns("merged", Merge(texts.base, texts.local, texts.hub))
    /\ UNCHANGED texts

MergeNext == MergeText
MergeSpec == MergeInit /\ [][MergeNext]_mergeVars
-----------------------------------------------------------------------------
IsMerged == mergeResult.outcome = "merged"
Swapped(parts) == [i \in 1..Len(parts) |-> Conflict(parts[i].hub, parts[i].local)]
Agreed(parts) == \A i \in 1..Len(parts) : parts[i].local = parts[i].hub
Side(parts) == FlattenSeq([i \in 1..Len(parts) |-> parts[i].local])
Copies(text, line) == Len(SelectSeq(text, LAMBDA x : x = line))
Removed(hunks, base, line) ==
    Copies(FlattenSeq([i \in 1..Len(hunks) |-> Part(base, hunks[i].from, hunks[i].to)]), line)

(***************************************************************************)
(* "When edit order is ambiguous, diff3 must conflict, not guess": which   *)
(* side is called local decides nothing, and a side that changed nothing,  *)
(* or the same, leaves the other's text.                                   *)
(***************************************************************************)
NoSideTaken ==
    IsMerged =>
        /\ mergeResult.parts = Swapped(Merge(texts.base, texts.hub, texts.local))
        /\ texts.base = texts.hub \/ texts.local = texts.hub
              => Agreed(mergeResult.parts) /\ Side(mergeResult.parts) = texts.local

(***************************************************************************)
(* "Local edits can never be lost: they end up merged or inside a marker   *)
(* block."  Of every line, the merge with its conflicts left on the local  *)
(* side has the copies of the local text but those that the hub removed    *)
(* from the base.                                                          *)
(***************************************************************************)
LocalLinesKept ==
    IsMerged =>
        \A line \in Lines :
            Copies(Side(mergeResult.parts), line)
              + Removed(Diff(texts.base, texts.hub), texts.base, line) >= Copies(texts.local, line)
=============================================================================
