------------------------------ MODULE NumberSets ------------------------------
(***************************************************************************)
(* What the proofs need of sets of natural numbers: cursors are compared   *)
(* with the last message of a page or the newest id of a journal, locks    *)
(* are taken in the order of the projects' names, and a map that is walked *)
(* in some order is a function defined by recursion on the place in it.    *)
(***************************************************************************)
EXTENDS Naturals, FiniteSets, FiniteSetTheorems, WellFoundedInduction, TLAPS

\* A bounded set of numbers has a greatest element.
LEMMA Greatest ==
    ASSUME NEW S \in SUBSET Nat, NEW bound \in Nat, \A s \in S : s <= bound, S # {}
    PROVE  \E m \in S : \A s \in S : s <= m
<1> DEFINE Above(m) == {k \in 0 .. bound : k > m}
           Tops == {Above(m) : m \in S}
<1>1. IsFiniteSet(0 .. bound)
  BY FS_Interval
<1>2. IsWellFoundedOn(StrictSubsetOrdering(0 .. bound), SUBSET (0 .. bound))
  BY <1>1, FS_StrictSubsetOrderingWellFounded, FS_FiniteSubsetsOfFinite
<1>3. Tops \subseteq SUBSET (0 .. bound) /\ Tops # {}
  OBVIOUS
<1>4. PICK top \in Tops : \A x \in Tops : <<x, top>> \notin StrictSubsetOrdering(0 .. bound)
  <2> HIDE DEF Tops
  <2> QED BY <1>2, <1>3, WFMin
<1>5. PICK m \in S : top = Above(m)
  OBVIOUS
<1>6. ASSUME NEW s \in S, ~ s <= m PROVE FALSE
  <2>1. Above(s) \subseteq Above(m) /\ s \in Above(m) /\ s \notin Above(s)
    BY <1>6
  <2>2. <<Above(s), Above(m)>> \in (SUBSET (0 .. bound)) \X (SUBSET (0 .. bound))
    OBVIOUS
  <2>3. Above(s) # Above(m)
    BY <2>1
  <2> HIDE DEF Above
  <2>4. <<Above(s), Above(m)>> \in StrictSubsetOrdering(0 .. bound)
    BY <2>1, <2>2, <2>3 DEF StrictSubsetOrdering
  <2> QED BY <1>4, <1>5, <2>4
<1> QED BY <1>6

\* A non-empty set of numbers has a least element.
LEMMA Least ==
    ASSUME NEW S \in SUBSET Nat, S # {}
    PROVE  \E m \in S : \A s \in S : m <= s
<1>1. PICK first \in S : TRUE
  OBVIOUS
<1> DEFINE Lower == {k \in Nat : \A s \in S : k <= s}
<1>2. Lower \in SUBSET Nat /\ 0 \in Lower /\ (\A k \in Lower : k <= first)
  OBVIOUS
<1>3. PICK m \in Lower : \A k \in Lower : k <= m
  <2> HIDE DEF Lower
  <2> QED BY <1>2, Greatest
<1>4. CASE m \in S
  BY <1>3, <1>4
<1>5. CASE m \notin S
  <2>1. \A s \in S : m + 1 <= s
    BY <1>3, <1>5
  <2>2. m + 1 \in Lower /\ ~ (m + 1 <= m)
    BY <2>1
  <2> QED BY <1>3, <2>2
<1> QED BY <1>4, <1>5

\* A set of numbers that has zero and every successor has them all.
LEMMA SetInduction ==
    ASSUME NEW S, 0 \in S, \A n \in Nat : n \in S => n + 1 \in S
    PROVE  Nat \subseteq S
<1> SUFFICES ASSUME NEW bad \in Nat, bad \notin S PROVE FALSE
  OBVIOUS
<1> DEFINE Below == {n \in Nat : \A k \in Nat : k <= n => k \in S}
           Low == {n \in Below : n < bad}
<1>1. 0 \in Low
  OBVIOUS
<1>2. Low \in SUBSET Nat /\ (\A n \in Low : n <= bad) /\ Low # {}
  BY <1>1
<1> HIDE DEF Low
<1>3. PICK top \in Low : \A n \in Low : n <= top
  BY <1>2, Greatest
<1>4. top \in Nat /\ top < bad /\ \A k \in Nat : k <= top => k \in S
  BY DEF Low
<1>5. top + 1 \in S
  BY <1>4
<1>6. \A k \in Nat : k <= top + 1 => k <= top \/ k = top + 1
  BY <1>4
<1>7. top + 1 \in Below
  BY <1>4, <1>5, <1>6
<1>8. top + 1 # bad
  BY <1>5
<1>9. top + 1 < bad
  BY <1>4, <1>8
<1> QED BY <1>3, <1>4, <1>7, <1>9 DEF Low

\* A function defined by recursion on a number exists: a start and, for each index, a
\* step from the value before it.
LEMMA Recursion ==
    ASSUME NEW V, NEW base \in V, NEW n \in Nat, NEW g \in [1 .. n -> [V -> V]]
    PROVE  \E f \in [0 .. n -> V] :
              f[0] = base /\ \A i \in 1 .. n : f[i] = g[i][f[i - 1]]
<1> DEFINE Has(k) == \E f \in [0 .. k -> V] :
                        f[0] = base /\ \A i \in 1 .. k : f[i] = g[i][f[i - 1]]
           S == {k \in Nat : k <= n => Has(k)}
<1>1. 0 \in S
  <2>1. [i \in 0 .. 0 |-> base] \in [0 .. 0 -> V]
    OBVIOUS
  <2>2. Has(0)
    <3> WITNESS [i \in 0 .. 0 |-> base] \in [0 .. 0 -> V]
    <3> QED OBVIOUS
  <2> QED BY <2>2
<1>2. ASSUME NEW k \in Nat, k \in S, k + 1 <= n PROVE Has(k + 1)
  <2>1. Has(k)
    BY <1>2
  <2>2. PICK f \in [0 .. k -> V] : f[0] = base /\ \A i \in 1 .. k : f[i] = g[i][f[i - 1]]
    BY <2>1
  <2> HIDE DEF Has, S
  <2>3. k + 1 \in 1 .. n /\ k \in 0 .. k
    BY <1>2
  <2> DEFINE last == g[k + 1][f[k]]
  <2>4. last \in V
    BY <2>3
  <2> HIDE DEF last
  <2> DEFINE h == [i \in 0 .. (k + 1) |-> IF i = k + 1 THEN last ELSE f[i]]
  <2>5. \A i \in 0 .. (k + 1) : i = k + 1 \/ i \in 0 .. k
    OBVIOUS
  <2>6. h \in [0 .. (k + 1) -> V]
    BY <2>4, <2>5
  <2>7. 0 \in 0 .. (k + 1) /\ 0 # k + 1
    OBVIOUS
  <2>8. h[0] = base
    BY <2>2, <2>7
  <2>9. ASSUME NEW i \in 1 .. (k + 1) PROVE h[i] = g[i][h[i - 1]]
    <3>1. i \in 0 .. (k + 1) /\ i - 1 \in 0 .. (k + 1) /\ i - 1 # k + 1
      OBVIOUS
    <3>2. h[i - 1] = f[i - 1]
      BY <3>1
    <3>3. CASE i = k + 1
      <4>1. i - 1 = k
        BY <3>3
      <4> QED BY <3>1, <3>2, <3>3, <4>1 DEF last
    <3>4. CASE i # k + 1
      <4>1. i \in 1 .. k
        BY <3>4
      <4> QED BY <2>2, <3>1, <3>2, <3>4, <4>1
    <3> QED BY <3>3, <3>4
  <2> HIDE DEF h
  <2> QED BY <2>6, <2>8, <2>9 DEF Has
<1> HIDE DEF Has
<1>3. ASSUME NEW k \in Nat, k \in S PROVE k + 1 \in S
  BY <1>2, <1>3
<1>4. \A k \in Nat : k \in S => k + 1 \in S
  BY <1>3
<1>5. Nat \subseteq S
  <2> HIDE DEF S
  <2> QED BY <1>1, <1>4, SetInduction
<1>6. Has(n)
  BY <1>5
<1> QED BY <1>6 DEF Has

\* The same up to a bound.
LEMMA BoundedInduction ==
    ASSUME NEW n \in Nat, NEW S, 0 \in S, \A i \in 1 .. n : i - 1 \in S => i \in S
    PROVE  \A i \in 0 .. n : i \in S
<1> DEFINE Upper == S \cup {i \in Nat : i > n}
<1>1. ASSUME NEW i \in Nat, i \in Upper PROVE i + 1 \in Upper
  <2>1. CASE i + 1 \in 1 .. n
    <3>1. (i + 1) - 1 = i /\ ~ i > n
      BY <2>1
    <3>2. i \in S
      BY <1>1, <3>1
    <3> QED BY <2>1, <3>1, <3>2
  <2>2. CASE i + 1 \notin 1 .. n
    <3>1. i + 1 > n
      BY <2>2
    <3> QED BY <3>1
  <2> QED BY <2>1, <2>2
<1>2. 0 \in Upper /\ \A i \in Nat : i \in Upper => i + 1 \in Upper
  BY <1>1
<1>3. Nat \subseteq Upper
  <2> HIDE DEF Upper
  <2> QED BY <1>2, SetInduction
<1>4. \A i \in 0 .. n : i \in Nat /\ ~ i > n
  OBVIOUS
<1> QED BY <1>3, <1>4
===============================================================================
