---------------------------- MODULE Projects_proofs ----------------------------
(***************************************************************************)
(* Theorems about the projects of a data root: a lookup never takes a task *)
(* that a client was told of for missing, however projects are renamed,    *)
(* merged and removed beside it (TaskLocator); a task whose creation was   *)
(* answered goes with its project only after a rename closed the handle it *)
(* was created through (ProjectLifecycle); and the name of a project that  *)
(* was renamed or merged stays dead, in whatever order maps are walked     *)
(* (OriginAliases).                                                        *)
(***************************************************************************)
EXTENDS TaskLocator, ProjectLifecycle, OriginAliases, NumberSets, SequenceTheorems, FiniteSetTheorems, TLAPS

-----------------------------------------------------------------------------
(* Lookups: types. *)

LookupPhases == {"new", "hint", "miss", "begin", "list", "scan", "done"}
LookupAnswers == LocProjects \cup {"none", "found", "notFound", "incomplete", "ambiguous"}
LookupStates ==
    [phase : LookupPhases, id : LocIDs, gen : Nat, attempt : 0 .. MaxAttempts,
     todo : SUBSET LocProjects, found : SUBSET (LocTasks \X LocProjects),
     unreadable : BOOLEAN, answer : LookupAnswers]

LocatorTypeOK ==
    /\ exists \in SUBSET LocProjects
    /\ home \in [LocTasks -> LocProjects \cup {Nowhere}]
    /\ loc \in [LocTasks -> LocProjects \cup {Nowhere}]
    /\ lifecycleGen \in Nat
    /\ moving.kind = "rename" => {moving.from, moving.to} \subseteq LocProjects
    /\ lookup \in [Lookups -> LookupStates]

-----------------------------------------------------------------------------
(* What a lookup under way may rely on. *)

Housed == \A t \in LocTasks : home[t] # Nowhere => home[t] \in exists

\* As long as no lifecycle operation began or ended, the project that holds the
\* task is still to be read, or it was, or it could not be.
Sees(s) ==
    s.phase = "scan" /\ s.id \in LocTasks /\ s.gen = lifecycleGen =>
       \/ home[s.id] \in s.todo
       \/ s.found # {}
       \/ s.unreadable = TRUE

Sound(s) ==
    /\ s.gen <= lifecycleGen
    /\ s.id \in LocTasks => home[s.id] # Nowhere
    /\ s.phase \in {"hint", "miss"} => s.attempt = 0
    /\ s.phase = "begin" => s.attempt < MaxAttempts
    /\ s.answer = "notFound" /\ s.id \in LocTasks => s.attempt = MaxAttempts
    /\ Sees(s)

LocatorInv == LocatorTypeOK /\ Housed /\ NoFalseMiss /\ \A l \in Lookups : Sound(lookup[l])

\* The invariant holds at the start.
LEMMA LocatorInvInit == LocatorInit => LocatorInv
<1> SUFFICES ASSUME LocatorInit PROVE LocatorInv
  OBVIOUS
<1>1. IdleLookup \in LookupStates
  BY DEF IdleLookup, LookupStates, LookupPhases, LookupAnswers, LocIDs, MaxAttempts
<1>2. LocatorTypeOK
  BY <1>1 DEF LocatorInit, LocatorTypeOK, Still
<1>3. Sound(IdleLookup)
  <2>1. /\ IdleLookup.phase = "new" /\ IdleLookup.id = Prefix /\ IdleLookup.gen = 0
        /\ IdleLookup.answer = "none" /\ lifecycleGen = 0
    BY DEF LocatorInit, IdleLookup
  <2>2. Sees(IdleLookup)
    BY <2>1 DEF Sees
  <2>3. IdleLookup.gen <= lifecycleGen
    BY <2>1
  <2>4. IdleLookup.id \notin LocTasks
    BY <2>1, LocatorAssumption DEF LocatorAssumption
  <2> QED BY <2>1, <2>2, <2>3, <2>4 DEF Sound
<1> QED BY <1>2, <1>3 DEF LocatorInit, LocatorInv, Housed, NoFalseMiss

-----------------------------------------------------------------------------
(* Steps beside the lookups. *)

\* The lookups of the next state are those of this one.
LEMMA LookupsRest ==
    ASSUME LocatorInv, UNCHANGED lookup, lifecycleGen' \in Nat,
           \/ lifecycleGen' = lifecycleGen + 1
           \/ /\ lifecycleGen' = lifecycleGen
              /\ \A t \in LocTasks : home[t] # Nowhere => home'[t] = home[t],
           \A t \in LocTasks : home[t] # Nowhere => home'[t] # Nowhere
    PROVE  (\A l \in Lookups : Sound(lookup[l]))'
<1> SUFFICES ASSUME NEW l \in Lookups PROVE Sound(lookup[l])'
  OBVIOUS
<1>1. /\ Sound(lookup[l]) /\ lookup[l].gen \in Nat /\ lifecycleGen \in Nat
  BY DEF LocatorInv, LocatorTypeOK, LookupStates
<1>2. CASE lifecycleGen' = lifecycleGen + 1
  <2>1. lookup[l].gen <= lifecycleGen' /\ lookup[l].gen # lifecycleGen'
    <3>1. lookup[l].gen <= lifecycleGen
      BY <1>1 DEF Sound
    <3> QED BY <1>1, <1>2, <3>1
  <2>2. lookup'[l] = lookup[l]
    OBVIOUS
  <2>3. Sees(lookup[l])'
    BY <2>1, <2>2 DEF Sees
  <2>4. Sound(lookup[l])
    BY <1>1
  <2> QED BY <2>1, <2>2, <2>3, <2>4 DEF Sound
<1>3. CASE lifecycleGen' = lifecycleGen /\ \A t \in LocTasks : home[t] # Nowhere => home'[t] = home[t]
  BY <1>1, <1>3 DEF Sound, Sees
<1> QED BY <1>2, <1>3

\* Creating tasks and projects, moving projects, and forgetting.
LEMMA ProjectsStep ==
    ASSUME LocatorInv,
           \/ \E t \in LocTasks, p \in LocProjects : CreateLocated(t, p)
           \/ \E p \in LocProjects : MakeProject(p)
           \/ \E kind \in {"rename", "remove"}, from \in LocProjects, to \in LocProjects \cup {Nowhere} :
                 BeginMove(kind, from, to)
           \/ EndMove
           \/ \E id \in LocIDs : ForgetMiss(id)
           \/ ForgetHints
    PROVE  LocatorInv'
<1>0. LocatorTypeOK /\ Housed /\ NoFalseMiss /\ Nowhere \notin LocProjects
  BY LocatorAssumption DEF LocatorInv, LocatorAssumption
<1>1. ASSUME NEW t \in LocTasks, NEW p \in LocProjects, CreateLocated(t, p) PROVE LocatorInv'
  <2>1. /\ home[t] = Nowhere /\ p \in exists /\ home' = [home EXCEPT ![t] = p]
        /\ loc' = [loc EXCEPT ![t] = p] /\ miss' = {id \in miss : ~StartsId(id, t)}
        /\ UNCHANGED <<exists, lifecycleGen, moving, lookup>>
    BY <1>1 DEF CreateLocated, PutHint
  <2>2. LocatorTypeOK' /\ Housed'
    BY <1>0, <2>1 DEF LocatorTypeOK, Housed
  <2>3. NoFalseMiss'
    BY <1>0, <2>1 DEF LocatorTypeOK, NoFalseMiss, StartsId
  <2>4. \A x \in LocTasks : home[x] # Nowhere => home'[x] = home[x]
    BY <1>0, <2>1 DEF LocatorTypeOK
  <2>5. (\A l \in Lookups : Sound(lookup[l]))'
    BY <1>0, <2>1, <2>4, LookupsRest DEF LocatorTypeOK
  <2> QED BY <2>2, <2>3, <2>5 DEF LocatorInv
<1>2. ASSUME NEW p \in LocProjects, MakeProject(p) PROVE LocatorInv'
  <2>1. exists' = exists \cup {p} /\ UNCHANGED <<home, loc, miss, lifecycleGen, moving, lookup>>
    BY <1>2 DEF MakeProject
  <2>2. (\A l \in Lookups : Sound(lookup[l]))'
    BY <1>0, <2>1, LookupsRest DEF LocatorTypeOK
  <2> QED BY <1>0, <2>1, <2>2 DEF LocatorInv, LocatorTypeOK, Housed, NoFalseMiss
<1>3. ASSUME NEW kind \in {"rename", "remove"}, NEW from \in LocProjects,
             NEW to \in LocProjects \cup {Nowhere}, BeginMove(kind, from, to)
      PROVE  LocatorInv'
  <2>1. /\ kind = "rename" => to \in LocProjects
        /\ moving' = [kind |-> kind, from |-> from, to |-> to] /\ lifecycleGen' = lifecycleGen + 1
        /\ UNCHANGED <<exists, home, loc, miss, lookup>>
    BY <1>3 DEF BeginMove
  <2>2. LocatorTypeOK'
    BY <1>0, <2>1 DEF LocatorTypeOK
  <2>3. (\A l \in Lookups : Sound(lookup[l]))'
    BY <2>1, <2>2, LookupsRest DEF LocatorTypeOK
  <2> QED BY <1>0, <2>1, <2>2, <2>3 DEF LocatorInv, Housed, NoFalseMiss
<1>4. CASE EndMove
  <2>1. moving' = Still /\ lifecycleGen' = lifecycleGen + 1 /\ UNCHANGED <<loc, miss, lookup>>
    BY <1>4 DEF EndMove
  <2>2. /\ exists' \in SUBSET LocProjects /\ home' \in [LocTasks -> LocProjects \cup {Nowhere}]
        /\ Housed' /\ \A t \in LocTasks : home'[t] = Nowhere <=> home[t] = Nowhere
    <3>1. CASE moving.kind = "rename"
      <4>1. {moving.from, moving.to} \subseteq LocProjects /\ exists' = (exists \ {moving.from}) \cup {moving.to}
            /\ home' = [t \in LocTasks |-> IF home[t] = moving.from THEN moving.to ELSE home[t]]
        BY <1>0, <1>4, <3>1 DEF EndMove, LocatorTypeOK
      <4> QED BY <1>0, <4>1 DEF LocatorTypeOK, Housed
    <3>2. CASE moving.kind # "rename"
      BY <1>0, <1>4, <3>2 DEF EndMove, LocatorTypeOK, Housed, HoldsTask
    <3> QED BY <3>1, <3>2
  <2>3. LocatorTypeOK'
    BY <1>0, <2>1, <2>2 DEF LocatorTypeOK, Still
  <2>4. NoFalseMiss'
    BY <1>0, <2>1, <2>2 DEF NoFalseMiss
  <2>5. (\A l \in Lookups : Sound(lookup[l]))'
    BY <2>1, <2>2, <2>3, LookupsRest DEF LocatorTypeOK
  <2> QED BY <2>2, <2>3, <2>4, <2>5 DEF LocatorInv
<1>5. ASSUME (\E id \in LocIDs : ForgetMiss(id)) \/ ForgetHints PROVE LocatorInv'
  <2>1. /\ miss' \subseteq miss /\ loc' \in [LocTasks -> LocProjects \cup {Nowhere}]
        /\ UNCHANGED <<exists, home, lifecycleGen, moving, lookup>>
    BY <1>0, <1>5 DEF ForgetMiss, ForgetHints, LocatorTypeOK
  <2>2. (\A l \in Lookups : Sound(lookup[l]))'
    BY <1>0, <2>1, LookupsRest DEF LocatorTypeOK
  <2> QED BY <1>0, <2>1, <2>2 DEF LocatorInv, LocatorTypeOK, Housed, NoFalseMiss
<1> QED BY <1>1, <1>2, <1>3, <1>4, <1>5

-----------------------------------------------------------------------------
(* Steps of a lookup. *)

\* What is known of a lookup.
LEMMA LookupKnown ==
    ASSUME LocatorInv, NEW l \in Lookups
    PROVE  /\ lookup[l] \in LookupStates /\ Sound(lookup[l]) /\ lifecycleGen \in Nat
           /\ lookup[l].gen \in Nat /\ lookup[l].attempt \in 0 .. 3 /\ MaxAttempts = 3
           /\ lookup[l].id \in LocIDs
  BY DEF LocatorInv, LocatorTypeOK, LookupStates, MaxAttempts

\* A lookup moves to a state that is sound, and tells nobody that a task is missing.
LEMMA LookupMoves ==
    ASSUME LocatorInv, NEW l \in Lookups, NEW s \in LookupStates, Sound(s),
           lookup' = [lookup EXCEPT ![l] = s], UNCHANGED <<exists, home, lifecycleGen, moving>>,
           loc' \in [LocTasks -> LocProjects \cup {Nowhere}],
           \A t \in LocTasks : t \in miss' => t \in miss \/ home[t] = Nowhere
    PROVE  LocatorInv'
<1>1. LocatorTypeOK' /\ Housed' /\ NoFalseMiss'
  BY DEF LocatorInv, LocatorTypeOK, Housed, NoFalseMiss
<1>2. ASSUME NEW x \in Lookups PROVE Sound(lookup[x])'
  <2>1. lookup'[x] = IF x = l THEN s ELSE lookup[x]
    BY DEF LocatorInv, LocatorTypeOK
  <2>2. Sound(lookup'[x])
    BY <2>1 DEF LocatorInv
  <2> QED BY <2>2 DEF Sound, Sees
<1> QED BY <1>1, <1>2 DEF LocatorInv

\* An answer ends a lookup.
LEMMA AnswerEnds ==
    ASSUME LocatorInv, NEW l \in Lookups, NEW answer \in LookupAnswers, Answer(l, answer),
           answer = "notFound" /\ lookup[l].id \in LocTasks => lookup[l].attempt = MaxAttempts
    PROVE  \E s \in LookupStates : Sound(s) /\ lookup' = [lookup EXCEPT ![l] = s]
<1> DEFINE s == [[[[IdleLookup EXCEPT !.phase = "done"] EXCEPT !.id = lookup[l].id]
                      EXCEPT !.attempt = lookup[l].attempt] EXCEPT !.answer = answer]
<1>1. lookup' = [lookup EXCEPT ![l] = s]
  BY Zenon DEF Answer
<1>2. /\ lookup[l].id \in LocIDs /\ lookup[l].attempt \in 0 .. MaxAttempts /\ lifecycleGen \in Nat
      /\ lookup[l].id \in LocTasks => home[lookup[l].id] # Nowhere
  BY LookupKnown DEF Sound
<1>3. IdleLookup \in LookupStates
  BY DEF IdleLookup, LookupStates, LookupPhases, LookupAnswers, LocIDs, MaxAttempts
<1>4. /\ s \in LookupStates /\ s.phase = "done" /\ s.id = lookup[l].id /\ s.answer = answer
      /\ s.attempt = lookup[l].attempt /\ s.gen = 0
  BY <1>2, <1>3 DEF IdleLookup, LookupStates, LookupPhases
<1> HIDE DEF s
<1>5. Sees(s) /\ s.gen <= lifecycleGen
  BY <1>2, <1>4 DEF Sees
<1>6. s.answer = "notFound" /\ s.id \in LocTasks => s.attempt = MaxAttempts
  BY <1>4
<1>7. Sound(s)
  BY <1>2, <1>4, <1>5, <1>6 DEF Sound
<1> QED BY <1>1, <1>4, <1>7

\* From the request to the scan.
LEMMA LookStep ==
    ASSUME LocatorInv, NEW l \in Lookups,
           (\E id \in LocIDs : Look(l, id)) \/ TryHint(l) \/ TryMiss(l) \/ BeginScan(l) \/ ListProjects(l)
    PROVE  LocatorInv'
<1> DEFINE at == lookup[l]
<1>0. /\ at \in LookupStates /\ Sound(at) /\ lifecycleGen \in Nat /\ at.gen \in Nat
      /\ at.attempt \in 0 .. 3 /\ MaxAttempts = 3 /\ at.id \in LocIDs
      /\ LocatorTypeOK /\ Housed /\ NoFalseMiss
  BY LookupKnown DEF LocatorInv
<1>1. ASSUME NEW id \in LocIDs, Look(l, id) PROVE LocatorInv'
  <2> DEFINE s == [[IdleLookup EXCEPT !.phase = "hint"] EXCEPT !.id = id]
  <2>1. lookup' = [lookup EXCEPT ![l] = s] /\ UNCHANGED <<exists, home, loc, miss, lifecycleGen, moving>>
    BY <1>1, Zenon DEF Look
  <2>2. id \in LocTasks => home[id] # Nowhere
    BY <1>1, LocatorAssumption DEF Look, LocatorAssumption
  <2>3. /\ s \in LookupStates /\ s.phase = "hint" /\ s.id = id /\ s.answer = "none"
        /\ s.attempt = 0 /\ s.gen = 0
    <3>1. IdleLookup \in LookupStates
      BY DEF IdleLookup, LookupStates, LookupPhases, LookupAnswers, LocIDs, MaxAttempts
    <3> QED BY <3>1 DEF IdleLookup, LookupStates, LookupPhases
  <2> HIDE DEF s
  <2>4. Sound(s)
    BY <1>0, <2>2, <2>3 DEF Sound, Sees
  <2> QED BY <1>0, <2>1, <2>3, <2>4, LookupMoves DEF LocatorTypeOK
<1>2. ASSUME TryHint(l) PROVE LocatorInv'
  <2>1. /\ at.phase = "hint" /\ UNCHANGED <<exists, home, miss, lifecycleGen, moving>>
        /\ loc' \in [LocTasks -> LocProjects \cup {Nowhere}]
    BY <1>0, <1>2 DEF TryHint, LocatorTypeOK
  <2>2. CASE lookup' = [lookup EXCEPT ![l].phase = "miss"]
    <3> DEFINE s == [at EXCEPT !.phase = "miss"]
    <3>1. lookup' = [lookup EXCEPT ![l] = s]
      BY <2>2
    <3>2. /\ s \in LookupStates /\ s.phase = "miss" /\ s.id = at.id /\ s.answer = at.answer
          /\ s.attempt = at.attempt /\ s.gen = at.gen
      BY <1>0 DEF LookupStates, LookupPhases
    <3> HIDE DEF s
    <3>3. Sound(s)
      BY <1>0, <2>1, <3>2 DEF Sound, Sees
    <3> QED BY <2>1, <3>1, <3>2, <3>3, LookupMoves
  <2>3. CASE lookup' # [lookup EXCEPT ![l].phase = "miss"]
    <3>1. at.id \in LocTasks /\ home[at.id] = loc[at.id] /\ loc[at.id] # Nowhere /\ Answer(l, home[at.id])
      BY <1>0, <1>2, <2>3 DEF TryHint, LocIDs
    <3>2. home[at.id] \in LookupAnswers /\ home[at.id] # "notFound"
      BY <1>0, <3>1, LocatorAssumption DEF LocatorTypeOK, LookupAnswers, LocatorAssumption
    <3>3. \E s \in LookupStates : Sound(s) /\ lookup' = [lookup EXCEPT ![l] = s]
      BY <3>1, <3>2, AnswerEnds
    <3> QED BY <2>1, <3>3, LookupMoves
  <2> QED BY <2>2, <2>3
<1>3. ASSUME TryMiss(l) PROVE LocatorInv'
  <2>1. at.phase = "miss" /\ UNCHANGED <<exists, home, loc, miss, lifecycleGen, moving>>
    BY <1>3 DEF TryMiss
  <2>2. CASE at.id \in miss
    <3>1. at.id \notin LocTasks
      BY <1>0, <2>2 DEF Sound, NoFalseMiss
    <3>2. \E s \in LookupStates : Sound(s) /\ lookup' = [lookup EXCEPT ![l] = s]
      BY <1>3, <2>2, <3>1, AnswerEnds DEF TryMiss, LookupAnswers
    <3> QED BY <1>0, <2>1, <3>2, LookupMoves DEF LocatorTypeOK
  <2>3. CASE at.id \notin miss
    <3> DEFINE s == [at EXCEPT !.phase = "begin"]
    <3>1. lookup' = [lookup EXCEPT ![l] = s]
      BY <1>3, <2>3 DEF TryMiss
    <3>2. /\ s \in LookupStates /\ s.phase = "begin" /\ s.id = at.id /\ s.answer = at.answer
          /\ s.attempt = at.attempt /\ s.gen = at.gen
      BY <1>0 DEF LookupStates, LookupPhases
    <3> HIDE DEF s
    <3>3. Sound(s)
      BY <1>0, <2>1, <3>2 DEF Sound, Sees
    <3> QED BY <1>0, <2>1, <3>1, <3>2, <3>3, LookupMoves DEF LocatorTypeOK
  <2> QED BY <2>2, <2>3
<1>4. ASSUME BeginScan(l) PROVE LocatorInv'
  <2> DEFINE s == [[[[[at EXCEPT !.phase = "list"] EXCEPT !.gen = lifecycleGen]
                      EXCEPT !.attempt = at.attempt + 1] EXCEPT !.found = {}] EXCEPT !.unreadable = FALSE]
  <2>1. /\ at.phase = "begin" /\ lookup' = [lookup EXCEPT ![l] = s]
        /\ UNCHANGED <<exists, home, loc, miss, lifecycleGen, moving>>
    BY <1>4, Zenon DEF BeginScan
  <2>2. at.attempt + 1 \in 0 .. MaxAttempts
    BY <1>0, <2>1 DEF Sound
  <2>3. /\ s \in LookupStates /\ s.phase = "list" /\ s.id = at.id /\ s.answer = at.answer
        /\ s.gen = lifecycleGen /\ s.attempt = at.attempt + 1
    BY <1>0, <2>2 DEF LookupStates, LookupPhases
  <2> HIDE DEF s
  <2>4. at.answer = "notFound" => at.id \notin LocTasks
    BY <1>0, <2>1 DEF Sound
  <2>5. Sound(s)
    BY <1>0, <2>3, <2>4 DEF Sound, Sees
  <2> QED BY <1>0, <2>1, <2>3, <2>5, LookupMoves DEF LocatorTypeOK
<1>5. ASSUME ListProjects(l) PROVE LocatorInv'
  <2> DEFINE s == [[at EXCEPT !.phase = "scan"] EXCEPT !.todo = exists]
  <2>1. /\ at.phase = "list" /\ lookup' = [lookup EXCEPT ![l] = s]
        /\ UNCHANGED <<exists, home, loc, miss, lifecycleGen, moving>>
    BY <1>5, Zenon DEF ListProjects
  <2>2. /\ s \in LookupStates /\ s.phase = "scan" /\ s.id = at.id /\ s.answer = at.answer
        /\ s.gen = at.gen /\ s.attempt = at.attempt /\ s.todo = exists
    BY <1>0 DEF LookupStates, LookupPhases, LocatorTypeOK
  <2> HIDE DEF s
  <2>3. Sees(s)
    BY <1>0, <2>2 DEF Sees, Sound, Housed
  <2>4. Sound(s)
    BY <1>0, <2>2, <2>3 DEF Sound
  <2> QED BY <1>0, <2>1, <2>2, <2>4, LookupMoves DEF LocatorTypeOK
<1> QED BY <1>1, <1>2, <1>3, <1>4, <1>5

\* One project of the scan.
LEMMA ScanStep ==
    ASSUME LocatorInv, NEW l \in Lookups, NEW p \in LocProjects, ScanProject(l, p)
    PROVE  LocatorInv'
<1> DEFINE at == lookup[l]
           here == {t \in LocTasks : home[t] = p /\ StartsId(at.id, t)}
<1>0. /\ at \in LookupStates /\ Sound(at) /\ at.phase = "scan"
      /\ LocatorTypeOK /\ UNCHANGED <<exists, home, loc, miss, lifecycleGen, moving>>
  BY LookupKnown DEF LocatorInv, ScanProject
<1>1. PICK readable \in BOOLEAN :
         lookup' = [lookup EXCEPT
            ![l].todo = IF readable /\ here # {} /\ at.id # Prefix THEN {} ELSE @ \ {p},
            ![l].found = IF readable THEN @ \cup {<<t, p>> : t \in here} ELSE @,
            ![l].unreadable = @ \/ ~readable]
  BY DEF ScanProject
<1> DEFINE todo == IF readable /\ here # {} /\ at.id # Prefix THEN {} ELSE at.todo \ {p}
           hits == IF readable THEN at.found \cup {<<t, p>> : t \in here} ELSE at.found
           unreadable == at.unreadable \/ ~readable
           s == [[[at EXCEPT !.todo = todo] EXCEPT !.found = hits] EXCEPT !.unreadable = unreadable]
<1>2. lookup' = [lookup EXCEPT ![l] = s]
  BY <1>1, Zenon
<1>3. /\ todo \in SUBSET LocProjects /\ hits \in SUBSET (LocTasks \X LocProjects)
      /\ unreadable \in BOOLEAN
  BY <1>0 DEF LookupStates
<1>4. at.id \in LocTasks /\ home[at.id] \in at.todo => home[at.id] \in todo \/ hits # {} \/ unreadable = TRUE
  <2>1. CASE ~readable
    BY <2>1
  <2>2. CASE readable /\ home[at.id] = p /\ at.id \in LocTasks
    <3>1. at.id \in here
      BY <2>2 DEF StartsId
    <3>2. <<at.id, p>> \in hits
      BY <2>2, <3>1
    <3> QED BY <3>2
  <2>3. CASE readable /\ home[at.id] # p /\ here = {}
    BY <2>3
  <2>4. CASE readable /\ here # {}
    <3>1. PICK t \in here : TRUE
      BY <2>4
    <3>2. <<t, p>> \in hits
      BY <2>4, <3>1
    <3> QED BY <3>2
  <2> QED BY <2>1, <2>2, <2>3, <2>4
<1>5. at.found # {} => hits # {}
  OBVIOUS
<1>6. at.unreadable = TRUE => unreadable = TRUE
  OBVIOUS
<1> HIDE DEF todo, hits, unreadable
<1>7. /\ s \in LookupStates /\ s.phase = at.phase /\ s.id = at.id /\ s.answer = at.answer
      /\ s.gen = at.gen /\ s.attempt = at.attempt
      /\ s.todo = todo /\ s.found = hits /\ s.unreadable = unreadable
  BY <1>0, <1>3 DEF LookupStates
<1> HIDE DEF s
<1>8. Sees(s)
  BY <1>0, <1>4, <1>5, <1>6, <1>7 DEF Sound, Sees
<1>9. Sound(s)
  BY <1>0, <1>7, <1>8 DEF Sound
<1> QED BY <1>0, <1>2, <1>7, <1>9, LookupMoves DEF LocatorTypeOK

\* The end of the scan for a full id: it has seen the task, or it is not believed.
LEMMA ConcludeTaskStep ==
    ASSUME LocatorInv, NEW l \in Lookups, ConcludeTask(l)
    PROVE  LocatorInv'
<1> DEFINE at == lookup[l]
           result == CASE at.found # {} -> "found"
                       [] at.found = {} /\ at.unreadable -> "incomplete"
                       [] OTHER -> "notFound"
<1>0. /\ at \in LookupStates /\ Sound(at) /\ at.phase = "scan" /\ at.todo = {}
      /\ at.id \in LocTasks /\ LocatorTypeOK /\ NoFalseMiss
      /\ at.attempt \in 0 .. 3 /\ MaxAttempts = 3
      /\ UNCHANGED <<exists, home, lifecycleGen, moving>>
  BY LookupKnown DEF LocatorInv, ConcludeTask, LocIDs
<1>1. /\ result \in {"found", "incomplete", "notFound"}
      /\ at.found # {} => result = "found"
      /\ at.found = {} /\ at.unreadable = TRUE => result = "incomplete"
  BY <1>0 DEF LookupStates
<1>2. /\ Undisturbed(l) =>
            /\ \/ /\ result = "found"
                  /\ \E p \in LocProjects : <<at.id, p>> \in at.found /\ PutHint(at.id, p)
               \/ result = "notFound" /\ miss' = miss \cup {at.id} /\ UNCHANGED loc
               \/ result = "incomplete" /\ UNCHANGED <<loc, miss>>
            /\ Answer(l, result)
      /\ ~Undisturbed(l) =>
            /\ \/ at.attempt < MaxAttempts /\ lookup' = [lookup EXCEPT ![l].phase = "begin"]
               \/ ~(at.attempt < MaxAttempts) /\ Answer(l, result)
            /\ UNCHANGED <<loc, miss>>
  BY DEF ConcludeTask
<1> HIDE DEF result
<1>3. CASE Undisturbed(l)
  <2>1. at.found # {} \/ at.unreadable = TRUE
    BY <1>0, <1>3 DEF Sound, Sees, Undisturbed
  <2>2. result # "notFound" /\ result \in LookupAnswers
    BY <1>1, <2>1 DEF LookupAnswers
  <2>3. \E s \in LookupStates : Sound(s) /\ lookup' = [lookup EXCEPT ![l] = s]
    BY <1>2, <1>3, <2>2, AnswerEnds
  <2>4. loc' \in [LocTasks -> LocProjects \cup {Nowhere}] /\ miss' \subseteq miss
    BY <1>0, <1>2, <1>3, <2>2 DEF PutHint, LocatorTypeOK
  <2> QED BY <1>0, <2>3, <2>4, LookupMoves
<1>4. CASE ~Undisturbed(l) /\ at.attempt < MaxAttempts
  <2> DEFINE s == [at EXCEPT !.phase = "begin"]
  <2>1. lookup' = [lookup EXCEPT ![l] = s] /\ UNCHANGED <<loc, miss>>
    BY <1>2, <1>4
  <2>2. /\ s \in LookupStates /\ s.phase = "begin" /\ s.id = at.id /\ s.answer = at.answer
        /\ s.gen = at.gen /\ s.attempt = at.attempt
    BY <1>0 DEF LookupStates, LookupPhases
  <2> HIDE DEF s
  <2>3. Sound(s)
    BY <1>0, <1>4, <2>2 DEF Sound, Sees
  <2> QED BY <1>0, <2>1, <2>2, <2>3, LookupMoves DEF LocatorTypeOK
<1>5. CASE ~Undisturbed(l) /\ ~(at.attempt < MaxAttempts)
  <2>1. Answer(l, result) /\ at.attempt = MaxAttempts /\ result \in LookupAnswers
        /\ UNCHANGED <<loc, miss>>
    BY <1>0, <1>1, <1>2, <1>5 DEF LookupAnswers
  <2>2. \E s \in LookupStates : Sound(s) /\ lookup' = [lookup EXCEPT ![l] = s]
    BY <2>1, AnswerEnds
  <2> QED BY <1>0, <2>1, <2>2, LookupMoves DEF LocatorTypeOK
<1> QED BY <1>3, <1>4, <1>5

\* The end of the scan for a prefix: what it remembers as missing is no task's id.
LEMMA ConcludePrefixStep ==
    ASSUME LocatorInv, NEW l \in Lookups, ConcludePrefix(l)
    PROVE  LocatorInv'
<1>0. /\ lookup[l].id = Prefix /\ Prefix \notin LocTasks /\ LocatorTypeOK /\ lookup[l] \in LookupStates
      /\ UNCHANGED <<exists, home, lifecycleGen, moving>>
  BY LookupKnown, LocatorAssumption DEF LocatorInv, ConcludePrefix, LocatorAssumption
<1>1. PICK answer \in {"incomplete", "notFound", "found", "ambiguous"} : Answer(l, answer)
  BY DEF ConcludePrefix
<1>2. \E s \in LookupStates : Sound(s) /\ lookup' = [lookup EXCEPT ![l] = s]
  BY <1>0, <1>1, AnswerEnds DEF LookupAnswers
<1>3. loc' \in [LocTasks -> LocProjects \cup {Nowhere}] /\ miss' \subseteq miss \cup {Prefix}
  <2>1. CASE UNCHANGED loc
    BY <1>0, <2>1 DEF ConcludePrefix, LocatorTypeOK, PutHint
  <2>2. CASE \E f \in lookup[l].found : PutHint(f[1], f[2])
    BY <1>0, <2>2 DEF LookupStates, LocatorTypeOK, PutHint
  <2> QED BY <2>1, <2>2 DEF ConcludePrefix
<1> QED BY <1>0, <1>2, <1>3, LookupMoves

\* Every step keeps the invariant.
LEMMA LocatorInvStep == LocatorInv /\ [LocatorNext]_locatorVars => LocatorInv'
<1> SUFFICES ASSUME LocatorInv, [LocatorNext]_locatorVars PROVE LocatorInv'
  OBVIOUS
<1>1. CASE UNCHANGED locatorVars
  <2>1. UNCHANGED <<exists, home, loc, miss, lifecycleGen, moving, lookup>>
    BY <1>1 DEF locatorVars
  <2>2. (\A l \in Lookups : Sound(lookup[l]))'
    BY <2>1, LookupsRest DEF LocatorInv, LocatorTypeOK
  <2> QED BY <2>1, <2>2 DEF LocatorInv, LocatorTypeOK, Housed, NoFalseMiss
<1> QED BY <1>1, ProjectsStep, LookStep, ScanStep, ConcludeTaskStep, ConcludePrefixStep DEF LocatorNext

-----------------------------------------------------------------------------
(* The theorems about lookups. *)

\* A task a client was told of is never remembered as missing (taskHints.noteMiss).
THEOREM NoFalseMissHolds == LocatorSpec => []NoFalseMiss
<1>1. LocatorInv => NoFalseMiss
  BY DEF LocatorInv
<1> QED BY LocatorInvInit, LocatorInvStep, <1>1, PTL DEF LocatorSpec

\* Such a task is answered as not found only after three disturbed scans (LocateTask).
THEOREM NotFoundOnlyInChurnHolds == LocatorSpec => []NotFoundOnlyInChurn
<1>1. LocatorInv => NotFoundOnlyInChurn
  BY DEF LocatorInv, Sound, NotFoundOnlyInChurn
<1> QED BY LocatorInvInit, LocatorInvStep, <1>1, PTL DEF LocatorSpec

-----------------------------------------------------------------------------
(* The registry of projects: types. *)

StoreStates == [items : SUBSET Requests, removed : BOOLEAN]
Handles == [store : Nat, closed : BOOLEAN, renamed : BOOLEAN]
ServingPhases == {"new", "opened", "begun", "writing", "committed", "failed"}
OperationPhases == {"none", "copying", "locked", "closing", "drained"}
OperationStates ==
    [kind : {"none", "drop", "merge"}, phase : OperationPhases, from : ProjectNames \cup {"none"},
     to : ProjectNames \cup {"none"}, read : SUBSET Requests]

LifecycleTypeOK ==
    /\ dirs \in [ProjectNames -> Nat]
    /\ stores \in Seq(StoreStates) /\ Len(stores) <= MaxStores
    /\ handles \in Seq(Handles)
    /\ cache \in [ProjectNames -> Nat]
    /\ writing \in [1 .. MaxStores -> Requests \cup {NoRequestHere}]
    /\ serving \in [Requests -> [phase : ServingPhases, handle : Nat]]
    /\ operation \in OperationStates

-----------------------------------------------------------------------------
(* Directories, handles and requests. *)

\* A project's directory is its own and is there; a cached handle is that of its
\* directory, and every other handle is closed.
Directories ==
    /\ \A n \in ProjectNames :
          dirs[n] # 0 => dirs[n] \in 1 .. Len(stores) /\ ~stores[dirs[n]].removed
    /\ \A m, n \in ProjectNames : dirs[m] = dirs[n] /\ dirs[m] # 0 => m = n
    /\ \A n \in ProjectNames :
          cache[n] # 0 => /\ cache[n] \in 1 .. Len(handles) /\ dirs[n] # 0
                          /\ handles[cache[n]].store = dirs[n] /\ ~handles[cache[n]].renamed
    /\ \A h \in 1 .. Len(handles) :
          /\ handles[h].store \in 1 .. Len(stores)
          /\ ~handles[h].closed => \E n \in ProjectNames : cache[n] = h

Cached(h) == \E n \in ProjectNames : cache[n] = h

\* A request's write is locked where its handle points; what it committed is there;
\* a handle that was closed and drained has nobody who waits for the lock; what is
\* removed takes nobody with it, but through a handle that a rename closed.
Serves(r) ==
    LET h == serving[r].handle
        phase == serving[r].phase IN
    /\ phase = "new" => h = 0
    /\ phase # "new" =>
          /\ h \in 1 .. Len(handles)
          /\ phase = "writing" => writing[handles[h].store] = r
          /\ phase = "committed" => r \in stores[handles[h].store].items
          /\ phase = "begun" => Cached(h) \/ handles[h].renamed
          /\ stores[handles[h].store].removed /\ ~handles[h].renamed =>
                phase \notin {"begun", "writing"} /\ (r \in TaskRequests => phase # "committed")

Using(r) == serving[r].phase \in {"begun", "writing"}

OneAtATime ==
    \A q, r \in Requests : Using(q) /\ Using(r) /\ serving[q].handle = serving[r].handle => q = r

OperationOK ==
    /\ operation.phase # "none" => operation.from \in ProjectNames /\ dirs[operation.from] # 0
    /\ operation.phase = "copying" => operation.to \in ProjectNames
    /\ operation.phase = "closing" => cache[operation.from] # 0
    /\ operation.phase = "drained" => cache[operation.from] = 0
    /\ operation.phase = "none" => operation = NoOperation

LifecycleInv ==
    LifecycleTypeOK /\ Directories /\ (\A r \in Requests : Serves(r)) /\ OneAtATime /\ OperationOK

\* The invariant holds at the start.
LEMMA LifecycleInvInit == LifecycleInit => LifecycleInv
<1> SUFFICES ASSUME LifecycleInit PROVE LifecycleInv
  OBVIOUS
<1>1. /\ stores \in Seq(StoreStates) /\ Len(stores) = 0 /\ handles \in Seq(Handles) /\ Len(handles) = 0
      /\ MaxStores \in Nat
  BY LifecycleAssumption DEF LifecycleInit, LifecycleAssumption
<1>2. NoOperation \in OperationStates /\ NoOperation.phase = "none"
  BY DEF NoOperation, OperationStates, OperationPhases
<1>3. LifecycleTypeOK
  BY <1>1, <1>2 DEF LifecycleInit, LifecycleTypeOK, ServingPhases
<1>4. OperationOK
  BY <1>2 DEF LifecycleInit, OperationOK
<1>5. \A r \in Requests : serving[r].phase = "new" /\ serving[r].handle = 0
  BY DEF LifecycleInit
<1> QED BY <1>1, <1>3, <1>4, <1>5 DEF LifecycleInit, LifecycleInv, Directories, Serves, OneAtATime, Using

-----------------------------------------------------------------------------
(* Steps of a request. *)

\* A request that has its handle begins, locks, commits or fails.
LEMMA WriteStep ==
    ASSUME LifecycleInv, NEW r \in Requests,
           BeginWrite(r) \/ LockWrite(r) \/ CommitWrite(r) \/ FailWrite(r)
    PROVE  LifecycleInv'
<1> DEFINE h == serving[r].handle
<1>0. /\ LifecycleTypeOK /\ Directories /\ OneAtATime /\ OperationOK /\ Serves(r)
      /\ serving[r].phase # "new" /\ h \in 1 .. Len(handles) /\ h \in Nat
      /\ UNCHANGED <<dirs, handles, cache, operation, operations>>
  BY DEF LifecycleInv, Serves, BeginWrite, LockWrite, CommitWrite, FailWrite
<1>1. PICK phase \in {"begun", "writing", "committed", "failed"} :
         serving' = [serving EXCEPT ![r].phase = phase]
  BY DEF BeginWrite, LockWrite, CommitWrite, FailWrite
<1>2. /\ serving' \in [Requests -> [phase : ServingPhases, handle : Nat]]
      /\ serving'[r].phase = phase /\ serving'[r].handle = h
      /\ \A q \in Requests \ {r} : serving'[q] = serving[q]
  BY <1>0, <1>1 DEF LifecycleTypeOK, ServingPhases
<1>3. handles[h].store \in 1 .. Len(stores) /\ handles[h].store \in 1 .. MaxStores
  BY <1>0, LifecycleAssumption, LenProperties DEF Directories, LifecycleTypeOK, LifecycleAssumption
<1>4. /\ stores' \in Seq(StoreStates) /\ Len(stores') = Len(stores)
      /\ \A s \in 1 .. Len(stores) : /\ stores'[s].removed = stores[s].removed
                                     /\ stores[s].items \subseteq stores'[s].items
      /\ phase = "committed" => r \in stores'[handles[h].store].items
  <2>1. CASE CommitWrite(r)
    <3> DEFINE s == handles[h].store
               store == [stores[s] EXCEPT !.items = stores[s].items \cup {r}]
    <3>1. stores' = [stores EXCEPT ![s] = store]
      BY <2>1 DEF CommitWrite, StoreOf
    <3>2. stores[s] \in StoreStates
      BY <1>0, <1>3, ElementOfSeq DEF LifecycleTypeOK
    <3>3. /\ store \in StoreStates /\ store.removed = stores[s].removed
          /\ store.items = stores[s].items \cup {r}
      BY <3>2 DEF StoreStates
    <3> HIDE DEF store, s
    <3>4. stores \in Seq(StoreStates) /\ s \in 1 .. Len(stores)
      BY <1>0, <1>3 DEF LifecycleTypeOK, s
    <3>5. /\ stores' \in Seq(StoreStates) /\ Len(stores') = Len(stores)
          /\ \A j \in 1 .. Len(stores) : stores'[j] = IF j = s THEN store ELSE stores[j]
      BY <3>1, <3>3, <3>4, ExceptSeq
    <3> QED BY <3>3, <3>4, <3>5 DEF s
  <2>2. CASE ~CommitWrite(r)
    <3>1. UNCHANGED stores /\ phase # "committed"
      BY <1>0, <1>2, <2>2 DEF BeginWrite, LockWrite, FailWrite
    <3> QED BY <1>0, <3>1 DEF LifecycleTypeOK
  <2> QED BY <2>1, <2>2
<1>5. /\ writing' \in [1 .. MaxStores -> Requests \cup {NoRequestHere}]
      /\ \A s \in 1 .. MaxStores :
            /\ writing'[s] = writing[s] \/ writing[s] \in {NoRequestHere, r}
            /\ phase = "writing" /\ s = handles[h].store => writing'[s] = r
  <2>1. CASE BeginWrite(r) \/ FailWrite(r)
    BY <1>0, <1>2, <2>1 DEF LifecycleTypeOK, BeginWrite, FailWrite
  <2>2. CASE LockWrite(r)
    BY <1>0, <1>2, <1>3, <2>2 DEF LifecycleTypeOK, LockWrite, StoreOf
  <2>3. CASE CommitWrite(r)
    <3>1. phase = "committed" /\ writing[handles[h].store] = r
      BY <1>0, <1>2, <2>3 DEF CommitWrite, Serves, LifecycleTypeOK
    <3> QED BY <1>0, <1>3, <2>3, <3>1 DEF LifecycleTypeOK, CommitWrite, StoreOf
  <2> QED BY <2>1, <2>2, <2>3
<1>6. LifecycleTypeOK' /\ Directories'
  BY <1>0, <1>2, <1>4, <1>5 DEF LifecycleTypeOK, Directories
<1>7. OperationOK'
  BY <1>0 DEF OperationOK
<1>8. ASSUME NEW q \in Requests \ {r} PROVE Serves(q)'
  <2>1. /\ Serves(q) /\ serving'[q] = serving[q] /\ q # NoRequestHere
        /\ serving[q].handle \in 1 .. Len(handles) =>
              /\ handles[serving[q].handle].store \in 1 .. Len(stores)
              /\ handles[serving[q].handle].store \in 1 .. MaxStores
    <3>1. Len(stores) \in Nat /\ MaxStores \in Nat /\ Len(stores) <= MaxStores
      BY <1>0, LenProperties, LifecycleAssumption DEF LifecycleTypeOK, LifecycleAssumption
    <3>2. serving[q].handle \in 1 .. Len(handles) => handles[serving[q].handle].store \in 1 .. Len(stores)
      BY <1>0 DEF Directories
    <3> QED BY <1>2, <3>1, <3>2, LifecycleAssumption DEF LifecycleInv, LifecycleAssumption
  <2> QED BY <1>0, <1>4, <1>5, <2>1 DEF Serves, Cached
<1>9. Serves(r)'
  <2>1. CASE BeginWrite(r)
    <3>1. phase = "begun" /\ ~handles[h].closed
      BY <1>2, <2>1, <1>0 DEF BeginWrite, LifecycleTypeOK
    <3>2. PICK n \in ProjectNames : cache[n] = h
      BY <1>0, <3>1 DEF Directories
    <3>3. h # 0 /\ dirs[n] # 0 /\ handles[h].store = dirs[n] /\ ~stores[dirs[n]].removed
      BY <1>0, <3>2 DEF Directories
    <3>4. ~stores'[handles[h].store].removed
      BY <1>3, <1>4, <3>3
    <3> QED BY <1>0, <1>2, <3>1, <3>2, <3>4 DEF Serves, Cached
  <2>2. CASE LockWrite(r)
    <3>1. phase = "writing" /\ serving[r].phase = "begun"
      BY <1>2, <2>2, <1>0 DEF LockWrite, LifecycleTypeOK
    <3> QED BY <1>0, <1>2, <1>3, <1>4, <1>5, <3>1 DEF Serves
  <2>3. CASE CommitWrite(r)
    <3>1. phase = "committed" /\ serving[r].phase = "writing"
      BY <1>2, <2>3, <1>0 DEF CommitWrite, LifecycleTypeOK
    <3> QED BY <1>0, <1>2, <1>3, <1>4, <3>1 DEF Serves
  <2>4. CASE FailWrite(r)
    <3>1. phase = "failed"
      BY <1>2, <2>4, <1>0 DEF FailWrite, LifecycleTypeOK
    <3> QED BY <1>0, <1>2, <3>1 DEF Serves
  <2> QED BY <2>1, <2>2, <2>3, <2>4
<1>10. OneAtATime'
  <2>1. phase \in {"begun", "writing"} =>
           \A q \in Requests \ {r} : ~(Using(q) /\ serving[q].handle = h)
    <3>1. CASE BeginWrite(r)
      BY <3>1 DEF BeginWrite, InUse, Using
    <3>2. CASE LockWrite(r)
      BY <1>0, <3>2 DEF LockWrite, OneAtATime, Using
    <3>3. CASE CommitWrite(r) \/ FailWrite(r)
      BY <1>0, <1>2, <3>3 DEF CommitWrite, FailWrite, LifecycleTypeOK
    <3> QED BY <3>1, <3>2, <3>3
  <2> QED BY <1>0, <1>2, <2>1 DEF OneAtATime, Using
<1> QED BY <1>6, <1>7, <1>8, <1>9, <1>10 DEF LifecycleInv

\* A request gets its handle.
LEMMA HandleStep ==
    ASSUME LifecycleInv, NEW r \in Requests, NEW n \in ProjectNames, GetHandle(r, n)
    PROVE  LifecycleInv'
<1>0. /\ LifecycleTypeOK /\ Directories /\ OneAtATime /\ OperationOK
      /\ serving[r].phase = "new" /\ UNCHANGED <<writing, operation, operations>>
      /\ Len(handles) \in Nat /\ Len(stores) \in Nat
  BY LenProperties DEF LifecycleInv, LifecycleTypeOK, GetHandle
<1>1. ASSUME NEW h \in Nat, serving' = [serving EXCEPT ![r] = [phase |-> "opened", handle |-> h]]
      PROVE  /\ serving' \in [Requests -> [phase : ServingPhases, handle : Nat]]
             /\ serving'[r].phase = "opened" /\ serving'[r].handle = h
             /\ \A q \in Requests \ {r} : serving'[q] = serving[q]
             /\ OneAtATime'
  <2>1. /\ serving' \in [Requests -> [phase : ServingPhases, handle : Nat]]
        /\ serving'[r].phase = "opened" /\ serving'[r].handle = h
        /\ \A q \in Requests \ {r} : serving'[q] = serving[q]
    BY <1>0, <1>1 DEF LifecycleTypeOK, ServingPhases
  <2> QED BY <1>0, <2>1 DEF OneAtATime, Using
<1>2. CASE cache[n] # 0
  <2>1. /\ serving' = [serving EXCEPT ![r] = [phase |-> "opened", handle |-> cache[n]]]
        /\ UNCHANGED <<dirs, stores, handles, cache>> /\ cache[n] \in Nat
        /\ cache[n] \in 1 .. Len(handles)
    BY <1>0, <1>2 DEF GetHandle, LifecycleTypeOK, Directories
  <2>2. /\ serving' \in [Requests -> [phase : ServingPhases, handle : Nat]] /\ OneAtATime'
        /\ serving'[r].phase = "opened" /\ serving'[r].handle = cache[n]
        /\ \A q \in Requests \ {r} : serving'[q] = serving[q]
    BY <1>1, <2>1
  <2>5. LifecycleTypeOK' /\ Directories' /\ OperationOK'
    BY <1>0, <2>1, <2>2 DEF LifecycleTypeOK, Directories, OperationOK
  <2>3. ASSUME NEW q \in Requests \ {r} PROVE Serves(q)'
    BY <1>0, <2>1, <2>2 DEF LifecycleInv, Serves, Cached
  <2>4. Serves(r)'
    BY <2>1, <2>2 DEF Serves, Cached
  <2> QED BY <2>2, <2>3, <2>4, <2>5 DEF LifecycleInv
<1>3. CASE cache[n] = 0
  <2> DEFINE store == IF dirs[n] # 0 THEN dirs[n] ELSE Len(stores) + 1
             h == Len(handles) + 1
             new == [items |-> {}, removed |-> FALSE]
  <2>1. /\ dirs[n] = 0 => Len(stores) + 1 <= MaxStores
        /\ dirs' = [dirs EXCEPT ![n] = store]
        /\ stores' = IF dirs[n] # 0 THEN stores ELSE Append(stores, new)
        /\ handles' = Append(handles, HandleOf(store))
        /\ cache' = [cache EXCEPT ![n] = h]
        /\ serving' = [serving EXCEPT ![r] = [phase |-> "opened", handle |-> h]]
    BY <1>3, Zenon DEF GetHandle
  <2>2. /\ stores' \in Seq(StoreStates) /\ Len(stores') <= MaxStores
        /\ store \in 1 .. Len(stores') /\ ~stores'[store].removed
        /\ Len(stores') \in Nat /\ Len(stores) <= Len(stores')
        /\ \A s \in 1 .. Len(stores) : stores'[s] = stores[s]
        /\ dirs[n] = 0 => store \notin 1 .. Len(stores)
    <3>1. CASE dirs[n] # 0
      BY <1>0, <2>1, <3>1 DEF LifecycleTypeOK, Directories
    <3>2. CASE dirs[n] = 0
      <4>1. new \in StoreStates /\ new.removed = FALSE
        BY DEF StoreStates
      <4>2. stores' = Append(stores, new) /\ store = Len(stores) + 1
        BY <2>1, <3>2
      <4> HIDE DEF new
      <4>3. /\ stores' \in Seq(StoreStates) /\ Len(stores') = Len(stores) + 1
            /\ stores'[Len(stores) + 1] = new
            /\ \A s \in 1 .. Len(stores) : stores'[s] = stores[s]
        BY <1>0, <4>1, <4>2 DEF LifecycleTypeOK
      <4> QED BY <1>0, <2>1, <3>2, <4>1, <4>2, <4>3
    <3> QED BY <3>1, <3>2
  <2>a. store \in Nat /\ store # 0 /\ (dirs[n] # 0 => store = dirs[n])
    BY <2>2
  <2> HIDE DEF store
  <2>b. \A s \in 1 .. Len(stores) : stores'[s] = stores[s] /\ s \in 1 .. Len(stores')
    BY <1>0, <2>2
  <2>c. ~stores'[store].removed /\ store \in 1 .. Len(stores')
        /\ (dirs[n] = 0 => store \notin 1 .. Len(stores))
    BY <2>2
  <2>3. HandleOf(store) \in Handles /\ HandleOf(store).store = store /\ ~HandleOf(store).renamed
    BY <2>a DEF HandleOf, Handles
  <2>4. /\ handles' \in Seq(Handles) /\ Len(handles') = h /\ handles'[h] = HandleOf(store)
        /\ \A x \in 1 .. Len(handles) : handles'[x] = handles[x]
    BY <1>0, <2>1, <2>3 DEF LifecycleTypeOK
  <2>5. /\ dirs' \in [ProjectNames -> Nat] /\ cache' \in [ProjectNames -> Nat]
        /\ dirs'[n] = store /\ cache'[n] = h
        /\ \A m \in ProjectNames \ {n} : dirs'[m] = dirs[m] /\ cache'[m] = cache[m]
    BY <1>0, <2>1, <2>a DEF LifecycleTypeOK
  <2>6. h \in Nat /\ h # 0 /\ h \notin 1 .. Len(handles) /\ h \in 1 .. Len(handles')
    BY <1>0, <2>4
  <2>7. /\ serving' \in [Requests -> [phase : ServingPhases, handle : Nat]]
        /\ serving'[r].phase = "opened" /\ serving'[r].handle = h
        /\ \A q \in Requests \ {r} : serving'[q] = serving[q]
        /\ OneAtATime'
    BY <1>1, <2>1, <2>6
  <2>8. LifecycleTypeOK'
    BY <1>0, <2>2, <2>4, <2>5, <2>7 DEF LifecycleTypeOK
  <2>9. \A x \in 1 .. Len(handles') : x = h \/ x \in 1 .. Len(handles)
    BY <1>0, <2>4
  <2> HIDE DEF h
  <2>10. Directories'
    <3>1. \A m \in ProjectNames : dirs'[m] # 0 => dirs'[m] \in 1 .. Len(stores') /\ ~stores'[dirs'[m]].removed
      BY <1>0, <2>a, <2>b, <2>c, <2>5 DEF Directories
    <3>2. \A l, m \in ProjectNames : dirs'[l] = dirs'[m] /\ dirs'[l] # 0 => l = m
      <4>1. \A m \in ProjectNames \ {n} : dirs[m] # store \/ dirs[m] = 0
        BY <1>0, <2>a, <2>c DEF Directories
      <4> QED BY <1>0, <2>5, <4>1 DEF Directories
    <3>3. \A m \in ProjectNames :
             cache'[m] # 0 => /\ cache'[m] \in 1 .. Len(handles') /\ dirs'[m] # 0
                              /\ handles'[cache'[m]].store = dirs'[m] /\ ~handles'[cache'[m]].renamed
      <4>1. Len(handles) <= Len(handles') /\ Len(handles') \in Nat
        BY <1>0, <2>4 DEF h
      <4> QED BY <1>0, <2>a, <2>3, <2>4, <2>5, <2>6, <4>1 DEF Directories
    <3>4. \A x \in 1 .. Len(handles') :
             /\ handles'[x].store \in 1 .. Len(stores')
             /\ ~handles'[x].closed => \E m \in ProjectNames : cache'[m] = x
      BY <1>0, <1>3, <2>b, <2>c, <2>3, <2>4, <2>5, <2>6, <2>9 DEF Directories
    <3> QED BY <3>1, <3>2, <3>3, <3>4 DEF Directories
  <2>11. OperationOK'
    <3>1. operation.phase \in {"none", "copying"} /\ (operation.phase = "copying" => dirs'[operation.from] # 0)
      BY <1>0, <2>a, <2>5 DEF GetHandle, MutexFree, OperationOK
    <3> QED BY <1>0, <3>1 DEF OperationOK
  <2>12. ASSUME NEW q \in Requests \ {r} PROVE Serves(q)'
    <3>1. Serves(q) /\ serving'[q] = serving[q] /\ serving[q].handle \in Nat
          /\ serving[q].phase \in ServingPhases
      BY <1>0, <2>7 DEF LifecycleInv, LifecycleTypeOK
    <3>2. CASE serving[q].phase = "new"
      BY <3>1, <3>2 DEF Serves
    <3>3. CASE serving[q].phase # "new"
      <4> DEFINE x == serving[q].handle
      <4>1. /\ x \in 1 .. Len(handles) /\ x \in 1 .. Len(handles') /\ handles'[x] = handles[x]
            /\ handles[x].store \in 1 .. Len(stores)
        BY <1>0, <2>4, <3>1, <3>3 DEF Serves, Directories, h
      <4>2. stores'[handles[x].store] = stores[handles[x].store]
        BY <2>b, <4>1
      <4>3. Cached(x) => Cached(x)'
        <5>1. x # 0
          BY <1>0, <4>1
        <5>2. ASSUME NEW m \in ProjectNames, cache[m] = x PROVE cache'[m] = x
          BY <1>3, <2>5, <5>1, <5>2
        <5> QED BY <3>1, <5>2 DEF Cached
      <4> QED BY <1>0, <3>1, <3>3, <4>1, <4>2, <4>3 DEF Serves
    <3> QED BY <3>2, <3>3
  <2>13. Serves(r)'
    BY <2>6, <2>7 DEF Serves
  <2> QED BY <2>7, <2>8, <2>10, <2>11, <2>12, <2>13 DEF LifecycleInv
<1> QED BY <1>2, <1>3

-----------------------------------------------------------------------------
(* Steps of the lifecycle operations. *)

\* A step that closes no handle and moves no directory.
LEMMA QuietStep ==
    ASSUME LifecycleInv, UNCHANGED <<dirs, handles, cache, writing, serving>>,
           stores' \in Seq(StoreStates), Len(stores') = Len(stores),
           \A s \in 1 .. Len(stores) : /\ stores'[s].removed = stores[s].removed
                                       /\ stores[s].items \subseteq stores'[s].items,
           operation' \in OperationStates, OperationOK'
    PROVE  LifecycleInv'
<1>1. LifecycleTypeOK' /\ Directories' /\ OneAtATime'
  BY DEF LifecycleInv, LifecycleTypeOK, Directories, OneAtATime, Using
<1>2. ASSUME NEW r \in Requests PROVE Serves(r)'
  <2>1. serving[r].handle \in 1 .. Len(handles) => handles[serving[r].handle].store \in 1 .. Len(stores)
    BY DEF LifecycleInv, Directories
  <2> QED BY <2>1 DEF LifecycleInv, Serves, Cached
<1> QED BY <1>1, <1>2 DEF LifecycleInv

\* The operation goes on to another phase.
LEMMA OperationSteps ==
    ASSUME operation \in OperationStates, NEW phase \in OperationPhases, Steps(phase)
    PROVE  /\ operation' \in OperationStates /\ operation'.phase = phase
           /\ operation'.from = operation.from /\ operation'.to = operation.to
  BY DEF OperationStates, Steps

\* A drop begins.
LEMMA BeginDropStep ==
    ASSUME LifecycleInv, NEW n \in ProjectNames, BeginDrop(n)
    PROVE  LifecycleInv'
<1> DEFINE op == [[[NoOperation EXCEPT !.kind = "drop"] EXCEPT !.phase = "locked"] EXCEPT !.from = n]
<1>1. operation' = op /\ dirs[n] # 0 /\ UNCHANGED <<dirs, stores, handles, cache, writing, serving>>
  BY Zenon DEF BeginDrop, Begins
<1>2. op \in OperationStates /\ op.phase = "locked" /\ op.from = n
  BY DEF NoOperation, OperationStates, OperationPhases
<1> HIDE DEF op
<1>3. OperationOK'
  BY <1>1, <1>2 DEF OperationOK
<1> QED BY <1>1, <1>2, <1>3, QuietStep DEF LifecycleInv, LifecycleTypeOK

\* The live handle is asked for tasks.
LEMMA CheckLiveStep == LifecycleInv /\ CheckLive => LifecycleInv'
<1> SUFFICES ASSUME LifecycleInv, CheckLive PROVE LifecycleInv'
  OBVIOUS
<1>0. /\ operation.phase = "locked" /\ UNCHANGED <<dirs, stores, handles, cache, writing, serving>>
      /\ LifecycleTypeOK /\ OperationOK
  BY DEF CheckLive, Refused, LifecycleInv
<1>1. NoOperation \in OperationStates /\ NoOperation.phase = "none"
  BY DEF NoOperation, OperationStates, OperationPhases
<1>2. operation' \in OperationStates /\ OperationOK'
  <2>1. CASE Steps("drained") /\ cache[operation.from] = 0
    <3>1. /\ operation' \in OperationStates /\ operation'.phase = "drained"
          /\ operation'.from = operation.from
      BY <1>0, <2>1, OperationSteps DEF LifecycleTypeOK, OperationPhases
    <3> QED BY <1>0, <2>1, <3>1 DEF OperationOK
  <2>2. CASE Steps("closing") /\ cache[operation.from] # 0
    <3>1. /\ operation' \in OperationStates /\ operation'.phase = "closing"
          /\ operation'.from = operation.from
      BY <1>0, <2>2, OperationSteps DEF LifecycleTypeOK, OperationPhases
    <3> QED BY <1>0, <2>2, <3>1 DEF OperationOK
  <2>3. CASE operation' = NoOperation
    BY <1>1, <2>3 DEF OperationOK
  <2> QED BY <2>1, <2>2, <2>3 DEF CheckLive, Refused
<1> QED BY <1>0, <1>2, QuietStep DEF LifecycleTypeOK

\* A page of a merge is copied, or there is none left.
LEMMA CopyPageStep == LifecycleInv /\ CopyPage => LifecycleInv'
<1> SUFFICES ASSUME LifecycleInv, CopyPage PROVE LifecycleInv'
  OBVIOUS
<1> DEFINE page == (stores[dirs[operation.from]].items \cap EventRequests) \ operation.read
           target == dirs[operation.to]
<1>0. /\ operation.phase = "copying" /\ UNCHANGED <<dirs, handles, cache, writing, serving>>
      /\ LifecycleTypeOK /\ OperationOK /\ Directories /\ page \subseteq Requests
  BY DEF CopyPage, LifecycleInv, Requests
<1>1. CASE page = {}
  <2>1. Steps("locked") /\ UNCHANGED stores
    BY <1>1 DEF CopyPage
  <2>2. /\ operation' \in OperationStates /\ operation'.phase = "locked"
        /\ operation'.from = operation.from
    BY <1>0, <2>1, OperationSteps DEF LifecycleTypeOK, OperationPhases
  <2>3. OperationOK'
    BY <1>0, <2>2 DEF OperationOK
  <2> QED BY <1>0, <2>1, <2>2, <2>3, QuietStep DEF LifecycleTypeOK
<1>2. CASE page # {}
  <2>1. PICK refused : stores' = [stores EXCEPT ![target].items = @ \cup (page \ refused)]
    BY <1>2 DEF CopyPage
  <2>2. operation' = [operation EXCEPT !.read = operation.read \cup page]
    BY <1>2 DEF CopyPage
  <2>3. /\ operation' \in OperationStates /\ operation'.phase = "copying"
        /\ operation'.from = operation.from /\ operation'.to = operation.to
    BY <1>0, <2>2 DEF LifecycleTypeOK, OperationStates
  <2>4. OperationOK'
    BY <1>0, <2>3 DEF OperationOK
  <2>5. /\ stores' \in Seq(StoreStates) /\ Len(stores') = Len(stores)
        /\ \A s \in 1 .. Len(stores) : /\ stores'[s].removed = stores[s].removed
                                       /\ stores[s].items \subseteq stores'[s].items
    <3> DEFINE store == [stores[target] EXCEPT !.items = stores[target].items \cup (page \ refused)]
    <3>1. stores' = [stores EXCEPT ![target] = store]
      BY <2>1
    <3>2. stores \in Seq(StoreStates)
      BY <1>0 DEF LifecycleTypeOK
    <3>3. CASE target \in 1 .. Len(stores)
      <4>1. stores[target] \in StoreStates
        BY <3>2, <3>3, ElementOfSeq
      <4>2. /\ store \in StoreStates /\ store.removed = stores[target].removed
            /\ stores[target].items \subseteq store.items
        BY <1>0, <4>1 DEF StoreStates
      <4> HIDE DEF store, target
      <4>3. /\ stores' \in Seq(StoreStates) /\ Len(stores') = Len(stores)
            /\ \A j \in 1 .. Len(stores) : stores'[j] = IF j = target THEN store ELSE stores[j]
        BY <3>1, <3>2, <3>3, <4>2, ExceptSeq
      <4> QED BY <4>2, <4>3
    <3>4. CASE target \notin 1 .. Len(stores)
      <4>1. stores \in [1 .. Len(stores) -> StoreStates]
        BY <3>2, LenProperties
      <4> HIDE DEF store, target
      <4>2. stores' = stores
        BY <3>1, <3>4, <4>1
      <4> QED BY <3>2, <4>2
    <3> QED BY <3>3, <3>4
  <2> QED BY <1>0, <2>3, <2>4, <2>5, QuietStep
<1> QED BY <1>1, <1>2

\* A handle is closed; then it is forgotten, when nobody waits for the lock any more.
LEMMA CloseHandleStep == LifecycleInv /\ CloseHandle => LifecycleInv'
<1> SUFFICES ASSUME LifecycleInv, CloseHandle PROVE LifecycleInv'
  OBVIOUS
<1> DEFINE n == operation.from
           h == cache[n]
<1>0. /\ operation.phase = "closing" /\ UNCHANGED <<dirs, stores, writing, serving>>
      /\ LifecycleTypeOK /\ Directories /\ OneAtATime /\ OperationOK
      /\ n \in ProjectNames /\ h # 0 /\ h \in 1 .. Len(handles) /\ Len(handles) \in Nat
  BY LenProperties DEF CloseHandle, LifecycleInv, OperationOK, Directories, LifecycleTypeOK
<1>1. CASE ~handles[h].closed
  <2> DEFINE handle == [handles[h] EXCEPT !.closed = TRUE]
  <2>1. handles' = [handles EXCEPT ![h] = handle] /\ UNCHANGED <<cache, operation>>
    BY <1>1 DEF CloseHandle
  <2>2. handles[h] \in Handles /\ handles \in Seq(Handles)
    BY <1>0, ElementOfSeq DEF LifecycleTypeOK
  <2>3. /\ handle \in Handles /\ handle.closed /\ handle.store = handles[h].store
        /\ handle.renamed = handles[h].renamed
    BY <2>2 DEF Handles
  <2> HIDE DEF handle, h
  <2>4. /\ handles' \in Seq(Handles) /\ Len(handles') = Len(handles)
        /\ \A x \in 1 .. Len(handles) : handles'[x] = IF x = h THEN handle ELSE handles[x]
    BY <1>0, <2>1, <2>2, <2>3, ExceptSeq
  <2>5. \A x \in 1 .. Len(handles) :
           /\ handles'[x].store = handles[x].store /\ handles'[x].renamed = handles[x].renamed
           /\ handles[x].closed => handles'[x].closed
    BY <2>3, <2>4
  <2>6. Directories' /\ LifecycleTypeOK' /\ OneAtATime' /\ OperationOK'
    BY <1>0, <2>1, <2>4, <2>5 DEF LifecycleTypeOK, Directories, OneAtATime, Using, OperationOK
  <2>7. \A r \in Requests : Serves(r)'
    BY <1>0, <2>1, <2>4, <2>5 DEF LifecycleInv, Serves, Cached
  <2> QED BY <2>6, <2>7 DEF LifecycleInv
<1>2. CASE handles[h].closed
  <2>1. /\ cache' = [cache EXCEPT ![n] = 0] /\ UNCHANGED handles
        /\ \/ Drained(h) /\ Steps("drained")
           \/ DrainExpires(h) /\ operation' = NoOperation
    BY <1>2 DEF CloseHandle
  <2>2. \A r \in Requests : serving[r].handle = h => serving[r].phase # "begun"
    BY <1>0, <2>1 DEF Drained, InUse, DrainExpires, OneAtATime, Using
  <2>3. /\ cache' \in [ProjectNames -> Nat] /\ cache'[n] = 0
        /\ \A m \in ProjectNames \ {n} : cache'[m] = cache[m]
    BY <1>0, <2>1 DEF LifecycleTypeOK
  <2>4. NoOperation \in OperationStates /\ NoOperation.phase = "none"
    BY DEF NoOperation, OperationStates, OperationPhases
  <2>5. operation' \in OperationStates /\ OperationOK'
    <3>1. CASE Steps("drained")
      <4>1. /\ operation' \in OperationStates /\ operation'.phase = "drained"
            /\ operation'.from = operation.from
        BY <1>0, <3>1, OperationSteps DEF LifecycleTypeOK, OperationPhases
      <4> QED BY <1>0, <2>3, <4>1 DEF OperationOK
    <3>2. CASE operation' = NoOperation
      BY <2>4, <3>2 DEF OperationOK
    <3> QED BY <2>1, <3>1, <3>2
  <2>6. LifecycleTypeOK' /\ OneAtATime'
    BY <1>0, <2>1, <2>3, <2>5 DEF LifecycleTypeOK, OneAtATime, Using
  <2>7. \A x \in 1 .. Len(handles) : x # h /\ Cached(x) => \E m \in ProjectNames : cache'[m] = x
    BY <2>3 DEF Cached
  <2>8. Directories'
    BY <1>0, <1>2, <2>1, <2>3, <2>7 DEF Directories, Cached
  <2>9. ASSUME NEW r \in Requests PROVE Serves(r)'
    <3>1. serving[r].phase = "begun" /\ Cached(serving[r].handle) /\ serving[r].handle \in 1 .. Len(handles)
          => Cached(serving[r].handle)'
      BY <1>0, <2>2, <2>7 DEF Cached
    <3> QED BY <1>0, <2>1, <3>1 DEF LifecycleInv, Serves
  <2> QED BY <2>5, <2>6, <2>8, <2>9 DEF LifecycleInv
<1> QED BY <1>1, <1>2

\* A directory goes: there is no task in it, and nobody who will still write one
\* through a handle that no rename closed.
LEMMA RemoveDirectoryStep == LifecycleInv /\ RemoveDirectory => LifecycleInv'
<1> SUFFICES ASSUME LifecycleInv, RemoveDirectory PROVE LifecycleInv'
  OBVIOUS
<1> DEFINE n == operation.from
           s == dirs[n]
<1>0. /\ LifecycleTypeOK /\ Directories /\ OneAtATime /\ OperationOK
      /\ n \in ProjectNames /\ cache[n] = 0 /\ s \in 1 .. Len(stores) /\ writing[s] = NoRequestHere
      /\ UNCHANGED <<handles, cache, writing, serving>> /\ operation' = NoOperation
      /\ Len(handles) \in Nat
  BY LenProperties DEF RemoveDirectory, Refused, LifecycleInv, OperationOK, Directories, LifecycleTypeOK
<1>1. NoOperation \in OperationStates /\ NoOperation.phase = "none"
  BY DEF NoOperation, OperationStates, OperationPhases
<1>2. OperationOK'
  BY <1>0, <1>1 DEF OperationOK
<1>3. CASE HasTasks(s)
  <2>1. UNCHANGED <<dirs, stores>>
    BY <1>3 DEF RemoveDirectory, Refused
  <2> QED BY <1>0, <1>1, <1>2, <2>1, QuietStep DEF LifecycleTypeOK
<1>4. CASE ~HasTasks(s)
  <2> DEFINE store == [stores[s] EXCEPT !.removed = TRUE]
  <2>1. dirs' = [dirs EXCEPT ![n] = 0] /\ stores' = [stores EXCEPT ![s] = store]
    BY <1>4 DEF RemoveDirectory
  <2>2. stores \in Seq(StoreStates) /\ stores[s] \in StoreStates
    BY <1>0, ElementOfSeq DEF LifecycleTypeOK
  <2>3. store \in StoreStates /\ store.items = stores[s].items
    BY <2>2 DEF StoreStates
  <2> HIDE DEF store, s
  <2>4. /\ stores' \in Seq(StoreStates) /\ Len(stores') = Len(stores)
        /\ \A j \in 1 .. Len(stores) : stores'[j] = IF j = s THEN store ELSE stores[j]
    BY <1>0, <2>1, <2>2, <2>3, ExceptSeq
  <2>5. \A j \in 1 .. Len(stores) :
           stores'[j].items = stores[j].items /\ (j # s => stores'[j].removed = stores[j].removed)
    BY <2>3, <2>4
  <2>6. /\ dirs' \in [ProjectNames -> Nat] /\ dirs'[n] = 0 /\ s # 0
        /\ \A m \in ProjectNames \ {n} : dirs'[m] = dirs[m] /\ (dirs[m] # 0 => dirs[m] # s)
    BY <1>0, <2>1 DEF LifecycleTypeOK, Directories, s
  <2>7. LifecycleTypeOK' /\ OneAtATime'
    BY <1>0, <1>1, <2>4, <2>6 DEF LifecycleTypeOK, OneAtATime, Using
  <2>8. Directories'
    BY <1>0, <2>4, <2>5, <2>6 DEF Directories
  <2>9. ASSUME NEW r \in Requests PROVE Serves(r)'
    <3> DEFINE h == serving[r].handle
    <3>1. Serves(r)
      BY DEF LifecycleInv
    <3>2. CASE serving[r].phase = "new"
      BY <1>0, <3>1, <3>2 DEF Serves
    <3>3. CASE serving[r].phase # "new"
      <4>1. h \in 1 .. Len(handles) /\ h # 0 /\ handles[h].store \in 1 .. Len(stores)
        BY <1>0, <3>1, <3>3 DEF Serves, Directories
      <4>2. handles[h].store = s /\ ~handles[h].renamed =>
               serving[r].phase \notin {"begun", "writing"} /\ (r \in TaskRequests => serving[r].phase # "committed")
        <5>1. handles[h].store = s => ~Cached(h)
          BY <1>0, <4>1 DEF Directories, Cached, s
        <5>2. r # NoRequestHere
          BY LifecycleAssumption DEF LifecycleAssumption
        <5>3. r \in TaskRequests => r \notin stores[s].items
          BY <1>4 DEF HasTasks
        <5> QED BY <1>0, <3>1, <3>3, <4>1, <5>1, <5>2, <5>3 DEF Serves, s
      <4> QED BY <1>0, <2>5, <3>1, <3>3, <4>1, <4>2 DEF Serves, Cached
    <3> QED BY <3>2, <3>3
  <2> QED BY <1>2, <2>7, <2>8, <2>9 DEF LifecycleInv
<1> QED BY <1>3, <1>4

\* A rename closes the handle and moves the directory: whoever still waits for the
\* write lock does so through a handle marked as renamed.
LEMMA RenameStep ==
    ASSUME LifecycleInv, NEW old \in ProjectNames, NEW new \in ProjectNames, Rename(old, new)
    PROVE  LifecycleInv'
<1>0. /\ LifecycleTypeOK /\ Directories /\ OneAtATime /\ OperationOK
      /\ operation = NoOperation /\ dirs[old] # 0 /\ dirs[new] = 0 /\ cache[new] = 0 /\ old # new
      /\ UNCHANGED <<stores, writing, serving, operation>> /\ Len(handles) \in Nat
      /\ cache[old] \in Nat /\ dirs[old] \in Nat
  BY LenProperties DEF Rename, LifecycleInv, Directories, LifecycleTypeOK
<1> DEFINE c == cache[old]
           moved(h) == [[handles[h] EXCEPT !.closed = TRUE] EXCEPT !.renamed = TRUE]
<1>1. handles' = [h \in 1 .. Len(handles) |-> IF h \in {cache[old], cache[new]} THEN moved(h) ELSE handles[h]]
  BY Zenon DEF Rename
<1>2. ASSUME NEW h \in 1 .. Len(handles)
      PROVE  /\ handles[h] \in Handles /\ moved(h) \in Handles /\ moved(h).store = handles[h].store
             /\ moved(h).closed = TRUE /\ moved(h).renamed = TRUE
  <2>1. handles[h] \in Handles
    BY <1>0, ElementOfSeq DEF LifecycleTypeOK
  <2> QED BY <2>1 DEF Handles
<1> HIDE DEF moved
<1>3. /\ handles' \in Seq(Handles) /\ Len(handles') = Len(handles)
      /\ \A h \in 1 .. Len(handles) : handles'[h] = IF h = c THEN moved(h) ELSE handles[h]
  <2>1. handles' = [h \in 1 .. Len(handles) |-> IF h = c THEN moved(h) ELSE handles[h]]
    BY <1>0, <1>1
  <2>2. handles' \in [1 .. Len(handles) -> Handles]
    BY <1>2, <2>1
  <2>3. handles' \in Seq(Handles) /\ Len(handles') = Len(handles)
    BY <1>0, <2>2, SeqDef, LenProperties
  <2> QED BY <2>1, <2>3
<1>4. \A h \in 1 .. Len(handles) :
         /\ handles'[h].store = handles[h].store
         /\ handles[h].renamed => handles'[h].renamed
         /\ handles[h].closed => handles'[h].closed
         /\ h = c => handles'[h].closed /\ handles'[h].renamed
         /\ h # c => handles'[h] = handles[h]
  BY <1>2, <1>3
<1>5. /\ cache' \in [ProjectNames -> Nat] /\ dirs' \in [ProjectNames -> Nat]
      /\ cache'[old] = 0 /\ cache'[new] = 0 /\ dirs'[old] = 0 /\ dirs'[new] = dirs[old]
      /\ \A n \in ProjectNames \ {old, new} : cache'[n] = cache[n] /\ dirs'[n] = dirs[n]
  BY <1>0 DEF Rename, LifecycleTypeOK
<1>6. LifecycleTypeOK' /\ OneAtATime'
  BY <1>0, <1>3, <1>5 DEF LifecycleTypeOK, OneAtATime, Using
<1>7. OperationOK'
  BY <1>0 DEF OperationOK, NoOperation
<1>8. Directories'
  <2>1. \A n \in ProjectNames : dirs'[n] # 0 => dirs'[n] \in 1 .. Len(stores) /\ ~stores[dirs'[n]].removed
    BY <1>0, <1>5 DEF Directories
  <2>2. \A m, n \in ProjectNames : dirs'[m] = dirs'[n] /\ dirs'[m] # 0 => m = n
    BY <1>0, <1>5 DEF Directories
  <2>3. \A n \in ProjectNames :
           cache'[n] # 0 => /\ cache'[n] \in 1 .. Len(handles) /\ dirs'[n] # 0
                            /\ handles'[cache'[n]].store = dirs'[n] /\ ~handles'[cache'[n]].renamed
    <3> SUFFICES ASSUME NEW n \in ProjectNames, cache'[n] # 0
                 PROVE  /\ cache'[n] \in 1 .. Len(handles) /\ dirs'[n] # 0
                        /\ handles'[cache'[n]].store = dirs'[n] /\ ~handles'[cache'[n]].renamed
      OBVIOUS
    <3>1. n \notin {old, new} /\ cache'[n] = cache[n] /\ dirs'[n] = dirs[n]
      BY <1>5
    <3>2. /\ cache[n] \in 1 .. Len(handles) /\ dirs[n] # 0
          /\ handles[cache[n]].store = dirs[n] /\ ~handles[cache[n]].renamed
      BY <1>0, <3>1 DEF Directories
    <3>3. cache[n] # c
      BY <1>0, <3>1, <3>2 DEF Directories
    <3> QED BY <1>4, <3>1, <3>2, <3>3
  <2>4. \A h \in 1 .. Len(handles) :
           /\ handles'[h].store \in 1 .. Len(stores)
           /\ ~handles'[h].closed => \E n \in ProjectNames : cache'[n] = h
    <3> SUFFICES ASSUME NEW h \in 1 .. Len(handles)
                 PROVE  /\ handles'[h].store \in 1 .. Len(stores)
                        /\ ~handles'[h].closed => \E n \in ProjectNames : cache'[n] = h
      OBVIOUS
    <3>1. handles'[h].store \in 1 .. Len(stores)
      BY <1>0, <1>4 DEF Directories
    <3>2. ASSUME ~handles'[h].closed PROVE \E n \in ProjectNames : cache'[n] = h
      <4>1. h # c /\ ~handles[h].closed
        BY <1>4, <3>2
      <4>2. PICK n \in ProjectNames : cache[n] = h
        BY <1>0, <4>1 DEF Directories
      <4>3. n \notin {old, new}
        BY <1>0, <4>1, <4>2
      <4> QED BY <1>5, <4>2, <4>3
    <3> QED BY <3>1, <3>2
  <2> QED BY <1>0, <1>3, <2>1, <2>2, <2>3, <2>4 DEF Directories
<1>9. ASSUME NEW r \in Requests PROVE Serves(r)'
  <2> DEFINE h == serving[r].handle
  <2>1. Serves(r)
    BY DEF LifecycleInv
  <2>2. CASE serving[r].phase = "new"
    BY <1>0, <2>1, <2>2 DEF Serves
  <2>3. CASE serving[r].phase # "new"
    <3>1. h \in 1 .. Len(handles)
      BY <2>1, <2>3 DEF Serves
    <3>2. Cached(h) => Cached(h)' \/ handles'[h].renamed
      <4>1. CASE h = c
        BY <1>4, <3>1, <4>1
      <4>2. ASSUME h # c, NEW n \in ProjectNames, cache[n] = h PROVE cache'[n] = h
        BY <1>0, <1>5, <3>1, <4>2
      <4> QED BY <1>0, <4>1, <4>2 DEF Cached
    <3>3. /\ handles'[h].store = handles[h].store /\ (handles[h].renamed => handles'[h].renamed)
      BY <1>4, <3>1
    <3> QED BY <1>0, <1>3, <2>1, <2>3, <3>1, <3>2, <3>3 DEF Serves, Cached
  <2> QED BY <2>2, <2>3
<1> QED BY <1>6, <1>7, <1>8, <1>9 DEF LifecycleInv

\* A merge opens the handles of both projects that are not open yet.
LEMMA BeginMergeStep ==
    ASSUME LifecycleInv, NEW old \in ProjectNames, NEW new \in ProjectNames, BeginMerge(old, new)
    PROVE  LifecycleInv'
<1> DEFINE open == Len(handles)
           target == IF cache[new] # 0 THEN cache[new] ELSE open + 1
           source == IF cache[old] # 0 THEN cache[old] ELSE IF target > open THEN open + 2 ELSE open + 1
           opened == {target, source} \ 1 .. open
           all == open + Cardinality(opened)
           op == [kind |-> "merge", phase |-> "copying", from |-> old, to |-> new, read |-> {}]
<1>0. /\ LifecycleTypeOK /\ Directories /\ OneAtATime
      /\ dirs[old] # 0 /\ dirs[new] # 0 /\ old # new
      /\ UNCHANGED <<dirs, stores, writing, serving>> /\ operation' = op
      /\ open \in Nat /\ {dirs[old], dirs[new]} \subseteq Nat
  BY LenProperties DEF BeginMerge, Begins, LifecycleInv, LifecycleTypeOK
<1>1. /\ handles' = [h \in 1 .. all |->
                        IF h <= open THEN handles[h] ELSE HandleOf(dirs[IF h = target THEN new ELSE old])]
      /\ cache' = [cache EXCEPT ![new] = target, ![old] = source]
  BY Zenon DEF BeginMerge
<1>2. op \in OperationStates /\ op.phase = "copying" /\ op.from = old /\ op.to = new
  BY DEF OperationStates, OperationPhases
<1> HIDE DEF op
<1>3. /\ cache[new] # 0 => target = cache[new] /\ cache[new] \in 1 .. open
      /\ cache[new] = 0 => target = open + 1
      /\ cache[old] # 0 => source = cache[old] /\ cache[old] \in 1 .. open
      /\ cache[old] = 0 => source \in {open + 1, open + 2} /\ source # target
      /\ target # source
      /\ \/ opened = {} 
         \/ opened = {open + 1}
         \/ opened = {open + 1, open + 2}
  <2>1. /\ cache[new] # 0 => cache[new] \in 1 .. open /\ handles[cache[new]].store = dirs[new]
        /\ cache[old] # 0 => cache[old] \in 1 .. open /\ handles[cache[old]].store = dirs[old]
        /\ dirs[old] # dirs[new]
    BY <1>0 DEF Directories
  <2>2. CASE cache[new] # 0 /\ cache[old] # 0
    <3>1. target = cache[new] /\ source = cache[old] /\ target # source
      BY <2>1, <2>2
    <3> QED BY <2>1, <2>2, <3>1
  <2>3. CASE cache[new] # 0 /\ cache[old] = 0
    <3>1. target = cache[new] /\ target \in 1 .. open /\ source = open + 1
      BY <1>0, <2>1, <2>3
    <3>2. opened = {open + 1}
      BY <1>0, <3>1
    <3> QED BY <1>0, <2>3, <3>1, <3>2
  <2>4. CASE cache[new] = 0 /\ cache[old] # 0
    <3>1. target = open + 1 /\ source = cache[old] /\ source \in 1 .. open
      BY <2>1, <2>4
    <3>2. opened = {open + 1}
      BY <1>0, <3>1
    <3> QED BY <1>0, <2>4, <3>1, <3>2
  <2>5. CASE cache[new] = 0 /\ cache[old] = 0
    <3>1. target = open + 1 /\ source = open + 2
      BY <1>0, <2>5
    <3>2. opened = {open + 1, open + 2}
      BY <1>0, <3>1
    <3> QED BY <1>0, <2>5, <3>1, <3>2
  <2> QED BY <2>2, <2>3, <2>4, <2>5
<1>4. /\ all \in Nat /\ all >= open
      /\ \A h \in 1 .. all : h \in 1 .. open \/ h \in {target, source}
      /\ target \in 1 .. all /\ source \in 1 .. all
  <2>1. /\ target \in 1 .. open \/ target \in opened
        /\ source \in 1 .. open \/ source \in opened
        /\ \A h \in opened : h \in {target, source}
    OBVIOUS
  <2> HIDE DEF target, source, opened
  <2>2. CASE opened = {}
    <3>1. Cardinality(opened) = 0
      BY <2>2, FS_EmptySet
    <3> QED BY <1>0, <2>1, <2>2, <3>1
  <2>3. CASE opened = {open + 1}
    <3>1. all = open + 1
      BY <2>3, FS_Singleton
    <3> HIDE DEF all, open
    <3>2. open \in Nat /\ all \in Nat /\ all >= open /\ 1 .. all = 1 .. open \cup {open + 1}
      BY <1>0, <3>1
    <3> QED BY <2>1, <2>3, <3>2
  <2>4. CASE opened = {open + 1, open + 2}
    <3>1. IsFiniteSet({open + 1}) /\ Cardinality({open + 1}) = 1
      BY FS_Singleton
    <3>2. open + 2 \notin {open + 1}
      BY <1>0
    <3>3. Cardinality({open + 1} \cup {open + 2}) = 2
      BY <3>1, <3>2, FS_AddElement
    <3>4. opened = {open + 1} \cup {open + 2}
      BY <2>4
    <3>5. all = open + 2
      BY <3>3, <3>4
    <3> HIDE DEF all, open
    <3>6. open \in Nat /\ all \in Nat /\ all >= open /\ 1 .. all = 1 .. open \cup {open + 1, open + 2}
      BY <1>0, <3>5
    <3> QED BY <2>1, <2>4, <3>6
  <2> QED BY <1>3, <2>2, <2>3, <2>4
<1> HIDE DEF target, source, opened, all
<1>5. ASSUME NEW n \in ProjectNames
      PROVE  /\ HandleOf(dirs[n]) \in Handles /\ HandleOf(dirs[n]).store = dirs[n]
             /\ HandleOf(dirs[n]).renamed = FALSE
  BY <1>0 DEF LifecycleTypeOK, HandleOf, Handles
<1>6. /\ handles' \in Seq(Handles) /\ Len(handles') = all
      /\ \A h \in 1 .. open : h \in 1 .. all /\ handles'[h] = handles[h]
      /\ \A h \in 1 .. all : h \notin 1 .. open =>
            handles'[h] = HandleOf(dirs[IF h = target THEN new ELSE old])
  <2>1. \A h \in 1 .. all : (h \in 1 .. open) <=> h <= open
    BY <1>0, <1>4
  <2>2. \A h \in 1 .. open : handles[h] \in Handles
    BY <1>0, ElementOfSeq DEF LifecycleTypeOK
  <2> HIDE DEF open
  <2>3. handles' \in [1 .. all -> Handles]
    BY <1>1, <1>5, <2>1, <2>2
  <2>4. handles' \in Seq(Handles) /\ Len(handles') = all
    BY <1>4, <2>3, SeqDef, LenProperties
  <2>5. \A h \in 1 .. open : h \in 1 .. all
    BY <1>0, <1>4
  <2> QED BY <1>1, <2>1, <2>4, <2>5
<1>7. /\ cache' \in [ProjectNames -> Nat] /\ cache'[new] = target /\ cache'[old] = source
      /\ \A n \in ProjectNames \ {new, old} : cache'[n] = cache[n]
      /\ \A n \in ProjectNames : cache[n] # 0 => cache'[n] = cache[n]
  <2>1. cache \in [ProjectNames -> Nat] /\ {target, source} \subseteq Nat
    BY <1>0, <1>4 DEF LifecycleTypeOK
  <2>2. /\ cache[new] # 0 => target = cache[new]
        /\ cache[old] # 0 => source = cache[old]
    BY <1>3
  <2> HIDE DEF open
  <2> QED BY <1>0, <1>1, <2>1, <2>2
<1>8. LifecycleTypeOK' /\ OneAtATime' /\ OperationOK'
  BY <1>0, <1>2, <1>6, <1>7 DEF LifecycleTypeOK, OneAtATime, Using, OperationOK
<1>9. Directories'
  <2>1. \A n \in ProjectNames :
           cache'[n] # 0 => /\ cache'[n] \in 1 .. all /\ dirs[n] # 0
                            /\ handles'[cache'[n]].store = dirs[n] /\ ~handles'[cache'[n]].renamed
    <3> SUFFICES ASSUME NEW n \in ProjectNames, cache'[n] # 0
                 PROVE  /\ cache'[n] \in 1 .. all /\ dirs[n] # 0
                        /\ handles'[cache'[n]].store = dirs[n] /\ ~handles'[cache'[n]].renamed
      OBVIOUS
    <3>1. CASE cache[n] # 0
      BY <1>0, <1>6, <1>7, <3>1 DEF Directories
    <3>2. CASE cache[n] = 0 /\ n = new
      <4>1. target \notin 1 .. open
        BY <1>0, <1>3, <3>2
      <4> QED BY <1>0, <1>4, <1>5, <1>6, <1>7, <3>2, <4>1
    <3>3. CASE cache[n] = 0 /\ n = old
      <4>1. source \notin 1 .. open /\ source # target
        BY <1>0, <1>3, <3>3
      <4> QED BY <1>0, <1>4, <1>5, <1>6, <1>7, <3>3, <4>1
    <3> QED BY <1>7, <3>1, <3>2, <3>3
  <2>2. \A h \in 1 .. all :
           /\ handles'[h].store \in 1 .. Len(stores)
           /\ ~handles'[h].closed => \E n \in ProjectNames : cache'[n] = h
    <3> SUFFICES ASSUME NEW h \in 1 .. all
                 PROVE  /\ handles'[h].store \in 1 .. Len(stores)
                        /\ ~handles'[h].closed => \E n \in ProjectNames : cache'[n] = h
      OBVIOUS
    <3>1. CASE h \in 1 .. open
      <4>1. handles'[h] = handles[h] /\ h # 0
        BY <1>6, <3>1
      <4> QED BY <1>0, <1>7, <3>1, <4>1 DEF Directories
    <3>2. CASE h \notin 1 .. open
      <4>1. h \in {target, source}
        BY <1>4, <3>2
      <4>2. h = target => handles'[h] = HandleOf(dirs[new]) /\ cache'[new] = h
        BY <1>6, <1>7, <3>2
      <4>3. h # target => handles'[h] = HandleOf(dirs[old]) /\ cache'[old] = h
        BY <1>6, <1>7, <3>2, <4>1
      <4>4. {dirs[new], dirs[old]} \subseteq 1 .. Len(stores)
        BY <1>0 DEF Directories
      <4> QED BY <1>5, <4>2, <4>3, <4>4
    <3> QED BY <3>1, <3>2
  <2> QED BY <1>0, <1>6, <2>1, <2>2 DEF Directories
<1>10. ASSUME NEW r \in Requests PROVE Serves(r)'
  <2> DEFINE h == serving[r].handle
  <2>1. Serves(r)
    BY DEF LifecycleInv
  <2>2. CASE serving[r].phase = "new"
    BY <1>0, <2>1, <2>2 DEF Serves
  <2>3. CASE serving[r].phase # "new"
    <3>1. h \in 1 .. open /\ h # 0
      BY <2>1, <2>3 DEF Serves
    <3>2. handles'[h] = handles[h] /\ h \in 1 .. all
      BY <1>6, <3>1
    <3>3. Cached(h) => Cached(h)'
      BY <1>0, <1>7, <3>1 DEF Cached
    <3> QED BY <1>0, <1>6, <2>1, <2>3, <3>1, <3>2, <3>3 DEF Serves
  <2> QED BY <2>2, <2>3
<1> QED BY <1>8, <1>9, <1>10 DEF LifecycleInv

\* Every step of the registry keeps the invariant.
LEMMA LifecycleInvStep == LifecycleInv /\ [LifecycleNext]_lifecycleVars => LifecycleInv'
<1> SUFFICES ASSUME LifecycleInv, [LifecycleNext]_lifecycleVars PROVE LifecycleInv'
  OBVIOUS
<1>1. CASE UNCHANGED lifecycleVars
  BY <1>1 DEF lifecycleVars, LifecycleInv, LifecycleTypeOK, Directories, Serves, Cached, OneAtATime,
     Using, OperationOK
<1>2. ASSUME NEW r \in TaskRequests, NEW n \in ProjectNames, FindProject(r, n) PROVE LifecycleInv'
  BY <1>2 DEF FindProject, LifecycleInv, LifecycleTypeOK, Directories, Serves, Cached, OneAtATime, Using,
     OperationOK
<1>3. CASE LifecycleNext
  BY <1>2, <1>3, WriteStep, HandleStep, BeginDropStep, RenameStep, BeginMergeStep, CopyPageStep,
     CheckLiveStep, CloseHandleStep, RemoveDirectoryStep DEF LifecycleNext
<1> QED BY <1>1, <1>3

\* A task whose creation was answered is never removed with its project, whatever
\* drops, merges and requests do to each other, unless a rename had closed the
\* request's handle (Registry.Drop, closeAndDrain and fileHasTasks).
THEOREM TaskLostOnlyByRenameHolds == LifecycleSpec => []TaskLostOnlyByRename
<1>1. LifecycleInv => TaskLostOnlyByRename
  <2> SUFFICES ASSUME LifecycleInv, NEW r \in TaskRequests, serving[r].phase = "committed", ~Kept(r)
               PROVE  handles[serving[r].handle].renamed
    BY DEF TaskLostOnlyByRename
  <2>1. r \in Requests /\ Serves(r) /\ Directories
    BY DEF LifecycleInv, Requests
  <2>2. /\ serving[r].handle \in 1 .. Len(handles)
        /\ handles[serving[r].handle].store \in 1 .. Len(stores)
    BY <2>1 DEF Serves, Directories
  <2> QED BY <2>1, <2>2 DEF Serves, Kept
<1> QED BY LifecycleInvInit, LifecycleInvStep, <1>1, PTL DEF LifecycleSpec

-----------------------------------------------------------------------------
(* Origin labels. *)

\* What an alias map is: each name has at most one other name.
AliasMaps == [Labels -> Labels \cup {NoAlias}]

WalkStates == [name : Labels, seen : SUBSET Labels]

\* The walk of Terminal, by its two equations.
LEMMA WalkSteps ==
    ASSUME NEW m \in AliasMaps, NEW k \in Keys(m)
    PROVE  \E walk \in [0 .. Cardinality(Labels) -> WalkStates] :
              /\ Terminal(m, k) = walk[Cardinality(Labels)].name
              /\ walk[0] = [name |-> m[k], seen |-> {k}]
              /\ \A i \in 1 .. Cardinality(Labels) : walk[i] = Follow(m, walk[i - 1])
<1> DEFINE n == Cardinality(Labels)
           base == [name |-> m[k], seen |-> {k}]
           g == [i \in 1 .. n |-> [at \in WalkStates |-> Follow(m, at)]]
           Eq(f) == f = [i \in 0 .. n |-> IF i = 0 THEN base ELSE Follow(m, f[i - 1])]
<1>1. n \in Nat
  BY AliasAssumption, FS_CardinalityType
<1>2. base \in WalkStates
  BY DEF AliasMaps, Keys, WalkStates
<1>3. ASSUME NEW at \in WalkStates PROVE Follow(m, at) \in WalkStates
  BY <1>3 DEF Follow, Keys, AliasMaps, WalkStates
<1>4. g \in [1 .. n -> [WalkStates -> WalkStates]]
  BY <1>3
<1> HIDE DEF n, base
<1>5. PICK f \in [0 .. n -> WalkStates] :
         f[0] = base /\ \A i \in 1 .. n : f[i] = g[i][f[i - 1]]
  <2> HIDE DEF g
  <2> QED BY <1>1, <1>2, <1>4, Recursion
<1>6. \A i \in 1 .. n : i - 1 \in 0 .. n
  BY <1>1
<1>7. \A i \in 1 .. n : f[i] = Follow(m, f[i - 1])
  BY <1>5, <1>6
<1>8. Eq(f)
  <2>1. \A i \in 0 .. n : i = 0 \/ i \in 1 .. n
    BY <1>1
  <2> QED BY <1>5, <1>7, <2>1
<1>9. Eq(CHOOSE h : Eq(h))
  BY <1>8
<1> DEFINE w == CHOOSE h : Eq(h)
<1>10. Terminal(m, k) = w[n].name
  BY DEF Terminal, n, base
<1> HIDE DEF w
<1>11. w = [i \in 0 .. n |-> IF i = 0 THEN base ELSE Follow(m, w[i - 1])]
  BY <1>9 DEF w
<1>12. 0 \in 0 .. n /\ \A i \in 1 .. n : i \in 0 .. n /\ i # 0
  BY <1>1
<1>13. w[0] = base /\ \A i \in 1 .. n : w[i] = Follow(m, w[i - 1])
  BY <1>11, <1>12
<1> DEFINE Typed == {i \in 0 .. n : w[i] \in WalkStates}
<1>14. 0 \in Typed /\ \A i \in 1 .. n : i - 1 \in Typed => i \in Typed
  BY <1>2, <1>3, <1>12, <1>13
<1>15. \A i \in 0 .. n : i \in Typed
  <2> HIDE DEF Typed
  <2> QED BY <1>1, <1>14, BoundedInduction
<1>16. w \in [0 .. n -> WalkStates]
  BY <1>11, <1>15
<1> QED BY <1>10, <1>13, <1>16 DEF n, base

\* A set of names whose aliases stay inside it: a cycle and what leads into it.
Closed(m, X) == X \subseteq Keys(m) /\ \A x \in X : m[x] \in X

\* The walk from a name: every name seen points to a name seen or to the current one.
Walked(m, k, at) ==
    /\ k \in at.seen
    /\ at.seen \subseteq Keys(m)
    /\ \A x \in at.seen : m[x] \in at.seen \cup {at.name}
    /\ \A X \in SUBSET Keys(m) : Closed(m, X) /\ k \in X => at.name \in X /\ at.seen \subseteq X

\* The walk starts so and stays so.
LEMMA WalkKeeps ==
    ASSUME NEW m \in AliasMaps, NEW k \in Keys(m), NEW at \in WalkStates, Walked(m, k, at)
    PROVE  Walked(m, k, Follow(m, at))
<1>1. CASE at.name \in Keys(m) \ at.seen
  <2> DEFINE next == [name |-> m[at.name], seen |-> at.seen \cup {at.name}]
  <2>1. Follow(m, at) = next
    BY <1>1 DEF Follow
  <2>2. next.name = m[at.name] /\ next.seen = at.seen \cup {at.name}
    OBVIOUS
  <2> HIDE DEF next
  <2>3. k \in next.seen /\ next.seen \subseteq Keys(m)
    BY <1>1, <2>2 DEF Walked
  <2>4. \A x \in next.seen : m[x] \in next.seen \cup {next.name}
    BY <1>1, <2>2 DEF Walked
  <2>5. ASSUME NEW X \in SUBSET Keys(m), Closed(m, X), k \in X
        PROVE  next.name \in X /\ next.seen \subseteq X
    <3>1. at.name \in X /\ at.seen \subseteq X
      BY <2>5 DEF Walked
    <3> QED BY <2>2, <2>5, <3>1 DEF Closed
  <2> QED BY <2>1, <2>3, <2>4, <2>5 DEF Walked
<1>2. CASE at.name \notin Keys(m) \ at.seen
  BY <1>2 DEF Follow
<1> QED BY <1>1, <1>2

\* Where the walk ends: at a name that is no alias, unless the name it started from leads
\* into a cycle; and inside every closed set that it started in.
LEMMA TerminalEnds ==
    ASSUME NEW m \in AliasMaps, NEW k \in Keys(m)
    PROVE  /\ Terminal(m, k) \in Labels
           /\ \A X \in SUBSET Keys(m) : Closed(m, X) /\ k \in X => Terminal(m, k) \in X
           /\ Terminal(m, k) \in Keys(m) => \E X \in SUBSET Keys(m) : Closed(m, X) /\ k \in X
<1> DEFINE n == Cardinality(Labels)
<1>1. n \in Nat /\ IsFiniteSet(Labels)
  BY AliasAssumption, FS_CardinalityType
<1>2. PICK walk \in [0 .. n -> WalkStates] :
         /\ Terminal(m, k) = walk[n].name
         /\ walk[0] = [name |-> m[k], seen |-> {k}]
         /\ \A i \in 1 .. n : walk[i] = Follow(m, walk[i - 1])
  BY WalkSteps
<1>3. 0 \in 0 .. n /\ n \in 0 .. n /\ \A i \in 1 .. n : i \in 0 .. n /\ i - 1 \in 0 .. n
  BY <1>1
<1>4. Walked(m, k, walk[0])
  BY <1>2 DEF Walked, Closed
<1> DEFINE Good == {i \in 0 .. n : Walked(m, k, walk[i])}
<1>5. ASSUME NEW i \in 1 .. n, i - 1 \in Good PROVE i \in Good
  BY <1>2, <1>3, <1>5, WalkKeeps
<1>6. 0 \in Good /\ \A i \in 1 .. n : i - 1 \in Good => i \in Good
  BY <1>3, <1>4, <1>5
<1>7. \A i \in 0 .. n : i \in Good
  <2> HIDE DEF Good, n
  <2> QED BY <1>1, <1>6, BoundedInduction
<1> DEFINE Stopped(at) == at.name \notin Keys(m) \ at.seen
           Moving == {i \in 0 .. n : Stopped(walk[i]) \/ Cardinality(walk[i].seen) = i + 1}
<1>8. 0 \in Moving
  BY <1>2, <1>3, FS_Singleton
<1>9. ASSUME NEW i \in 1 .. n, i - 1 \in Moving PROVE i \in Moving
  <2>1. walk[i] = Follow(m, walk[i - 1]) /\ i - 1 \in 0 .. n /\ i \in 0 .. n
    BY <1>2, <1>3
  <2>2. PICK at \in WalkStates : at = walk[i - 1]
    BY <2>1, <1>2
  <2>3. CASE Stopped(at)
    <3>1. walk[i] = at
      BY <2>1, <2>2, <2>3 DEF Follow
    <3> QED BY <2>1, <2>3, <3>1
  <2>4. CASE ~ Stopped(at)
    <3>1. Cardinality(at.seen) = (i - 1) + 1
      BY <1>9, <2>2, <2>4
    <3>2. IsFiniteSet(at.seen)
      BY <1>1, FS_Subset DEF WalkStates
    <3>3. walk[i].seen = at.seen \cup {at.name}
      BY <2>1, <2>2, <2>4 DEF Follow
    <3>4. Cardinality(walk[i].seen) = Cardinality(at.seen) + 1
      BY <2>4, <3>2, <3>3, FS_AddElement
    <3>5. Cardinality(walk[i].seen) = i + 1
      BY <3>1, <3>4
    <3> QED BY <2>1, <3>5
  <2> QED BY <2>3, <2>4
<1>10. n \in Moving
  <2>1. 0 \in Moving /\ \A i \in 1 .. n : i - 1 \in Moving => i \in Moving
    BY <1>8, <1>9
  <2> HIDE DEF Moving, n
  <2> QED BY <1>1, <1>3, <2>1, BoundedInduction
<1> DEFINE end == walk[n]
<1>11. end \in WalkStates /\ Walked(m, k, end)
  BY <1>2, <1>3, <1>7
<1>12. Stopped(end)
  <2>1. Cardinality(end.seen) <= n
    BY <1>1, <1>11, FS_Subset DEF WalkStates
  <2>2. Cardinality(end.seen) # n + 1
    BY <1>1, <2>1, FS_CardinalityType
  <2> QED BY <1>10, <2>2
<1>13. end.name \in Labels /\ Terminal(m, k) = end.name
  BY <1>2, <1>11 DEF WalkStates
<1> HIDE DEF end
<1>14. \A X \in SUBSET Keys(m) : Closed(m, X) /\ k \in X => end.name \in X
  BY <1>11 DEF Walked
<1>15. ASSUME end.name \in Keys(m) PROVE Closed(m, end.seen) /\ k \in end.seen
  <2>1. end.name \in end.seen
    BY <1>12, <1>15
  <2> QED BY <1>11, <2>1 DEF Walked, Closed
<1>16. end.seen \subseteq Keys(m)
  BY <1>11 DEF Walked
<1> QED BY <1>13, <1>14, <1>15, <1>16

\* The maps with the aliases of K, of which U is the greatest closed set: the names that
\* never lead out of the aliases.
Looping(m, K, U) ==
    /\ m \in AliasMaps /\ Keys(m) = K
    /\ U \subseteq K /\ Closed(m, U)
    /\ \A X \in SUBSET K : Closed(m, X) => X \subseteq U

\* Every map has one.
LEMMA LoopingSome ==
    ASSUME NEW m \in AliasMaps
    PROVE  \E U \in SUBSET Keys(m) : Looping(m, Keys(m), U)
<1> DEFINE U == UNION {X \in SUBSET Keys(m) : Closed(m, X)}
<1>1. U \in SUBSET Keys(m)
  OBVIOUS
<1>2. Closed(m, U)
  BY DEF Closed
<1>3. \A X \in SUBSET Keys(m) : Closed(m, X) => X \subseteq U
  OBVIOUS
<1> QED BY <1>1, <1>2, <1>3 DEF Looping

\* Re-pointing one name leaves the aliases and the names that loop what they are, and takes
\* a name that does not loop to one that is no alias.
LEMMA RePointKeeps ==
    ASSUME NEW m \in AliasMaps, NEW K, NEW U, Looping(m, K, U), NEW k \in K
    PROVE  /\ Looping(RePoint(m, k), K, U)
           /\ k \notin U => RePoint(m, k)[k] \notin K
           /\ \A x \in Labels : x # k => RePoint(m, k)[x] = m[x]
<1> DEFINE t == Terminal(m, k)
           next == RePoint(m, k)
<1>1. k \in Keys(m) /\ K = Keys(m) /\ K \subseteq Labels /\ NoAlias \notin Labels
  BY AliasAssumption DEF Looping, Keys
<1>2. t \in Labels /\ (k \in U => t \in U) /\ (k \notin U => t \notin K)
  <2>1. \A X \in SUBSET Keys(m) : Closed(m, X) /\ k \in X => t \in X
    BY <1>1, TerminalEnds
  <2>2. t \in Keys(m) => \E X \in SUBSET Keys(m) : Closed(m, X) /\ k \in X
    BY <1>1, TerminalEnds
  <2>3. t \in Labels
    BY <1>1, TerminalEnds
  <2> HIDE DEF t
  <2> QED BY <1>1, <2>1, <2>2, <2>3 DEF Looping
<1> HIDE DEF t
<1>3. /\ next \in AliasMaps
      /\ next[k] = t
      /\ \A x \in Labels : x # k => next[x] = m[x]
  BY <1>1, <1>2 DEF RePoint, AliasMaps, t
<1> HIDE DEF next
<1>4. Keys(next) = K
  BY <1>1, <1>2, <1>3 DEF Keys
<1>5. Closed(next, U)
  BY <1>1, <1>2, <1>3, <1>4 DEF Looping, Closed
<1>6. ASSUME NEW X \in SUBSET K, Closed(next, X) PROVE X \subseteq U
  <2>1. CASE k \in X /\ k \notin U
    <3>1. t \in X
      BY <1>3, <1>6, <2>1 DEF Closed
    <3> QED BY <1>2, <2>1, <3>1
  <2>2. CASE k \notin X
    <3>1. Closed(m, X)
      BY <1>1, <1>3, <1>6, <2>2 DEF Closed
    <3> QED BY <3>1 DEF Looping
  <2>3. CASE k \in U
    <3>1. Closed(m, X \cup U)
      BY <1>1, <1>3, <1>6, <2>3 DEF Closed, Looping
    <3>2. X \cup U \subseteq K
      BY DEF Looping
    <3> QED BY <3>1, <3>2 DEF Looping
  <2> QED BY <2>1, <2>2, <2>3
<1> QED BY <1>2, <1>3, <1>4, <1>5, <1>6 DEF Looping, next

\* What every merged map is: a name that points to an alias points into a cycle, so no
\* chain is left outside the cycles.
Settled(m) == \A k \in Keys(m) : m[k] \in Keys(m) => m[m[k]] \in Keys(m)

\* An order of the keys names each of them.
LEMMA OrdersVisitAll ==
    ASSUME NEW m \in AliasMaps, NEW order \in Orders(m)
    PROVE  /\ Cardinality(Keys(m)) \in Nat
           /\ \A i \in 1 .. Cardinality(Keys(m)) : order[i] \in Keys(m)
           /\ \A k \in Keys(m) : \E i \in 1 .. Cardinality(Keys(m)) : order[i] = k
<1>1. IsFiniteSet(Keys(m))
  BY AliasAssumption, FS_Subset DEF Keys
<1>2. Cardinality(Keys(m)) \in Nat
  BY <1>1, FS_CardinalityType
<1> QED BY <1>2 DEF Orders, Bijection, Surjection, Injection

\* The re-pointing of one order, by its two equations.
LEMMA RePointSteps ==
    ASSUME NEW local \in AliasMaps, NEW peer \in AliasMaps,
           NEW merged \in MergeOriginAliases(local, peer)
    PROVE  \E union \in AliasMaps :
           \E U \in SUBSET Keys(union), order \in Orders(union),
              upTo \in [0 .. Cardinality(Keys(union)) -> AliasMaps] :
              /\ union = Union(local, peer)
              /\ merged = upTo[Cardinality(Keys(union))]
              /\ upTo[0] = union
              /\ \A i \in 0 .. Cardinality(Keys(union)) : Looping(upTo[i], Keys(union), U)
              /\ \A i \in 1 .. Cardinality(Keys(union)) :
                    upTo[i] = RePoint(upTo[i - 1], order[i])
<1> DEFINE union == Union(local, peer)
           K == Keys(union)
           n == Cardinality(K)
<1>1. union \in AliasMaps
  BY DEF Union, AliasMaps
<1>2. PICK order \in Orders(union) :
         merged = LET upTo[i \in 0 .. n] ==
                        IF i = 0 THEN union ELSE RePoint(upTo[i - 1], order[i]) IN
                  upTo[n]
  BY DEF MergeOriginAliases
<1>3. PICK U \in SUBSET K : Looping(union, K, U)
  BY <1>1, LoopingSome
<1>4. n \in Nat /\ \A i \in 1 .. n : order[i] \in K
  BY <1>1, OrdersVisitAll
<1> DEFINE V == {m \in AliasMaps : Looping(m, K, U)}
           g == [i \in 1 .. n |-> [m \in V |-> RePoint(m, order[i])]]
           Eq(f) == f = [i \in 0 .. n |-> IF i = 0 THEN union ELSE RePoint(f[i - 1], order[i])]
           w == CHOOSE h : Eq(h)
<1>5. merged = w[n]
  BY <1>2
<1> HIDE DEF union, K, n, w
<1>6. union \in V
  BY <1>1, <1>3
<1>7. ASSUME NEW m \in V, NEW k \in K PROVE RePoint(m, k) \in V
  <2>1. Looping(RePoint(m, k), K, U)
    BY <1>7, RePointKeeps
  <2> QED BY <2>1 DEF Looping
<1> HIDE DEF V
<1>8. g \in [1 .. n -> [V -> V]]
  BY <1>4, <1>7
<1>9. PICK f \in [0 .. n -> V] : f[0] = union /\ \A i \in 1 .. n : f[i] = g[i][f[i - 1]]
  <2>1. n \in Nat
    BY <1>4
  <2> HIDE DEF g
  <2> QED BY <2>1, <1>6, <1>8, Recursion
<1>10. /\ 0 \in 0 .. n /\ n \in 0 .. n
       /\ \A i \in 1 .. n : i \in 0 .. n /\ i # 0 /\ i - 1 \in 0 .. n
       /\ \A i \in 0 .. n : i = 0 \/ i \in 1 .. n
  BY <1>4
<1>11. \A i \in 1 .. n : f[i] = RePoint(f[i - 1], order[i])
  BY <1>9, <1>10
<1>12. Eq(f)
  BY <1>9, <1>10, <1>11
<1>13. Eq(w)
  BY <1>12 DEF w
<1>14. w[0] = union /\ \A i \in 1 .. n : w[i] = RePoint(w[i - 1], order[i])
  BY <1>10, <1>13
<1> DEFINE Typed == {i \in 0 .. n : w[i] \in V}
<1>15. 0 \in Typed /\ \A i \in 1 .. n : i - 1 \in Typed => i \in Typed
  BY <1>4, <1>6, <1>7, <1>10, <1>14
<1>16. \A i \in 0 .. n : i \in Typed
  <2> HIDE DEF Typed
  <2> QED BY <1>4, <1>15, BoundedInduction
<1>17. w \in [0 .. n -> V] /\ \A i \in 0 .. n : w[i] \in V
  BY <1>13, <1>16
<1>18. w \in [0 .. n -> AliasMaps] /\ \A i \in 0 .. n : Looping(w[i], K, U)
  BY <1>17 DEF V
<1> QED BY <1>1, <1>5, <1>14, <1>18 DEF K, n, union

\* A merge keeps the names of both maps, and settles them: every name that does not lead
\* into a cycle points to a name that is no alias.
LEMMA MergeSettles ==
    ASSUME NEW local \in AliasMaps, NEW peer \in AliasMaps,
           NEW merged \in MergeOriginAliases(local, peer)
    PROVE  merged \in AliasMaps /\ Settled(merged)
<1>1. PICK union \in AliasMaps :
      \E U \in SUBSET Keys(union), order \in Orders(union),
              upTo \in [0 .. Cardinality(Keys(union)) -> AliasMaps] :
              /\ union = Union(local, peer)
              /\ merged = upTo[Cardinality(Keys(union))]
              /\ upTo[0] = union
              /\ \A i \in 0 .. Cardinality(Keys(union)) : Looping(upTo[i], Keys(union), U)
              /\ \A i \in 1 .. Cardinality(Keys(union)) :
                    upTo[i] = RePoint(upTo[i - 1], order[i])
  BY RePointSteps
<1> DEFINE K == Keys(union)
           n == Cardinality(K)
<1>2. PICK U \in SUBSET K, order \in Orders(union), upTo \in [0 .. n -> AliasMaps] :
         /\ merged = upTo[n]
         /\ \A i \in 0 .. n : Looping(upTo[i], K, U)
         /\ \A i \in 1 .. n : upTo[i] = RePoint(upTo[i - 1], order[i])
  BY <1>1
<1>3. n \in Nat /\ (\A i \in 1 .. n : order[i] \in K) /\ \A k \in K : \E i \in 1 .. n : order[i] = k
  BY OrdersVisitAll
<1> HIDE DEF K, n
<1>4. /\ 0 \in 0 .. n /\ n \in 0 .. n
      /\ \A i \in 1 .. n : i \in 0 .. n /\ i - 1 \in 0 .. n
      /\ \A i \in 1 .. n : \A j \in 1 .. i : j = i \/ j \in 1 .. (i - 1)
  BY <1>3
<1> DEFINE Out == {i \in 0 .. n : \A j \in 1 .. i : order[j] \notin U => upTo[i][order[j]] \notin K}
<1>5. 0 \in Out
  BY <1>4
<1>6. ASSUME NEW i \in 1 .. n, i - 1 \in Out PROVE i \in Out
  <2> DEFINE m == upTo[i - 1]
             k == order[i]
  <2>1. Looping(m, K, U) /\ k \in K /\ m \in AliasMaps /\ upTo[i] = RePoint(m, k)
    BY <1>2, <1>3, <1>4
  <2>2. K \subseteq Labels
    BY <2>1 DEF Looping, Keys
  <2> HIDE DEF m, k
  <2>3. /\ k \notin U => upTo[i][k] \notin K
        /\ \A x \in Labels : x # k => upTo[i][x] = m[x]
    BY <2>1, RePointKeeps
  <2>4. ASSUME NEW j \in 1 .. i, order[j] \notin U PROVE upTo[i][order[j]] \notin K
    <3>1. CASE order[j] = k
      BY <2>3, <2>4, <3>1
    <3>2. CASE order[j] # k
      <4>1. j \in 1 .. (i - 1)
        BY <1>4, <3>2 DEF k
      <4>2. m[order[j]] \notin K
        BY <1>6, <2>4, <4>1 DEF m
      <4>3. j \in 1 .. n
        BY <1>3
      <4>4. order[j] \in Labels
        BY <1>3, <2>2, <4>3
      <4> QED BY <2>3, <3>2, <4>2, <4>4
    <3> QED BY <3>1, <3>2
  <2> QED BY <1>4, <2>4
<1>7. n \in Out
  <2>1. 0 \in Out /\ \A i \in 1 .. n : i - 1 \in Out => i \in Out
    BY <1>5, <1>6
  <2> HIDE DEF Out
  <2> QED BY <1>3, <1>4, <2>1, BoundedInduction
<1>8. \A k \in K : k \notin U => merged[k] \notin K
  BY <1>2, <1>3, <1>7
<1>9. merged \in AliasMaps /\ Keys(merged) = K /\ Closed(merged, U)
  BY <1>2, <1>4 DEF Looping
<1> QED BY <1>8, <1>9 DEF Settled, Closed

\* The names that must not be cited under a map: aliases that are final.
Dead(m) == {n \in Keys(m) : m[n] \notin Keys(m)}

\* An UPDATE brings in nothing but the alias of its label, and takes the last other
\* citation of a fact for no label but its own alias.
LEMMA UpdatedLabel ==
    ASSUME NEW c \in SUBSET Labels, NEW m \in AliasMaps, NEW k \in Keys(m)
    PROVE  /\ Updated(c, m, k) \in SUBSET Labels
           /\ Updated(c, m, k) \subseteq c \cup {m[k]}
           /\ Updated(c, m, k) # {} /\ Updated(c, m, k) \subseteq {k} => m[k] = k
<1>1. m[k] \in Labels
  BY DEF AliasMaps, Keys
<1>2. CASE k \in c /\ m[k] \notin c
  <2>1. Updated(c, m, k) = (c \ {k}) \cup {m[k]}
    BY <1>2 DEF Updated
  <2> QED BY <1>1, <1>2, <2>1
<1>3. CASE ~ (k \in c /\ m[k] \notin c)
  <2>1. Updated(c, m, k) = c
    BY <1>3 DEF Updated
  <2> QED BY <1>3, <2>1
<1> QED BY <1>2, <1>3

-----------------------------------------------------------------------------
AliasPhases == {"idle", "read", "relabel", "delete", "retire", "normalize", "insert"}
AliasWorkerStates ==
    [phase : AliasPhases, moves : BOOLEAN, gone : SUBSET Labels, map : AliasMaps, local : AliasMaps,
     todo : SUBSET Labels, key : Labels \cup {NoAlias}, left : SUBSET Labels]

AliasTypeOK ==
    /\ aliases \in [Sites -> AliasMaps]
    /\ cites \in [Sites -> SUBSET Labels]
    /\ projects \in [Sites -> SUBSET Labels]
    /\ worker \in [AliasWorkers -> AliasWorkerStates]
    /\ disturbed \in [Sites -> BOOLEAN]

\* Every recorded map is the outcome of a merge, and so is one that a worker applies.
\* What an UPDATE left is not its own label alone, unless that is its own alias.
ApplicationOK(w) ==
    worker[w].phase \in {"relabel", "delete"} =>
       /\ Settled(worker[w].map)
       /\ worker[w].todo \subseteq Keys(worker[w].map)
       /\ worker[w].phase = "delete" =>
             /\ worker[w].key \in Keys(worker[w].map)
             /\ worker[w].left # {} /\ worker[w].left \subseteq {worker[w].key}
                   => worker[w].map[worker[w].key] = worker[w].key

AliasesSettled ==
    /\ \A s \in Sites : Settled(aliases[s])
    /\ \A w \in AliasWorkers : ApplicationOK(w)

\* The labels of its aliases that an application has still to delete.
Undeleted(w) == worker[w].todo \cup (IF worker[w].phase = "delete" THEN {worker[w].key} ELSE {})

\* An undisturbed application is alone, and what it has done is clean under its map.
AloneAndClean(w) ==
    worker[w].phase \in {"relabel", "delete"} =>
       /\ worker[w].local = aliases[SiteOf[w]]
       /\ \A v \in AliasWorkers \ {w} :
             SiteOf[v] = SiteOf[w] => worker[v].phase \notin {"relabel", "delete", "insert"}
       /\ cites[SiteOf[w]] \cap Dead(worker[w].map) \subseteq Undeleted(w)

ImportClean(w) ==
    worker[w].phase = "insert" => worker[w].todo \cap Dead(aliases[SiteOf[w]]) = {}

SiteClean(s) ==
    disturbed[s] # TRUE =>
       /\ ~Applying(s) => cites[s] \cap Dead(aliases[s]) = {}
       /\ \A w \in AliasWorkers : SiteOf[w] = s => AloneAndClean(w) /\ ImportClean(w)

AliasInv == AliasTypeOK /\ AliasesSettled /\ \A s \in Sites : SiteClean(s)

\* No alias at all is a settled map, and a worker at rest has no part in a site.
LEMMA NoAliasesSettled == NoAliases \in AliasMaps /\ Settled(NoAliases) /\ Dead(NoAliases) = {}
BY DEF NoAliases, AliasMaps, Settled, Dead, Keys

LEMMA IdleState ==
    /\ Unoccupied \in AliasWorkerStates /\ Unoccupied.phase = "idle" /\ Unoccupied.todo = {} /\ Unoccupied.left = {}
    /\ Unoccupied.key = NoAlias /\ Unoccupied.gone = {} /\ Unoccupied.moves = FALSE
BY NoAliasesSettled DEF Unoccupied, AliasWorkerStates, AliasPhases

LEMMA AliasInvInit == AliasInit => AliasInv
<1> SUFFICES ASSUME AliasInit PROVE AliasInv
  OBVIOUS
<1>1. AliasTypeOK
  BY IdleState, NoAliasesSettled DEF AliasInit, AliasTypeOK
<1>2. \A w \in AliasWorkers : worker[w].phase = "idle"
  BY IdleState DEF AliasInit
<1>3. AliasesSettled
  BY <1>2, NoAliasesSettled DEF AliasInit, AliasesSettled, ApplicationOK
<1>4. \A s \in Sites : SiteClean(s)
  BY <1>2 DEF AliasInit, SiteClean, AloneAndClean, ImportClean
<1> QED BY <1>1, <1>3, <1>4 DEF AliasInv

\* A worker that does not move stays clean if nothing of its site does and no worker there
\* begins to apply or to insert.
LEMMA StaysClean ==
    ASSUME NEW v \in AliasWorkers, AloneAndClean(v), ImportClean(v), worker'[v] = worker[v],
           aliases'[SiteOf[v]] = aliases[SiteOf[v]], cites'[SiteOf[v]] = cites[SiteOf[v]],
           \A u \in AliasWorkers \ {v} :
              SiteOf[u] = SiteOf[v] /\ worker'[u].phase \in {"relabel", "delete", "insert"} =>
                 worker[u].phase \in {"relabel", "delete", "insert"}
    PROVE  AloneAndClean(v)' /\ ImportClean(v)'
<1>1. ImportClean(v)'
  BY DEF ImportClean, Dead, Keys
<1>2. Undeleted(v)' = Undeleted(v) /\ Dead(worker[v].map)' = Dead(worker[v].map)
  BY DEF Undeleted, Dead, Keys
<1>3. AloneAndClean(v)'
  BY <1>2 DEF AloneAndClean
<1> QED BY <1>1, <1>3

\* A step of one worker leaves the other sites as they are.
LEMMA SoundElsewhere ==
    ASSUME AliasInv, NEW w \in AliasWorkers, NEW state \in AliasWorkerStates, Becomes(w, state),
           NEW s \in Sites, s # SiteOf[w],
           aliases'[s] = aliases[s], cites'[s] = cites[s], disturbed'[s] = disturbed[s]
    PROVE  SiteClean(s)'
<1>1. \A v \in AliasWorkers : SiteOf[v] = s => worker'[v] = worker[v]
  BY DEF Becomes, AliasInv, AliasTypeOK
<1> SUFFICES ASSUME disturbed'[s] # TRUE PROVE SiteClean(s)'
  BY DEF SiteClean
<1>2. SiteClean(s)
  BY DEF AliasInv
<1>3. Applying(s)' = Applying(s)
  BY <1>1 DEF Applying, Working
<1>4. ~Applying(s)' => cites'[s] \cap Dead(aliases[s])' = {}
  BY <1>2, <1>3 DEF SiteClean, Dead, Keys
<1>5. \A v \in AliasWorkers : SiteOf[v] = s => AloneAndClean(v)' /\ ImportClean(v)'
  BY <1>1, <1>2, StaysClean DEF SiteClean
<1> QED BY <1>4, <1>5 DEF SiteClean

\* What is left to show of a step of one worker: types, its own application and its site.
LEMMA WorkerStep ==
    ASSUME AliasInv, NEW w \in AliasWorkers, NEW state \in AliasWorkerStates, Becomes(w, state),
           NEW map \in AliasMaps, NEW c \in SUBSET Labels, NEW d \in BOOLEAN,
           aliases' = [aliases EXCEPT ![SiteOf[w]] = map], cites' = [cites EXCEPT ![SiteOf[w]] = c],
           disturbed' = [disturbed EXCEPT ![SiteOf[w]] = d], projects' \in [Sites -> SUBSET Labels],
           Settled(map), ApplicationOK(w)', SiteClean(SiteOf[w])'
    PROVE  AliasInv'
<1>1. SiteOf[w] \in Sites
  BY AliasAssumption
<1>2. AliasTypeOK'
  BY <1>1 DEF AliasInv, AliasTypeOK, Becomes
<1>3. \A v \in AliasWorkers \ {w} : ApplicationOK(v)'
  <2>1. \A v \in AliasWorkers \ {w} : worker'[v] = worker[v]
    BY DEF Becomes, AliasInv, AliasTypeOK
  <2> QED BY <2>1 DEF AliasInv, AliasesSettled, ApplicationOK, Settled, Keys
<1>4. \A s \in Sites : Settled(aliases[s])'
  BY <1>1 DEF AliasInv, AliasTypeOK, AliasesSettled, Settled, Keys
<1>5. AliasesSettled'
  BY <1>3, <1>4 DEF AliasesSettled
<1>6. \A s \in Sites : SiteClean(s)'
  BY <1>1, SoundElsewhere DEF AliasInv, AliasTypeOK
<1> QED BY <1>2, <1>5, <1>6 DEF AliasInv

\* A worker that neither applies nor inserts, before and after, changes nothing of a site.
LEMMA QuietAliasStep ==
    ASSUME AliasInv, NEW w \in AliasWorkers, NEW state \in AliasWorkerStates, Becomes(w, state),
           worker[w].phase \notin {"relabel", "delete"},
           state.phase \notin {"relabel", "delete", "insert"},
           UNCHANGED <<aliases, cites, disturbed>>, projects' \in [Sites -> SUBSET Labels]
    PROVE  AliasInv'
<1> DEFINE s == SiteOf[w]
<1>1. s \in Sites /\ AliasTypeOK /\ worker'[w] = state
      /\ \A v \in AliasWorkers \ {w} : worker'[v] = worker[v]
  BY AliasAssumption DEF AliasInv, AliasTypeOK, Becomes
<1>2. ApplicationOK(w)'
  BY <1>1 DEF ApplicationOK
<1>3. Applying(s)' = Applying(s)
  BY <1>1 DEF Applying, Working
<1>4. SiteClean(s)'
  <2> SUFFICES ASSUME disturbed'[s] # TRUE PROVE SiteClean(s)'
    BY DEF SiteClean
  <2>1. SiteClean(s) /\ aliases'[s] = aliases[s] /\ cites'[s] = cites[s] /\ disturbed[s] # TRUE
    BY <1>1 DEF AliasInv
  <2>2. ~Applying(s)' => cites'[s] \cap Dead(aliases[s])' = {}
    BY <1>3, <2>1 DEF SiteClean, Dead, Keys
  <2>3. AloneAndClean(w)' /\ ImportClean(w)'
    BY <1>1 DEF AloneAndClean, ImportClean
  <2>4. \A v \in AliasWorkers \ {w} : SiteOf[v] = s => AloneAndClean(v)' /\ ImportClean(v)'
    BY <1>1, <2>1, StaysClean DEF SiteClean
  <2> QED BY <2>2, <2>3, <2>4 DEF SiteClean
<1>5. Settled(aliases[s])
  BY <1>1 DEF AliasInv, AliasesSettled
<1>6. /\ aliases[s] \in AliasMaps /\ cites[s] \in SUBSET Labels /\ disturbed[s] \in BOOLEAN
      /\ aliases' = [aliases EXCEPT ![s] = aliases[s]] /\ cites' = [cites EXCEPT ![s] = cites[s]]
      /\ disturbed' = [disturbed EXCEPT ![s] = disturbed[s]]
  BY <1>1 DEF AliasTypeOK
<1> QED BY <1>2, <1>4, <1>5, <1>6, WorkerStep

\* An operation begins.
LEMMA BeginKeeps ==
    ASSUME AliasInv, NEW w \in AliasWorkers, NEW state \in AliasWorkerStates, Begin(w, state),
           state.phase \in {"read", "normalize"},
           UNCHANGED <<aliases, cites, disturbed>>, projects' \in [Sites -> SUBSET Labels]
    PROVE  AliasInv'
BY IdleState, QuietAliasStep DEF Begin

\* The beginnings of a rename, a merge, a configuration's import, a curation and a sync.
LEMMA BeginsKeep ==
    ASSUME AliasInv, NEW w \in AliasWorkers,
           \/ \E old, new \in Labels : RenameProject(w, old, new) \/ MergeProject(w, old, new)
           \/ \E from \in Sites : BeginGroupConfig(w, from) \/ SyncMemories(w, from)
           \/ \E p \in Labels : Curate(w, p)
    PROVE  AliasInv'
<1>1. AliasTypeOK /\ SiteOf[w] \in Sites
  BY AliasAssumption DEF AliasInv
<1>2. ASSUME NEW old \in Labels, NEW new \in Labels, NEW gone \in SUBSET Labels,
             BeginRelabel(w, old, new, gone), projects' \in [Sites -> SUBSET Labels]
      PROVE  AliasInv'
  <2> DEFINE map == [NoAliases EXCEPT ![old] = new]
             state == [Unoccupied EXCEPT !.phase = "read", !.moves = TRUE, !.gone = gone, !.map = map]
  <2>1. map \in AliasMaps
    BY NoAliasesSettled DEF AliasMaps
  <2> HIDE DEF map
  <2>2. state \in AliasWorkerStates /\ state.phase = "read"
    BY <2>1, IdleState DEF AliasWorkerStates, AliasPhases
  <2>3. Begin(w, state) /\ UNCHANGED <<aliases, cites, disturbed>>
    BY <1>2 DEF BeginRelabel, map
  <2> HIDE DEF state
  <2> QED BY <1>2, <2>2, <2>3, BeginKeeps
<1>3. ASSUME NEW old \in Labels, NEW new \in Labels, RenameProject(w, old, new) PROVE AliasInv'
  <2>1. projects' \in [Sites -> SUBSET Labels] /\ BeginRelabel(w, old, new, {})
    BY <1>1, <1>3 DEF RenameProject, AliasTypeOK
  <2> QED BY <1>2, <2>1
<1>4. ASSUME NEW old \in Labels, NEW new \in Labels, MergeProject(w, old, new) PROVE AliasInv'
  <2>1. /\ projects' \in [Sites -> SUBSET Labels]
        /\ projects[SiteOf[w]] \cap {old} \in SUBSET Labels
        /\ BeginRelabel(w, old, new, projects[SiteOf[w]] \cap {old})
    BY <1>1, <1>4 DEF MergeProject, AliasTypeOK
  <2> QED BY <1>2, <2>1
<1>5. ASSUME NEW from \in Sites, BeginGroupConfig(w, from) PROVE AliasInv'
  <2> DEFINE state == [Unoccupied EXCEPT !.phase = "read", !.map = aliases[from]]
  <2>1. state \in AliasWorkerStates /\ state.phase = "read"
    BY <1>1, IdleState DEF AliasWorkerStates, AliasPhases, AliasTypeOK
  <2>2. Begin(w, state) /\ UNCHANGED <<aliases, cites, projects, disturbed>>
    BY <1>5 DEF BeginGroupConfig
  <2> HIDE DEF state
  <2> QED BY <1>1, <2>1, <2>2, BeginKeeps DEF AliasTypeOK
<1>6. ASSUME NEW names \in SUBSET Labels, BeginAdding(w, names) PROVE AliasInv'
  <2> DEFINE state == [Unoccupied EXCEPT !.phase = "normalize", !.todo = names]
  <2>1. state \in AliasWorkerStates /\ state.phase = "normalize"
    BY <1>6, IdleState DEF AliasWorkerStates, AliasPhases
  <2>2. Begin(w, state) /\ UNCHANGED <<aliases, cites, projects, disturbed>>
    BY <1>6 DEF BeginAdding
  <2> HIDE DEF state
  <2> QED BY <1>1, <2>1, <2>2, BeginKeeps DEF AliasTypeOK
<1>7. ASSUME NEW from \in Sites, SyncMemories(w, from) PROVE AliasInv'
  BY <1>1, <1>6, <1>7 DEF SyncMemories, AliasTypeOK
<1>8. ASSUME NEW p \in Labels, Curate(w, p) PROVE AliasInv'
  BY <1>6, <1>8 DEF Curate
<1> QED BY <1>3, <1>4, <1>5, <1>7, <1>8

\* An application reads the map: undisturbed if it is alone, and all labels are to do.
LEMMA ReadAliasesKeeps ==
    ASSUME AliasInv, NEW w \in AliasWorkers, ReadAliases(w)
    PROVE  AliasInv'
<1> DEFINE s == SiteOf[w]
<1>a. PICK local \in ReadMaps(s) :
         /\ \E merged \in MergeOriginAliases(local, worker[w].map) :
               Becomes(w, [worker[w] EXCEPT !.phase = "relabel", !.map = merged, !.local = local,
                                            !.todo = Keys(merged)])
         /\ disturbed' = [disturbed EXCEPT ![s] = Busy(s) \/ local # aliases[s]]
  BY DEF ReadAliases
<1>1. PICK merged \in MergeOriginAliases(local, worker[w].map) :
         /\ Becomes(w, [worker[w] EXCEPT !.phase = "relabel", !.map = merged, !.local = local,
                                         !.todo = Keys(merged)])
         /\ disturbed' = [disturbed EXCEPT ![s] = Busy(s) \/ local # aliases[s]]
  BY <1>a
<1> DEFINE state == [worker[w] EXCEPT !.phase = "relabel", !.map = merged, !.local = local,
                                      !.todo = Keys(merged)]
<1>2. /\ s \in Sites /\ AliasTypeOK /\ worker[w] \in AliasWorkerStates /\ worker[w].map \in AliasMaps
      /\ local \in AliasMaps
  BY AliasAssumption, NoAliasesSettled DEF AliasInv, AliasTypeOK, AliasWorkerStates, ReadMaps
<1>3. merged \in AliasMaps /\ Settled(merged)
  BY <1>2, MergeSettles
<1>4. /\ state \in AliasWorkerStates /\ state.phase = "relabel" /\ state.map = merged
      /\ state.local = local /\ state.todo = Keys(merged)
  BY <1>2, <1>3 DEF AliasWorkerStates, AliasPhases, Keys
<1>5. Becomes(w, state) /\ UNCHANGED <<aliases, cites, projects>>
  BY <1>1 DEF ReadAliases
<1> HIDE DEF state
<1>6. worker'[w] = state /\ \A v \in AliasWorkers \ {w} : worker'[v] = worker[v]
  BY <1>2, <1>4, <1>5 DEF Becomes, AliasTypeOK
<1>7. ApplicationOK(w)'
  BY <1>3, <1>4, <1>6 DEF ApplicationOK, Settled, Keys
<1>8. ASSUME disturbed'[s] # TRUE
      PROVE  /\ local = aliases[s]
             /\ \A v \in AliasWorkers \ {w} : SiteOf[v] = s => worker[v].phase \notin {"relabel", "delete", "insert"}
  BY <1>1, <1>2, <1>8 DEF AliasTypeOK, Busy, Working
<1>9. SiteClean(s)'
  <2> SUFFICES ASSUME disturbed'[s] # TRUE PROVE SiteClean(s)'
    BY DEF SiteClean
  <2>1. Applying(s)'
    BY <1>4, <1>6 DEF Applying, Working
  <2>2. AloneAndClean(w)' /\ ImportClean(w)'
    BY <1>2, <1>4, <1>5, <1>6, <1>8 DEF AloneAndClean, ImportClean, Undeleted, Dead
  <2>3. \A v \in AliasWorkers \ {w} : SiteOf[v] = s => AloneAndClean(v)' /\ ImportClean(v)'
    BY <1>6, <1>8 DEF AloneAndClean, ImportClean
  <2> QED BY <2>1, <2>2, <2>3 DEF SiteClean
<1>10. Settled(aliases[s]) /\ (Busy(s) \/ local # aliases[s]) \in BOOLEAN
  BY <1>2 DEF AliasInv, AliasesSettled
<1>11. /\ aliases[s] \in AliasMaps /\ cites[s] \in SUBSET Labels /\ projects' \in [Sites -> SUBSET Labels]
       /\ aliases' = [aliases EXCEPT ![s] = aliases[s]] /\ cites' = [cites EXCEPT ![s] = cites[s]]
  BY <1>2, <1>5 DEF AliasTypeOK
<1> QED BY <1>1, <1>4, <1>5, <1>7, <1>9, <1>10, <1>11, WorkerStep

\* An UPDATE: what it brings in is not dead, and its label is the next to be deleted.
LEMMA UpdateLabelKeeps ==
    ASSUME AliasInv, NEW w \in AliasWorkers, NEW k \in Labels, UpdateLabel(w, k)
    PROVE  AliasInv'
<1> DEFINE s == SiteOf[w]
           m == worker[w].map
           c == Updated(cites[s], m, k)
<1>1. PICK done \in Succeeds :
         /\ cites' = [cites EXCEPT ![s] = IF done THEN c ELSE @]
         /\ Becomes(w, [worker[w] EXCEPT !.phase = "delete", !.key = k, !.todo = @ \ {k},
                                         !.left = IF done THEN c ELSE {}])
  BY DEF UpdateLabel
<1> DEFINE now == IF done THEN c ELSE cites[s]
           left == IF done THEN c ELSE {}
           state == [worker[w] EXCEPT !.phase = "delete", !.key = k, !.todo = worker[w].todo \ {k}, !.left = left]
<1>2. /\ s \in Sites /\ AliasTypeOK /\ worker[w] \in AliasWorkerStates /\ m \in AliasMaps
      /\ worker[w].phase = "relabel" /\ k \in worker[w].todo /\ cites[s] \in SUBSET Labels
      /\ UNCHANGED <<aliases, projects, disturbed>>
  BY AliasAssumption DEF UpdateLabel, AliasInv, AliasTypeOK, AliasWorkerStates
<1>3. Settled(m) /\ worker[w].todo \subseteq Keys(m) /\ k \in Keys(m)
  BY <1>2 DEF AliasInv, AliasesSettled, ApplicationOK
<1> HIDE DEF m, c
<1>4. c \in SUBSET Labels /\ c \subseteq cites[s] \cup {m[k]} /\ (c # {} /\ c \subseteq {k} => m[k] = k)
  BY <1>2, <1>3, UpdatedLabel DEF c
<1>5. m[k] \notin Dead(m)
  BY <1>3 DEF Settled, Dead
<1>6. /\ now \in SUBSET Labels /\ now \cap Dead(m) \subseteq cites[s] /\ left \in SUBSET Labels
      /\ left # {} /\ left \subseteq {k} => m[k] = k
  BY <1>2, <1>4, <1>5
<1>7. cites' = [cites EXCEPT ![s] = now] /\ Becomes(w, state)
  BY <1>1, <1>2 DEF AliasTypeOK, Becomes, AliasWorkerStates
<1> HIDE DEF now, left
<1>8. /\ state \in AliasWorkerStates /\ state.phase = "delete" /\ state.map = m /\ state.key = k
      /\ state.todo = worker[w].todo \ {k} /\ state.left = left /\ state.local = worker[w].local
  BY <1>2, <1>6 DEF AliasWorkerStates, AliasPhases, m
<1> HIDE DEF state
<1>9. worker'[w] = state /\ \A v \in AliasWorkers \ {w} : worker'[v] = worker[v]
  BY <1>2, <1>7, <1>8 DEF Becomes, AliasTypeOK
<1>10. ApplicationOK(w)'
  BY <1>3, <1>6, <1>8, <1>9 DEF ApplicationOK, Settled, Keys
<1>11. SiteClean(s)'
  <2> SUFFICES ASSUME disturbed'[s] # TRUE PROVE SiteClean(s)'
    BY DEF SiteClean
  <2>1. Applying(s)'
    BY <1>8, <1>9 DEF Applying, Working
  <2>2. /\ worker[w].local = aliases[s]
        /\ \A v \in AliasWorkers \ {w} : SiteOf[v] = s => worker[v].phase \notin {"relabel", "delete", "insert"}
        /\ cites[s] \cap Dead(m) \subseteq worker[w].todo
    BY <1>2 DEF AliasInv, SiteClean, AloneAndClean, Undeleted, m
  <2>3. cites'[s] = now
    BY <1>2, <1>7 DEF AliasTypeOK
  <2>4. cites'[s] \cap Dead(m) \subseteq (worker[w].todo \ {k}) \cup {k}
    BY <1>6, <2>2, <2>3
  <2>5. AloneAndClean(w)' /\ ImportClean(w)'
    BY <1>2, <1>8, <1>9, <2>2, <2>4 DEF AloneAndClean, ImportClean, Undeleted, Dead, Keys
  <2>6. \A v \in AliasWorkers \ {w} : SiteOf[v] = s => AloneAndClean(v)' /\ ImportClean(v)'
    BY <1>9, <2>2 DEF AloneAndClean, ImportClean
  <2> QED BY <2>1, <2>5, <2>6 DEF SiteClean
<1>12. Settled(aliases[s]) /\ aliases[s] \in AliasMaps /\ disturbed[s] \in BOOLEAN
  BY <1>2 DEF AliasInv, AliasesSettled, AliasTypeOK
<1> QED BY <1>2, <1>6, <1>7, <1>8, <1>10, <1>11, <1>12, WorkerStep DEF AliasTypeOK

\* A DELETE: its label is gone, or the site is marked.
LEMMA DeleteLabelKeeps ==
    ASSUME AliasInv, NEW w \in AliasWorkers, DeleteLabel(w)
    PROVE  AliasInv'
<1> DEFINE s == SiteOf[w]
           m == worker[w].map
           k == worker[w].key
           state == [worker[w] EXCEPT !.phase = "relabel", !.key = NoAlias, !.left = {}]
<1>1. PICK done \in Succeeds :
         /\ cites' = [cites EXCEPT ![s] = IF done THEN @ \ {k} ELSE @]
         /\ disturbed' = [disturbed EXCEPT ![s] = @ \/ ~done]
  BY DEF DeleteLabel
<1>2. /\ s \in Sites /\ AliasTypeOK /\ worker[w] \in AliasWorkerStates /\ m \in AliasMaps
      /\ worker[w].phase = "delete" /\ cites[s] \in SUBSET Labels /\ disturbed[s] \in BOOLEAN /\ done \in BOOLEAN
      /\ Becomes(w, state) /\ UNCHANGED <<aliases, projects>>
  BY AliasAssumption DEF DeleteLabel, AliasInv, AliasTypeOK, AliasWorkerStates, Succeeds
<1>3. Settled(m) /\ worker[w].todo \subseteq Keys(m)
  BY <1>2 DEF AliasInv, AliasesSettled, ApplicationOK
<1>4. /\ state \in AliasWorkerStates /\ state.phase = "relabel" /\ state.map = m
      /\ state.todo = worker[w].todo /\ state.local = worker[w].local
  BY <1>2 DEF AliasWorkerStates, AliasPhases
<1> DEFINE now == IF done THEN cites[s] \ {k} ELSE cites[s]
<1>5. now \in SUBSET Labels /\ cites' = [cites EXCEPT ![s] = now] /\ cites'[s] = now
  BY <1>1, <1>2 DEF AliasTypeOK
<1> HIDE DEF state, m, k
<1>6. worker'[w] = state /\ \A v \in AliasWorkers \ {w} : worker'[v] = worker[v]
  BY <1>2, <1>4 DEF Becomes, AliasTypeOK
<1>7. ApplicationOK(w)'
  BY <1>3, <1>4, <1>6 DEF ApplicationOK, Settled, Keys
<1>8. SiteClean(s)'
  <2> SUFFICES ASSUME disturbed'[s] # TRUE PROVE SiteClean(s)'
    BY DEF SiteClean
  <2>1. Applying(s)'
    BY <1>4, <1>6 DEF Applying, Working
  <2>2. disturbed[s] # TRUE /\ done = TRUE
    BY <1>1, <1>2 DEF AliasTypeOK
  <2>3. /\ worker[w].local = aliases[s]
        /\ \A v \in AliasWorkers \ {w} : SiteOf[v] = s => worker[v].phase \notin {"relabel", "delete", "insert"}
        /\ cites[s] \cap Dead(m) \subseteq worker[w].todo \cup {k}
    BY <1>2, <2>2 DEF AliasInv, SiteClean, AloneAndClean, Undeleted, m, k
  <2>4. cites'[s] \cap Dead(m) \subseteq worker[w].todo
    BY <1>5, <2>2, <2>3
  <2>5. AloneAndClean(w)' /\ ImportClean(w)'
    BY <1>2, <1>4, <1>6, <2>3, <2>4 DEF AloneAndClean, ImportClean, Undeleted, Dead, Keys
  <2>6. \A v \in AliasWorkers \ {w} : SiteOf[v] = s => AloneAndClean(v)' /\ ImportClean(v)'
    BY <1>6, <2>3 DEF AloneAndClean, ImportClean
  <2> QED BY <2>1, <2>5, <2>6 DEF SiteClean
<1>9. Settled(aliases[s]) /\ aliases[s] \in AliasMaps /\ (disturbed[s] \/ ~done) \in BOOLEAN
  BY <1>2 DEF AliasInv, AliasesSettled, AliasTypeOK
<1> HIDE DEF now
<1> QED BY <1>1, <1>2, <1>4, <1>5, <1>7, <1>8, <1>9, WorkerStep DEF AliasTypeOK

\* The merged map is stored: what is clean under it is clean under the recorded one.
LEMMA StoreAliasesKeeps ==
    ASSUME AliasInv, NEW w \in AliasWorkers, StoreAliases(w)
    PROVE  AliasInv'
<1> DEFINE s == SiteOf[w]
           m == worker[w].map
           map == IF m # worker[w].local THEN m ELSE aliases[s]
           retire == [Unoccupied EXCEPT !.phase = "retire", !.moves = TRUE, !.gone = worker[w].gone]
           state == IF worker[w].gone = {} THEN Unoccupied ELSE retire
<1>1. /\ s \in Sites /\ AliasTypeOK /\ worker[w] \in AliasWorkerStates /\ m \in AliasMaps
      /\ worker[w].phase = "relabel" /\ worker[w].todo = {}
      /\ aliases[s] \in AliasMaps /\ cites[s] \in SUBSET Labels /\ disturbed[s] \in BOOLEAN
      /\ Becomes(w, state) /\ UNCHANGED <<cites, projects, disturbed>>
      /\ aliases' = [aliases EXCEPT ![s] = map]
  BY AliasAssumption DEF StoreAliases, AliasInv, AliasTypeOK, AliasWorkerStates
<1>2. Settled(m) /\ Settled(aliases[s])
  BY <1>1 DEF AliasInv, AliasesSettled, ApplicationOK
<1>3. state \in AliasWorkerStates /\ state.phase \in {"idle", "retire"}
  <2>1. worker[w].gone \in SUBSET Labels
    BY <1>1 DEF AliasWorkerStates
  <2>2. retire \in AliasWorkerStates /\ retire.phase = "retire"
    BY <2>1, IdleState DEF AliasWorkerStates, AliasPhases
  <2> QED BY <2>2, IdleState
<1> HIDE DEF state
<1>4. worker'[w] = state /\ \A v \in AliasWorkers \ {w} : worker'[v] = worker[v]
  BY <1>1, <1>3 DEF Becomes, AliasTypeOK
<1>5. map \in AliasMaps /\ Settled(map) /\ aliases'[s] = map
  BY <1>1, <1>2 DEF AliasTypeOK
<1>6. ApplicationOK(w)'
  BY <1>3, <1>4 DEF ApplicationOK
<1>7. SiteClean(s)'
  <2> SUFFICES ASSUME disturbed'[s] # TRUE PROVE SiteClean(s)'
    BY DEF SiteClean
  <2>1. /\ worker[w].local = aliases[s]
        /\ \A v \in AliasWorkers \ {w} : SiteOf[v] = s => worker[v].phase \notin {"relabel", "delete", "insert"}
        /\ cites[s] \cap Dead(m) = {}
    BY <1>1 DEF AliasInv, SiteClean, AloneAndClean, Undeleted
  <2>2. map = m
    BY <2>1
  <2> HIDE DEF m, map
  <2>3. cites'[s] \cap Dead(aliases'[s]) = {}
    BY <1>1, <1>5, <2>1, <2>2
  <2>4. \A v \in AliasWorkers : SiteOf[v] = s => AloneAndClean(v)' /\ ImportClean(v)'
    BY <1>3, <1>4, <2>1 DEF AloneAndClean, ImportClean
  <2> QED BY <2>3, <2>4 DEF SiteClean, Dead, Keys
<1> HIDE DEF map, m
<1> QED BY <1>1, <1>3, <1>5, <1>6, <1>7, WorkerStep DEF AliasTypeOK

\* An import reads the map: what it will insert is not dead under it.
LEMMA NormalizeNamesKeeps ==
    ASSUME AliasInv, NEW w \in AliasWorkers, NormalizeNames(w)
    PROVE  AliasInv'
<1> DEFINE s == SiteOf[w]
<1>1. PICK local \in ReadMaps(s) :
         /\ Becomes(w, [worker[w] EXCEPT !.phase = "insert", !.todo = {Normalize(local, n) : n \in @}])
         /\ disturbed' = [disturbed EXCEPT ![s] = @ \/ Applying(s) \/ local # aliases[s]]
  BY DEF NormalizeNames
<1> DEFINE names == {Normalize(local, n) : n \in worker[w].todo}
           state == [worker[w] EXCEPT !.phase = "insert", !.todo = names]
<1>2. /\ s \in Sites /\ AliasTypeOK /\ worker[w] \in AliasWorkerStates /\ worker[w].todo \in SUBSET Labels
      /\ worker[w].phase = "normalize" /\ local \in AliasMaps /\ disturbed[s] \in BOOLEAN
      /\ aliases[s] \in AliasMaps /\ Settled(aliases[s]) /\ UNCHANGED <<aliases, cites, projects>>
  BY AliasAssumption, NoAliasesSettled
     DEF NormalizeNames, AliasInv, AliasTypeOK, AliasWorkerStates, ReadMaps, AliasesSettled
<1>3. ASSUME NEW n \in worker[w].todo
      PROVE  Normalize(local, n) \in Labels /\ (local = aliases[s] => Normalize(local, n) \notin Dead(aliases[s]))
  <2>1. n \in Labels /\ NoAlias \notin Labels
    BY <1>2, AliasAssumption
  <2>2. CASE local[n] = NoAlias
    BY <2>1, <2>2 DEF Normalize, Dead, Keys
  <2>3. CASE local[n] # NoAlias
    <3>1. n \in Keys(local) /\ local[n] \in Labels /\ Normalize(local, n) = local[n]
      BY <1>2, <2>1, <2>3 DEF Normalize, Keys, AliasMaps
    <3> QED BY <1>2, <3>1 DEF Dead, Settled
  <2> QED BY <2>2, <2>3
<1>4. names \in SUBSET Labels /\ (local = aliases[s] => names \cap Dead(aliases[s]) = {})
  BY <1>3
<1>5. Becomes(w, state)
  BY <1>1, <1>2 DEF Becomes, AliasTypeOK
<1> HIDE DEF names
<1>6. state \in AliasWorkerStates /\ state.phase = "insert" /\ state.todo = names
  BY <1>2, <1>4 DEF AliasWorkerStates, AliasPhases
<1> HIDE DEF state
<1>7. worker'[w] = state /\ \A v \in AliasWorkers \ {w} : worker'[v] = worker[v]
  BY <1>2, <1>5, <1>6 DEF Becomes, AliasTypeOK
<1>8. ApplicationOK(w)'
  BY <1>6, <1>7 DEF ApplicationOK
<1>9. SiteClean(s)'
  <2> SUFFICES ASSUME disturbed'[s] # TRUE PROVE SiteClean(s)'
    BY DEF SiteClean
  <2>1. disturbed[s] # TRUE /\ ~Applying(s) /\ local = aliases[s]
    BY <1>1, <1>2 DEF AliasTypeOK
  <2>2. \A v \in AliasWorkers : SiteOf[v] = s => worker'[v].phase \notin {"relabel", "delete"}
    BY <1>6, <1>7, <2>1 DEF Applying, Working
  <2>3. cites[s] \cap Dead(aliases[s]) = {}
    BY <1>2, <2>1 DEF AliasInv, SiteClean
  <2>4. AloneAndClean(w)' /\ ImportClean(w)'
    BY <1>2, <1>4, <1>6, <1>7, <2>1 DEF AloneAndClean, ImportClean, Dead, Keys
  <2>5. ASSUME NEW v \in AliasWorkers \ {w}, SiteOf[v] = s PROVE AloneAndClean(v)' /\ ImportClean(v)'
    <3>1. AloneAndClean(v)'
      BY <2>2, <2>5 DEF AloneAndClean
    <3>2. ImportClean(v)'
      <4>1. ImportClean(v)
        BY <1>2, <2>1, <2>5 DEF AliasInv, SiteClean
      <4> QED BY <1>2, <1>7, <2>5, <4>1 DEF ImportClean, Dead, Keys
    <3> QED BY <3>1, <3>2
  <2> QED BY <1>2, <2>3, <2>4, <2>5 DEF SiteClean, Dead, Keys
<1>10. (disturbed[s] \/ Applying(s) \/ local # aliases[s]) \in BOOLEAN /\ cites[s] \in SUBSET Labels
  BY <1>2 DEF AliasTypeOK
<1> QED BY <1>1, <1>2, <1>5, <1>6, <1>8, <1>9, <1>10, WorkerStep DEF AliasTypeOK

\* An import inserts a citation.
LEMMA InsertSourceKeeps ==
    ASSUME AliasInv, NEW w \in AliasWorkers, NEW n \in Labels, InsertSource(w, n)
    PROVE  AliasInv'
<1> DEFINE s == SiteOf[w]
           more == [worker[w] EXCEPT !.todo = worker[w].todo \ {n}]
           state == IF worker[w].todo = {n} THEN Unoccupied ELSE more
<1>1. /\ s \in Sites /\ AliasTypeOK /\ worker[w] \in AliasWorkerStates
      /\ worker[w].phase = "insert" /\ n \in worker[w].todo
      /\ cites[s] \in SUBSET Labels /\ disturbed[s] \in BOOLEAN
      /\ aliases[s] \in AliasMaps /\ Settled(aliases[s]) /\ UNCHANGED <<aliases, projects, disturbed>>
      /\ cites' = [cites EXCEPT ![s] = cites[s] \cup {n}]
  BY AliasAssumption DEF InsertSource, AliasInv, AliasTypeOK, AliasesSettled
<1>2. more \in AliasWorkerStates /\ more.phase = "insert" /\ more.todo \subseteq worker[w].todo
  BY <1>1 DEF AliasWorkerStates
<1>3. Becomes(w, state)
  <2>1. [worker[w] EXCEPT !.todo = @ \ {n}] = more
    BY <1>1 DEF AliasWorkerStates
  <2> QED BY <2>1 DEF InsertSource
<1> HIDE DEF more
<1>4. /\ state \in AliasWorkerStates /\ state.phase \in {"idle", "insert"}
      /\ state.phase = "insert" => state.todo \subseteq worker[w].todo
  BY <1>2, IdleState
<1> HIDE DEF state
<1>5. worker'[w] = state /\ \A v \in AliasWorkers \ {w} : worker'[v] = worker[v]
  BY <1>1, <1>3, <1>4 DEF Becomes, AliasTypeOK
<1>6. ApplicationOK(w)'
  BY <1>4, <1>5 DEF ApplicationOK
<1>7. SiteClean(s)'
  <2> SUFFICES ASSUME disturbed'[s] # TRUE PROVE SiteClean(s)'
    BY DEF SiteClean
  <2>1. \A v \in AliasWorkers : SiteOf[v] = s => worker[v].phase \notin {"relabel", "delete"}
    BY <1>1 DEF AliasInv, SiteClean, AloneAndClean
  <2>2. ~Applying(s)
    BY <2>1 DEF Applying, Working
  <2>3. cites[s] \cap Dead(aliases[s]) = {} /\ n \notin Dead(aliases[s])
    BY <1>1, <2>2 DEF AliasInv, SiteClean, ImportClean
  <2>4. cites'[s] \cap Dead(aliases[s]) = {}
    BY <1>1, <2>3 DEF AliasTypeOK
  <2>5. \A v \in AliasWorkers : SiteOf[v] = s => AloneAndClean(v)' /\ ImportClean(v)'
    BY <1>1, <1>4, <1>5, <2>1 DEF AliasInv, SiteClean, AloneAndClean, ImportClean, Dead, Keys
  <2> QED BY <1>1, <2>4, <2>5 DEF SiteClean, Dead, Keys
<1> QED BY <1>1, <1>3, <1>4, <1>6, <1>7, WorkerStep DEF AliasTypeOK

\* A worker dies: an application that was under way marks its site.
LEMMA AbandonKeeps ==
    ASSUME AliasInv, NEW w \in AliasWorkers, Abandon(w)
    PROVE  AliasInv'
<1> DEFINE s == SiteOf[w]
           d == disturbed[s] \/ worker[w].phase \in {"relabel", "delete"}
<1>1. /\ s \in Sites /\ AliasTypeOK /\ Becomes(w, Unoccupied)
      /\ cites[s] \in SUBSET Labels /\ disturbed[s] \in BOOLEAN /\ d \in BOOLEAN
      /\ aliases[s] \in AliasMaps /\ Settled(aliases[s]) /\ UNCHANGED <<aliases, cites, projects>>
      /\ disturbed' = [disturbed EXCEPT ![s] = d]
  BY AliasAssumption DEF Abandon, AliasInv, AliasTypeOK, AliasesSettled
<1>2. worker'[w] = Unoccupied /\ \A v \in AliasWorkers \ {w} : worker'[v] = worker[v]
  BY <1>1 DEF Becomes, AliasTypeOK
<1>3. ApplicationOK(w)'
  BY <1>2, IdleState DEF ApplicationOK
<1>4. SiteClean(s)'
  <2> SUFFICES ASSUME disturbed'[s] # TRUE PROVE SiteClean(s)'
    BY DEF SiteClean
  <2>1. disturbed[s] # TRUE /\ worker[w].phase \notin {"relabel", "delete"}
    BY <1>1 DEF AliasTypeOK
  <2>2. Applying(s)' = Applying(s)
    BY <1>2, <2>1, IdleState DEF Applying, Working
  <2>3. SiteClean(s) /\ aliases'[s] = aliases[s] /\ cites'[s] = cites[s]
    BY <1>1 DEF AliasInv
  <2>4. ~Applying(s)' => cites'[s] \cap Dead(aliases[s])' = {}
    BY <2>1, <2>2, <2>3 DEF SiteClean, Dead, Keys
  <2>5. AloneAndClean(w)' /\ ImportClean(w)'
    BY <1>2, IdleState DEF AloneAndClean, ImportClean
  <2>6. \A v \in AliasWorkers \ {w} : SiteOf[v] = s => AloneAndClean(v)' /\ ImportClean(v)'
    BY <1>2, <2>1, <2>3, IdleState, StaysClean DEF SiteClean
  <2> QED BY <2>4, <2>5, <2>6 DEF SiteClean
<1> QED BY <1>1, <1>3, <1>4, IdleState, WorkerStep DEF AliasTypeOK

\* A merge removes its source.
LEMMA RetireSourceKeeps ==
    ASSUME AliasInv, NEW w \in AliasWorkers, RetireSource(w)
    PROVE  AliasInv'
<1>1. projects' \in [Sites -> SUBSET Labels]
  BY AliasAssumption DEF RetireSource, AliasInv, AliasTypeOK
<1>2. /\ Becomes(w, Unoccupied) /\ worker[w].phase \notin {"relabel", "delete"}
      /\ UNCHANGED <<aliases, cites, disturbed>>
  BY DEF RetireSource
<1>3. Unoccupied \in AliasWorkerStates /\ Unoccupied.phase \notin {"relabel", "delete", "insert"}
  BY IdleState
<1> QED BY <1>1, <1>2, <1>3, QuietAliasStep

LEMMA AliasInvStep == AliasInv /\ [AliasNext]_aliasVars => AliasInv'
<1> SUFFICES ASSUME AliasInv, [AliasNext]_aliasVars PROVE AliasInv'
  OBVIOUS
<1>1. CASE UNCHANGED aliasVars
  <2>1. /\ UNCHANGED <<aliases, cites, projects, worker, disturbed>>
        /\ AliasTypeOK /\ AliasesSettled /\ \A s \in Sites : SiteClean(s)
    BY <1>1 DEF aliasVars, AliasInv
  <2>2. AliasTypeOK'
    BY <2>1 DEF AliasTypeOK
  <2>3. AliasesSettled'
    BY <2>1 DEF AliasesSettled, ApplicationOK, Settled, Keys
  <2>4. ASSUME NEW s \in Sites PROVE SiteClean(s)'
    <3>1. (~Applying(s) => cites[s] \cap Dead(aliases[s]) = {})
          => (~Applying(s)' => cites'[s] \cap Dead(aliases[s])' = {})
      BY <2>1 DEF Applying, Working, Dead, Keys
    <3>2. \A v \in AliasWorkers : AloneAndClean(v) /\ ImportClean(v) => AloneAndClean(v)' /\ ImportClean(v)'
      BY <2>1, StaysClean
    <3> QED BY <2>1, <3>1, <3>2 DEF SiteClean
  <2> QED BY <2>2, <2>3, <2>4 DEF AliasInv
<1>2. CASE AliasNext
  BY <1>2, BeginsKeep, RetireSourceKeeps, ReadAliasesKeeps, UpdateLabelKeeps, DeleteLabelKeeps, StoreAliasesKeeps,
     NormalizeNamesKeeps, InsertSourceKeeps, AbandonKeeps DEF AliasNext
<1> QED BY <1>1, <1>2

LEMMA AliasInvAlways == AliasSpec => []AliasInv
BY AliasInvInit, AliasInvStep, PTL DEF AliasSpec

(***************************************************************************)
(* For any number of copies, workers, projects and renames: a name whose   *)
(* recorded alias is final is cited by no fact of a copy, from one         *)
(* application of aliases that ran alone and without an error until one    *)
(* that does not, in whatever order the maps are walked (memory.go:198-289,*)
(* 857-900).                                                               *)
(***************************************************************************)
THEOREM DeadNamesStayDead == AliasSpec => []NoGhostCitation
<1>1. AliasInv => NoGhostCitation
  <2> SUFFICES ASSUME AliasInv, NEW s \in Sites, ~Busy(s), ~disturbed[s]
               PROVE  cites[s] \cap Retired(s) = {}
    BY DEF NoGhostCitation
  <2>1. ~Applying(s) /\ disturbed[s] # TRUE
    BY DEF Applying, Busy, Working, AliasInv, AliasTypeOK
  <2>2. Retired(s) = Dead(aliases[s])
    BY DEF Retired, Dead
  <2> QED BY <2>1, <2>2 DEF AliasInv, SiteClean
<1> QED BY <1>1, AliasInvAlways, PTL

(***************************************************************************)
(* However workers overlap and statements fail, a fact loses its last      *)
(* citation only to the DELETE of its own alias, after an UPDATE that      *)
(* failed, or after another worker's write between the two.                *)
(***************************************************************************)
THEOREM CitationsLostToOwnAlias == AliasSpec => LostOnlyToOwnAlias
<1> DEFINE Excused(w) ==
              worker[w].map[worker[w].key] = worker[w].key \/ cites[SiteOf[w]] # worker[w].left
           Step == \A s \in Sites : cites[s] # {} /\ cites'[s] = {} =>
                      \E w \in AliasWorkers : SiteOf[w] = s /\ worker[w].phase = "delete" /\ Excused(w)
<1>1. ASSUME AliasInv, NEW w \in AliasWorkers, NEW k \in Labels, UpdateLabel(w, k) PROVE Step
  <2> DEFINE m == worker[w].map
             c == Updated(cites[SiteOf[w]], m, k)
  <2>1. /\ m \in AliasMaps /\ k \in Keys(m) /\ cites[SiteOf[w]] \in SUBSET Labels
        /\ cites \in [Sites -> SUBSET Labels] /\ SiteOf[w] \in Sites
    BY <1>1, AliasAssumption
       DEF UpdateLabel, AliasInv, AliasTypeOK, AliasWorkerStates, AliasesSettled, ApplicationOK
  <2> HIDE DEF m
  <2>2. cites[SiteOf[w]] # {} => c # {}
    BY DEF Updated
  <2>3. PICK done \in Succeeds :
           cites' = [cites EXCEPT ![SiteOf[w]] = IF done THEN c ELSE @]
    BY <1>1 DEF UpdateLabel, m
  <2> HIDE DEF c
  <2> QED BY <2>1, <2>2, <2>3
<1>2. ASSUME AliasInv, NEW w \in AliasWorkers, DeleteLabel(w) PROVE Step
  <2>1. /\ worker[w].phase = "delete" /\ SiteOf[w] \in Sites /\ cites \in [Sites -> SUBSET Labels]
        /\ worker[w].left # {} /\ worker[w].left \subseteq {worker[w].key}
              => worker[w].map[worker[w].key] = worker[w].key
    BY <1>2, AliasAssumption DEF DeleteLabel, AliasInv, AliasTypeOK, AliasesSettled, ApplicationOK
  <2>2. PICK done \in Succeeds :
           cites' = [cites EXCEPT ![SiteOf[w]] = IF done THEN @ \ {worker[w].key} ELSE @]
    BY <1>2 DEF DeleteLabel
  <2>3. \A t \in Sites \ {SiteOf[w]} : cites'[t] = cites[t]
    BY <2>1, <2>2
  <2>4. cites[SiteOf[w]] # {} /\ cites'[SiteOf[w]] = {} => cites[SiteOf[w]] \subseteq {worker[w].key}
    BY <2>1, <2>2
  <2>5. cites[SiteOf[w]] # {} /\ cites'[SiteOf[w]] = {} => Excused(w)
    BY <2>1, <2>4
  <2> QED BY <2>1, <2>3, <2>5
<1>3. ASSUME AliasInv, NEW w \in AliasWorkers, NEW n \in Labels, InsertSource(w, n) PROVE Step
  BY <1>3 DEF InsertSource, AliasInv, AliasTypeOK
<1>4. AliasInv /\ [AliasNext]_aliasVars => [Step]_aliasVars
  <2> SUFFICES ASSUME AliasInv, AliasNext PROVE Step
    OBVIOUS
  <2>1. CASE UNCHANGED cites
    BY <2>1
  <2>2. CASE ~UNCHANGED cites
    <3>1. PICK w \in AliasWorkers :
             \/ \E k \in Labels : UpdateLabel(w, k) \/ InsertSource(w, k)
             \/ DeleteLabel(w)
      BY <2>2 DEF AliasNext, RenameProject, MergeProject, BeginRelabel, BeginGroupConfig, ReadAliases,
         StoreAliases, RetireSource, Curate, SyncMemories, BeginAdding, NormalizeNames, Abandon
    <3> HIDE DEF Step
    <3> QED BY <1>1, <1>2, <1>3, <3>1
  <2> QED BY <2>1, <2>2
<1>5. AliasInv /\ [AliasNext]_aliasVars =>
         [\A s \in Sites : cites[s] # {} /\ cites'[s] = {} =>
             \E w \in AliasWorkers :
                /\ SiteOf[w] = s /\ worker[w].phase = "delete"
                /\ worker[w].map[worker[w].key] = worker[w].key \/ cites[s] # worker[w].left]_aliasVars
  <2>1. Step => \A s \in Sites : cites[s] # {} /\ cites'[s] = {} =>
                   \E w \in AliasWorkers :
                      /\ SiteOf[w] = s /\ worker[w].phase = "delete"
                      /\ worker[w].map[worker[w].key] = worker[w].key \/ cites[s] # worker[w].left
    OBVIOUS
  <2> HIDE DEF Step
  <2> QED BY <1>4, <2>1
<1> QED BY <1>5, AliasInvAlways, PTL DEF AliasSpec, LostOnlyToOwnAlias
===============================================================================
