-------------------------- MODULE TaskRequests_proofs --------------------------
(***************************************************************************)
(* Theorems about retried requests: a task command has one effect however  *)
(* many copies of it are under way, a committed command is answered with   *)
(* its result, and a client that goes on from its cursor misses no message *)
(* of its team.                                                            *)
(***************************************************************************)
EXTENDS TaskRequests, TeamMessages, NumberSets, TLAPS

-----------------------------------------------------------------------------
(* Task commands: types. *)

Names == {Name(c) : c \in Commands}
Results == Nat \cup Tasks
Receipts == [input : {Input(c) : c \in Commands}, result : Results]
Phases == {"enabled", "authorized", "probed", "checked", "answered"}
AnswerWords == {"none", "ok", "forbidden", "unreadable", "owned", "key reused", "conflict", "archived"}
ServedRequests ==
    [phase : Phases, command : Commands, replay : BOOLEAN, retried : BOOLEAN,
     answer : AnswerWords, result : Results]

RequestTypeOK ==
    /\ StoreTypeOK
    /\ comments \in [Tasks -> SUBSET [id : Nat, by : Names]]
    /\ receipts \in [Names -> {NoReceipt} \cup Receipts]
    /\ request \in [Handlers -> {NoRequest} \cup ServedRequests]

-----------------------------------------------------------------------------
(* What one command leaves. *)

Made == {t \in Tasks : Exists(t)}
Told == {n \in DOMAIN receipts : n[2] = "create" /\ receipts[n] # NoReceipt}

\* A task is made, and a comment appended, in the transaction that stores the receipt.
Effects ==
    /\ \A t \in Tasks :
          /\ \A m1, m2 \in comments[t] : m1.by = m2.by => m1 = m2
          /\ \A m \in comments[t] : receipts[m.by] # NoReceipt
    /\ IsFiniteSet(Made) /\ IsFiniteSet(Told) /\ Cardinality(Made) = Cardinality(Told)
    /\ \A t \in Tasks : managed[t] # NoTeam => Exists(t)

\* What a handler that serves a retry has found out, and what it answers.
Served(h) ==
    request[h] # NoRequest /\ request[h].retried =>
       LET c == request[h].command IN
       /\ Replays(c)
       /\ request[h].phase \in {"probed", "checked"} /\ c.op \in ProbedOps => request[h].replay
       /\ request[h].phase = "answered" =>
             \/ request[h].answer \in {"forbidden", "owned"}
             \/ request[h].answer = "unreadable" /\ c.op \in {"comment", "triage"}
             \/ request[h].answer = "ok" /\ request[h].result = receipts[Name(c)].result

RequestInv == RequestTypeOK /\ Effects /\ \A h \in Handlers : Served(h)

-----------------------------------------------------------------------------
(* Initially. *)

\* The invariant holds at the start.
LEMMA RequestInvInit == RequestsInit => RequestInv
<1> SUFFICES ASSUME RequestsInit PROVE RequestInv
  OBVIOUS
<1>1. RequestTypeOK
  BY StoreAssumption
     DEF RequestsInit, StoreInit, RequestTypeOK, StoreTypeOK, StoreAssumption, TaskStates, Names
<1>2. Made = {} /\ Told = {}
  BY DEF RequestsInit, StoreInit, Made, Told, Exists
<1>3. Effects
  BY <1>2, FS_EmptySet DEF RequestsInit, StoreInit, Effects
<1> QED BY <1>1, <1>3 DEF RequestInv, RequestsInit, Served

-----------------------------------------------------------------------------
(* The steps of a handler. *)

\* A request goes on to another phase.
LEMMA GoesOn ==
    ASSUME request \in [Handlers -> {NoRequest} \cup ServedRequests], NEW h \in Handlers,
           request[h] # NoRequest, NEW phase \in Phases, Goes(h, phase)
    PROVE  /\ request' \in [Handlers -> {NoRequest} \cup ServedRequests]
           /\ request'[h] \in ServedRequests /\ request'[h].phase = phase
           /\ request'[h].command = request[h].command /\ request'[h].replay = request[h].replay
           /\ request'[h].retried = request[h].retried
           /\ \A x \in Handlers \ {h} : request'[x] = request[x]
  BY DEF Goes, ServedRequests

\* A request is answered.
LEMMA IsAnswered ==
    ASSUME request \in [Handlers -> {NoRequest} \cup ServedRequests], NEW h \in Handlers,
           request[h] # NoRequest, NEW answer \in AnswerWords, NEW result \in Results,
           Answers(h, answer, result)
    PROVE  /\ request' \in [Handlers -> {NoRequest} \cup ServedRequests]
           /\ request'[h] \in ServedRequests /\ request'[h].phase = "answered"
           /\ request'[h].answer = answer /\ request'[h].result = result
           /\ request'[h].command = request[h].command /\ request'[h].replay = request[h].replay
           /\ request'[h].retried = request[h].retried
           /\ \A x \in Handlers \ {h} : request'[x] = request[x]
<1> DEFINE answered == [[[request[h] EXCEPT !.phase = "answered"] EXCEPT !.answer = answer]
                           EXCEPT !.result = result]
<1>1. request' = [request EXCEPT ![h] = answered]
  BY Zenon DEF Answers
<1>2. /\ answered \in ServedRequests /\ answered.phase = "answered"
      /\ answered.answer = answer /\ answered.result = result
      /\ answered.command = request[h].command /\ answered.replay = request[h].replay
      /\ answered.retried = request[h].retried
  BY DEF ServedRequests, Phases
<1> HIDE DEF answered
<1> QED BY <1>1, <1>2

\* Receipts stay, so what a handler has found out stays true.
LEMMA ServedRests ==
    ASSUME RequestInv, NEW x \in Handlers, request'[x] = request[x],
           \A n \in Names : receipts[n] # NoReceipt => receipts'[n] = receipts[n]
    PROVE  Served(x)'
<1>1. request[x] # NoRequest => request[x].command \in Commands
  BY DEF RequestInv, RequestTypeOK, ServedRequests
<1>2. \A c \in Commands : Replays(c) => Replays(c)' /\ receipts'[Name(c)] = receipts[Name(c)]
  BY DEF Replays, Names
<1> QED BY <1>1, <1>2 DEF RequestInv, Served

\* The steps of a handler that leave the store alone.
LEMMA ReadingStep ==
    ASSUME RequestInv, NEW h \in Handlers,
           \/ Authorize(h) \/ Probe(h) \/ CheckText(h)
           \/ RefusedByCheck(h) \/ ReplayReceipt(h) \/ RefusedByEffect(h) \/ Done(h)
           \/ \E c \in Commands : Arrive(h, c)
    PROVE  RequestInv'
<1>0. /\ RequestTypeOK /\ request \in [Handlers -> {NoRequest} \cup ServedRequests] /\ Served(h)
      /\ UNCHANGED <<storeVars, text, comments, grants, receipts>>
  BY DEF RequestInv, RequestTypeOK, Authorize, Probe, CheckText, RefusedByCheck, ReplayReceipt,
     RefusedByEffect, Done, Arrive
<1> USE <1>0
<1> USE DEF Results, Phases, AnswerWords
<1> DEFINE Fine == /\ request' \in [Handlers -> {NoRequest} \cup ServedRequests] /\ Served(h)'
                   /\ \A x \in Handlers \ {h} : request'[x] = request[x]
<1>1. ASSUME Authorize(h) PROVE Fine
  <2>1. At(h, "enabled") /\ (Goes(h, "authorized") \/ Answers(h, "forbidden", 0))
    BY <1>1 DEF Authorize
  <2>2. CASE Goes(h, "authorized")
    BY <2>1, <2>2, GoesOn DEF At, Served, Replays
  <2>3. CASE Answers(h, "forbidden", 0)
    BY <2>1, <2>3, IsAnswered DEF At, Served, Replays
  <2> QED BY <2>1, <2>2, <2>3
<1>2. ASSUME Probe(h) PROVE Fine
  <2>1. request[h] \in ServedRequests /\ request[h].command \in Commands
    BY <1>2 DEF Probe, At, ServedRequests
  <2>2. /\ request'[h] \in ServedRequests
        /\ request'[h].phase = "probed" /\ request'[h].command = request[h].command
        /\ request'[h].replay = (request[h].command.op \in ProbedOps /\ Replays(request[h].command))
        /\ request'[h].retried = request[h].retried
    <3> DEFINE sees == request[h].command.op \in ProbedOps /\ Replays(request[h].command)
               probed == [[request[h] EXCEPT !.phase = "probed"] EXCEPT !.replay = sees]
    <3>1. request' = [request EXCEPT ![h] = probed]
      BY <1>2, Zenon DEF Probe
    <3>2. sees \in BOOLEAN
      OBVIOUS
    <3> HIDE DEF sees
    <3>3. /\ probed \in ServedRequests /\ probed.phase = "probed" /\ probed.replay = sees
          /\ probed.command = request[h].command /\ probed.retried = request[h].retried
      BY <2>1, <3>2 DEF ServedRequests
    <3> HIDE DEF probed
    <3> QED BY <3>1, <3>3 DEF sees
  <2>3. \A x \in Handlers \ {h} : request'[x] = request[x]
    BY <1>2 DEF Probe
  <2> QED BY <1>2, <2>2, <2>3 DEF Probe, At, Served, Replays
<1>3. ASSUME CheckText(h) PROVE Fine
  <2>1. At(h, "probed") /\ RequestAssumption
    BY <1>3, RequestAssumption DEF CheckText
  <2>2. CASE Goes(h, "checked")
    BY <2>1, <2>2, GoesOn DEF At, Served, Replays
  <2>3. CASE Answers(h, "unreadable", 0) /\ ~request[h].replay
    <3>1. request[h].command.op \in ProbedOps \cup {"comment", "triage"}
      BY <2>1 DEF At, ServedRequests, RequestAssumption, ProbedOps
    <3> QED BY <2>1, <2>3, <3>1, IsAnswered DEF At, Served, Replays
  <2> QED BY <1>3, <2>2, <2>3 DEF CheckText
<1>4. ASSUME RefusedByCheck(h) PROVE Fine
  BY <1>4, IsAnswered DEF RefusedByCheck, At, Served, Replays
<1>5. ASSUME ReplayReceipt(h) PROVE Fine
  <2>1. At(h, "checked") /\ StoredReceipt(h) # NoReceipt /\ request[h].command \in Commands
    BY <1>5 DEF ReplayReceipt, At, ServedRequests
  <2>2. CASE StoredReceipt(h).input = Input(request[h].command)
    <3>1. StoredReceipt(h).result \in Results
      BY <2>1 DEF StoredReceipt, RequestTypeOK, Receipts, Names
    <3>2. request[h] # NoRequest /\ Answers(h, "ok", StoredReceipt(h).result)
      BY <1>5, <2>1, <2>2 DEF ReplayReceipt, At
    <3>3. /\ request' \in [Handlers -> {NoRequest} \cup ServedRequests]
          /\ \A x \in Handlers \ {h} : request'[x] = request[x]
          /\ request'[h].answer = "ok" /\ request'[h].result = StoredReceipt(h).result
          /\ request'[h].command = request[h].command /\ request'[h].phase = "answered"
          /\ request'[h].retried = request[h].retried
      BY <3>1, <3>2, IsAnswered
    <3> QED BY <2>1, <3>2, <3>3 DEF Served, Replays, StoredReceipt
  <2>3. CASE StoredReceipt(h).input # Input(request[h].command)
    BY <1>5, <2>1, <2>3, IsAnswered DEF ReplayReceipt, At, Served, Replays, StoredReceipt
  <2> QED BY <2>2, <2>3
<1>6. ASSUME RefusedByEffect(h) PROVE Fine
  <2>1. At(h, "checked") /\ StoredReceipt(h) = NoReceipt
        /\ (Answers(h, "conflict", 0) \/ Answers(h, "archived", 0))
    BY <1>6 DEF RefusedByEffect
  <2> QED BY <2>1, IsAnswered DEF At, Served, Replays, StoredReceipt
<1>7. ASSUME Done(h) PROVE Fine
  BY <1>7 DEF Done, Served
<1>8. ASSUME NEW c \in Commands, Arrive(h, c) PROVE Fine
  <2> DEFINE seen == Replays(c)
             arrived == [phase |-> "enabled", command |-> c, replay |-> FALSE, retried |-> seen,
                         answer |-> "none", result |-> 0]
  <2>1. request' = [request EXCEPT ![h] = arrived] /\ seen \in BOOLEAN
    BY <1>8 DEF Arrive, Replays
  <2> HIDE DEF seen
  <2>3. arrived \in ServedRequests /\ arrived.phase = "enabled" /\ arrived.command = c /\ arrived.retried = seen
    BY <2>1 DEF ServedRequests
  <2> HIDE DEF arrived
  <2>2. /\ request'[h] \in ServedRequests /\ request'[h].phase = "enabled"
        /\ request'[h].command = c /\ request'[h].retried = Replays(c)
        /\ \A x \in Handlers \ {h} : request'[x] = request[x]
    BY <2>1, <2>3 DEF seen
  <2> QED BY <1>8, <2>2 DEF Arrive, Served, Replays
<1>9. Fine
  BY <1>1, <1>2, <1>3, <1>4, <1>5, <1>6, <1>7, <1>8
<1>10. RequestTypeOK' /\ Effects'
  BY <1>9 DEF RequestInv, RequestTypeOK, StoreTypeOK, storeVars, Effects, Made, Told, Exists
<1>11. \A x \in Handlers : Served(x)'
  BY <1>9, ServedRests
<1> QED BY <1>10, <1>11 DEF RequestInv

\* A write makes the task exist at the next revision; the others stay.
LEMMA WriteTyped ==
    ASSUME StoreTypeOK, NEW t \in Tasks, NEW c \in ContentType, WriteTask(t, c)
    PROVE  /\ tasks' \in [Tasks -> [state : TaskStates, archived : BOOLEAN,
                                    deps : SUBSET Tasks, revision : 0..MaxRevision]]
           /\ Exists(t)' /\ \A x \in Tasks \ {t} : Exists(x)' <=> Exists(x)
<1>1. tasks[t].revision \in Nat /\ tasks[t].revision + 1 \in 0..MaxRevision
  BY StoreAssumption DEF StoreTypeOK, StoreAssumption, WriteTask
<1>2. [state |-> c.state, archived |-> c.archived, deps |-> c.deps, revision |-> tasks[t].revision + 1]
         \in [state : TaskStates, archived : BOOLEAN, deps : SUBSET Tasks, revision : 0..MaxRevision]
  BY <1>1 DEF ContentType
<1>3. tasks' \in [Tasks -> [state : TaskStates, archived : BOOLEAN,
                            deps : SUBSET Tasks, revision : 0..MaxRevision]]
  BY <1>2 DEF WriteTask, StoreTypeOK
<1>4. tasks'[t].revision = tasks[t].revision + 1 /\ \A x \in Tasks \ {t} : tasks'[x] = tasks[x]
  BY DEF WriteTask, StoreTypeOK
<1> QED BY <1>1, <1>3, <1>4 DEF Exists

\* A task's own content is a content.
LEMMA ContentTyped ==
    ASSUME StoreTypeOK, NEW t \in Tasks
    PROVE  /\ Content(t) \in ContentType
           /\ \A s \in TaskStates : [Content(t) EXCEPT !.state = s] \in ContentType
<1>1. Content(t) \in ContentType
  BY DEF StoreTypeOK, Content, ContentType
<1> HIDE DEF Content
<1> QED BY <1>1 DEF ContentType

\* The receipt is stored: it was not there, and the other receipts stay.
LEMMA ReceiptStored ==
    ASSUME RequestInv, NEW h \in Handlers, At(h, "checked"), StoredReceipt(h) = NoReceipt,
           NEW result \in Results, Committed(h, result)
    PROVE  /\ request[h].command \in Commands
           /\ request' \in [Handlers -> {NoRequest} \cup ServedRequests]
           /\ receipts' \in [Names -> {NoReceipt} \cup Receipts]
           /\ receipts[Name(request[h].command)] = NoReceipt
           /\ receipts'[Name(request[h].command)] # NoReceipt
           /\ \A n \in Names \ {Name(request[h].command)} : receipts'[n] = receipts[n]
           /\ \A x \in Handlers : Served(x)'
<1> DEFINE c == request[h].command
           receipt == [input |-> Input(c), result |-> result]
<1>0. /\ request \in [Handlers -> {NoRequest} \cup ServedRequests] /\ request[h] # NoRequest
      /\ receipts \in [Names -> {NoReceipt} \cup Receipts]
      /\ request[h] \in ServedRequests
  BY DEF RequestInv, RequestTypeOK, At
<1>1. c \in Commands /\ Name(c) \in Names /\ receipts[Name(c)] = NoReceipt
  BY <1>0 DEF ServedRequests, Names, StoredReceipt
<1>2. receipt \in Receipts /\ receipt # NoReceipt
  BY <1>1, RequestAssumption DEF Receipts, RequestAssumption, Results
<1>3. receipts' = [receipts EXCEPT ![Name(c)] = receipt] /\ Answers(h, "ok", result)
  BY DEF Committed
<1> HIDE DEF receipt
<1>4. /\ receipts' \in [Names -> {NoReceipt} \cup Receipts] /\ receipts'[Name(c)] = receipt
      /\ \A n \in Names \ {Name(c)} : receipts'[n] = receipts[n]
  BY <1>0, <1>1, <1>2, <1>3
<1>5. /\ request' \in [Handlers -> {NoRequest} \cup ServedRequests]
      /\ request'[h].retried = request[h].retried
      /\ \A x \in Handlers \ {h} : request'[x] = request[x]
  BY <1>0, <1>3, IsAnswered DEF AnswerWords
<1>6. ~ request[h].retried
  BY <1>0, <1>1 DEF RequestInv, Served, Replays
<1>7. \A x \in Handlers : Served(x)'
  <2>1. Served(h)'
    BY <1>5, <1>6 DEF Served
  <2>2. \A n \in Names : receipts[n] # NoReceipt => receipts'[n] = receipts[n]
    BY <1>1, <1>4
  <2>3. \A x \in Handlers \ {h} : Served(x)'
    BY <1>5, <2>2, ServedRests
  <2> QED BY <2>1, <2>3
<1> QED BY <1>1, <1>2, <1>4, <1>5, <1>7

\* A command that writes no new task, and the effects beside it.
LEMMA NothingMade ==
    ASSUME Effects, \A t \in Tasks : Exists(t)' <=> Exists(t), Told' = Told,
           \A t \in Tasks : managed'[t] # NoTeam => managed[t] # NoTeam \/ Exists(t),
           \A t \in Tasks :
              /\ \A m1, m2 \in comments'[t] : m1.by = m2.by => m1 = m2
              /\ \A m \in comments'[t] : receipts'[m.by] # NoReceipt
    PROVE  Effects'
<1>1. Made' = Made
  BY DEF Made
<1> QED BY <1>1 DEF Effects

\* A create makes one task and stores the receipt of one create.
LEMMA CreateStep ==
    ASSUME RequestInv, NEW h \in Handlers, CommitCreate(h)
    PROVE  RequestInv'
<1> DEFINE c == request[h].command
<1>0. /\ RequestTypeOK /\ Effects /\ At(h, "checked") /\ StoredReceipt(h) = NoReceipt /\ c.op = "create"
  BY DEF RequestInv, CommitCreate, Committing
<1>1. PICK t \in Tasks : CreateTask(t, NewTask) /\ Committed(h, t)
  BY DEF CommitCreate
<1>2. /\ c \in Commands /\ request' \in [Handlers -> {NoRequest} \cup ServedRequests]
      /\ receipts' \in [Names -> {NoReceipt} \cup Receipts] /\ receipts[Name(c)] = NoReceipt
      /\ receipts'[Name(c)] # NoReceipt
      /\ \A n \in Names \ {Name(c)} : receipts'[n] = receipts[n]
      /\ \A x \in Handlers : Served(x)'
  BY <1>0, <1>1, ReceiptStored DEF Results
<1>3. /\ tasks' \in [Tasks -> [state : TaskStates, archived : BOOLEAN,
                               deps : SUBSET Tasks, revision : 0..MaxRevision]]
      /\ Exists(t)' /\ (\A x \in Tasks \ {t} : Exists(x)' <=> Exists(x)) /\ ~Exists(t)
      /\ UNCHANGED <<managed, hold, enabled>>
  <2>1. NewTask \in ContentType
    BY DEF NewTask, ContentType, TaskStates
  <2> QED BY <1>0, <1>1, <2>1, WriteTyped DEF CreateTask, RequestTypeOK
<1>4. UNCHANGED comments
  BY DEF CommitCreate
<1>5. RequestTypeOK'
  BY <1>0, <1>2, <1>3, <1>4 DEF RequestTypeOK, StoreTypeOK
<1>6. Made' = Made \cup {t} /\ t \notin Made
  BY <1>3 DEF Made
<1>7. Told' = Told \cup {Name(c)} /\ Name(c) \notin Told
  <2>1. Name(c)[2] = "create" /\ Name(c) \in Names
    BY <1>0, <1>2 DEF Name, Names
  <2> QED BY <1>0, <1>2, <2>1 DEF Told, RequestTypeOK
<1>8. IsFiniteSet(Made') /\ IsFiniteSet(Told') /\ Cardinality(Made') = Cardinality(Told')
  <2>1. IsFiniteSet(Made) /\ IsFiniteSet(Told) /\ Cardinality(Made) = Cardinality(Told)
    BY <1>0 DEF Effects
  <2>2. IsFiniteSet(Made \cup {t}) /\ Cardinality(Made \cup {t}) = Cardinality(Made) + 1
    BY <1>6, <2>1, FS_AddElement
  <2>3. IsFiniteSet(Told \cup {Name(c)}) /\ Cardinality(Told \cup {Name(c)}) = Cardinality(Told) + 1
    BY <1>7, <2>1, FS_AddElement
  <2> QED BY <1>6, <1>7, <2>1, <2>2, <2>3
<1>9. Effects'
  <2>1. \A x \in Tasks : /\ \A m1, m2 \in comments'[x] : m1.by = m2.by => m1 = m2
                         /\ \A m \in comments'[x] : receipts'[m.by] # NoReceipt
    BY <1>0, <1>2, <1>4 DEF Effects, RequestTypeOK
  <2>2. \A x \in Tasks : managed'[x] # NoTeam => Exists(x)'
    BY <1>0, <1>3 DEF Effects
  <2> QED BY <1>8, <2>1, <2>2 DEF Effects
<1> QED BY <1>2, <1>5, <1>9 DEF RequestInv

\* An update and a triage write a task that exists, and store the receipt of no create.
LEMMA ChangeStep ==
    ASSUME RequestInv, NEW h \in Handlers, CommitUpdate(h) \/ CommitTriage(h)
    PROVE  RequestInv'
<1> DEFINE c == request[h].command
<1>0. /\ RequestTypeOK /\ Effects /\ At(h, "checked") /\ StoredReceipt(h) = NoReceipt
      /\ c.op \in {"update", "triage"}
  BY DEF RequestInv, CommitUpdate, CommitTriage, Committing
<1>1. c \in Commands /\ c.scope \in Tasks /\ c.content \in ContentType
  BY <1>0, RequestAssumption, StoreAssumption
     DEF RequestTypeOK, At, ServedRequests, RequestAssumption, StoreAssumption
<1>2. /\ tasks[c.scope].revision = c.revision /\ Committed(h, c.revision + 1)
      /\ Exists(c.scope) /\ UNCHANGED <<managed, hold, enabled, comments>>
  BY DEF CommitUpdate, CommitTriage, UpdateTask, TriageTask
<1>3. \E content \in ContentType : WriteTask(c.scope, content)
  <2>1. CASE CommitUpdate(h)
    BY <1>1, <2>1 DEF CommitUpdate, UpdateTask, SaveTask
  <2>2. CASE CommitTriage(h)
    <3>1. c.content.state \in TaskStates
      BY <1>1 DEF ContentType
    <3>2. WriteTask(c.scope, [Content(c.scope) EXCEPT !.state = c.content.state])
      BY <2>2 DEF CommitTriage, TriageTask, SetState, SaveTask
    <3> QED BY <1>0, <1>1, <3>1, <3>2, ContentTyped DEF RequestTypeOK
  <2> QED BY <2>1, <2>2
<1>4. /\ tasks' \in [Tasks -> [state : TaskStates, archived : BOOLEAN,
                               deps : SUBSET Tasks, revision : 0..MaxRevision]]
      /\ \A x \in Tasks : Exists(x)' <=> Exists(x)
  BY <1>0, <1>1, <1>2, <1>3, WriteTyped DEF RequestTypeOK
<1>5. c.revision + 1 \in Results
  BY <1>0, <1>1, <1>2, StoreAssumption DEF RequestTypeOK, StoreTypeOK, Results, StoreAssumption
<1>6. /\ request' \in [Handlers -> {NoRequest} \cup ServedRequests]
      /\ receipts' \in [Names -> {NoReceipt} \cup Receipts] /\ receipts[Name(c)] = NoReceipt
      /\ receipts'[Name(c)] # NoReceipt
      /\ \A n \in Names \ {Name(c)} : receipts'[n] = receipts[n]
      /\ \A x \in Handlers : Served(x)'
  BY <1>0, <1>2, <1>5, ReceiptStored
<1>7. RequestTypeOK'
  BY <1>0, <1>2, <1>4, <1>6 DEF RequestTypeOK, StoreTypeOK
<1>8. Told' = Told
  <2>1. Name(c)[2] # "create"
    BY <1>0 DEF Name
  <2> QED BY <1>0, <1>6, <2>1 DEF Told, RequestTypeOK
<1>9. \A x \in Tasks : /\ \A m1, m2 \in comments'[x] : m1.by = m2.by => m1 = m2
                       /\ \A m \in comments'[x] : receipts'[m.by] # NoReceipt
  BY <1>0, <1>2, <1>6 DEF Effects, RequestTypeOK
<1>10. Effects'
  BY <1>0, <1>2, <1>4, <1>8, <1>9, NothingMade
<1> QED BY <1>6, <1>7, <1>10 DEF RequestInv

\* A comment is the first of its key.
LEMMA CommentStep ==
    ASSUME RequestInv, NEW h \in Handlers, CommitComment(h)
    PROVE  RequestInv'
<1> DEFINE c == request[h].command
<1>0. /\ RequestTypeOK /\ Effects /\ At(h, "checked") /\ StoredReceipt(h) = NoReceipt
      /\ c.op = "comment" /\ UNCHANGED <<tasks, managed, hold, enabled>>
  BY DEF RequestInv, CommitComment, Committing, storeVars
<1>1. c \in Commands /\ c.scope \in Tasks /\ Name(c) \in Names
  BY <1>0, RequestAssumption DEF RequestTypeOK, At, ServedRequests, RequestAssumption, Names
<1>2. PICK id \in Nat : /\ comments' = [comments EXCEPT ![c.scope] = @ \cup {[id |-> id, by |-> Name(c)]}]
                        /\ Committed(h, id)
  <2>1. Cardinality(Handlers) \in Nat /\ Cardinality(Commands) \in Nat
    BY RequestAssumption, FS_CardinalityType DEF RequestAssumption
  <2>2. PICK id \in 1 .. Cardinality(Handlers) * Cardinality(Commands) :
           /\ comments' = [comments EXCEPT ![c.scope] = @ \cup {[id |-> id, by |-> Name(c)]}]
           /\ Committed(h, id)
    BY DEF CommitComment
  <2>3. Cardinality(Handlers) * Cardinality(Commands) \in Nat
    BY <2>1
  <2>4. id \in Nat
    BY <2>3
  <2> QED BY <2>2, <2>4
<1>3. /\ request' \in [Handlers -> {NoRequest} \cup ServedRequests]
      /\ receipts' \in [Names -> {NoReceipt} \cup Receipts] /\ receipts[Name(c)] = NoReceipt
      /\ receipts'[Name(c)] # NoReceipt
      /\ \A n \in Names \ {Name(c)} : receipts'[n] = receipts[n]
      /\ \A x \in Handlers : Served(x)'
  BY <1>0, <1>2, ReceiptStored DEF Results
<1>4. /\ comments' \in [Tasks -> SUBSET [id : Nat, by : Names]]
      /\ comments'[c.scope] = comments[c.scope] \cup {[id |-> id, by |-> Name(c)]}
      /\ \A x \in Tasks \ {c.scope} : comments'[x] = comments[x]
  BY <1>0, <1>1, <1>2 DEF RequestTypeOK
<1>5. RequestTypeOK'
  BY <1>0, <1>3, <1>4 DEF RequestTypeOK, StoreTypeOK
<1>6. Told' = Told
  <2>1. Name(c)[2] # "create"
    BY <1>0 DEF Name
  <2> QED BY <1>0, <1>3, <2>1 DEF Told, RequestTypeOK
<1>7. \A x \in Tasks : \A m \in comments[x] : m.by \in Names /\ m.by # Name(c)
  BY <1>0, <1>3 DEF RequestTypeOK, Effects
<1>8. \A x \in Tasks : /\ \A m1, m2 \in comments'[x] : m1.by = m2.by => m1 = m2
                       /\ \A m \in comments'[x] : receipts'[m.by] # NoReceipt
  BY <1>0, <1>1, <1>3, <1>4, <1>7 DEF Effects
<1>9. Effects'
  BY <1>0, <1>6, <1>8, NothingMade DEF Exists
<1> QED BY <1>3, <1>5, <1>9 DEF RequestInv

\* What goes on beside the clients makes no task.
LEMMA BesideStep ==
    ASSUME RequestInv,
           Others \/ \E t \in Tasks : TeamReturns(t) \/ \E team \in Teams : TeamTakes(t, team)
    PROVE  RequestInv'
<1>0. RequestTypeOK /\ Effects
  BY DEF RequestInv
<1>1. UNCHANGED <<comments, receipts, request>>
  BY DEF Others, TeamReturns, TeamTakes, requestVars
<1>2. Told' = Told /\ \A x \in Handlers : Served(x)'
  BY <1>1, ServedRests DEF Told
<1>3. \A x \in Tasks : /\ \A m1, m2 \in comments'[x] : m1.by = m2.by => m1 = m2
                       /\ \A m \in comments'[x] : receipts'[m.by] # NoReceipt
  BY <1>0, <1>1 DEF Effects
<1>4. CASE Others
  <2>1. UNCHANGED <<tasks, managed>> /\ (enabled' \in Switches \/ UNCHANGED enabled)
    BY <1>4 DEF Others, SetTasksEnabled, storeVars
  <2>2. RequestTypeOK'
    BY <1>0, <1>1, <2>1, StoreAssumption DEF RequestTypeOK, StoreTypeOK, StoreAssumption
  <2>3. Effects'
    BY <1>0, <1>2, <1>3, <2>1, NothingMade DEF Exists
  <2> QED BY <1>2, <2>2, <2>3 DEF RequestInv
<1>5. ASSUME NEW t \in Tasks, TeamReturns(t) PROVE RequestInv'
  <2>1. Exists(t) /\ WriteTask(t, Content(t)) /\ managed' = [managed EXCEPT ![t] = NoTeam]
        /\ UNCHANGED <<hold, enabled>>
    BY <1>0, <1>5 DEF Effects, TeamReturns
  <2>2. /\ tasks' \in [Tasks -> [state : TaskStates, archived : BOOLEAN,
                                 deps : SUBSET Tasks, revision : 0..MaxRevision]]
        /\ \A x \in Tasks : Exists(x)' <=> Exists(x)
    BY <1>0, <2>1, WriteTyped, ContentTyped DEF RequestTypeOK
  <2>3. RequestTypeOK'
    BY <1>0, <1>1, <2>1, <2>2 DEF RequestTypeOK, StoreTypeOK
  <2>4. \A x \in Tasks : managed'[x] # NoTeam => managed[x] # NoTeam
    BY <1>0, <2>1 DEF RequestTypeOK, StoreTypeOK
  <2>5. Effects'
    BY <1>0, <1>2, <1>3, <2>2, <2>4, NothingMade
  <2> QED BY <1>2, <2>3, <2>5 DEF RequestInv
<1>6. ASSUME NEW t \in Tasks, NEW team \in Teams, TeamTakes(t, team) PROVE RequestInv'
  <2>1. Exists(t) /\ managed' = [managed EXCEPT ![t] = team] /\ UNCHANGED <<tasks, hold, enabled>>
    BY <1>6 DEF TeamTakes
  <2>2. RequestTypeOK'
    BY <1>0, <1>1, <2>1 DEF RequestTypeOK, StoreTypeOK
  <2>3. \A x \in Tasks : managed'[x] # NoTeam => managed[x] # NoTeam \/ Exists(x)
    BY <1>0, <2>1 DEF RequestTypeOK, StoreTypeOK
  <2>4. Effects'
    BY <1>0, <1>2, <1>3, <2>1, <2>3, NothingMade DEF Exists
  <2> QED BY <1>2, <2>2, <2>4 DEF RequestInv
<1> QED BY <1>4, <1>5, <1>6

\* Every step keeps the invariant.
LEMMA RequestInvStep == RequestInv /\ [RequestsNext]_taskRequestVars => RequestInv'
<1> SUFFICES ASSUME RequestInv, [RequestsNext]_taskRequestVars PROVE RequestInv'
  OBVIOUS
<1>1. CASE UNCHANGED taskRequestVars
  <2>1. UNCHANGED <<tasks, managed, hold, enabled, text, comments, grants, receipts, request>>
    BY <1>1 DEF taskRequestVars, storeVars, requestVars
  <2>2. \A x \in Handlers : Served(x)'
    BY <2>1, ServedRests
  <2> QED BY <2>1, <2>2 DEF RequestInv, RequestTypeOK, StoreTypeOK, Effects, Made, Told, Exists
<1> QED BY <1>1, ReadingStep, CreateStep, ChangeStep, CommentStep, BesideStep DEF RequestsNext, Serve

-----------------------------------------------------------------------------
(* The theorems about task commands. *)

\* However many copies of a command are under way, it has one effect: the tasks
\* that were made are as many as the creates that have a receipt, and no key
\* appended two comments (checkedTaskMutation).
THEOREM OneEffectPerKeyHolds == RequestsSpec => []OneEffectPerKey
<1>1. RequestInv => OneEffectPerKey
  BY DEF RequestInv, Effects, Made, Told, OneEffectPerKey
<1> QED BY RequestInvInit, RequestInvStep, <1>1, PTL DEF RequestsSpec

\* A command that was committed before its retry arrived is answered with the
\* original result, unless a right was lost, or a comment's or a triage's text
\* is judged anew (CreateReplays, UpdateReplays, replayTaskResult).
THEOREM CommittedRetryReturnsHolds == RequestsSpec => []CommittedRetryReturns
<1>1. RequestInv => CommittedRetryReturns
  BY DEF RequestInv, Served, CommittedRetryReturns, At
<1> QED BY RequestInvInit, RequestInvStep, <1>1, PTL DEF RequestsSpec

-----------------------------------------------------------------------------
(* Team messages: a client's cursor, and the page under way to it. *)

Posted == [from : Members \cup {"hub"}, to : SUBSET Members]
Delivery == [attempts : Nat, acked : BOOLEAN]
Readers == [generation : Nat, cursor : Nat, seen : SUBSET Nat,
            page : {<<>>} \cup ((SUBSET Nat) \X Nat)]

\* Every delivery up to `cursor` is in `pages` or acknowledged.
CoveredUpTo(s, cursor, pages) ==
    /\ cursor <= Len(messages)
    /\ \A m \in DOMAIN inbox[s] : m <= cursor => m \in pages \/ inbox[s][m].acked

Kept(s) ==
    /\ reader[s] \in Readers
    /\ DOMAIN inbox[s] \subseteq 1 .. Len(messages)
    /\ \A m \in DOMAIN inbox[s] : inbox[s][m] \in Delivery
    /\ CoveredUpTo(s, reader[s].cursor, reader[s].seen)
    /\ reader[s].page # <<>> =>
          CoveredUpTo(s, reader[s].page[2], reader[s].page[1] \cup reader[s].seen)

MessagesInv ==
    /\ messages \in Seq(Posted)
    /\ DOMAIN inbox = Members /\ DOMAIN reader = Members
    /\ \A s \in Members : Kept(s)

\* The invariant holds at the start.
LEMMA MessagesInvInit == MessagesInit => MessagesInv
<1> SUFFICES ASSUME MessagesInit PROVE MessagesInv
  OBVIOUS
<1>1. messages \in Seq(Posted) /\ Len(messages) = 0
  BY DEF MessagesInit
<1>2. ASSUME NEW s \in Members PROVE Kept(s)
  <2>1. reader[s] \in Readers /\ reader[s].cursor = 0 /\ reader[s].page = <<>>
    BY DEF MessagesInit, Readers
  <2>2. DOMAIN inbox[s] = {}
    BY DEF MessagesInit
  <2> QED BY <1>1, <2>1, <2>2 DEF Kept, CoveredUpTo
<1> QED BY <1>1, <1>2 DEF MessagesInv, MessagesInit

\* A new message is beyond every cursor.
LEMMA DeliverStep ==
    ASSUME MessagesInv, NEW author \in Members \cup {"hub"}, NEW to \in SUBSET Members,
           Deliver(author, to), UNCHANGED reader
    PROVE  MessagesInv'
<1> DEFINE n == Len(messages) + 1
           post == [from |-> author, to |-> to]
<1>1. post \in Posted /\ messages \in Seq(Posted) /\ messages' = Append(messages, post)
  BY DEF Posted, MessagesInv, Deliver
<1> HIDE DEF post
<1>2. /\ messages' \in Seq(Posted) /\ Len(messages) \in Nat /\ Len(messages') = n
  BY <1>1
<1>3. ASSUME NEW s \in Members PROVE Kept(s)'
  <2>1. Kept(s) /\ reader'[s] = reader[s]
    BY DEF MessagesInv
  <2>2. reader[s].cursor \in Nat /\ (reader[s].page # <<>> => reader[s].page[2] \in Nat)
    BY <2>1 DEF Kept, Readers
  <2>3. /\ DOMAIN inbox'[s] \subseteq DOMAIN inbox[s] \cup {n}
        /\ \A m \in DOMAIN inbox[s] : m \in DOMAIN inbox'[s] /\ inbox'[s][m] = inbox[s][m]
        /\ n \in DOMAIN inbox'[s] => inbox'[s][n] \in Delivery
    <3>1. n \notin DOMAIN inbox[s]
      BY <1>2, <2>1 DEF Kept
    <3>2. CASE s \in to
      BY <3>1, <3>2 DEF Deliver, Delivery
    <3>3. CASE s \notin to
      BY <3>1, <3>3 DEF Deliver
    <3> QED BY <3>2, <3>3
  <2>4. \A m \in DOMAIN inbox'[s] : m \in DOMAIN inbox[s] \/ m = n
    BY <2>3
  <2>5. DOMAIN inbox'[s] \subseteq 1 .. Len(messages') /\ \A m \in DOMAIN inbox'[s] : inbox'[s][m] \in Delivery
    BY <1>2, <2>1, <2>3, <2>4 DEF Kept
  <2>6. ASSUME NEW cursor \in Nat, NEW pages, CoveredUpTo(s, cursor, pages)
        PROVE  /\ cursor <= Len(messages')
               /\ \A m \in DOMAIN inbox'[s] : m <= cursor => m \in pages \/ inbox'[s][m].acked
    BY <1>2, <2>3, <2>4, <2>6 DEF CoveredUpTo
  <2> QED BY <2>1, <2>2, <2>5, <2>6 DEF Kept, CoveredUpTo
<1> QED BY <1>2, <1>3 DEF MessagesInv, Deliver

\* A page leaves no open delivery out, up to the cursor that goes with it.
LEMMA PageCovers ==
    ASSUME MessagesInv, NEW s \in Members, NEW after \in {0, reader[s].cursor}, Page(s, after) # {}
    PROVE  /\ Page(s, after) \in SUBSET Nat /\ NextCursor(s, after) \in Nat
           /\ CoveredUpTo(s, NextCursor(s, after), Page(s, after) \cup reader[s].seen)
<1> DEFINE page == Page(s, after)
           last == NextCursor(s, after)
           Before(m) == {o \in Open(s) : after < o /\ o < m}
<1>1. /\ Len(messages) \in Nat /\ after \in Nat /\ after <= Len(messages)
      /\ DOMAIN inbox[s] \subseteq 1 .. Len(messages) /\ CoveredUpTo(s, reader[s].cursor, reader[s].seen)
  <2>1. Len(messages) \in Nat
    BY DEF MessagesInv
  <2> QED BY <2>1 DEF MessagesInv, Kept, Readers, CoveredUpTo
<1>2. Open(s) \subseteq 1 .. Len(messages) /\ page \subseteq Open(s)
  BY <1>1 DEF Open, Page
<1>3. last \in page \cup {after} /\ \A o \in page : o <= last
  <2>1. \E m \in page : \A o \in page : o <= m
    <3>1. page \in SUBSET Nat /\ \A o \in page : o <= Len(messages)
      BY <1>1, <1>2
    <3> HIDE DEF page
    <3> QED BY <1>1, <3>1, Greatest DEF page
  <2>2. last = CHOOSE m \in page \cup {after} : \A o \in page : o <= m
    BY DEF NextCursor, Last
  <2> HIDE DEF page, last
  <2> QED BY <2>1, <2>2
<1>4. page \in SUBSET Nat /\ last \in Nat /\ last <= Len(messages)
  <2> HIDE DEF last
  <2> QED BY <1>1, <1>2, <1>3
<1>5. ASSUME NEW m \in DOMAIN inbox[s], m <= last, ~inbox[s][m].acked, m > after PROVE m \in page
  <2>1. m \in Open(s) /\ m \in Nat
    BY <1>1, <1>5 DEF Open
  <2>2. last \in page
    <3> HIDE DEF page, last
    <3> QED BY <1>1, <1>3, <1>4, <1>5, <2>1
  <2>3. Cardinality(Before(last)) < PageLimit
    BY <2>2 DEF Page
  <2>4. Before(m) \subseteq Before(last)
    <3> HIDE DEF last
    <3> QED BY <1>1, <1>2, <1>4, <1>5, <2>1
  <2>5. IsFiniteSet(Before(last))
    BY <1>1, <1>2, FS_Interval, FS_Subset
  <2>6. Cardinality(Before(m)) <= Cardinality(Before(last))
        /\ Cardinality(Before(m)) \in Nat /\ Cardinality(Before(last)) \in Nat
    <3> HIDE DEF Before
    <3> QED BY <2>4, <2>5, FS_Subset, FS_CardinalityType
  <2>7. Cardinality(Before(m)) < PageLimit
    <3> HIDE DEF Before
    <3> QED BY <2>3, <2>6, MessageAssumption DEF MessageAssumption
  <2> QED BY <1>5, <2>1, <2>7 DEF Page
<1>6. ASSUME NEW m \in DOMAIN inbox[s], m <= last
      PROVE  m \in page \cup reader[s].seen \/ inbox[s][m].acked
  <2>1. m \in Nat /\ m > 0
    BY <1>1
  <2>2. CASE m > after
    BY <1>5, <1>6, <2>2
  <2>3. CASE m <= after
    BY <1>1, <2>1, <2>3 DEF CoveredUpTo
  <2> QED BY <1>1, <2>1, <2>2, <2>3
<1> HIDE DEF page, last
<1>7. CoveredUpTo(s, last, page \cup reader[s].seen)
  BY <1>4, <1>6 DEF CoveredUpTo
<1> QED BY <1>4, <1>7 DEF page, last

\* A session of which neither the deliveries nor the client move keeps what it has.
LEMMA KeptRests ==
    ASSUME NEW s \in Members, Kept(s), UNCHANGED messages,
           inbox'[s] = inbox[s], reader'[s] = reader[s]
    PROVE  Kept(s)'
  BY DEF Kept, CoveredUpTo

\* What a read and an acknowledgement do to a session's deliveries.
LEMMA MarkedStep ==
    ASSUME MessagesInv, NEW s \in Members, NEW marked \in [DOMAIN inbox[s] -> Delivery],
           UNCHANGED messages, inbox' = [inbox EXCEPT ![s] = marked],
           \A m \in DOMAIN inbox[s] : inbox[s][m].acked => marked[m].acked
    PROVE  /\ DOMAIN inbox' = Members /\ DOMAIN inbox'[s] = DOMAIN inbox[s]
           /\ \A m \in DOMAIN inbox[s] :
                 inbox'[s][m] \in Delivery /\ (inbox[s][m].acked => inbox'[s][m].acked)
           /\ \A x \in Members \ {s} : inbox'[x] = inbox[x]
           /\ \A cursor, pages : CoveredUpTo(s, cursor, pages) => CoveredUpTo(s, cursor, pages)'
  BY DEF MessagesInv, CoveredUpTo

\* A read.
LEMMA ReadStep ==
    ASSUME MessagesInv, NEW s \in Members, NEW after \in {0, reader[s].cursor}, ReadInbox(s, after)
    PROVE  MessagesInv'
<1> DEFINE Mark(m) == IF m \in Page(s, after) THEN [inbox[s][m] EXCEPT !.attempts = 1]
                                              ELSE inbox[s][m]
           marked == [m \in DOMAIN inbox[s] |-> Mark(m)]
           paged == [reader[s] EXCEPT !.page = <<Page(s, after), NextCursor(s, after)>>]
<1>1. \A m \in DOMAIN inbox[s] : inbox[s][m] \in Delivery
  BY DEF MessagesInv, Kept
<1>2. /\ marked \in [DOMAIN inbox[s] -> Delivery]
      /\ \A m \in DOMAIN inbox[s] : inbox[s][m].acked => marked[m].acked
  BY <1>1 DEF Delivery
<1>3. inbox' = [inbox EXCEPT ![s] = marked] /\ UNCHANGED messages
  BY DEF ReadInbox
<1>4. Page(s, after) # {}
  BY DEF ReadInbox
<1> HIDE DEF marked
<1>5. /\ DOMAIN inbox' = Members /\ DOMAIN inbox'[s] = DOMAIN inbox[s]
      /\ \A m \in DOMAIN inbox[s] :
            inbox'[s][m] \in Delivery /\ (inbox[s][m].acked => inbox'[s][m].acked)
      /\ \A x \in Members \ {s} : inbox'[x] = inbox[x]
      /\ \A cursor, pages : CoveredUpTo(s, cursor, pages) => CoveredUpTo(s, cursor, pages)'
  BY <1>2, <1>3, MarkedStep
<1>6. /\ Page(s, after) \in SUBSET Nat /\ NextCursor(s, after) \in Nat
      /\ CoveredUpTo(s, NextCursor(s, after), Page(s, after) \cup reader[s].seen)
  BY <1>4, PageCovers
<1>7. reader' = [reader EXCEPT ![s] = paged] /\ reader[s] \in Readers /\ DOMAIN reader = Members
  BY DEF ReadInbox, MessagesInv, Kept
<1>8. /\ paged \in Readers /\ paged.cursor = reader[s].cursor /\ paged.seen = reader[s].seen
      /\ paged.page[1] = Page(s, after) /\ paged.page[2] = NextCursor(s, after)
  BY <1>6, <1>7 DEF Readers
<1> HIDE DEF paged
<1>9. /\ reader'[s] = paged /\ DOMAIN reader' = Members
      /\ \A x \in Members \ {s} : reader'[x] = reader[x]
  BY <1>7
<1>10. Kept(s)'
  <2>1. Kept(s)
    BY DEF MessagesInv
  <2>2. CoveredUpTo(s, reader[s].cursor, reader[s].seen)'
    BY <1>5, <1>8, <1>9, <2>1 DEF Kept, CoveredUpTo
  <2>3. CoveredUpTo(s, reader[s].page[2], reader[s].page[1] \cup reader[s].seen)'
    BY <1>5, <1>6, <1>8, <1>9 DEF CoveredUpTo
  <2> QED BY <1>3, <1>5, <1>8, <1>9, <2>1, <2>2, <2>3 DEF Kept
<1>11. \A x \in Members \ {s} : Kept(x)'
  BY <1>3, <1>5, <1>9, KeptRests DEF MessagesInv
<1> QED BY <1>3, <1>5, <1>9, <1>10, <1>11 DEF MessagesInv

\* An acknowledgement.
LEMMA AckStep ==
    ASSUME MessagesInv, NEW s \in Members, NEW batch, Ack(s, batch)
    PROVE  MessagesInv'
<1> DEFINE Mark(m) == IF m \in batch THEN [inbox[s][m] EXCEPT !.acked = TRUE] ELSE inbox[s][m]
           marked == [m \in DOMAIN inbox[s] |-> Mark(m)]
<1>1. \A m \in DOMAIN inbox[s] : inbox[s][m] \in Delivery
  BY DEF MessagesInv, Kept
<1>2. /\ marked \in [DOMAIN inbox[s] -> Delivery]
      /\ \A m \in DOMAIN inbox[s] : inbox[s][m].acked => marked[m].acked
  BY <1>1 DEF Delivery
<1>3. /\ inbox' = [inbox EXCEPT ![s] = marked]
      /\ UNCHANGED <<messages, reader>>
  BY DEF Ack
<1> HIDE DEF marked
<1>4. /\ DOMAIN inbox' = Members /\ DOMAIN inbox'[s] = DOMAIN inbox[s]
      /\ \A m \in DOMAIN inbox[s] :
            inbox'[s][m] \in Delivery /\ (inbox[s][m].acked => inbox'[s][m].acked)
      /\ \A x \in Members \ {s} : inbox'[x] = inbox[x]
      /\ \A cursor, pages : CoveredUpTo(s, cursor, pages) => CoveredUpTo(s, cursor, pages)'
  BY <1>2, <1>3, MarkedStep
<1>5. Kept(s)'
  BY <1>3, <1>4 DEF MessagesInv, Kept, CoveredUpTo
<1>6. \A x \in Members \ {s} : Kept(x)'
  BY <1>3, <1>4, KeptRests DEF MessagesInv
<1> QED BY <1>3, <1>4, <1>5, <1>6 DEF MessagesInv

\* A page that arrives or is lost, and a client that starts anew.
LEMMA ClientStep ==
    ASSUME MessagesInv, NEW s \in Members, Receive(s) \/ LosePage(s) \/ ResumeMember(s),
           member[s].generation \in Nat
    PROVE  MessagesInv'
<1>1. UNCHANGED <<messages, inbox>> /\ Kept(s) /\ DOMAIN reader = Members /\ reader[s] \in Readers
  BY DEF MessagesInv, Kept, Receive, LosePage, ResumeMember
<1>2. /\ DOMAIN reader' = Members /\ \A x \in Members \ {s} : reader'[x] = reader[x]
      /\ Kept(s)'
  <2>1. CASE Receive(s)
    <3> DEFINE received == [[[reader[s] EXCEPT !.seen = reader[s].seen \cup reader[s].page[1]]
                                EXCEPT !.cursor = reader[s].page[2]] EXCEPT !.page = <<>>]
    <3>1. reader' = [reader EXCEPT ![s] = received] /\ reader[s].page # <<>>
      BY <2>1, Zenon DEF Receive
    <3>2. /\ received \in Readers /\ received.cursor = reader[s].page[2] /\ received.page = <<>>
          /\ received.seen = reader[s].page[1] \cup reader[s].seen
      BY <1>1, <3>1 DEF Readers
    <3> HIDE DEF received
    <3>3. /\ DOMAIN reader' = Members /\ reader'[s] = received
          /\ \A x \in Members \ {s} : reader'[x] = reader[x]
      BY <1>1, <3>1
    <3> QED BY <1>1, <3>1, <3>2, <3>3 DEF Kept, CoveredUpTo
  <2>2. CASE LosePage(s)
    <3> DEFINE lost == [reader[s] EXCEPT !.page = <<>>]
    <3>1. reader' = [reader EXCEPT ![s] = lost]
      BY <2>2 DEF LosePage
    <3>2. lost \in Readers /\ lost.cursor = reader[s].cursor /\ lost.page = <<>> /\ lost.seen = reader[s].seen
      BY <1>1 DEF Readers
    <3> HIDE DEF lost
    <3> QED BY <1>1, <3>1, <3>2 DEF Kept, CoveredUpTo
  <2>3. CASE ResumeMember(s)
    <3> DEFINE anew == [generation |-> member[s].generation + 1, cursor |-> 0, seen |-> {}, page |-> <<>>]
    <3>1. reader' = [reader EXCEPT ![s] = anew]
      BY <2>3 DEF ResumeMember
    <3>2. anew \in Readers /\ anew.cursor = 0 /\ anew.page = <<>>
      BY DEF Readers
    <3> HIDE DEF anew
    <3>3. Len(messages) \in Nat
      BY DEF MessagesInv
    <3> QED BY <1>1, <3>1, <3>2, <3>3 DEF Kept, CoveredUpTo
  <2> QED BY <2>1, <2>2, <2>3
<1>3. \A x \in Members \ {s} : Kept(x)'
  BY <1>1, <1>2, KeptRests DEF MessagesInv
<1> QED BY <1>1, <1>2, <1>3 DEF MessagesInv

MemberInv ==
    member \in [Members -> [generation : Nat, present : BOOLEAN, enrolled : BOOLEAN]]

\* Every step keeps the members' types.
LEMMA MemberInvStep == MemberInv /\ [MessagesNext]_messageVars => MemberInv'
<1> SUFFICES ASSUME MemberInv, [MessagesNext]_messageVars PROVE MemberInv'
  OBVIOUS
<1>1. CASE UNCHANGED member
  BY <1>1 DEF MemberInv
<1>2. ASSUME NEW s \in Members, ResumeMember(s) PROVE MemberInv'
  BY <1>2 DEF MemberInv, ResumeMember
<1>3. ASSUME NEW s \in Members, Depart(s) PROVE MemberInv'
  BY <1>3 DEF MemberInv, Depart
<1> QED BY <1>1, <1>2, <1>3
        DEF MessagesNext, messageVars, Send, LifecycleMessage, ReadInbox, Ack, Receive, LosePage

\* Every step keeps the invariant.
LEMMA MessagesInvStep == MessagesInv /\ MemberInv /\ [MessagesNext]_messageVars => MessagesInv'
<1> SUFFICES ASSUME MessagesInv, MemberInv, [MessagesNext]_messageVars PROVE MessagesInv'
  OBVIOUS
<1>1. ASSUME NEW s \in Members, NEW k \in SendKeys, NEW to \in SUBSET Members, Send(s, k, to)
      PROVE  MessagesInv'
  BY <1>1, DeliverStep DEF Send
<1>2. ASSUME NEW s \in Members, NEW to \in SUBSET Members, LifecycleMessage(s, to)
      PROVE  MessagesInv'
  BY <1>2, DeliverStep DEF LifecycleMessage
<1>3. ASSUME UNCHANGED <<messages, inbox, reader>> PROVE MessagesInv'
  BY <1>3, KeptRests DEF MessagesInv
<1>4. ASSUME NEW s \in Members, Receive(s) \/ LosePage(s) \/ ResumeMember(s) PROVE MessagesInv'
  BY <1>4, ClientStep DEF MemberInv
<1> QED BY <1>1, <1>2, <1>3, <1>4, ReadStep, AckStep DEF MessagesNext, messageVars, Depart

\* A client that goes on from the cursor of the last page it received misses no
\* message of its session (TeamMessages).
THEOREM CursorMissesNothingHolds == MessagesSpec => []CursorMissesNothing
<1>1. MessagesInit => MemberInv
  BY DEF MessagesInit, MemberInv
<1>2. MessagesInv => CursorMissesNothing
  BY DEF MessagesInv, Kept, CoveredUpTo, CursorMissesNothing
<1> QED BY MessagesInvInit, MessagesInvStep, MemberInvStep, <1>1, <1>2, PTL DEF MessagesSpec
===============================================================================
