---------------------------- MODULE TaskRequests ----------------------------
(***************************************************************************)
(* The path of a client's task command through the server                  *)
(* (internal/server/tasks.go, triage.go, textcheck.go) into the store's    *)
(* transaction with its retry receipt (internal/store/tasks.go).           *)
(*                                                                         *)
(* A client that lost an answer sends the command again, under the same    *)
(* key; a copy may still be under way.  A handler reads, one after the     *)
(* other and outside any transaction: whether tasks are enabled, the       *)
(* caller's grant, whether a receipt would replay, and the text in         *)
(* question.  Only then it runs the transaction, which commits the effect  *)
(* and the receipt together.                                               *)
(***************************************************************************)
EXTENDS TaskStore

CONSTANTS
    Actors,         \* TaskActor.key: user and token
    Commands,       \* the commands clients may send, any number of times
    FlaggedTexts,   \* texts the readability filter flags
    Handlers,       \* requests served at a time
    NoTask, NoReceipt, NoRequest

VARIABLES
    text,       \* a task's free text
    comments,   \* per task, the comments appended to it
    grants,     \* actors whose token may write to the project now
    receipts,   \* task_requests: per actor, operation, scope and key
    request     \* per handler, the request it serves

requestVars == <<text, comments, grants, receipts, request>>
taskRequestVars == <<storeVars, requestVars>>

Name(c) == <<c.actor, c.op, c.scope, c.key>>
Input(c) == <<c.content, c.text, c.revision>>

\* A create names no task, the other commands name one in their route.
ASSUME RequestAssumption ==
    /\ \A c \in Commands :
          /\ c.op \in {"create", "update", "triage", "comment"}
          /\ c.op # "create" => c.scope \in Tasks
          /\ c.content \in Contents
    /\ IsFiniteSet(Handlers) /\ IsFiniteSet(Commands)
    /\ NoTask \notin Tasks
    /\ NoReceipt \notin [input : {Input(c) : c \in Commands}, result : Nat \cup Tasks]

NewTask == [state |-> "BACKLOG", archived |-> FALSE, deps |-> {}]

RequestsInit ==
    /\ StoreInit
    /\ hold = [t \in Tasks |-> [id |-> NoHold]]
    /\ text = [t \in Tasks |-> "none"]
    /\ comments = [t \in Tasks |-> {}]
    /\ grants = Actors
    /\ receipts = [n \in {Name(c) : c \in Commands} |-> NoReceipt]
    /\ request = [h \in Handlers |-> NoRequest]

(***************************************************************************)
(* The handler, up to the transaction.  `retried` is a history field: a    *)
(* receipt for this very command existed when the request arrived.         *)
(***************************************************************************)
Replays(c) == receipts[Name(c)] # NoReceipt /\ receipts[Name(c)].input = Input(c)

At(h, phase) == request[h] # NoRequest /\ request[h].phase = phase

Goes(h, phase) == request' = [request EXCEPT ![h].phase = phase]

Answers(h, answer, result) ==
    request' = [request EXCEPT ![h].phase = "answered", ![h].answer = answer,
                               ![h].result = result]

\* locateTask and tasksEnabledFor, the first lines of every task route.
Arrive(h, c) ==
    /\ request[h] = NoRequest
    /\ enabled
    /\ c.scope # NoTask => Exists(c.scope)
    /\ request' = [request EXCEPT ![h] =
           [phase |-> "enabled", command |-> c, replay |-> FALSE, retried |-> Replays(c),
            answer |-> "none", result |-> 0]]
    /\ UNCHANGED <<storeVars, text, comments, grants, receipts>>

\* authorizeTaskWrite: CanWriteToken, read for every attempt.
Authorize(h) ==
    /\ At(h, "enabled")
    /\ IF request[h].command.actor \in grants
       THEN Goes(h, "authorized")
       ELSE Answers(h, "forbidden", 0)
    /\ UNCHANGED <<storeVars, text, comments, grants, receipts>>

\* Mutant: a retried create is judged anew.
ProbedOps_UpdateOnly == {"update"}

\* CreateReplays, UpdateReplays: a read outside the transaction; the routes of
\* comments and of triage have no such probe.
ProbedOps == {"create", "update"}

Probe(h) ==
    /\ At(h, "authorized")
    /\ LET c == request[h].command IN
       request' = [request EXCEPT ![h].phase = "probed",
                                  ![h].replay = c.op \in ProbedOps /\ Replays(c)]
    /\ UNCHANGED <<storeVars, text, comments, grants, receipts>>

(***************************************************************************)
(* checkTaskFields, checkTaskChange and the checks of triage and comments: *)
(* text that an update leaves as it is, is not judged.  The second stage   *)
(* (a model) may relax a flagged text or, when it fails, not.              *)
(***************************************************************************)
Judged(c) == c.op \in {"update", "triage"} => text[c.scope] # c.text

CheckText(h) ==
    /\ At(h, "probed")
    /\ \/ Goes(h, "checked")
       \/ LET c == request[h].command IN
          /\ ~request[h].replay
          /\ c.text \in FlaggedTexts
          /\ Judged(c)
          /\ Answers(h, "unreadable", 0)
    /\ UNCHANGED <<storeVars, text, comments, grants, receipts>>

(***************************************************************************)
(* checkedTaskMutation: the operation's check, then the receipt, then the  *)
(* effect, which commits with its receipt or not at all.                   *)
(***************************************************************************)
Committing(h, op) == At(h, "checked") /\ request[h].command.op = op

\* Mutant: the answer of the probe decides instead of a second look under the lock.
StoredReceipt_Probed(h) ==
    IF request[h].replay THEN receipts[Name(request[h].command)] ELSE NoReceipt

StoredReceipt(h) == receipts[Name(request[h].command)]

OwnedElsewhere(c) == c.op \in {"update", "triage"} /\ ~GenericWriteAllowed(c.scope)

RefusedByCheck(h) ==
    /\ At(h, "checked")
    /\ OwnedElsewhere(request[h].command)
    /\ Answers(h, "owned", 0)
    /\ UNCHANGED <<storeVars, text, comments, grants, receipts>>

ReplayReceipt(h) ==
    /\ At(h, "checked")
    /\ StoredReceipt(h) # NoReceipt
    /\ ~OwnedElsewhere(request[h].command)
    /\ IF StoredReceipt(h).input = Input(request[h].command)
       THEN Answers(h, "ok", StoredReceipt(h).result)
       ELSE Answers(h, "key reused", 0)
    /\ UNCHANGED <<storeVars, text, comments, grants, receipts>>

Committed(h, result) ==
    /\ receipts' = [receipts EXCEPT ![Name(request[h].command)] =
                       [input |-> Input(request[h].command), result |-> result]]
    /\ Answers(h, "ok", result)
    /\ UNCHANGED grants

CommitCreate(h) ==
    /\ Committing(h, "create")
    /\ StoredReceipt(h) = NoReceipt
    /\ \E t \in Tasks :
          /\ CreateTask(t, NewTask)
          /\ text' = [text EXCEPT ![t] = request[h].command.text]
          /\ Committed(h, t)
    /\ UNCHANGED comments

CommitUpdate(h) ==
    /\ Committing(h, "update")
    /\ StoredReceipt(h) = NoReceipt
    /\ LET c == request[h].command IN
       /\ tasks[c.scope].revision = c.revision
       /\ UpdateTask(c.scope, c.content)
       /\ text' = [text EXCEPT ![c.scope] = c.text]
       /\ Committed(h, c.revision + 1)
    /\ UNCHANGED comments

CommitTriage(h) ==
    /\ Committing(h, "triage")
    /\ StoredReceipt(h) = NoReceipt
    /\ LET c == request[h].command IN
       /\ tasks[c.scope].revision = c.revision
       /\ TriageTask(c.scope, c.content.state)
       /\ text' = [text EXCEPT ![c.scope] = c.text]
       /\ Committed(h, c.revision + 1)
    /\ UNCHANGED comments

\* A comment leaves the task's revision alone.
CommitComment(h) ==
    /\ Committing(h, "comment")
    /\ StoredReceipt(h) = NoReceipt
    /\ LET c == request[h].command IN
       /\ Exists(c.scope) /\ ~tasks[c.scope].archived
       /\ \E id \in 1..Cardinality(Handlers) * Cardinality(Commands) :
             /\ id \notin {m.id : m \in comments[c.scope]}
             /\ \A n \in 1..id - 1 : n \in {m.id : m \in comments[c.scope]}
             /\ comments' = [comments EXCEPT ![c.scope] = @ \cup {[id |-> id, by |-> Name(c)]}]
             /\ Committed(h, id)
    /\ UNCHANGED <<storeVars, text>>

\* The effect's own checks fail; nothing is kept, the key stays free.
RefusedByEffect(h) ==
    /\ At(h, "checked")
    /\ StoredReceipt(h) = NoReceipt
    /\ LET c == request[h].command IN
       \/ /\ c.op \in {"update", "triage"}
          /\ tasks[c.scope].revision # c.revision
          /\ ~OwnedElsewhere(c)
          /\ Answers(h, "conflict", 0)
       \/ /\ c.op \in {"comment", "triage"}
          /\ tasks[c.scope].archived
          /\ c.op = "triage" => tasks[c.scope].revision = c.revision /\ ~OwnedElsewhere(c)
          /\ Answers(h, "archived", 0)
    /\ UNCHANGED <<storeVars, text, comments, grants, receipts>>

\* The answer reaches the client or is lost; the connection may also break earlier,
\* without effect on a transaction that has not begun.
Done(h) ==
    /\ request[h] # NoRequest
    /\ request' = [request EXCEPT ![h] = NoRequest]
    /\ UNCHANGED <<storeVars, text, comments, grants, receipts>>

(***************************************************************************)
(* What goes on beside the clients.                                        *)
(***************************************************************************)
Others ==
    /\ \/ \E on \in Switches : SetTasksEnabled(on) /\ UNCHANGED grants
       \/ \E a \in Actors :
             /\ grants' = IF a \in grants THEN grants \ {a} ELSE grants \cup {a}
             /\ UNCHANGED storeVars
    /\ UNCHANGED <<text, comments, receipts, request>>

\* OfferTeamAssignment takes a task over, UnmanageTask gives it back at a new revision.
TeamTakes(t, team) ==
    /\ Exists(t) /\ managed[t] = NoTeam
    /\ managed' = [managed EXCEPT ![t] = team]
    /\ UNCHANGED <<tasks, hold, enabled, requestVars>>

TeamReturns(t) ==
    /\ managed[t] # NoTeam
    /\ managed' = [managed EXCEPT ![t] = NoTeam]
    /\ WriteTask(t, Content(t))
    /\ UNCHANGED <<hold, enabled, requestVars>>

Serve(h) ==
    \/ Authorize(h) \/ Probe(h) \/ CheckText(h)
    \/ RefusedByCheck(h) \/ ReplayReceipt(h) \/ RefusedByEffect(h)
    \/ CommitCreate(h) \/ CommitUpdate(h) \/ CommitTriage(h) \/ CommitComment(h)
    \/ Done(h)

RequestsNext ==
    \/ \E h \in Handlers, c \in Commands : Arrive(h, c)
    \/ \E h \in Handlers : Serve(h)
    \/ \E t \in Tasks, team \in Teams : TeamTakes(t, team)
    \/ \E t \in Tasks : TeamReturns(t)
    \/ Others

RequestsSpec == RequestsInit /\ [][RequestsNext]_taskRequestVars
-----------------------------------------------------------------------------
(***************************************************************************)
(* However many copies of a command are under way, it has one effect: a    *)
(* create's tasks are those of its receipts, and no key appended two       *)
(* comments (checkedTaskMutation looks for the receipt inside the          *)
(* transaction).                                                           *)
(***************************************************************************)
OneEffectPerKey ==
    /\ \A t \in Tasks :
          /\ \A m1, m2 \in comments[t] : m1.by = m2.by => m1 = m2
          /\ \A m \in comments[t] : receipts[m.by] # NoReceipt
    /\ Cardinality({t \in Tasks : Exists(t)}) =
       Cardinality({n \in DOMAIN receipts : n[2] = "create" /\ receipts[n] # NoReceipt})

(***************************************************************************)
(* A command that was committed before its retry arrived is answered with  *)
(* the original result; only a lost right (switch, grant, owner) or a      *)
(* broken connection stands in the way.  It is never told that it is       *)
(* stale.  Nor that its text cannot be read, when the route looks for a    *)
(* receipt first; the routes of comments and of triage do not.             *)
(***************************************************************************)
CommittedRetryReturns ==
    \A h \in Handlers :
       At(h, "answered") /\ request[h].retried =>
          \/ request[h].answer \in {"forbidden", "owned"}
          \/ request[h].answer = "unreadable" /\ request[h].command.op \in {"comment", "triage"}
          \/ /\ request[h].answer = "ok"
             /\ request[h].result = receipts[Name(request[h].command)].result
=============================================================================
