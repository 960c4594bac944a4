-------------------------------- MODULE Spool --------------------------------
(***************************************************************************)
(* The client's submission path (internal/adapter/spool.go): a checkpoint  *)
(* is posted to the local service, or appended to the spool file when the  *)
(* service is unreachable; the next process whose post gets through        *)
(* replays the spool.  A replay claims the spool by renaming it to a name  *)
(* made of its process ID, posts its records and removes the claim, after  *)
(* it has returned the claims it finds (of a process killed in the middle, *)
(* or of a live one) to the spool.                                         *)
(*                                                                         *)
(* Clients are processes of one machine that share nothing but the spool   *)
(* directory, so an action is one system call.  A file is told apart from  *)
(* its name: an open handle follows the file through a rename.  A process  *)
(* is a hook, which submits once, or an import, which submits many times   *)
(* under one process ID.  Disks do not fail here.                          *)
(***************************************************************************)
EXTENDS Naturals, FiniteSets

CONSTANTS
    Processes,
    Importers,   \* processes that submit repeatedly under one process ID
    Mortal,      \* processes that submit once and may be killed on the way; for
                 \* the others the client's next hook, under a new process ID, follows
    Records, Files, NoFile,
    Names, NoName   \* process IDs, each naming a claim

ASSUME SpoolAssumption ==
    /\ Importers \subseteq Processes /\ Mortal \subseteq Processes \ Importers
    /\ NoFile \notin Files /\ NoName \notin Names

VARIABLES
    spool,      \* the file named pending.jsonl, or NoFile
    claim,      \* [Names -> file named pending.jsonl.replay-<pid>, or NoFile]
    content,    \* [Files -> the records in the file]
    up,         \* the service answers
    settled,    \* records the service has stored (again changes nothing) or refused
    proc,       \* [Processes -> the process's state]
    submitted,  \* records handed to a client so far
    kept,       \* records whose client was told they are in the spool
    late        \* records written through a handle after its file was renamed

dirVars == <<spool, claim, content>>
pastVars == <<submitted, kept, late>>
spoolVars == <<dirVars, up, settled, proc, pastVars>>

Ended == [pc |-> "ended", name |-> NoName, fd |-> NoFile, hand |-> {}, then |-> "none",
          todo |-> {}, sweeping |-> NoName, data |-> {}]
Idle == [Ended EXCEPT !.pc = "idle"]

SpoolInit ==
    /\ spool = NoFile
    /\ claim = [n \in Names |-> NoFile]
    /\ content = [f \in Files |-> {}]
    /\ up = TRUE
    /\ settled = {} /\ submitted = {} /\ kept = {} /\ late = {}
    /\ proc = [p \in Processes |-> Idle]

-----------------------------------------------------------------------------
At(p, pc) == proc[p].pc = pc

Becomes(p, state) == proc' = [proc EXCEPT ![p] = state]

Goes(p, pc) == [proc[p] EXCEPT !.pc = pc]

\* The submission is over.
Rest(p) ==
    IF p \in Importers THEN [Idle EXCEPT !.name = proc[p].name]
    ELSE IF p \in Mortal THEN Ended ELSE Idle

\* The process ID of a submission: new, except for an import that goes on.
ProcessID(p) ==
    IF proc[p].name # NoName THEN {proc[p].name}
    ELSE {n \in Names : /\ claim[n] = NoFile
                        /\ \A q \in Processes : n \notin {proc[q].name, proc[q].sweeping} \cup proc[q].todo}

\* A file nobody can reach any more can be a new one.
NewFiles ==
    {f \in Files : /\ f # spool /\ \A n \in Names : claim[n] # f
                   /\ \A q \in Processes : proc[q].fd # f}

-----------------------------------------------------------------------------
(* submit: post, then replay; or spool. *)

\* A post gets an answer while the service is up; otherwise nobody knows.
Answered(r) == up /\ settled' = settled \cup {r}
Unanswered(r) == ~up /\ settled' \in {settled, settled \cup {r}}

ToSpool(state, r, then) == [state EXCEPT !.pc = "open", !.hand = {r}, !.then = then]

Submit(p, r) ==
    /\ At(p, "idle") /\ r \notin submitted
    /\ submitted' = submitted \cup {r}
    /\ \E n \in ProcessID(p) :
          LET state == [proc[p] EXCEPT !.name = n] IN
          \/ Answered(r) /\ Becomes(p, [state EXCEPT !.pc = "glob"])
          \/ Answered(r) /\ Becomes(p, Rest(p))    \* refused, and reported at once
          \/ Unanswered(r) /\ Becomes(p, ToSpool(state, r, "rest"))
    /\ UNCHANGED <<dirVars, up, kept, late>>

\* A submission of some other checkpoint that gets through, or "aimem spool flush".
Contact(p) ==
    /\ At(p, "idle") /\ up
    /\ \E n \in ProcessID(p) : Becomes(p, [Goes(p, "glob") EXCEPT !.name = n])
    /\ UNCHANGED <<dirVars, up, settled, pastVars>>

\* spool: open for append, then a single write.
OpenSpool(p) ==
    /\ At(p, "open")
    /\ \/ /\ spool # NoFile
          /\ Becomes(p, [Goes(p, "write") EXCEPT !.fd = spool])
          /\ UNCHANGED <<spool, content>>
       \/ /\ spool = NoFile
          /\ \E f \in NewFiles :
                /\ spool' = f
                /\ content' = [content EXCEPT ![f] = {}]
                /\ Becomes(p, [Goes(p, "write") EXCEPT !.fd = f])
    /\ UNCHANGED <<claim, up, settled, pastVars>>

WriteSpool(p) ==
    LET s == proc[p] IN
    /\ At(p, "write")
    /\ content' = [content EXCEPT ![s.fd] = @ \cup s.hand]
    /\ late' = IF s.fd = spool THEN late ELSE late \cup s.hand
    /\ IF s.then = "rest"
       THEN Becomes(p, Rest(p)) /\ kept' = kept \cup s.hand
       ELSE Becomes(p, [s EXCEPT !.pc = s.then, !.fd = NoFile, !.hand = {}, !.then = "none"]) /\ UNCHANGED kept
    /\ UNCHANGED <<spool, claim, up, settled, submitted>>

-----------------------------------------------------------------------------
(* sweepOrphanedClaims: every claim found goes back to the spool. *)

\* Mutant: claims left behind are not looked for.
Glob_Nothing(p) ==
    /\ At(p, "glob")
    /\ Becomes(p, Goes(p, "sweep"))
    /\ UNCHANGED <<dirVars, up, settled, pastVars>>

Glob(p) ==
    /\ At(p, "glob")
    /\ Becomes(p, [Goes(p, "sweep") EXCEPT !.todo = {n \in Names : claim[n] # NoFile}])
    /\ UNCHANGED <<dirVars, up, settled, pastVars>>

\* A claim that is gone is skipped, an empty one only removed.
SweepRead(p, n) ==
    LET s == [proc[p] EXCEPT !.todo = @ \ {n}]
        found == content[claim[n]]
    IN
    /\ At(p, "sweep") /\ n \in proc[p].todo
    /\ Becomes(p, IF claim[n] = NoFile THEN s
                  ELSE [s EXCEPT !.sweeping = n, !.hand = found, !.then = "unlink",
                                 !.pc = IF found = {} THEN "unlink" ELSE "open"])
    /\ UNCHANGED <<dirVars, up, settled, pastVars>>

\* The name is removed, whatever file has it by now.
SweepUnlink(p) ==
    /\ At(p, "unlink")
    /\ claim' = [claim EXCEPT ![proc[p].sweeping] = NoFile]
    /\ Becomes(p, [Goes(p, "sweep") EXCEPT !.sweeping = NoName, !.then = "none"])
    /\ UNCHANGED <<spool, content, up, settled, pastVars>>

-----------------------------------------------------------------------------
(* ReplaySpool, once the sweep is done. *)

ClaimSpool(p) ==
    /\ At(p, "sweep") /\ proc[p].todo = {}
    /\ IF spool = NoFile THEN Becomes(p, Rest(p)) /\ UNCHANGED claim
       ELSE /\ claim' = [claim EXCEPT ![proc[p].name] = spool]
            /\ Becomes(p, Goes(p, "read"))
    /\ spool' = NoFile
    /\ UNCHANGED <<content, up, settled, pastVars>>

\* Another process may have swept the claim: then there is nothing to replay.
ReadClaim(p) ==
    LET f == claim[proc[p].name] IN
    /\ At(p, "read")
    /\ Becomes(p, IF f = NoFile THEN Rest(p) ELSE [Goes(p, "replay") EXCEPT !.data = content[f]])
    /\ UNCHANGED <<dirVars, up, settled, pastVars>>

\* Mutant: a record the service did not answer for is not spooled again.
ReplayLine_Drops(p, r) ==
    LET s == [proc[p] EXCEPT !.data = @ \ {r}] IN
    /\ At(p, "replay") /\ r \in proc[p].data
    /\ Answered(r) \/ Unanswered(r)
    /\ Becomes(p, s)
    /\ UNCHANGED <<dirVars, up, pastVars>>

ReplayLine(p, r) ==
    LET s == [proc[p] EXCEPT !.data = @ \ {r}] IN
    /\ At(p, "replay") /\ r \in proc[p].data
    /\ \/ Answered(r) /\ Becomes(p, s)
       \/ Unanswered(r) /\ Becomes(p, ToSpool(s, r, "replay"))
    /\ UNCHANGED <<dirVars, up, pastVars>>

RemoveClaim(p) ==
    /\ At(p, "replay") /\ proc[p].data = {}
    /\ claim' = [claim EXCEPT ![proc[p].name] = NoFile]
    /\ Becomes(p, Rest(p))
    /\ UNCHANGED <<spool, content, up, settled, pastVars>>

-----------------------------------------------------------------------------
(* The environment. *)

Killed(p) ==
    /\ p \in Mortal /\ proc[p].pc \notin {"idle", "ended"}
    /\ Becomes(p, Ended)
    /\ UNCHANGED <<dirVars, up, settled, pastVars>>

ServiceSwitches ==
    /\ up' = ~up
    /\ UNCHANGED <<dirVars, settled, proc, pastVars>>

Step(p) ==
    \/ OpenSpool(p) \/ WriteSpool(p)
    \/ Glob(p) \/ (\E n \in Names : SweepRead(p, n)) \/ SweepUnlink(p)
    \/ ClaimSpool(p) \/ ReadClaim(p)
    \/ (\E r \in Records : ReplayLine(p, r)) \/ RemoveClaim(p)

SpoolNext ==
    \/ \E p \in Processes, r \in Records : Submit(p, r)
    \/ \E p \in Processes : Contact(p) \/ Step(p) \/ Killed(p)
    \/ ServiceSwitches

SpoolSpec == SpoolInit /\ [][SpoolNext]_spoolVars

(***************************************************************************)
(* A process that is running goes on, and the client that survives goes on *)
(* making checkpoints while the service answers.                           *)
(***************************************************************************)
SpoolFairness ==
    /\ \A p \in Processes : WF_spoolVars(Step(p))
    /\ \A p \in Processes \ Mortal : WF_spoolVars(Contact(p))

FairSpoolSpec == SpoolSpec /\ SpoolFairness

-----------------------------------------------------------------------------
(***************************************************************************)
(* What the package says of itself: "fail-open, but never a silent drop".  *)
(* A record whose client was told that it is spooled is in a file with a   *)
(* name, unless the service has stored or refused it, even if every client *)
(* is killed at that moment.                                               *)
(***************************************************************************)
OnDisk(r) ==
    \/ spool # NoFile /\ r \in content[spool]
    \/ \E n \in Names : claim[n] # NoFile /\ r \in content[claim[n]]

NeverSilentDrop == \A r \in kept \ settled : OnDisk(r)

(***************************************************************************)
(* The same for every record but those written through a handle that a     *)
(* replay had already renamed away: interrupted replays, sweeps of live    *)
(* claims and re-spooled records lose nothing.                             *)
(***************************************************************************)
KeptUnlessLate == \A r \in kept \ (settled \cup late) : OnDisk(r)

(***************************************************************************)
(* Once the service stays up, every record in the spool gets to it, those  *)
(* in the claims of killed processes included.                             *)
(***************************************************************************)
SpooledRecordArrives ==
    <>[]up => \A r \in Records : r \in kept ~> r \in settled \cup late
=============================================================================
