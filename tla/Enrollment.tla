------------------------------ MODULE Enrollment ------------------------------
(***************************************************************************)
(* Enrollment of an installation with a one-time code: the hub's ledger    *)
(* (access/enrollments.go, enrollment_redeem.go) and the command that      *)
(* redeems a code (cmd/aimem/enroll_redeem.go).                            *)
(*                                                                         *)
(* The hub decides each request in one transaction.  The command keeps the *)
(* keys of its request in a pending file per bundle, so that an identical  *)
(* retry replays a redemption whose answer was lost, and stores the        *)
(* credential in hub.json.  Several runs of the command share the pending  *)
(* files, hub.json and a lock that only the first write of a file takes; a *)
(* run may be stopped between any two steps.                               *)
(*                                                                         *)
(* Requests that the shape checks, the version or the rate limits refuse   *)
(* change nothing and are not modelled; sealing is: an answer opens only   *)
(* with the keys it was sealed for.  A clock is a set of what has passed.  *)
(***************************************************************************)
EXTENDS Naturals

CONSTANTS
    Bundles,            \* a bundle also names the credential it delivers
    HubName(_),         \* the entry of hub.json that a bundle's record is redeemed under
    Runs,
    OldCredential,      \* one that hub.json may hold from before
    NoCredential, NoRun,
    MaxKeys             \* bound: request keys generated

ASSUME EnrollAssumption ==
    /\ {OldCredential, NoCredential} \cap Bundles = {}
    /\ OldCredential # NoCredential
    /\ NoRun \notin Runs
    /\ MaxKeys \in Nat

VARIABLES
    code,         \* the ledger's rows: the state of a code, and what redeemed it
    lapsed,       \* the codes whose expiry has passed
    retired,      \* the redemptions whose retention has passed
    accepted,     \* the credentials that the hub accepts
    onceRefused,  \* history: those that it did not accept at some time
    pending,      \* the pending file of each bundle
    hubFile,      \* hub.json: the credential of each entry
    createLock,   \* the run that holds .create.lock
    keysMade,
    run,          \* the runs of the command
    enrolled      \* history: the bundles that a run reported as enrolled

ledgerRows == <<code, lapsed, retired, accepted, onceRefused>>
clientFiles == <<pending, hubFile, createLock, keysMade>>
enrollVars == <<ledgerRows, clientFiles, run, enrolled>>

HubNames == {HubName(b) : b \in Bundles}
Credentials == Bundles \cup {OldCredential}
NoKey == 0
NoFile == [phase |-> "none", key |-> NoKey]
Empty == [phase |-> "empty", key |-> NoKey]
Sending(k) == [phase |-> "sending", key |-> k]
Delivered(k) == [phase |-> "delivered", key |-> k]
Ended(outcome) == [at |-> "idle", outcome |-> outcome]

EnrollInit ==
    /\ code = [b \in Bundles |-> [state |-> "none", key |-> NoKey]]
    /\ lapsed = {} /\ retired = {}
    /\ accepted = {OldCredential}
    /\ onceRefused = {}
    /\ pending = [b \in Bundles |-> NoFile]
    /\ hubFile \in [HubNames -> {NoCredential, OldCredential}]
    /\ createLock = NoRun
    /\ keysMade = 0
    /\ run = [r \in Runs |-> Ended("none")]
    /\ enrolled = {}

(***************************************************************************)
(* The hub.                                                                *)
(***************************************************************************)
IssueEnrollment(b) ==
    /\ code[b].state = "none"
    /\ code' = [code EXCEPT ![b].state = "issued"]
    /\ UNCHANGED <<lapsed, retired, accepted, onceRefused, clientFiles, run, enrolled>>

RevokeEnrollment(b) ==
    /\ code[b].state = "issued" /\ b \notin lapsed
    /\ code' = [code EXCEPT ![b].state = "revoked"]
    /\ UNCHANGED <<lapsed, retired, accepted, onceRefused, clientFiles, run, enrolled>>

\* A token is revoked, or its user disabled, and the user enabled again.
DisableUser(c) ==
    /\ accepted' = accepted \ {c}
    /\ c \in accepted
    /\ onceRefused' = onceRefused \cup {c}
    /\ UNCHANGED <<code, lapsed, retired, clientFiles, run, enrolled>>

EnableUser(c) ==
    /\ c \in onceRefused \ accepted
    /\ accepted' = accepted \cup {c}
    /\ UNCHANGED <<code, lapsed, retired, onceRefused, clientFiles, run, enrolled>>

TimePasses(b) ==
    /\ code[b].state # "none"
    /\ \/ lapsed' = lapsed \cup {b} /\ UNCHANGED retired
       \/ code[b].state = "redeemed" /\ retired' = retired \cup {b} /\ UNCHANGED lapsed
    /\ UNCHANGED <<code, accepted, onceRefused, clientFiles, run, enrolled>>

\* redeem and replay: what the ledger says to a request with key k.
Verdict(b, k) ==
    CASE code[b].state = "redeemed" ->
            IF b \in retired THEN "invalid"
            ELSE IF code[b].key # k THEN "conflict"
            ELSE IF b \notin accepted THEN "invalid" ELSE "replayed"
      [] code[b].state = "issued" /\ b \notin lapsed -> "redeemed"
      [] OTHER -> "invalid"

RedeemEnrollment(b, k) ==
    IF Verdict(b, k) = "redeemed"
    THEN /\ code' = [code EXCEPT ![b] = [state |-> "redeemed", key |-> k]]
         /\ accepted' = accepted \cup {b}
    ELSE UNCHANGED <<code, accepted>>

(***************************************************************************)
(* A run of the command.                                                   *)
(***************************************************************************)
At(r, place) == run[r].at = place
Goes(r, place) == run' = [run EXCEPT ![r].at = place]
Ends(r, outcome) == run' = [run EXCEPT ![r] = Ended(outcome)]
Found(r) == run[r].hubs[HubName(run[r].bundle)]

StartRun(r, b) ==
    /\ At(r, "idle")
    /\ code[b].state # "none"
    /\ run' = [run EXCEPT ![r] =
                 [at |-> "reading", bundle |-> b, hubs |-> hubFile, key |-> NoKey, first |-> FALSE,
                  again |-> FALSE]]
    /\ UNCHANGED <<ledgerRows, clientFiles, enrolled>>

\* loadEnrollPending, and the switch on what it holds.
ReadPending(r) ==
    /\ At(r, "reading")
    /\ LET b == run[r].bundle
           file == pending[b] IN
       \/ /\ file.key = NoKey /\ b \in lapsed
          /\ Ends(r, "refused")
       \/ /\ file.key = NoKey /\ b \notin lapsed
          /\ run' = [run EXCEPT ![r].first = TRUE,
                                ![r].at = IF Found(r) # NoCredential THEN "checking" ELSE "creating"]
       \/ /\ file.phase = "delivered" /\ Found(r) # NoCredential
          /\ run' = [run EXCEPT ![r].at = "verifying", ![r].key = file.key]
       \/ /\ file.key # NoKey /\ (file.phase = "delivered" => Found(r) = NoCredential)
          /\ run' = [run EXCEPT ![r].at = "sending", ![r].key = file.key]
    /\ UNCHANGED <<ledgerRows, clientFiles, enrolled>>

\* Mutant: only an accepted credential keeps the code from being spent.
CheckStored_OutageRefuses(r) ==
    /\ At(r, "checking")
    /\ \/ Found(r) \in accepted /\ Goes(r, "finishing")
       \/ Goes(r, "creating")
    /\ UNCHANGED <<ledgerRows, clientFiles, enrolled>>

\* enrollWhoAmI for the credential found at the start: accepted, refused, or no answer.
CheckStored(r) ==
    /\ At(r, "checking")
    /\ \/ Found(r) \in accepted /\ Goes(r, "finishing")
       \/ Found(r) \notin accepted /\ Goes(r, "creating")
       \/ Ends(r, "unreachable")
    /\ UNCHANGED <<ledgerRows, clientFiles, enrolled>>

(***************************************************************************)
(* newEnrollPending: under the lock, the keys that another run has written *)
(* meanwhile are taken over, and an empty file is removed once it is old.  *)
(* The file is created empty and written in a second step.                 *)
(***************************************************************************)
\* Mutant: the file is not read again under the lock.
LockPending_Blind(r) ==
    /\ At(r, "creating")
    /\ createLock = NoRun
    /\ keysMade < MaxKeys
    /\ createLock' = r
    /\ pending' = [pending EXCEPT ![run[r].bundle] = Empty]
    /\ Goes(r, "writing")
    /\ UNCHANGED <<ledgerRows, hubFile, keysMade, enrolled>>

LockPending(r) ==
    /\ At(r, "creating")
    /\ LET b == run[r].bundle
           file == pending[b] IN
       \/ /\ createLock = NoRun
          /\ file.key # NoKey
          /\ run' = [run EXCEPT ![r].at = "rechecking", ![r].key = file.key]
          /\ UNCHANGED <<pending, createLock>>
       \/ /\ createLock = NoRun
          /\ file.key = NoKey
          /\ keysMade < MaxKeys
          /\ createLock' = r
          /\ pending' = [pending EXCEPT ![b] = Empty]
          /\ Goes(r, "writing")
       \/ /\ createLock # NoRun \/ file = Empty     \* no lock in time, or the file is young
          /\ Ends(r, "refused")
          /\ UNCHANGED <<pending, createLock>>
    /\ UNCHANGED <<ledgerRows, hubFile, keysMade, enrolled>>

\* A finishing run may have removed the file in between; then the keys reach no file.
WritePending(r) ==
    /\ At(r, "writing")
    /\ LET b == run[r].bundle
           k == keysMade + 1 IN
       /\ keysMade' = k
       /\ pending' = IF pending[b] = Empty THEN [pending EXCEPT ![b] = Sending(k)] ELSE pending
       /\ run' = [run EXCEPT ![r].at = "rechecking", ![r].key = k]
    /\ createLock' = NoRun
    /\ UNCHANGED <<ledgerRows, hubFile, enrolled>>

StoredAccepted(b) == hubFile[HubName(b)] \in accepted

\* Another run may have finished meanwhile; no answer is not taken for one.
Recheck(r) ==
    /\ At(r, "rechecking")
    /\ \/ StoredAccepted(run[r].bundle) /\ Goes(r, "finishing")
       \/ Goes(r, "sending")
    /\ UNCHANGED <<ledgerRows, clientFiles, enrolled>>

\* enrollSend: the hub decides, and its answer may be lost.
Send(r) ==
    /\ At(r, "sending")
    /\ LET b == run[r].bundle
           verdict == Verdict(b, run[r].key) IN
       /\ ~(run[r].first /\ run[r].again /\ b \in lapsed)
       /\ RedeemEnrollment(b, run[r].key)
       /\ \/ run' = [run EXCEPT ![r].again = TRUE]
          \/ verdict \in {"redeemed", "replayed"} /\ Goes(r, "opening")
          \/ verdict = "conflict" /\ Goes(r, "conflicting")
          \/ verdict = "invalid" /\ Ends(r, "refused")
    /\ UNCHANGED <<lapsed, retired, onceRefused, clientFiles, enrolled>>

\* The attempts are used up, none reached the hub, or the code expired between two.
GiveUp(r) ==
    /\ At(r, "sending")
    /\ Ends(r, "unreachable")
    /\ UNCHANGED <<ledgerRows, clientFiles, enrolled>>

AnswerConflict(r) ==
    /\ At(r, "conflicting")
    /\ \/ StoredAccepted(run[r].bundle) /\ Goes(r, "finishing")
       \/ Ends(r, IF StoredAccepted(run[r].bundle) THEN "unreachable" ELSE "refused")
    /\ UNCHANGED <<ledgerRows, clientFiles, enrolled>>

\* The delivery is opened; the identity is recorded before the credential is stored.
RecordDelivery(r) ==
    /\ At(r, "opening")
    /\ pending' = [pending EXCEPT ![run[r].bundle] = Delivered(run[r].key)]
    /\ Goes(r, "storing")
    /\ UNCHANGED <<ledgerRows, hubFile, createLock, keysMade, enrolled>>

\* The whole of hub.json is written, as it was read at the start.
StoreCredential(r) ==
    /\ At(r, "storing")
    /\ hubFile' = [run[r].hubs EXCEPT ![HubName(run[r].bundle)] = run[r].bundle]
    /\ run' = [run EXCEPT ![r].at = "verifying", ![r].hubs = hubFile']
    /\ UNCHANGED <<ledgerRows, pending, createLock, keysMade, enrolled>>

\* The credential in the file as this run knows it, against the delivered identity.
VerifyStored(r) ==
    /\ At(r, "verifying")
    /\ \/ Found(r) \in accepted /\ Found(r) = run[r].bundle /\ Goes(r, "finishing")
       \/ Found(r) \in accepted /\ Found(r) # run[r].bundle /\ Ends(r, "refused")
       \/ Found(r) \notin accepted /\ Ends(r, "unverified")     \* "run the same command again"
       \/ Ends(r, "unreachable")
    /\ UNCHANGED <<ledgerRows, clientFiles, enrolled>>

\* done: the pending file goes.
Finish(r) ==
    /\ At(r, "finishing")
    /\ pending' = [pending EXCEPT ![run[r].bundle] = NoFile]
    /\ enrolled' = enrolled \cup {run[r].bundle}
    /\ Ends(r, "enrolled")
    /\ UNCHANGED <<ledgerRows, hubFile, createLock, keysMade>>

\* The process dies, and the system releases its lock; a failed write ends a run the same way.
StopRun(r) ==
    /\ ~At(r, "idle")
    /\ Ends(r, "stopped")
    /\ createLock' = IF createLock = r THEN NoRun ELSE createLock
    /\ UNCHANGED <<ledgerRows, pending, hubFile, keysMade, enrolled>>

EnrollNext ==
    \/ \E b \in Bundles : IssueEnrollment(b) \/ RevokeEnrollment(b) \/ TimePasses(b)
    \/ \E c \in Credentials : DisableUser(c) \/ EnableUser(c)
    \/ \E r \in Runs :
          \/ \E b \in Bundles : StartRun(r, b)
          \/ ReadPending(r) \/ CheckStored(r) \/ LockPending(r) \/ WritePending(r) \/ Recheck(r)
          \/ Send(r) \/ GiveUp(r) \/ AnswerConflict(r) \/ RecordDelivery(r) \/ StoreCredential(r)
          \/ VerifyStored(r) \/ Finish(r) \/ StopRun(r)

EnrollSpec == EnrollInit /\ [][EnrollNext]_enrollVars
-----------------------------------------------------------------------------
(***************************************************************************)
(* The keys of a redemption that reached the hub are on disk until a run   *)
(* of the bundle has reported success: however runs overlap and wherever   *)
(* they stop, the hub never has a user whose credential nobody can open.   *)
(***************************************************************************)
KeysOutliveRedemption ==
    \A b \in Bundles :
        code[b].state = "redeemed" /\ b \notin enrolled => pending[b].key = code[b].key

(***************************************************************************)
(* A first run spends a code only if the hub refused the credential that   *)
(* the installation already had: an outage does not replace an identity.   *)
(***************************************************************************)
SpentOnlyWhenRefused ==
    [][\A r \in Runs, b \in Bundles :
          /\ code[b].state = "issued" /\ code'[b].state = "redeemed"
          /\ ~At(r, "idle") /\ run[r].bundle = b /\ At(r, "sending") /\ run[r].first
          => Found(r) = NoCredential \/ Found(r) \in onceRefused]_enrollVars

(***************************************************************************)
(* What the command's usage says: "A rerun is safe: it resumes an          *)
(* interrupted redemption with the same keys".  While the hub would replay *)
(* the redemption for the keys on disk, a run that the hub answers does    *)
(* not end without it.  It does, however often it is repeated, when the    *)
(* interrupted run was replacing a credential that the hub refuses and     *)
(* stopped between recording the delivery and storing the new credential:  *)
(* the rerun then only verifies the old one.                               *)
(***************************************************************************)
RerunResumes ==
    [][\A r \in Runs :
          ~At(r, "idle") /\ run'[r] \in {Ended("refused"), Ended("unverified")}
          => Verdict(run[r].bundle, pending[run[r].bundle].key) # "replayed"]_enrollVars
=============================================================================
