----------------------------- MODULE TeamMessages -----------------------------
(***************************************************************************)
(* Messages of a team (internal/store/team_messages.go) and the routes     *)
(* that serve them (internal/server/team_messages.go): a send stores one   *)
(* message and one delivery for every recipient of that moment; a read of  *)
(* the inbox records a delivery attempt before it answers; only an         *)
(* explicit acknowledgement ends a delivery.  The answer to a send or to a *)
(* read may be lost; the client repeats the send under its key, and the    *)
(* read from the cursor of the last page it received, or from zero.        *)
(***************************************************************************)
EXTENDS Naturals, FiniteSets, Sequences

CONSTANTS
    Members,            \* session IDs
    SendKeys,           \* retry keys of a session's sends
    Quota,              \* AIMEM_TEAM_MAX_MESSAGES
    PageLimit,
    MaxMessages,        \* bound: messages of all kinds
    MaxMemberGeneration \* bound: resumes per session

ASSUME MessageAssumption ==
    Quota \in Nat /\ MaxMessages \in Nat /\ PageLimit \in Nat \ {0}

VARIABLES
    member,     \* per session: generation, 0 before it joins; present; enrolled
    messages,   \* team_messages in the order of their sequence
    inbox,      \* team_deliveries: per session, from message to its delivery
    sendKeys,   \* receipts of sends: per session and key, the message's sequence
    reader      \* per session, its client: cursor, messages seen, page under way

messageVars == <<member, messages, inbox, sendKeys, reader>>

None == 0

MessagesInit ==
    /\ member = [s \in Members |-> [generation |-> 1, present |-> TRUE, enrolled |-> TRUE]]
    /\ messages = <<>>
    /\ inbox = [s \in Members |-> [m \in {} |-> 0]]
    /\ sendKeys = [s \in Members |-> [k \in SendKeys |-> None]]
    /\ reader = [s \in Members |-> [generation |-> 1, cursor |-> 0, seen |-> {}, page |-> <<>>]]

(***************************************************************************)
(* boundTeamSession admits an enrolled session's own token, whatever its   *)
(* generation; a new effect needs the current one.                         *)
(***************************************************************************)
Bound(s) == member[s].enrolled

CurrentHandle(s) == member[s].present /\ reader[s].generation = member[s].generation

\* messageRecipients, lifecycleRecipients: active and still enrolled.
Active(s) == member[s].present /\ member[s].enrolled

\* All that writes a message: its row and its deliveries, in one transaction.
Deliver(author, to) ==
    LET n == Len(messages) + 1 IN
    /\ n <= MaxMessages
    /\ messages' = Append(messages, [from |-> author, to |-> to])
    /\ inbox' = [s \in Members |->
          IF s \in to
          THEN [m \in DOMAIN inbox[s] \cup {n} |->
                   IF m = n THEN [attempts |-> 0, acked |-> FALSE] ELSE inbox[s][m]]
          ELSE inbox[s]]

\* SendTeamMessage; the quota counts every message of the team, the hub's too.
Send(s, k, to) ==
    /\ Bound(s)
    /\ sendKeys[s][k] = None
    /\ CurrentHandle(s)
    /\ Len(messages) < Quota
    /\ to # {} /\ to \subseteq {r \in Members : Active(r)}
    /\ Cardinality(to) = 1 \/ to = {r \in Members : Active(r)}
    /\ Deliver(s, to)
    /\ sendKeys' = [sendKeys EXCEPT ![s][k] = Len(messages) + 1]
    /\ UNCHANGED <<member, reader>>

\* lifecycleMessage: written with the transition it tells of, outside the quota,
\* and never to the session that acted.
LifecycleMessage(actor, to) ==
    /\ to \subseteq {r \in Members \ {actor} : Active(r)}
    /\ Deliver("hub", to)
    /\ UNCHANGED <<member, sendKeys, reader>>

(***************************************************************************)
(* TeamMessages on the inbox: one page of unacknowledged deliveries after  *)
(* the cursor, marked as attempted, and the cursor of its last message.    *)
(***************************************************************************)
Open(s) == {m \in DOMAIN inbox[s] : ~inbox[s][m].acked}

Page(s, after) ==
    {m \in Open(s) : m > after /\ Cardinality({o \in Open(s) : after < o /\ o < m}) < PageLimit}

Last(page, after) == CHOOSE m \in page \cup {after} : \A o \in page : o <= m

\* Mutant: the cursor is that of the row fetched to learn whether there is more.
NextCursor_LookAhead(s, after) ==
    LET beyond == {m \in Open(s) : m > after /\ m \notin Page(s, after)} IN
    IF beyond = {} THEN Last(Page(s, after), after)
    ELSE CHOOSE m \in beyond : \A o \in beyond : m <= o

NextCursor(s, after) == Last(Page(s, after), after)

ReadInbox(s, after) ==
    /\ Bound(s) /\ CurrentHandle(s)
    /\ reader[s].page = <<>>
    /\ after \in {0, reader[s].cursor}
    /\ Page(s, after) # {}
    /\ inbox' = [inbox EXCEPT ![s] = [m \in DOMAIN @ |->
          IF m \in Page(s, after) THEN [@[m] EXCEPT !.attempts = 1] ELSE @[m]]]
    /\ reader' = [reader EXCEPT ![s].page = <<Page(s, after), NextCursor(s, after)>>]
    /\ UNCHANGED <<member, messages, sendKeys>>

\* The page reaches the client, or is lost with the connection.
Receive(s) ==
    /\ reader[s].page # <<>>
    /\ reader' = [reader EXCEPT ![s].seen = @ \cup reader[s].page[1],
                                ![s].cursor = reader[s].page[2], ![s].page = <<>>]
    /\ UNCHANGED <<member, messages, inbox, sendKeys>>

LosePage(s) ==
    /\ reader[s].page # <<>>
    /\ reader' = [reader EXCEPT ![s].page = <<>>]
    /\ UNCHANGED <<member, messages, inbox, sendKeys>>

\* AckTeamMessages: a batch of messages attempted for this session, all or nothing.
Ack(s, batch) ==
    /\ Bound(s) /\ CurrentHandle(s)
    /\ batch # {} /\ batch \subseteq reader[s].seen
    /\ \A m \in batch : m \in DOMAIN inbox[s] /\ inbox[s][m].attempts > 0
    /\ inbox' = [inbox EXCEPT ![s] = [m \in DOMAIN @ |->
          IF m \in batch THEN [@[m] EXCEPT !.acked = TRUE] ELSE @[m]]]
    /\ UNCHANGED <<member, messages, sendKeys, reader>>

(***************************************************************************)
(* Membership.  A resume is made by a client that starts anew: it knows    *)
(* nothing and reads from zero.                                            *)
(***************************************************************************)
ResumeMember(s) ==
    /\ Active(s)
    /\ member[s].generation < MaxMemberGeneration
    /\ member' = [member EXCEPT ![s].generation = @ + 1]
    /\ reader' = [reader EXCEPT ![s] = [generation |-> member[s].generation + 1,
                                        cursor |-> 0, seen |-> {}, page |-> <<>>]]
    /\ UNCHANGED <<messages, inbox, sendKeys>>

\* ChangeTeamSession (leave), or ConfigureTeam takes the member off the team.
Depart(s) ==
    /\ Active(s)
    /\ \/ member' = [member EXCEPT ![s].present = FALSE]
       \/ member' = [member EXCEPT ![s].enrolled = FALSE]
    /\ UNCHANGED <<messages, inbox, sendKeys, reader>>

MessagesNext ==
    \/ \E s \in Members, k \in SendKeys, to \in SUBSET Members : Send(s, k, to)
    \/ \E s \in Members, to \in SUBSET Members : LifecycleMessage(s, to)
    \/ \E s \in Members : \E after \in {0, reader[s].cursor} : ReadInbox(s, after)
    \/ \E s \in Members : \E batch \in SUBSET reader[s].seen : Ack(s, batch)
    \/ \E s \in Members : Receive(s) \/ LosePage(s) \/ ResumeMember(s) \/ Depart(s)

MessagesSpec == MessagesInit /\ [][MessagesNext]_messageVars
-----------------------------------------------------------------------------
(***************************************************************************)
(* A client that goes on from the cursor of the last page it received      *)
(* misses nothing: every message addressed to its session up to the cursor *)
(* was in a page it saw, or was acknowledged, however sends, lost pages    *)
(* and resumes are interleaved with its reads.                             *)
(***************************************************************************)
CursorMissesNothing ==
    \A s \in Members :
       CurrentHandle(s) =>
          \A m \in DOMAIN inbox[s] :
             m <= reader[s].cursor => m \in reader[s].seen \/ inbox[s][m].acked
=============================================================================
