----------------------------- MODULE MCCommands -----------------------------
(***************************************************************************)
(* Five parts of a hub or a user's machine that share no state, one at a   *)
(* time: the part in focus moves, the others stay in their initial state.  *)
(*   requests: the commands of MCRequests;                                 *)
(*   messages: two sessions of a team, sends, pages and acknowledgements;  *)
(*   facts: two copies of a project's curated facts, requests, the curator *)
(*     and syncs one after another;                                        *)
(*   events: the instance of MCSync;                                       *)
(*   documents: a document and one machine, two workers that run any       *)
(*     operation, its user and an agent.                                   *)
(***************************************************************************)
EXTENDS MCRequests, TeamMessages, Memories, MCSync, SharedDocs

\* The texts of facts are about one topic.
MCTopic == [t \in Texts |-> "topic"]

VARIABLE focus

MCVars == <<focus, taskRequestVars, memoryVars, messageVars, syncVars, docsVars>>

MCInit ==
    /\ focus \in {"requests", "facts", "messages", "events", "documents"}
    /\ RequestsInit /\ MessagesInit /\ MemoriesInit /\ EventSyncInit /\ DocsInit
    /\ focus # "requests" => enabled

MCNext ==
    /\ UNCHANGED focus
    /\ \/ /\ focus = "requests" /\ RequestsNext
          /\ UNCHANGED <<memoryVars, messageVars, syncVars, docsVars>>
       \/ /\ focus = "facts" /\ MemoriesNext
          /\ UNCHANGED <<taskRequestVars, messageVars, syncVars, docsVars>>
       \/ /\ focus = "messages" /\ MessagesNext
          /\ UNCHANGED <<taskRequestVars, memoryVars, syncVars, docsVars>>
       \/ /\ focus = "events" /\ EventSyncNext
          /\ UNCHANGED <<taskRequestVars, memoryVars, messageVars, docsVars>>
       \/ /\ focus = "documents" /\ DocsNext
          /\ UNCHANGED <<taskRequestVars, memoryVars, messageVars, syncVars>>

MCSpec == MCInit /\ [][MCNext]_MCVars
=============================================================================
