------------------------------- MODULE MCParts -------------------------------
(***************************************************************************)
(* Parts of the system that share no state here, one at a time: the part   *)
(* in focus moves and the others stay in their initial state.              *)
(*   reservations: the instance of MCLedger;                               *)
(*   projects: creates, appends, drops, renames and merges of two project  *)
(*     names through cached handles;                                       *)
(*   lookups: one lookup of two tasks while projects are renamed, merged   *)
(*     and dropped;                                                        *)
(*   labels: a hub and a machine that exchange facts and alias maps (the   *)
(*     instance of MCLabels);                                              *)
(*   enrollment: one code and two runs of the command that redeems it;     *)
(*   claims: two claims whose dependency graphs span both projects, with   *)
(*     edits that may close a cycle through them;                          *)
(*   merges: every merge of three short texts.                             *)
(***************************************************************************)
EXTENDS
    MCLedger, ProjectLifecycle, TaskLocator, MCLabels, MCEnrollment, DependencyClaim, Diff3

CONSTANTS g1, g2, g3, p1, p2, c1, c2

MCHome == (g1 :> p1) @@ (g2 :> p2) @@ (g3 :> p2)
MCFirstDeps == (g1 :> {g2}) @@ (g2 :> {}) @@ (g3 :> {g1})
MCClaimTask == (c1 :> g1) @@ (c2 :> g3)
MCEdits == {[state |-> "DONE", deps |-> {}], [state |-> "READY", deps |-> {g3}]}

\* The names of projects outside of the claims.
MCNames == CHOOSE f \in [Projects -> Names] : \A p, q \in Projects : f[p] = f[q] => p = q

VARIABLE focus

MCVars ==
    <<focus, ledgerAloneVars, lifecycleVars, locatorVars, aliasVars, enrollVars, claimVars, mergeVars>>

Focuses ==
    {"reservations", "projects", "lookups", "labels", "enrollment", "claims", "merges"}

\* Of a part not in focus, one initial state stands for all.
MCInit ==
    /\ focus \in Focuses
    /\ LedgerAloneInit /\ LifecycleInit /\ LocatorInit /\ AliasInit
    /\ EnrollInit /\ ClaimInit
    /\ focus # "lookups" => exists = LocProjects
    /\ \A s \in Sites :
          projects[s] \in IF focus = "labels" THEN {{"a"}, {"a", "b"}} ELSE {Labels}
    /\ focus # "claims" => name = MCNames
    /\ focus # "enrollment" => \A h \in HubNames : hubFile[h] = NoCredential
    /\ IF focus = "merges" THEN MergeInit
       ELSE texts = [base |-> <<>>, local |-> <<>>, hub |-> <<>>] /\ mergeResult = Returns("none", <<>>)

MCNext ==
    /\ UNCHANGED focus
    /\ \/ /\ focus = "reservations" /\ LedgerAloneNext
          /\ UNCHANGED <<lifecycleVars, locatorVars, aliasVars, enrollVars, claimVars, mergeVars>>
       \/ /\ focus = "projects" /\ LifecycleNext
          /\ UNCHANGED <<ledgerAloneVars, locatorVars, aliasVars, enrollVars, claimVars, mergeVars>>
       \/ /\ focus = "lookups" /\ LocatorNext
          /\ UNCHANGED <<ledgerAloneVars, lifecycleVars, aliasVars, enrollVars, claimVars, mergeVars>>
       \/ /\ focus = "labels" /\ AliasNext
          /\ UNCHANGED <<ledgerAloneVars, lifecycleVars, locatorVars, enrollVars, claimVars, mergeVars>>
       \/ /\ focus = "enrollment" /\ EnrollNext
          /\ UNCHANGED <<ledgerAloneVars, lifecycleVars, locatorVars, aliasVars, claimVars, mergeVars>>
       \/ /\ focus = "claims" /\ ClaimNext
          /\ UNCHANGED <<ledgerAloneVars, lifecycleVars, locatorVars, aliasVars, enrollVars, mergeVars>>
       \/ /\ focus = "merges" /\ MergeNext
          /\ UNCHANGED <<ledgerAloneVars, lifecycleVars, locatorVars, aliasVars, enrollVars, claimVars>>

MCSpec == MCInit /\ [][MCNext]_MCVars
=============================================================================
