------------------------------ MODULE MCLabels ------------------------------
(***************************************************************************)
(* A hub that serves two requests at a time and a machine that runs one    *)
(* command; or, in MCLabelsBack, the hub alone.                            *)
(***************************************************************************)
EXTENDS OriginAliases, TLC

MCSiteOf == "h1" :> "hub" @@ "h2" :> "hub" @@ "c1" :> "machine"
MCHubOnly == "h1" :> "hub"
=============================================================================
