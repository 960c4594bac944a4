------------------------------- MODULE MCSync -------------------------------
(***************************************************************************)
(* One machine whose clock is one unit ahead of the hub's, two projects,   *)
(* of which one exists from the start, and two events.                     *)
(***************************************************************************)
EXTENDS EventSync, TLC

MCEventProject == "e1" :> "p" @@ "e2" :> "q"
MCLateProject == "e1" :> "q" @@ "e2" :> "q"
MCSkew == "m1" :> 1
=============================================================================
