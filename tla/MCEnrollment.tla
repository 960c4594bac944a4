----------------------------- MODULE MCEnrollment -----------------------------
(***************************************************************************)
(* Every bundle is redeemed under one entry of hub.json.                   *)
(***************************************************************************)
EXTENDS Enrollment

MCHubName(b) == "pilot"
=============================================================================
