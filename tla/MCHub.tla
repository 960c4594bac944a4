-------------------------------- MODULE MCHub --------------------------------
(***************************************************************************)
(* Both coordination mechanisms and ordinary writers on one task.          *)
(***************************************************************************)
EXTENDS HubCoordination, TLC

CONSTANTS u1, u2, k1, k2, v1

MCUserOf == k1 :> u1 @@ k2 :> u2
MCConfigurations == {[u \in Users |-> IF u = u1 THEN "coordinator" ELSE "member"]}

Person(u, mode, service, role) ==
    [user |-> u, mode |-> mode, service |-> service, profile |-> service, crew |-> service,
     role |-> role]
MCMembers ==
    {Person(u1, "team", v1, "coordinator"), Person(u2, "team", v1, "worker"),
     Person(u1, "personal", "none", "none")}

MCContents ==
    {[state |-> s, archived |-> FALSE, deps |-> {}] : s \in {"READY", "BLOCKED", "DONE"}}

Symmetry == Permutations(Sessions) \cup Permutations(Attempts)
=============================================================================
