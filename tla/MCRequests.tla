----------------------------- MODULE MCRequests -----------------------------
(***************************************************************************)
(* One client sends a create, an update, a triage and a comment, retries   *)
(* each, and reuses a key with another input.                              *)
(***************************************************************************)
EXTENDS TaskRequests, TLC

CONSTANTS t1, t2, a1

Cmd(op, scope, key, state, archived, txt, rev) ==
    [actor |-> a1, op |-> op, scope |-> scope, key |-> key,
     content |-> [state |-> state, archived |-> archived, deps |-> {}],
     text |-> txt, revision |-> rev]

MCCommands ==
    {Cmd("create", NoTask, "k1", "BACKLOG", FALSE, "flagged", 0),
     Cmd("create", NoTask, "k1", "BACKLOG", FALSE, "plain", 0),
     Cmd("update", t1, "k2", "DONE", TRUE, "flagged", 1),
     Cmd("triage", t1, "k3", "READY", FALSE, "plain", 1),
     Cmd("comment", t1, "k4", "BACKLOG", FALSE, "flagged", 0)}

MCContents == {c.content : c \in MCCommands}
=============================================================================
