------------------------------- MODULE MCLedger -------------------------------
(***************************************************************************)
(* An instance of the reservation ledger alone: no team manages a task.    *)
(***************************************************************************)
EXTENDS ReservationLedger

CONSTANTS u1, u2, u3, v1, v2

Person(u, mode, service, role) ==
    [user |-> u, mode |-> mode, service |-> service, profile |-> service, crew |-> service,
     role |-> role]

\* A coordinator with two workers, an independent member of another service, a person.
Coordinator == Person(u1, "team", v1, "coordinator")
Worker(u) == Person(u, "team", v1, "worker")
MCMembers ==
    {Coordinator, Worker(u2), Worker(u3), Person(u1, "team", v2, "independent"),
     Person(u2, "personal", "none", "none")}

Plain(s) == [state |-> s, archived |-> FALSE, deps |-> {}]
MCContents ==
    {Plain(s) : s \in {"READY", "BLOCKED", "REVIEW", "DONE", "CANCELLED"}}
       \cup {[state |-> "DONE", archived |-> TRUE, deps |-> {}]}

LedgerAloneInit == StoreInit /\ LedgerInit
LedgerAloneNext == (StoreNext /\ UNCHANGED ledgerVars) \/ LedgerNext
ledgerAloneVars == <<storeVars, ledgerVars>>
=============================================================================
