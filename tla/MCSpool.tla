------------------------------- MODULE MCSpool -------------------------------
(***************************************************************************)
(* Clients of one machine: hooks that may be killed, an import, or the     *)
(* succession of hooks of a client that goes on.                           *)
(***************************************************************************)
EXTENDS Spool, TLC

Symmetry == Permutations(Files) \cup Permutations(Names) \cup Permutations(Records)
=============================================================================
