----------------------------- MODULE MCTaskBoard -----------------------------
(***************************************************************************)
(* Instances of TaskBoard for TLC.                                         *)
(***************************************************************************)
EXTENDS TaskBoard, TLC

CONSTANTS task, other, coder, tester, shell, server

\* Agents differ in nothing, nor do processes that run commands.
Symmetry == Permutations(Agents) \cup Permutations(Clients)
=============================================================================
