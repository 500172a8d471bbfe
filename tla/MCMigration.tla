----------------------------- MODULE MCMigration -----------------------------
(***************************************************************************)
(* Instances of Migration for TLC: a record of each kind and two lists.    *)
(***************************************************************************)
EXTENDS Migration

CONSTANTS worker, todo, mail, backlog

MCKindOf ==
  [k \in Keys |-> CASE k = worker -> "agent" [] k = todo -> "task"
                    [] k = mail -> "inbox" [] OTHER -> "backlog"]
=============================================================================
