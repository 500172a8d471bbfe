---------------------------- MODULE AgentRouting ----------------------------
(***************************************************************************)
(* How the mission scheduler routes a ready work item to an idle agent:    *)
(* the role-fit score of an agent for an item, and the choice of the best  *)
(* agent (src/mission/scheduler.rs, "Agent Routing").                      *)
(*                                                                         *)
(* An agent is reduced to its lane, the one thing the score reads of it;   *)
(* the role aliases and the substring heuristics on agent names that       *)
(* compute a lane from a name are not modelled.                            *)
(***************************************************************************)
EXTENDS Integers, FiniteSets

WorkKind == {"Design", "Implement", "Test", "Review", "MergeGate", "Followup"}

BuilderLane == {"Backend", "Frontend", "Devops"}

AgentLane ==
  BuilderLane \cup {"Tester", "Reviewer", "Runner", "Researcher", "Generalist"}

\* The role an agent of a lane answers to; an item may also name no role.
LaneRole ==
  [Backend |-> "backend", Frontend |-> "frontend", Devops |-> "devops",
   Tester |-> "tester", Reviewer |-> "reviewer", Runner |-> "runner",
   Researcher |-> "researcher", Generalist |-> "worker"]

NoRole == "none"

OwnerRole == {LaneRole[lane] : lane \in AgentLane} \cup {NoRole}

\* One row of a score table: the three builder lanes share a column.
Row(builder, generalist, tester, reviewer, runner, researcher) ==
  [lane \in AgentLane |->
     CASE lane \in BuilderLane    -> builder
       [] lane = "Generalist"     -> generalist
       [] lane = "Tester"         -> tester
       [] lane = "Reviewer"       -> reviewer
       [] lane = "Runner"         -> runner
       [] lane = "Researcher"     -> researcher]

\* kind_fallback_score: an item that names no role.
KindFallbackScore ==
  [Implement |-> Row(60, 60,  5,   0, 35, 35),
   Test      |-> Row(45, 45, 85,  10, 30, 30),
   Review    |-> Row( 5, 20,  5, 100,  5, 35),
   Design    |-> Row(55, 55, 10,  30, 20, 75),
   MergeGate |-> Row(35, 35, 10,  50, 80, 20),
   Followup  |-> Row(50, 50, 20,  10, 35, 50)]

\* mismatch_fallback_score: an item that names a role the agent does not have.
MismatchScore(kind, role) ==
  CASE role \in {"backend", "frontend", "devops"} ->
         Row(35, 55, IF kind = "Implement" THEN 5 ELSE 15, 0, 20, 20)
    [] role = "tester"   -> Row(30, 45, 100, 5, 20, 20)
    [] role = "reviewer" -> Row(0, 10, 0, 100, 0, 20)
    [] OTHER             -> KindFallbackScore[kind]

\* The base score of score_agent_match.
RoleFit(kind, role, lane) ==
  IF kind = "Review" /\ lane = "Reviewer" THEN 120
  ELSE IF role = LaneRole[lane] THEN 100
  ELSE IF role = NoRole THEN KindFallbackScore[kind][lane]
  ELSE MismatchScore(kind, role)[lane]

\* Every assignment already made in this tick costs the agent this much.
LoadPenalty == 30

MatchScore(kind, role, lane, load) ==
  RoleFit(kind, role, lane) - LoadPenalty * load

\* find_best_agent: the idle agents one of which the scheduler picks (the sort
\* is by score alone, so a tie falls to the order Redis lists the agents in);
\* nobody when no score is positive. Lane and load are functions on idle.
BestAgents(kind, role, idle, lane, load) ==
  LET total(a) == MatchScore(kind, role, lane[a], load[a])
  IN  {a \in idle : total(a) > 0 /\ \A b \in idle : total(b) <= total(a)}
=============================================================================
