-------------------------- MODULE TopologicalOrder --------------------------
(***************************************************************************)
(* What the work graph compiler promises (src/mission/compiler.rs): given  *)
(* items and what each of them needs, it lists every item after all it     *)
(* needs, and refuses exactly the graphs that go round in a circle. How it *)
(* finds the next item, and in which order it lists those that do not need *)
(* each other, is left open.                                               *)
(***************************************************************************)
EXTENDS Sequences, FiniteSets

CONSTANT Item

VARIABLES
  needs,   \* the graph: for each item the items it needs
  order,   \* the items listed so far
  verdict  \* none before there is a graph, open, listed or refused

vars == <<needs, order, verdict>>

Listed == {order[n] : n \in DOMAIN order}

\* Some items each of which needs another of them, or itself.
Circular(graph) ==
  \E S \in (SUBSET DOMAIN graph) \ {{}} : \A i \in S : graph[i] \cap S # {}

Init ==
  /\ needs = <<>>
  /\ order = <<>>
  /\ verdict = "none"

Pose ==
  /\ verdict = "none"
  /\ verdict' = "open"
  /\ \E I \in SUBSET Item : needs' \in [I -> SUBSET I]
  /\ UNCHANGED order

List(i) ==
  /\ verdict = "open"
  /\ i \notin Listed
  /\ needs[i] \subseteq Listed
  /\ order' = Append(order, i)
  /\ UNCHANGED <<needs, verdict>>

Finish ==
  /\ verdict = "open"
  /\ Listed = DOMAIN needs
  /\ verdict' = "listed"
  /\ UNCHANGED <<needs, order>>

Refuse ==
  /\ verdict = "open"
  /\ Circular(needs)
  /\ verdict' = "refused"
  /\ UNCHANGED <<needs, order>>

Next == Pose \/ (\E i \in DOMAIN needs : List(i)) \/ Finish \/ Refuse

\* A graph gets its verdict in the end.
Decided == (verdict = "open") ~> (verdict # "open")

\* What it may never do, and that it comes to an end.
Safety == Init /\ [][Next]_vars

Spec == Safety /\ Decided
=============================================================================
