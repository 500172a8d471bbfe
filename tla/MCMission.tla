------------------------------ MODULE MCMission ------------------------------
(***************************************************************************)
(* Instances of Mission for TLC: the missions and towns the runs check.    *)
(***************************************************************************)
EXTENDS Mission, TLC

CONSTANTS design, build, notes, coder, tester, reviewer

\* A design, an implementation that depends on it and is gated, and follow-up
\* work that depends on nothing.
MCDependsOn == (design :> {}) @@ (build :> {design}) @@ (notes :> {})

MCKind == (design :> "Design") @@ (build :> "Implement") @@ (notes :> "Followup")

\* The implementation names a role nobody has: it falls back on the generalist.
MCRole == (design :> NoRole) @@ (build :> "backend") @@ (notes :> NoRole)

\* A builder, a tester and the one reviewer.
MCLane == (coder :> "Generalist") @@ (tester :> "Tester") @@ (reviewer :> "Reviewer")

\* The same constants restricted to the items and agents of an instance.
ItemsDependsOn == [i \in Items |-> MCDependsOn[i] \cap Items]
ItemsKind == [i \in Items |-> MCKind[i]]
ItemsRole == [i \in Items |-> MCRole[i]]
AgentsLane == [a \in Agents |-> MCLane[a]]
=============================================================================
