----------------------------- MODULE WorkGraph ------------------------------
(***************************************************************************)
(* From the objectives of a mission to its work items:                     *)
(* build_mission_work_items (src/mission/bootstrap.rs) asks GitHub for each *)
(* issue and reads from its text which issues it depends on, and           *)
(* WorkGraphCompiler::compile (src/mission/compiler.rs) makes items of     *)
(* them and sorts these by Kahn's algorithm.                               *)
(*                                                                         *)
(* An item is identified by the position of its issue among those of the   *)
(* objectives. Titles, kinds and owner roles decide nothing here.          *)
(***************************************************************************)
EXTENDS Integers, Sequences, FiniteSets, SequencesExt

CONSTANTS
  Issues,         \* issues a mission may be about: pairs of a repository and a number
  Numbers,        \* issue numbers that an issue, its text or a manifest may name
  Manifests,      \* manifests a caller may give: functions from some of Numbers to Entry
  MaxObjectives,  \* bound: objectives of a mission
  MaxDeclared     \* bound: issues one text depends on

Entry == [skip : BOOLEAN, depends_on : SUBSET Numbers]

ASSUME WorkGraphConstants ==
  /\ MaxObjectives \in Nat
  /\ \A issue \in Issues : issue[2] \in Numbers
  /\ \A m \in Manifests : DOMAIN m \subseteq Numbers /\ m \in [DOMAIN m -> Entry]

VARIABLES
  phase,       \* how far the start of the mission has come
  parsed,      \* the issues, in the order of the objectives
  docs,        \* how many of the objectives are documents
  manifest,    \* the overrides compile was given
  depends_on,  \* for each item the items it depends on
  in_degree,   \* for each item how many of these are not sorted yet
  queue,       \* items that wait for nothing
  sorted       \* the items of the work graph so far

vars == <<phase, parsed, docs, manifest, depends_on, in_degree, queue, sorted>>

Position == 1 .. MaxObjectives

Objectives == Len(parsed) + docs

----------------------------------------------------------------------------
(* Reading the objectives *)

Init ==
  /\ phase = "reading"
  /\ parsed = <<>>
  /\ docs = 0
  /\ manifest \in Manifests
  /\ depends_on = <<>>
  /\ in_degree = <<>>
  /\ queue = <<>>
  /\ sorted = <<>>

\* What parse_issue makes of an issue. An issue that gh cannot show is given an
\* empty text, so it depends on nothing. `text` is what the issue really says.
Parsed(issue, text, shown) ==
  [repo |-> issue[1], number |-> issue[2], text |-> text,
   depends_on |-> IF shown THEN text ELSE {}]

ReadIssue ==
  /\ phase = "reading"
  /\ Objectives < MaxObjectives
  /\ \E issue \in Issues, shown \in BOOLEAN,
        text \in {T \in SUBSET Numbers : Cardinality(T) <= MaxDeclared} :
       parsed' = Append(parsed, Parsed(issue, text, shown))
  /\ UNCHANGED <<phase, docs, manifest, depends_on, in_degree, queue, sorted>>

ReadDoc ==
  /\ phase = "reading"
  /\ Objectives < MaxObjectives
  /\ docs' = docs + 1
  /\ UNCHANGED <<phase, parsed, manifest, depends_on, in_degree, queue, sorted>>

\* gh answers with something that is not the JSON of an issue.
AnswerIsMalformed ==
  /\ phase = "reading"
  /\ Objectives < MaxObjectives
  /\ phase' = "failed"
  /\ UNCHANGED <<parsed, docs, manifest, depends_on, in_degree, queue, sorted>>

----------------------------------------------------------------------------
(* Compiling *)

Overridden(i) == parsed[i].number \in DOMAIN manifest

Skipped(i) == Overridden(i) /\ manifest[parsed[i].number].skip

Kept == {i \in DOMAIN parsed : ~ Skipped(i)}

\* Wrong on purpose: an override always replaces the dependencies.
DeclaredOrNothing(i) ==
  IF Overridden(i) THEN manifest[parsed[i].number].depends_on ELSE parsed[i].depends_on

\* The issues that issue i depends on: what the manifest says, unless it says nothing.
Declared(i) ==
  IF Overridden(i) /\ manifest[parsed[i].number].depends_on # {}
  THEN manifest[parsed[i].number].depends_on
  ELSE parsed[i].depends_on

\* The item of an issue number. A later issue of that number replaces the earlier.
WithNumber(n) == {i \in Kept : parsed[i].number = n}

IssueMap(n) == CHOOSE i \in WithNumber(n) : \A j \in WithNumber(n) : j <= i

\* The items behind the numbers issue i depends on; unknown numbers are dropped.
Resolved(i) == {IssueMap(n) : n \in {n \in Declared(i) : WithNumber(n) # {}}}

\* compile goes through the issues, and each sets what the item of its number
\* depends on, unless that is nothing.
DependsOn(i) ==
  LET setters == {j \in WithNumber(parsed[i].number) : Resolved(j) # {}}
      last == CHOOSE j \in setters : \A k \in setters : k <= j
  IN IF i = IssueMap(parsed[i].number) /\ setters # {} THEN Resolved(last) ELSE {}

\* The queue starts with the items that wait for nothing, in any order, since the
\* map they are taken from has none.
Compile ==
  /\ phase = "reading"
  /\ parsed # <<>>
  /\ phase' = "sorting"
  /\ depends_on' = [i \in Kept |-> DependsOn(i)]
  /\ in_degree' = [i \in Kept |-> Cardinality(DependsOn(i))]
  /\ queue' \in SetToSeqs({i \in Kept : DependsOn(i) = {}})
  /\ UNCHANGED <<parsed, docs, manifest, sorted>>

Dependents(i) == {j \in DOMAIN depends_on : i \in depends_on[j]}

\* Who has nothing left to wait for once i is sorted.
Freed(i) == {j \in Dependents(i) : in_degree[j] = 1}

\* The next of the queue is sorted, and whoever waited for nothing else joins the
\* queue, in the order in which that same map was gone through.
Sort ==
  /\ phase = "sorting"
  /\ queue # <<>>
  /\ LET i == Head(queue) IN
       /\ sorted' = Append(sorted, i)
       /\ in_degree' =
            [j \in DOMAIN in_degree |-> in_degree[j] - (IF j \in Dependents(i) THEN 1 ELSE 0)]
       /\ \E freed \in SetToSeqs(Freed(i)) : queue' = Tail(queue) \o freed
  /\ UNCHANGED <<phase, parsed, docs, manifest, depends_on>>

\* Wrong on purpose: skipped items are counted.
AllParsedSorted == Len(sorted) = Len(parsed)

\* Wrong on purpose: the comparison is the wrong way round.
AtMostAllSorted == Len(sorted) <= Cardinality(DOMAIN depends_on)

AllSorted == Len(sorted) = Cardinality(DOMAIN depends_on)

Return ==
  /\ phase = "sorting"
  /\ queue = <<>>
  /\ phase' = IF AllSorted THEN "compiled" ELSE "cycle"
  /\ UNCHANGED <<parsed, docs, manifest, depends_on, in_degree, queue, sorted>>

\* Documents alone are items without compiling.
ReturnDocs ==
  /\ phase = "reading"
  /\ parsed = <<>>
  /\ docs > 0
  /\ phase' = "documents"
  /\ UNCHANGED <<parsed, docs, manifest, depends_on, in_degree, queue, sorted>>

----------------------------------------------------------------------------

Next ==
  \/ ReadIssue
  \/ ReadDoc
  \/ AnswerIsMalformed
  \/ Compile
  \/ Sort
  \/ Return
  \/ ReturnDocs

\* One call of one function: it runs to its end.
Spec == Init /\ [][Next]_vars /\ WF_vars(Next)

----------------------------------------------------------------------------
(* Properties *)

\* The compiler lists items as an abstract topological order may: each after all it
\* depends on, all of them in the end, and it reports a cycle exactly when some
\* items depend on each other in a circle, whatever the order of its hash maps. The sort
\* comes to an end, with a graph or with an error, on every graph.
Order == INSTANCE TopologicalOrder WITH
  Item <- Position,
  needs <- depends_on,
  order <- sorted,
  verdict <- CASE phase = "sorting" -> "open"
               [] phase = "compiled" -> "listed"
               [] phase = "cycle" -> "refused"
               [] OTHER -> "none"

ImplementsOrder == Order!Spec

\* Issue i says in its text, in the way of its own repository, that it comes after j.
Says(i, j) == parsed[i].repo = parsed[j].repo /\ parsed[j].number \in parsed[i].text

\* Only one issue of the mission has this one's number, whatever its repository.
OnlyOfItsNumber(i) == \A j \in Kept : parsed[j].number = parsed[i].number => j = i

\* GitHub showed this issue, and no manifest gave it other dependencies.
TakenAtItsWord(i) ==
  /\ parsed[i].depends_on = parsed[i].text
  /\ Overridden(i) => manifest[parsed[i].number].depends_on = {}

Precedes(i, j) == \E m, n \in DOMAIN sorted : m < n /\ sorted[m] = i /\ sorted[n] = j

\* What an issue says it comes after does come before it. It takes an answer from
\* GitHub for the issue, and that no issue, of this or of another repository, shares
\* its number or the number of the one it names.
DeclaredOrderIsKept ==
  phase = "compiled" =>
    \A i, j \in Kept :
      Says(i, j) /\ TakenAtItsWord(i) /\ OnlyOfItsNumber(i) /\ OnlyOfItsNumber(j)
        => Precedes(j, i)

\* A mission whose issues are all of one repository is refused only because they go
\* round in a circle by their own words. An answer missing from GitHub, an issue
\* that is not of the mission and an issue given twice cannot make a circle. A
\* manifest can, and so can a number that stands for issues of two repositories.
RefusedForACycle ==
  phase = "cycle" /\ (\A i \in Kept : ~ Overridden(i))
                  /\ (\A i, j \in Kept : parsed[i].repo = parsed[j].repo) =>
    \E S \in (SUBSET Kept) \ {{}} : \A i \in S : \E j \in S : Says(i, j)
=============================================================================
