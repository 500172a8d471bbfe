---------------------------- MODULE MCWorkGraph -----------------------------
(***************************************************************************)
(* Instances of WorkGraph for TLC.                                         *)
(***************************************************************************)
EXTENDS WorkGraph, TLC

CONSTANTS here, there

\* The number of one issue is also that of an issue of another repository.
SomeIssues == {<<here, 1>>, <<here, 2>>, <<here, 3>>, <<there, 1>>}

\* No manifest, one that skips an issue, and one that says nothing of an issue and
\* gives another two dependencies.
SomeManifests ==
  {<<>>,
   (2 :> [skip |-> TRUE, depends_on |-> {}]),
   (2 :> [skip |-> FALSE, depends_on |-> {}]) @@ (3 :> [skip |-> FALSE, depends_on |-> {1, 2}])}
=============================================================================
