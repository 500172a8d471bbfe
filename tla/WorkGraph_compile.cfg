CONSTANTS
  here = here
  there = there
  Issues <- SomeIssues
  Numbers = {1, 2, 3}
  Manifests <- SomeManifests
  MaxObjectives = 3
  MaxDeclared = 1
SPECIFICATION Spec
INVARIANTS
  DeclaredOrderIsKept
  RefusedForACycle
PROPERTIES
  ImplementsOrder
CHECK_DEADLOCK FALSE
