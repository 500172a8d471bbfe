CONSTANTS
  design = design
  build = build
  notes = notes
  coder = coder
  tester = tester
  reviewer = reviewer
  NoAgent = NoAgent
  Items = {design, build, notes}
  Agents = {coder, reviewer}
  DependsOn <- ItemsDependsOn
  Kind <- ItemsKind
  Role <- ItemsRole
  Lane <- AgentsLane
  WatchKinds = {"PrChecks"}
  MaxParallel = 1
  ReviewerRequired = TRUE
  MaxFailures = 1
  FilteredDispatch = FALSE
  Disturbances = {"late", "fail", "error", "stop", "round", "busy", "death", "reclaim"}
  MaxDisturbances = 2
  MaxTasks = 4
SPECIFICATION Spec
INVARIANTS
  StartedItemMoves
PROPERTIES
  DependenciesFirst
  HandOutWithinLimit
CHECK_DEADLOCK FALSE
