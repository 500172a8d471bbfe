CONSTANTS
  design = design
  build = build
  notes = notes
  coder = coder
  tester = tester
  reviewer = reviewer
  NoAgent = NoAgent
  Items = {design, build}
  Agents = {coder, reviewer}
  DependsOn <- ItemsDependsOn
  Kind <- ItemsKind
  Role <- ItemsRole
  Lane <- AgentsLane
  WatchKinds = {"PrChecks"}
  MaxParallel = 1
  ReviewerRequired = TRUE
  MaxFailures = 1
  FilteredDispatch = FALSE
  Disturbances = {"reject", "fail", "error", "round", "busy"}
  MaxDisturbances = 2
  MaxTasks = 7
SPECIFICATION FairSpec
PROPERTIES
  MissionCompletes
  ReviewIsRequested
CHECK_DEADLOCK FALSE
