CONSTANTS
  design = design
  build = build
  notes = notes
  coder = coder
  tester = tester
  reviewer = reviewer
  NoAgent = NoAgent
  Items = {design, build}
  Agents = {coder, reviewer}
  DependsOn <- ItemsDependsOn
  Kind <- ItemsKind
  Role <- ItemsRole
  Lane <- AgentsLane
  WatchKinds = {"PrChecks"}
  MaxParallel = 2
  ReviewerRequired = TRUE
  MaxFailures = 1
  FilteredDispatch = FALSE
  Disturbances = {"fail"}
  MaxDisturbances = 1
  MaxTasks = 6
SPECIFICATION Spec
INVARIANT
  CompletedMeansDone
CHECK_DEADLOCK FALSE
