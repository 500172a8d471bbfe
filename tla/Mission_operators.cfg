CONSTANTS
  design = design
  build = build
  notes = notes
  coder = coder
  tester = tester
  reviewer = reviewer
  NoAgent = NoAgent
  Items = {design, build}
  Agents = {coder, reviewer}
  DependsOn <- ItemsDependsOn
  Kind <- ItemsKind
  Role <- ItemsRole
  Lane <- AgentsLane
  WatchKinds = {"PrChecks"}
  MaxParallel = 1
  ReviewerRequired = TRUE
  MaxFailures = 1
  FilteredDispatch = TRUE
  Disturbances = {"late", "reject", "fail", "error", "pause", "redirect", "stop", "crash", "busy", "death", "cancel", "prune", "mcp_complete", "mcp_approve", "mcp_reject"}
  MaxDisturbances = 2
  MaxTasks = 5
SPECIFICATION Spec
INVARIANTS
  TypeOK
  GateHolds
  HandedOutOnce
CHECK_DEADLOCK FALSE
