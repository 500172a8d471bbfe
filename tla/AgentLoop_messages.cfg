CONSTANTS
  first = first
  second = second
  task = task
  other = other
  note = note
  Prompt = Prompt
  NoTask = NoTask
  First = first
  Loops = {first, second}
  Tasks = {task, other}
  Notes = {}
  MaxRounds = 1
  Disturbances = {"kill", "interrupt", "resume", "close", "restart", "mcp_restart", "recover", "prune", "prune_all", "round", "crash", "expiry"}
  MaxDisturbances = 3
SPECIFICATION Spec
INVARIANTS
  TypeOK
  MessageInOnePlace
CHECK_DEADLOCK FALSE
