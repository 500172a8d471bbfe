CONSTANTS
  task = task
  other = other
  coder = coder
  tester = tester
  shell = shell
  server = server
  NoAgent = NoAgent
  NoTask = NoTask
  Tasks = {task}
  Agents = {coder, tester}
  Clients = {shell, server}
  Disturbances = {"mistype", "remove", "reclaim", "reclaim_to", "requeue", "cancel", "delete", "forget", "fail", "stop", "prune", "crash", "client_crash", "finish"}
  MaxDisturbances = 3
SPECIFICATION Spec
INVARIANTS
  TypeOK
  HandedOutOnce
  NothingStranded
PROPERTY
  FinishedStays
SYMMETRY Symmetry
CHECK_DEADLOCK FALSE
