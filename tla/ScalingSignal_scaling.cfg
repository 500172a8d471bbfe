CONSTANTS
  task = task
  coder = coder
  shell = shell
  entry = entry
  NoAgent = NoAgent
  NoTask = NoTask
  Tasks = {task}
  Agents = {coder}
  Clients = {shell}
  Disturbances = {"stop", "reclaim", "fail", "finish", "forget", "crash", "client_crash"}
  MaxDisturbances = 2
  Entries = {entry}
  Streams = {FALSE, TRUE}
  MaxAgents = 2
  MaxFailures = 1
SPECIFICATION SignalSpec
PROPERTIES
  ZeroOnlyWithoutWork
  
  
CHECK_DEADLOCK FALSE
