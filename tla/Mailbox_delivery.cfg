CONSTANTS
  cli = cli
  server = server
  Filters = {cli, server}
  Kinds = {"task", "note", "high", "urgent", "help", "report"}
  MaxSent = 3
  MaxFailures = 1
  MaxAccidents = 1
SPECIFICATION Spec
INVARIANTS
  NothingLost
  WaitsOnce
  KeepsOrder
  UrgentFirst
PROPERTIES
  IsServed
CHECK_DEADLOCK FALSE
