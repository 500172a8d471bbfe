CONSTANTS
  worker = worker
  todo = todo
  mail = mail
  backlog = backlog
  Keys = {worker, todo, mail}
  KindOf <- MCKindOf
  MaxWrites = 2
  MaxCrashes = 1
SPECIFICATION Spec
INVARIANTS
  NothingLost
PROPERTIES
  LeavesOnlyReported
  Converges
CHECK_DEADLOCK FALSE
