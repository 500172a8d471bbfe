CONSTANTS
  loop = loop
  shell = shell
  build = build
  Free = Free
  Dead = Dead
  Dispatchers = {loop}
  Operators = {shell}
  Items = {build}
  Notes = {1}
  Commands = {"resume", "stop", "fail", "complete", "delete", "note", "mcp_pause", "mcp_resume", "mcp_note", "dispatch"}
  MaxCommands = 2
  MaxAccidents = 1
SPECIFICATION FairSpec
INVARIANTS
  TypeOK
  LeaseIsHeld
  RunningIsActive
  HandedOutOnce
PROPERTIES
  EndedStaysEnded
  WatchStaysDone
  CompletedHasItems
  NoteTakesEffectOnce
  NoteIsProcessed
CHECK_DEADLOCK FALSE
