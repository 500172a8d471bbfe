CONSTANTS
  first = first
  second = second
  task = task
  other = other
  note = note
  Prompt = Prompt
  NoTask = NoTask
  First = first
  Loops = {first}
  Tasks = {task, other}
  Notes = {note}
  MaxRounds = 2
  Disturbances = {"kill", "interrupt", "close", "recover", "round"}
  MaxDisturbances = 2
SPECIFICATION FairSpec
PROPERTIES
  StopIsHonoured
  SentIsTaken
  IdleAgentStops
CHECK_DEADLOCK FALSE
