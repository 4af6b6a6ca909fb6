SPECIFICATION Spec
CONSTANTS
  Worker = {w1, w2}
  NoTask = NoTask
  Cmd = {c1, c2}
  Period <- MCPeriod
  MaxSaves = 1
PROPERTIES
  SavesMade
  RepliesPosted
  TimersGoOn
  PoolEnds
