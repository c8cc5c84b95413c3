CONSTANTS
  Clients = {c1, c2}
  LoopThread = L
  Tasks = {f, g}
  NoItem = NoItem
  NoOne = NoOne
  MaxRuns = 2
  Throwing = TRUE
  DtorElsewhere = TRUE
SPECIFICATION FairSpec
INVARIANTS NoLostWakeup OrderKept
PROPERTIES FuncsRun QuitStops OnQuitRun
CHECK_DEADLOCK FALSE
