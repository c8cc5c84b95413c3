CONSTANTS
  MaxThreads = 2
  Tasks = {a, q, s}
  SyncTasks = {s}
  QuitTasks = {q}
SPECIFICATION FairSpec
INVARIANTS SyncCoversEarlier
PROPERTIES DtorReturns ImplementsTaskQueue
CHECK_DEADLOCK FALSE
