CONSTANTS
  Workers = {w1, w2, w3}
  Tasks = {a, b, c}
  SyncTasks = {b}
  LongTasks = {a, c}
  None = None
SPECIFICATION FairSpec
INVARIANTS NoLostNotify
PROPERTIES ImplementsTaskQueue StopReturns
CHECK_DEADLOCK FALSE
