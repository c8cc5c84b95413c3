CONSTANTS
  Timers = {t1, t2}
  Delays = {0, 2}
  Intervals = {0, 1}
  Clients = TRUE
  MaxTime = 3
SPECIFICATION FairTimerSpec
INVARIANTS TypeOK NoForgottenTimer IdsMatch
PROPERTIES CancelledNeverFires Fires Repeats
CHECK_DEADLOCK FALSE
