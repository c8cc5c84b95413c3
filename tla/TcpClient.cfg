CONSTANTS
  MaxSockets = 3
  MaxConnects = 2
  None = None
SPECIFICATION FairSpec
INVARIANTS ClosedOnce NoAssertFails
PROPERTIES DropCloses
CHECK_DEADLOCK FALSE
