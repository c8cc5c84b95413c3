CONSTANTS
  Base = Base
  IoLoops = {L1, L2}
  MaxConns = 4
  MaxFds = 2
SPECIFICATION FairSpec
INVARIANTS NoAssertFails
PROPERTIES StopCloses StopReturns BacklogServed
CHECK_DEADLOCK FALSE
