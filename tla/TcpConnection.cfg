CONSTANTS
  Sends = {a, b, g}
  Files = {f}
  Streams = {d, k}
  Chunks = {}
  LoopMsgs = {a, d}
  MaxCalls = 3
SPECIFICATION FairSpec
INVARIANTS WireInOrder CallbacksPaired NoAssertFails
PROPERTIES CloseCompletes
CHECK_DEADLOCK FALSE
