CONSTANTS
  Sends = {b}
  Files = {f}
  Streams = {}
  Chunks = {c, e, h}
  LoopMsgs = {e}
  MaxCalls = 3
SPECIFICATION FairSpec
INVARIANTS NoTornMessage
PROPERTIES WatchedIsFlushed
CHECK_DEADLOCK FALSE
