CONSTANTS
  Sends = {a}
  Files = {}
  Streams = {}
  Chunks = {}
  LoopMsgs = {a}
  MaxCalls = 3
SPECIFICATION FairSpec
PROPERTIES SentIsFlushed
CHECK_DEADLOCK FALSE
