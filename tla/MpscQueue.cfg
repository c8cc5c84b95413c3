CONSTANTS
  Producers = {p1, p2}
  Items = {a, b}
  Nodes = {n1, n2, n3, n4}
  NoItem = NoItem
  NoOne = NoOne
  nullptr = nullptr
SPECIFICATION FairSpec
INVARIANTS NoUseAfterFree NoLeak
PROPERTIES ImplementsFifo Delivered
CHECK_DEADLOCK FALSE
