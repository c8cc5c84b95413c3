CONSTANTS
  Peers = {c, d}
  Shapes <- ShapesMC
  Parts = 2
  MaxTicks = 9
  MaxGen = 1
  MaxUses = 3
SYMMETRY Symmetry
SPECIFICATION WheelSpec
INVARIANTS OnTime KickedInTime KeptAlive
PROPERTIES NotKickedEarly
CHECK_DEADLOCK FALSE
