CONSTANTS
  Writers = {w1, w2}
  SizesOf <- SmallThenLarger
  MTU = 2
  ReadBufs <- TwoBufs
  MaxWrites = 3
  MaxFaults = 1
SPECIFICATION Spec
CHECK_DEADLOCK FALSE
INVARIANT TypeOK
INVARIANT WholeInOrder
PROPERTY Recovers
