CONSTANTS
  OrderId = {o1, o2, o3}
  Price = {1, 2, 3}
  Quantity = {0, 1, 2}
  OrderSlots = {s1, s2, s3}
  LevelSlots = {l1, l2, l3}
  QtyMod = 7
  CounterMod = 2
  Null = Null
  Dead = Dead
  End = End
SPECIFICATION Spec
SYMMETRY Symmetry
INVARIANTS
  NoCrossedBook
  CursorAtBest
  LevelPoolSuffices
  AllSlotsReturned
  DepthReadsDown
PROPERTIES
  TradesConserveQuantity
  KeepsPriceTimePriority
CHECK_DEADLOCK FALSE
