CONSTANTS
  OrderId = {o1, o2}
  Price = {1, 2}
  Quantity = {1}
  OrderSlots = {s1, s2}
  LevelSlots = {l1}
  QtyMod = 3
  CounterMod = 2
  Null = Null
  Dead = Dead
  End = End
SPECIFICATION Spec
SYMMETRY Symmetry
INVARIANTS
  AllSlotsReturned
CHECK_DEADLOCK FALSE
