CONSTANTS
  OrderId = {o1, o2}
  Price = {1, 2}
  Quantity = {0, 1, 2}
  OrderSlots = {s1, s2, s3}
  LevelSlots = {l1}
  QtyMod = 7
  CounterMod = 1
  Null = Null
  Dead = Dead
  End = End
SPECIFICATION Spec
PROPERTIES
  StrandedByThrowOnly
  CallReturns
CHECK_DEADLOCK FALSE
