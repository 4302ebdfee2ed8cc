CONSTANTS
  OrderId = {o1, o2, o3, o4}
  Price = {1, 2}
  Quantity = {0, 1, 2}
  OrderSlots = {s1, s2, s3, s4}
  LevelSlots = {l1, l2}
  QtyMod = 9
  CounterMod = 1
  Null = Null
  Dead = Dead
  End = End
SPECIFICATION Spec
SYMMETRY Symmetry
INVARIANTS
  TypeOK
  BookConsistent
  LocalsConsistent
  EventsAccountForTaker
  QuotesAreTrue
CHECK_DEADLOCK FALSE
