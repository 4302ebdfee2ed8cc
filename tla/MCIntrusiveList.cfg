CONSTANTS
  Order = {o1, o2, o3, o4, o5}
  Level = {l1, l2, l3}
  Quantity = {1, 2}
  QtyMod = 3
  Null = Null
SPECIFICATION Spec
SYMMETRY Symmetry
INVARIANTS
  ListsRepresentQueues
  MakerIsOldest
