CONSTANTS
  Item = {a, b}
  MovedFrom = MovedFrom
  Capacity = 4
  WordMod = 8
  MaxItems = 10
SPECIFICATION Spec
SYMMETRY Symmetry
INVARIANTS
  CountersInStep
  NoRace
  SizeIsSafe
PROPERTIES
  DeliversInOrder
