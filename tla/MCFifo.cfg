CONSTANTS
  N = 3
  Item = {a, b}
SPECIFICATION Spec
INVARIANTS
  TypeOK
  Distance
  SlotsDisjoint
PROPERTIES
  ImplementsQueue
  Drains
