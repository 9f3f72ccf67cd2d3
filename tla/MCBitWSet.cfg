CONSTANTS
  SetId = {s1, s2}
  s1 = s1
  s2 = s2
  x1 = x1
  y1 = y1
  x2 = x2
  x3 = x3
  x4 = x4
  Item = {x1, y1, x2, x3}
  NoItem = NoItem
  Key <- MCKey
  Hash <- MCHash
  TableSizes <- MCTableSizes
  Capacity <- MCCapacity
SPECIFICATION FairSpec
INVARIANTS
  TableSound
PROPERTIES
  ImplementsItemSet
  OperationsEnd
