SPECIFICATION Spec
CONSTANTS
  Producers = {p1, p2}
  Consumers = {c1, c2}
  Items = {x, y}
  NoItem = NoItem
  NoThread = NoThread
  MaxEnqueues = 3
INVARIANTS
  TypeOK
  MutualExclusion
  SemaphoreAccounting
  NeverPopsEmpty
PROPERTIES
  ImplementsFifo
CHECK_DEADLOCK FALSE
