\* two producers, as in priorityQueue: what the comment on dropping a ring says
SPECIFICATION Spec
CONSTANTS
  Producers = {p1, p2}
  Consumers = {c1}
  Items = 2
  InitSize = 1
  DequeueBits = 3
INVARIANTS
  DroppedRingsStayEmpty
