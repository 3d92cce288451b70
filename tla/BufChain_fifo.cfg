\* one producer and one consumer; rings of 1, 2 and 2 slots; indices wrap at 8
SPECIFICATION FairSpec
CONSTANTS
  Producers = {p1}
  Consumers = {c1}
  Items = 11
  InitSize = 1
  DequeueBits = 3
INVARIANTS
  TypeOK
  FirstInFirstOut
  ReservedSlotIsFree
  EmptyMeansEmpty
PROPERTIES
  EverythingPopped
