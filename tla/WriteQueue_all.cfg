\* a ping, two openers and a writer on a queue of two; starving counts modulo 2
SPECIFICATION FairSpec
CONSTANTS
  Pingers = {ping}
  Openers = {o1}
  Writers = {w1}
  MaxLength = 2
  maxStarving = 1
  StarvingWrap = 2
  EarlyPings = 0
INVARIANTS
  TypeOK
  LimitHeld
  LowestNotStarved
  NilNeverPacked
PROPERTIES
  DataGetsSent
  WriterEnds
