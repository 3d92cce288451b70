\* both ends close at any moment, reads time out: every call comes back
SPECIFICATION FairSpec
CONSTANTS
  Total = 2
  MSS = 2
  InitWindow = 1
  WindowSizes = {1}
  ReadSizes = {2}
  WriterCloses = TRUE
  ReaderCloses = TRUE
  ReadDeadline = TRUE
INVARIANTS
  QueueBounded
  SessionNeverStuck
PROPERTIES
  WriteReturns
  EventuallyDelivered
  ReaderSeesEOF
