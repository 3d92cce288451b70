\* the writer closes, reads time out, and the window shrinks from 4 bytes to 2
SPECIFICATION Spec
CONSTANTS
  Total = 3
  MSS = 2
  InitWindow = 4
  WindowSizes = {2}
  ReadSizes = {2}
  WriterCloses = TRUE
  ReaderCloses = FALSE
  ReadDeadline = FALSE
INVARIANTS
  TypeOK
  NeverOverAcked
  NoCreditLost
PROPERTIES
  ImplementsByteStream
