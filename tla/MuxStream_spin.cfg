\* the reader may close its end while a read waits for data
SPECIFICATION Spec
CONSTANTS
  Total = 2
  MSS = 2
  InitWindow = 1
  WindowSizes = {1}
  ReadSizes = {2}
  WriterCloses = FALSE
  ReaderCloses = TRUE
  ReadDeadline = FALSE
INVARIANTS
  SpinMeansPushing
