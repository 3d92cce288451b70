SPECIFICATION Spec
CONSTANTS
  MaxGen = 2
  MaxCuts = 1
  MaxRetry = 2
  Registers = TRUE
  PingLoop = PingLoop
  ConfigLoop = ConfigLoop
  Panel = Panel
INVARIANTS
  TypeOK
  NoStraySignal
PROPERTIES
  EventuallyReachable
  DeadSignalLeaves
  LostClientReturns
CHECK_DEADLOCK FALSE
