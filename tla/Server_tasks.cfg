SPECIFICATION Spec
CONSTANTS
  Panel = Panel
  Loop = Loop
  Conf = Conf
  Main = Main
  Ports = {1, 2}
  MaxTunnels = 2
  MaxRequests = 1
  MaxRegisters = 1
  MaxCloses = 1
  MaxFaults = 1
  MaxWork = 3
  MaxSeen = 1
  ChanSize = 1
INVARIANTS
  TypeOK
  FileUpToDate
  AckedSurvives
  NoLeakedListener
PROPERTIES
  TemporariesGo
CHECK_DEADLOCK FALSE
