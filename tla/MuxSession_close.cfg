\* a mux that closes under one connection, and two connections that come and go
SPECIFICATION FairSpec
CONSTANTS
  c1 = c1
  c2 = c2
  Conns = {c1, c2}
  Settings <- Faults
INVARIANTS
  TypeOK
  DataFindsConn
  AllConnsClosed
PROPERTIES
  MuxEnds
  CloseReachesPeer
