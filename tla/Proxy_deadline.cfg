SPECIFICATION Spec
CONSTANTS
  a = a
  b = b
  Clients = {a, b}
  Loads <- SocksLoads
  MaxUsers = 2
  Payer = a
  ConnsCap = 1
  CopyCap = 2
  MaxGen = 2
  MaxPackets = 2
  PoolSize = 1
  UdpPayer = a
  Sweeper = Sweeper
  Closer = Closer
  MaxPorts = 2
  MaxFail = 2
  Checks = {1, 2}
  WireSize = 2
  MaxTls = 3
  AcceptCap = 1
  Certs = {"one", "bad"}
  BadCert = "bad"
INVARIANT CopiesUntimed
CHECK_DEADLOCK FALSE
