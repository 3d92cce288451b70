\* one connection, nothing fails and nobody closes anything
SPECIFICATION FairSpec
CONSTANTS
  c1 = c1
  c2 = c2
  Conns = {c1, c2}
  Settings <- NoFaults
PROPERTIES
  NewConnAnswered
