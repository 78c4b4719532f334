SPECIFICATION FairSpec
CONSTANTS
  a = a
  b = b
  c = c
  NumProxies = 2
  Requests = {a, b, c}
  Drops = {b}
  ProxyOf <- MCProxyOf
INVARIANTS
  TypeOK
  AllOrNothing
  NothingLeftOpen
  ShutdownIsGraceful
PROPERTIES
  CommandEnds
CHECK_DEADLOCK FALSE
