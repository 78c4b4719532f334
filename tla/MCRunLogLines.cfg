SPECIFICATION Spec
CONSTANTS
  a = a
  b = b
  c = c
  NumProxies = 2
  Requests = {a, b, c}
  Drops = {b}
  ProxyOf <- MCProxyOf
INVARIANT OneLinePerRequest
CHECK_DEADLOCK FALSE
