SPECIFICATION Spec
CONSTANTS
  Client = {c1, c2}
  Proxy = {p1, p2}
  Port = {80, 81}
  Junk = {junk}
  None = None
  Proxies = 2
  TrustedProxyCount = 2
  Limit = 2
  MaxForged = 1
SYMMETRY Interchangeable
INVARIANTS
  CapHolds
PROPERTIES
  RefusedOnOwnAccount
