CONSTANTS
  c1 = c1
  c2 = c2
  h1 = h1
  h2 = h2
  Messages = {m1, m2, m3, m4, m5}
  Past = {m3, m4, m5}
  Companions = {c1, c2}
  Hosts = {h1}
  HostOf <- OneHost
  None = None
  MaxQueue = 2
  MaxTimeouts = 0
SPECIFICATION LaterSpec
INVARIANT ActiveKept
PROPERTY Dispatched
