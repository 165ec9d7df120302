CONSTANTS
  c1 = c1
  c2 = c2
  h1 = h1
  h2 = h2
  Messages = {m1, m2}
  Past = {}
  Companions = {c1, c2}
  Hosts = {h1, h2}
  HostOf <- TwoHosts
  None = None
  MaxQueue = 2
  MaxTimeouts = 1
SPECIFICATION Spec
SYMMETRY Symmetry
INVARIANTS TypeOK TargetRespected OneClaimEach
PROPERTY HandoffKept
