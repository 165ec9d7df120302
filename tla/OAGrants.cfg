CONSTANTS
  Requests = {r1, r2}
  Clients = {a1, a2}
  Calls = {c1, c2, c3, c4}
  None = None
  MaxClients = 1
  MaxPending = 1
  MaxPerClient = 1
  PinLimit = 1
SPECIFICATION Spec
SYMMETRY Symmetry
INVARIANTS TypeOK CredentialsSpent
PROPERTY GrantKept
