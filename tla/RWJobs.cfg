CONSTANTS
  Names = {a, b}
  Tokens = {t1}
  Jobs = {j1, j2}
  Polls = {p1}
  Calls = {c1}
  Invites = {}
  None = None
  MaxPending = 1
  MaxInvites = 1
  MaxRuntimes = 3
  MaxFaults = 1
  MaxRestarts = 1
  RegistryOps = {"rename", "revoke", "resume"}
  ResultKinds = {"wellformed"}
SPECIFICATION Spec
SYMMETRY Symmetry
INVARIANTS TypeOK QueuesAgree CancelReachesHolder
PROPERTY JobPromiseKept
CHECK_DEADLOCK FALSE
