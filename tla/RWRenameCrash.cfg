CONSTANTS
  Names = {a, b}
  Tokens = {t1}
  Jobs = {}
  Polls = {}
  Calls = {c1}
  Invites = {}
  None = None
  MaxPending = 1
  MaxInvites = 1
  MaxRuntimes = 2
  MaxFaults = 0
  MaxRestarts = 1
  RegistryOps = {"rename"}
  ResultKinds = {"wellformed"}
SPECIFICATION Spec
INVARIANT RestartLoads
CHECK_DEADLOCK FALSE
