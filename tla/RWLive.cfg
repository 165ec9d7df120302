CONSTANTS
  Names = {a}
  Tokens = {t1}
  Jobs = {j1, j2}
  Polls = {p1, p2}
  Calls = {c1}
  Invites = {}
  None = None
  MaxPending = 2
  MaxInvites = 1
  MaxRuntimes = 3
  MaxFaults = 0
  MaxRestarts = 1
  RegistryOps = {"revoke"}
  ResultKinds = {"wellformed"}
SPECIFICATION LiveSpec
INVARIANT NobodyForgotten
PROPERTY JobsEnd
CHECK_DEADLOCK FALSE
