CONSTANTS
  Names = {a, b}
  Tokens = {t1, t2}
  Jobs = {j1}
  Polls = {p1}
  Calls = {c1}
  Invites = {i1}
  None = None
  MaxPending = 1
  MaxInvites = 1
  MaxRuntimes = 3
  MaxFaults = 1
  MaxRestarts = 0
  RegistryOps = {"rename", "revoke", "resume"}
  ResultKinds = {"wellformed", "malformed"}
SPECIFICATION Spec
SYMMETRY Symmetry
INVARIANTS IdentitiesAgree InviteUsedOnce
CHECK_DEADLOCK FALSE
