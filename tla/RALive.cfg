CONSTANTS
  Names = {a}
  Tokens = {t1}
  Me = t1
  Jobs = {j1, j2}
  Polls = {p1}
  Calls = {c1}
  Invites = {}
  None = None
  MaxPending = 1
  MaxInvites = 1
  MaxRuntimes = 2
  MaxFaults = 0
  MaxRestarts = 1
  RegistryOps = {"revoke", "resume"}
  ResultKinds = {"wellformed"}
  Endings = {"returned", "timeouterror"}
  MaxCrashes = 1
  MaxMissed = 1
SPECIFICATION LinkLiveSpec
INVARIANTS LinkTypeOK WorkDone
PROPERTY WorkerObeys
CHECK_DEADLOCK FALSE
