CONSTANTS
  Opens = {o1}
  Owners = {w1}
  Names = {n1}
  None = None
  Modes = {"read-only", "workspace-write"}
  MaxSessionsGlobal = 1
  MaxSessionsPerOwner = 1
SPECIFICATION FairSpec
INVARIANTS TypeOK NoOrphan TablesAgree ModeKept
PROPERTY NothingLingers
CHECK_DEADLOCK FALSE
