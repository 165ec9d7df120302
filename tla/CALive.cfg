CONSTANTS
  Calls = {c1, c2}
  Presets = {p1, p2}
  Entries = {e1, e2}
  None = None
  First = p1
  MaxVersion = 2
  MaxChanges = 1
SPECIFICATION StartSpec
INVARIANTS TypeOK UsedAgentsFit AgentsAccounted
PROPERTIES AllMoveOn SharesAgents
CHECK_DEADLOCK FALSE
VIEW Relevant
