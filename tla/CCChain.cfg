CONSTANTS
  h1 = h1
  Tasks = {t}
  Messages = {m1, m2, m3}
  Conversations = {a}
  Observers = {o1, o2}
  HostsNamed <- OneHost
  Hosts = {h1}
  None = None
  Limits = {0, 1}
  MaxArms = 1
  MaxOthers = 1
  MaxTurns = 2
  MaxRevision = 4
SPECIFICATION Spec
CONSTRAINT MayAct
SYMMETRY Symmetry
INVARIANTS TypeOK OneOutstanding RepeatsAreLate Earned
CHECK_DEADLOCK FALSE
VIEW ReadLater
