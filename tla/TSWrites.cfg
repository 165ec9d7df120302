CONSTANTS
  Tasks = {k1}
  Attempts = {w1, w2, w3, w4}
  Calls = {c1, c2}
  None = None
  Nows = {1, 2}
  MaxCheckpoints = 2
SPECIFICATION Spec
SYMMETRY Symmetry
INVARIANTS TypeOK StoredTasksParse NoLostUpdate AnswersAreTrue CheckpointsAreTheLatest
PROPERTY TaskPromiseKept
