SPECIFICATION Spec
CONSTANTS
  Table = {a, b}
  Key = {k1, k2, k3}
  AutoInc = {a}
  Encrypted = {b}
  Batch = 2
  Threshold = 3
  MaxStmts = 3
  MaxDrops = 1
  MaxCrashes = 1
SYMMETRY Symm
VIEW View
CONSTRAINT Promised
INVARIANT TypeOK
INVARIANT AcknowledgedSurvives
INVARIANT LogCoversMemory
