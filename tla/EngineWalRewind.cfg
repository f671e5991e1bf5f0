SPECIFICATION Spec
CONSTANTS
  Table = {a}
  Key = {k1, k2}
  AutoInc = {}
  Encrypted = {}
  Batch = 1
  Threshold = 5
  MaxStmts = 3
  MaxDrops = 0
  MaxCrashes = 2
SYMMETRY Symm
INVARIANT ReplayRestores
