SPECIFICATION Spec
CONSTANTS
  a = a
  b = b
  c = c
  Node = {a, b, c}
  FirstPrimary = a
  NoNode = NoNode
  Worker = {w}
  Ticker = Ticker
  MaxTerm = 1
  MaxCrashes = 1
  MaxFaults = 1
  MaxManual = 0
SYMMETRY Symm
INVARIANT OneVotePerTerm
CHECK_DEADLOCK FALSE
