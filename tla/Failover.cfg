SPECIFICATION Spec
CONSTANTS
  Node = {a, b, c}
  FirstPrimary = a
  NoNode = NoNode
  Write = {w1, w2}
  Prompt = TRUE
  MaxTerm = 1
  Flaky = {a}
  MaxCuts = 1
  MaxRestarts = 1
SYMMETRY Symm
VIEW OneTermView
INVARIANT TypeOK
INVARIANT TakeoverKeepsCommitted
INVARIANT PositionNamesOneWrite
CHECK_DEADLOCK FALSE
