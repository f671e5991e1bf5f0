SPECIFICATION FairSpec
CONSTANTS
  Node = {a, b, c}
  FirstPrimary = a
  NoNode = NoNode
  Write = {}
  Prompt = TRUE
  MaxTerm = 3
  Flaky = {a}
  MaxCuts = 1
  MaxRestarts = 0
PROPERTY FailoverCompletes
CHECK_DEADLOCK FALSE
