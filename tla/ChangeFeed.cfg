SPECIFICATION FairSpec
CONSTANTS
  a = a
  b = b
  Table = {a, b}
  Target = {{a}}
  Sub = {s}
  Retention = 2
  Limit = 1
  MaxStmts = 3
  MaxCrashes = 2
INVARIANT TypeOK
INVARIANT NoSilentGap
INVARIANT SinkAtLeastOnce
INVARIANT ChainComplete
PROPERTY Delivered
CHECK_DEADLOCK FALSE
