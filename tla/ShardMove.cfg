SPECIFICATION FairSpec
CONSTANTS
  Value = {a, b, e}
  Embedding = {e}
  None = None
  Node = {n1, n2}
  Pull = {m1, m2}
  BatchSize = 1
  MaxWrites = 2
  MaxFaults = 1
  Coordinator = n1
  Source = n1
  Interned = {a}
  MaxEpoch = 1
CHECK_DEADLOCK FALSE
INVARIANT TypeOK
INVARIANT StoresResolve
PROPERTY PullAccounts
PROPERTY MovedComplete
PROPERTY ShardMapKept
PROPERTY PullEnds
