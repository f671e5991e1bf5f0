SPECIFICATION FairSpec
CONSTANTS
  Write = {w1, w2}
  Keyed = {w1}
  Replica = {r1, r2}
  MaxInFlight = 1
  Cap = 2
  MaxAborts = 0
  MaxCrashes = 0
INVARIANT PositionIsContent
INVARIANT AppliedInOrder
INVARIANT CommittedOnQuorum
PROPERTY CatchesUp
PROPERTY ImplementsReplicatedLog
