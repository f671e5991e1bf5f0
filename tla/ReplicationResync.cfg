SPECIFICATION Spec
CONSTANTS
  Write = {w1, w2, w3}
  Keyed = {w1, w2, w3}
  Replica = {r1}
  MaxInFlight = 2
  Cap = 1
  MaxAborts = 1
  MaxCrashes = 1
SYMMETRY Symm
INVARIANT TypeOK
INVARIANT SnapshotConsistent
