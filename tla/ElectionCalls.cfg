SPECIFICATION FairToB
CONSTANTS
  a = a
  b = b
  c = c
  Node = {a, b, c}
  FirstPrimary = a
  NoNode = NoNode
  Worker = {w}
  Ticker = Ticker
  MaxTerm = 1
  MaxCrashes = 0
  MaxFaults = 0
  MaxManual = 1
INVARIANT EpochNamesOnePrimary
PROPERTY LeadershipAdvances
PROPERTY ElectionsOfBEnd
CHECK_DEADLOCK FALSE
