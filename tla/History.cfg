SPECIFICATION FairHistory
CONSTANTS
  Tip = 6
  Nodes <- MCNodes
  Attempts = 2
  MonotonicitySamples = 2
  WindowMax = 4
  WindowMin = 1
  SweepFrom = 1
  HintFromBlock = 1
  BackfillWindow = 3
  AnchorBlock = 6
  DiscoveryEnabled = TRUE
  MaxNoise = 2
  MaxPrunes = 2
  MaxRestarts = 1
CHECK_DEADLOCK FALSE
INVARIANTS ProbeSound SweepTiles
PROPERTIES WalkEnds
