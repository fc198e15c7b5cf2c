SPECIFICATION FairSpec
CONSTANTS
  p = p
  q = q
  Contracts = {p, q}
  Lookback = 1
  MaxBlocksPerTick = 2
  TailWindow = 1
  AutoPromote = TRUE
  MinEvents = 2
  MinBlocks = 2
  MinVoters = 1
  MaxPromotionsPerTick = 1
  CooldownTicks = 2
  Blocks <- MCBlocks
  InitHead = 1
  MaxHead = 3
  MaxVote = 2
  Scenarios <- MCScenarios
INVARIANTS NothingMissed CandidatesAgree
PROPERTIES WantedIsIndexed
CHECK_DEADLOCK FALSE
