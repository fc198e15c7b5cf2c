SPECIFICATION VotesFairSpec
CONSTANTS
  Voters = {v, w}
  Keys = {"x", "y"}
  Ballots <- MCBallots
  ChainOf <- MCChainOf
  Deadlines = {1}
  MaxNonce = 1
  MaxSigned = 2
  MaxTime = 2
  RelayWindow = 1
  FallbackGas = TRUE
  PageSize = 1
  Requests = {"r", "s"}
  MaxTxs = 2
  Splits <- MCSplits
  Scenarios <- MCOverlap
INVARIANTS RelayWindowKept
CHECK_DEADLOCK FALSE
