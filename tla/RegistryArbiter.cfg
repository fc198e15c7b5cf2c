SPECIFICATION Spec
CONSTANTS
  Users = {a, b}
  Refusers = {b}
  NoOne = NoOne
  Chains = {1, 2}
  Tokens = {"t"}
  OracleMode = FALSE
  assetBond = 1
  publisherBond = 1
  challengeWindow = 1
  minFunding = 1
  rewardPerBlock = 2
  U64 = 16
  Amounts = {4}
  EpochRanges <- MCShortRanges
  Coverages <- MCShortCoverages
  MaxTime = 2
  MaxEpochs = 2
  MaxVouched = 4
INVARIANTS Solvent
PROPERTIES DecidedForGood WindowHonoured
CHECK_DEADLOCK FALSE
