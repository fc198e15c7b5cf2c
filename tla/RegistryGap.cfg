SPECIFICATION Spec
CONSTANTS
  Users = {a}
  Refusers = {}
  NoOne = NoOne
  Chains = {1}
  Tokens = {"t"}
  OracleMode = FALSE
  assetBond = 1
  publisherBond = 1
  challengeWindow = 1
  minFunding = 1
  rewardPerBlock = 2
  U64 = 16
  Amounts = {9}
  EpochRanges <- MCOneAssetRanges
  Coverages <- MCOneAssetCoverages
  MaxTime = 3
  MaxEpochs = 2
  MaxVouched = 9
PROPERTIES EveryUnpaidBlockEarns
CHECK_DEADLOCK FALSE
