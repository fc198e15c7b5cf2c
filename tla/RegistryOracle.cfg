SPECIFICATION Spec
CONSTANTS
  Users = {a}
  Refusers = {}
  NoOne = NoOne
  Chains = {1}
  Tokens = {"t"}
  OracleMode = TRUE
  assetBond = 1
  publisherBond = 1
  challengeWindow = 1
  minFunding = 1
  rewardPerBlock = 2
  U64 = 16
  Amounts = {2, 5}
  EpochRanges <- MCOneAssetRanges
  Coverages <- MCOneAssetCoverages
  MaxTime = 2
  MaxEpochs = 2
  MaxVouched = 7
INVARIANTS NoBlockPaidTwice PaidInsideHull FundingConserved LatestFinalizedIsNewest BooksAgree
CHECK_DEADLOCK FALSE
