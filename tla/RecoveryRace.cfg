SPECIFICATION RecoverySpec
CONSTANTS
  Account = {1, 2}
  Asset = {1, 2}
  Requester = {1, 2}
  Floor = 1
  Top = 4
  Batch = 2
  Deployments <- MCRace
INVARIANTS CoverageIsIndexed
CHECK_DEADLOCK FALSE
