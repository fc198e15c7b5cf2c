SPECIFICATION FairSpec
CONSTANTS
  u = u
  Accounts = {u, v}
  Chains = {c}
  Tokens = {t}
  Devices = {d1, d2}
  OwnerOf <- MCOwnerOf
  Contents <- MCContents
  Deadlines = {1, 2}
  MaxUnix = 2
  MaxVerdicts = 1
  MaxAssets = 1
  MaxEntries = 2
  None = None
  MaxRevision = 2
  MaxGeneration = 4
  Scenarios <- MCScenarios
  Daemons = {p1, p2}
  Depth = 2
INVARIANTS OneSourceOfChoices
PROPERTIES ReviewedBeforeReplaced RecordCatchesUp PublishesCuts
CHECK_DEADLOCK FALSE
