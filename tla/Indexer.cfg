SPECIFICATION FairSpec
CONSTANTS
  Assets = {a, b}
  Hashes = {empty, x, y}
  Empty = empty
  One = a
  MinedHashes = {x}
  LogsOf <- MCLogsOf
  HintFrom <- MCHintFrom
  Confirmations = 2
  TailWindow = 2
  BackfillWindow = 2
  InitHead = 1
  AnchorLag = 1
  MaxShrink = 1
  Scenarios <- MCDisturbed
INVARIANTS AtLeastOnce CountedOnce FollowerSound
PROPERTIES EventuallyFolded BackfillCompletes
