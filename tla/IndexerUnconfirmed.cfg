SPECIFICATION Spec
CONSTANTS
  Assets = {a}
  Hashes = {empty, x}
  Empty = empty
  One = a
  MinedHashes = {empty, x}
  LogsOf <- MCLogsOf
  HintFrom <- MCHintFrom
  Confirmations = 2
  TailWindow = 2
  BackfillWindow = 2
  InitHead = 2
  AnchorLag = 0
  MaxShrink = 1
  Scenarios <- MCQuiet
INVARIANTS RollupConfirmed
