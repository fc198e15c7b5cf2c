SPECIFICATION FairSpec
CONSTANTS
  Accounts = {"ann", "bob"}
  Labels = {"x", "y"}
  Resolvers = {"plain", "alias"}
  FirstGoal = "plain"
  LastGoal = "alias"
  NameRelayWindow = 1
  HintMinGap = 1
  Digests = {"g", "h"}
  Slots = {1, 2}
  MaxTime = 1
  Scenarios <- MCScenarios
CHECK_DEADLOCK FALSE
INVARIANTS LastWordStands
PROPERTIES AttachCompletes
