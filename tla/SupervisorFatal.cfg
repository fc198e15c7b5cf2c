SPECIFICATION FairSpec
CONSTANTS
  home = home
  added = added
  other = other
  homeNode = homeNode
  localNode = localNode
  remoteNode = remoteNode
  otherNode = otherNode
  Chains = {home, added, other}
  Nodes = {homeNode, localNode, remoteNode, otherNode}
  LocalNodes = {homeNode, localNode}
  Main = main
  Operators = {alice, bob}
  NoOne = nobody
  ConfigChains <- MCConfig
  Serves <- MCServes
  Databases <- MCDatabases
  Scenarios <- MCFailingHome
PROPERTIES FatalEndsProcess
CHECK_DEADLOCK FALSE
