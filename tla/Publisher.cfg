SPECIFICATION FairSpec
CONSTANTS
  Scenarios <- MCDisturbed
INVARIANTS RowsTruthful BondsAccounted LoopKeepsNonces
PROPERTIES EverythingSettled
