SPECIFICATION Spec
CONSTANTS
  Scenarios <- MCEndpoint
INVARIANTS NoSelfReplacement
