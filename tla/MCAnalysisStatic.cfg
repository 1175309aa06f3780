SPECIFICATION Spec
CONSTANTS
  Calls <- MCCalls
  Corpus <- MCCorpus
  Traits <- MCTraits
  HostOf <- MCHostOf
  MaxStrings = 4
  MaxSids = 3
  MaxRows = 4
  MaxApiEvents = 4
  MaxCorrelations = 3
  MaxDepth = 2
  MaxFound = 3
  MaxLines = 4
  MaxContext = 4
INVARIANT StaticClaimsNothing
CHECK_DEADLOCK FALSE
