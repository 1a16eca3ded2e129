SPECIFICATION FairBridgeSpec
CONSTANT TimeoutEnabled = TRUE
CHECK_DEADLOCK FALSE
INVARIANTS
  NothingIsLeftBehind
  ResponseIsTrustworthy
PROPERTIES
  ImplementsExecutor
