SPECIFICATION Spec
CONSTANTS
  MaxPosts = 2
  MaxPending = 2
  MaxRetry = 1
  MaxFaults = 1
  MaxTerms = 1
  MaxBridges = 2
  MaxEvents = 1
INVARIANTS  TypedOnce
PROPERTIES ImplementsLog StoredInTheEnd StopReaches
CHECK_DEADLOCK FALSE
