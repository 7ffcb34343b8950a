SPECIFICATION MCPollSpec
CONSTANTS
  c1 = c1
  c2 = c2
  i1 = i1
  i2 = i2
  Callers <- MCCallers
  Items <- MCItems
INVARIANTS ClaimedIsCarried
PROPERTIES NoAttemptAfterGone QueuedIsClaimed RequestReturns
