SPECIFICATION RunsSpec
CONSTANTS
  Messages = {1, 2}
  SenderOf <- MCSenderOf
  NeedReply = {1}
  Bridges = {b1, b2}
  NoBridge = NoBridge
  NoMessage = NoMessage
  MaxRuns = 2
  BufferCap = 2
  RequeueLimit = 1
  MaxFaults = 1
  MarkUntil = 3
  Elapse = {1}
  Sweepers = {s1}
  Mode = "claude"
  Acts = {"reply", "discard", "requeue", "orphan", "reap", "stranded", "reconcile", "release"}
  ManagedActs = {"discard", "requeue", "orphan"}
  Misjudge = {}
INVARIANTS OneHolder CarriedIsItems HandedOnce ReceiptStamped
SYMMETRY AnyBridge
CHECK_DEADLOCK FALSE
