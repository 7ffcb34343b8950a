SPECIFICATION RunsSpec
CONSTANTS
  Messages = {1}
  SenderOf <- MCSenderOf
  NeedReply = {1}
  Bridges = {b1, b2}
  NoBridge = NoBridge
  NoMessage = NoMessage
  MaxRuns = 1
  BufferCap = 2
  RequeueLimit = 1
  MaxFaults = 1
  MarkUntil = 3
  Elapse = {1}
  Sweepers = {s1}
  Mode = "claude"
  Acts = {"read", "mark", "unsend", "clear", "close", "stop", "discard", "release"}
  ManagedActs = {"unsend", "clear", "cancel", "close", "stop", "discard"}
  Misjudge = {}
INVARIANTS HolderInv
PROPERTIES FreshClaimIsLeft
SYMMETRY AnyBridge
CHECK_DEADLOCK FALSE
