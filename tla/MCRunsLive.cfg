SPECIFICATION LiveSpec
CONSTANTS
  Messages = {1}
  SenderOf <- MCSenderOf
  NeedReply = {1}
  b1 = b1
  Bridges = {b1, b2}
  NoBridge = NoBridge
  NoMessage = NoMessage
  MaxRuns = 1
  BufferCap = 2
  RequeueLimit = 1
  MaxFaults = 2
  MarkUntil = 3
  Elapse = {1}
  Sweepers = {s1}
  Mode = "hermes"
  Acts = {"superseded", "discard", "requeue", "orphan", "reap", "stranded", "reconcile", "release"}
  Misjudge = {"heartbeat", "superseded"}
PROPERTIES RunSettles 
CHECK_DEADLOCK FALSE
