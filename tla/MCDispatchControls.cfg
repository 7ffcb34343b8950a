SPECIFICATION FairSpec
CONSTANTS
  Runs = {r1}
  Controls = {i1, s1}
  Interrupts = {i1}
  Bridges = {b1, b2}
  NoRun = NoRun
  NoControl = NoControl
  Attempts = 2
  MaxFaults = 1
INVARIANTS AppliedOnce OneNotice ReceiptHasMessage
PROPERTIES RealOutcomeKept ControlSettles
CHECK_DEADLOCK FALSE
