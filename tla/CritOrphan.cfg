SPECIFICATION Spec
CONSTANTS
  p1 = p1
  p2 = p2
  p3 = p3
  NoProc = NoProc
  Procs <- TwoProcs
  Exits = {}
  Killable = {p1}
  NLocks = 2
  HoldMax = 2
  MaxDepth = 1
  IrqLocks = {}
INVARIANT
  NoOrphan
CHECK_DEADLOCK FALSE
