SPECIFICATION Spec
CONSTANTS
  p1 = p1
  p2 = p2
  p3 = p3
  NoProc = NoProc
  Procs <- TwoProcs
  Exits = {}
  Killable = {}
  NLocks = 2
  HoldMax = 2
  MaxDepth = 1
  IrqLocks = {}
INVARIANT
  FlagExact
CHECK_DEADLOCK FALSE
