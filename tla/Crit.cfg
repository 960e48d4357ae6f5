SPECIFICATION Spec
CONSTANTS
  p1 = p1
  p2 = p2
  p3 = p3
  NoProc = NoProc
  Procs <- TwoProcs
  Exits = {p1, p2}
  Killable = {p1, p2}
  NLocks = 2
  HoldMax = 2
  MaxDepth = 2
  IrqLocks = {2}
INVARIANTS
  TypeOK
  MutualExclusion
  HoldsTracked
  FlaggedOwnerJustWaits
  CountExact
PROPERTY
  ImplementsRLock
CONSTRAINT
  NoReload
CHECK_DEADLOCK FALSE
