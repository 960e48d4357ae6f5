SPECIFICATION Spec
CONSTANTS
  NCpus = 3
  Tasks = {a, b}
  Idle <- Idles3
  Parent <- Family
  Started = {a}
  Exits = {a, b}
  Killable = {}
  MaxForks = 2
  MaxKills = 0
  NoTask = NoTask
  i0 = i0
  i1 = i1
  i2 = i2
  a = a
  b = b
  d = d
INVARIANTS
  TypeOK
  OneStack
  ClaimedWhereRunning
  NoUseAfterFree
  StatusBeforeGone
  HolderOnCpu
PROPERTY
  OnlyQueuedLoaded
