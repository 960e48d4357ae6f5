SPECIFICATION Spec
CONSTANTS
  NCpus = 2
  Tasks = {a, b}
  Idle <- Idles2
  Parent <- Family
  Started = {a, b}
  Exits = {a, b}
  Killable = {a, b}
  MaxForks = 0
  MaxKills = 2
  NoTask = NoTask
  i0 = i0
  i1 = i1
  i2 = i2
  a = a
  b = b
  d = d
INVARIANT
  StatusBeforeGone
CHECK_DEADLOCK FALSE
