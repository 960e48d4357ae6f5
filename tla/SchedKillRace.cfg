SPECIFICATION Spec
CONSTANTS
  NCpus = 2
  Tasks = {a, b}
  Idle <- Idles2
  Parent <- Family
  Started = {a}
  Exits = {}
  Killable = {a}
  MaxForks = 0
  MaxKills = 1
  NoTask = NoTask
  i0 = i0
  i1 = i1
  i2 = i2
  a = a
  b = b
  d = d
INVARIANT
  NoUseAfterFree
