SPECIFICATION FairSpec
CONSTANTS
  NCpus = 2
  Tasks = {a, b}
  Idle <- Idles2
  Parent <- Family
  Started = {a, b}
  Exits = {a, b}
  Killable = {}
  MaxForks = 0
  MaxKills = 0
  NoTask = NoTask
  i0 = i0
  i1 = i1
  i2 = i2
  a = a
  b = b
  d = d
PROPERTY
  ExitReaped
