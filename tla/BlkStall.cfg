SPECIFICATION FairSpec
CONSTANTS
  Devs = {d1, d2}
  Removable = {d1}
  Clients = {c1}
  NLines = 2
  Probed <- ProbeAll
  NPages = 1
  SPP = 1
  Extents <- WholePages
  MaxRun = 2
  MaxGen = 1
  MaxWrites = 2
  IOErrors = FALSE
  Nobody = Nobody
PROPERTIES
  DirtyIsWritten
