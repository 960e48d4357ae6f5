SPECIFICATION FairSpec
CONSTANTS
  Devs = {d1}
  Removable = {}
  Clients = {c1, c2}
  NLines = 2
  Probed <- ProbeAll
  NPages = 2
  SPP = 2
  Extents <- Partial
  MaxRun = 2
  MaxGen = 1
  MaxWrites = 2
  IOErrors = FALSE
  Nobody = Nobody
INVARIANTS
  Coherent
  ReadsLatest
  OneLinePerPage
  FlushDurable
PROPERTY DirtyIsWritten
