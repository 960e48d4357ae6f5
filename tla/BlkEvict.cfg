SPECIFICATION Spec
CONSTANTS
  Devs = {d1}
  Removable = {}
  Clients = {c1, c2}
  NLines = 1
  Probed <- ProbeAll
  NPages = 2
  SPP = 1
  Extents <- WholePages
  MaxRun = 2
  MaxGen = 1
  MaxWrites = 3
  IOErrors = TRUE
  Nobody = Nobody
SYMMETRY Symmetry
INVARIANTS
  TypeOK
  Coherent
  ReadsLatest
  CleanOnDisk
  FlushDurable
