SPECIFICATION Spec
CONSTANTS
  Devs = {d1}
  Removable = {d1}
  Clients = {c1, c2}
  NLines = 1
  Probed <- ProbeAll
  NPages = 1
  SPP = 1
  Extents <- WholePages
  MaxRun = 2
  MaxGen = 2
  MaxWrites = 2
  IOErrors = FALSE
  Nobody = Nobody
SYMMETRY Symmetry
INVARIANTS
  CleanOnDisk
