SPECIFICATION Spec
CONSTANTS
  Devs = {d1}
  Removable = {}
  Clients = {c1}
  NLines = 1
  Probed <- ProbeAll
  NPages = 2
  SPP = 2
  Extents <- OneSector
  MaxRun = 2
  MaxGen = 1
  MaxWrites = 2
  IOErrors = FALSE
  Nobody = Nobody
SYMMETRY Symmetry
INVARIANTS
  Coherent
