SPECIFICATION FairSpec
CONSTANTS
  MaxDevices = 2
  MaxRefs = 2
  MaxGen = 2
  FsNames = {fat}
  BlockNames = {usb0}
  Users = {u1, u2, u3}
  NoDev = NoDev
INVARIANTS
  TypeOK
  RefCountExact
  HeldDevicesPinned
  QuiescingHasUsers
  UniqueLiveNames
  ClaimExclusive
PROPERTIES
  DrainOnly
  Drains
CHECK_DEADLOCK FALSE
