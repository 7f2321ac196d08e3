SPECIFICATION FairSpec

CHECK_DEADLOCK FALSE

CONSTANTS
  w1 = w1
  w2 = w2
  NvPumps = {w1, w2}
  NvFree = NvFree
  UpMirror = TRUE
  MaxStray = 1
  MaxMethods = 1
  RingSize = 6
  MaxPayload = 2
  PbStep = 3
  PbSegments = 2
  MaxPackets = 3
  MaxFences = 3
  NSurfaces = 2
  Targets <- MCTargets
  RamBytes = 8
  Windows = 1
  Granule = 4
  MaxAccess = 2
  MaxCount = 2

INVARIANTS
  GpuSideTypeOK
  TrapWhole
  InSync
  FenceHonest
  FallbackDrained
  OwedIsArmed
PROPERTIES
  VblankSignalled
  SummaryConverges
  
  AllExecuted
  BlockEnds
