SPECIFICATION Spec
CONSTANTS
  s1 = s1
  s2 = s2
  NoSession = NoSession
  Sessions <- MCSessions
  TicksPerMs = 2
  Duration = 8
  RenewEvery = 1
  Offsets <- MCOffsets
  Latency = 3
  Stall = 1
  Prompt = FALSE
  MaxRpc = 0
  MaxSend = 11
  MaxInFlight = 2
  MaxTime = 17
SYMMETRY SessionSymmetry
INVARIANTS
  TypeOK
  LeaseInv
  ConfirmedIsHeld
PROPERTIES
  ActiveLeaseKept
CHECK_DEADLOCK FALSE
