SPECIFICATION Spec
CONSTANTS
  s1 = s1
  s2 = s2
  NoSession = NoSession
  Sessions <- MCSessions
  TicksPerMs = 2
  Duration = 4
  RenewEvery = 1
  Offsets <- MCOffsets
  Latency = 1
  Stall = 0
  Prompt = FALSE
  MaxRpc = 0
  MaxSend = 7
  MaxInFlight = 2
  MaxTime = 12
SYMMETRY SessionSymmetry
INVARIANTS
  ConfirmedIsHeld
CHECK_DEADLOCK FALSE
