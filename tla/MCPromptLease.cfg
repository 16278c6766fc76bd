SPECIFICATION Spec
CONSTANTS
  s1 = s1
  s2 = s2
  NoSession = NoSession
  Sessions <- MCSessions
  TicksPerMs = 2
  Duration = 10
  RenewEvery = 2
  Offsets <- MCOffsets
  Latency = 2
  Stall = 0
  Prompt = TRUE
  MaxRpc = 3
  MaxSend = 12
  MaxInFlight = 3
  MaxTime = 24
INVARIANTS
  NeverFenced
PROPERTIES
  GoneHostLapses
CHECK_DEADLOCK FALSE
