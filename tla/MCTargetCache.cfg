SPECIFICATION Spec
CONSTANTS
  c1 = c1
  c2 = c2
  Calls <- MCCalls
  MaxHosts = 2
  TicksPerSecond = 2
  Ttl = 3
  CacheTtl = 5
  Margin = 1
  Leeway = 1
  MaxLifetime = 4
  Grace = 1
  Deadlines <- MCDeadlines
  Skews <- MCSkews
  LeaseDuration = 1
  Stage = 2
  MaxTime = 10
SYMMETRY CallSymmetry
INVARIANTS
  NotRefused
  StaleBounded
PROPERTIES
  NotAfterExpiry
CHECK_DEADLOCK FALSE
