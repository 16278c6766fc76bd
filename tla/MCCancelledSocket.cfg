SPECIFICATION Spec
CONSTANTS
  a = a
  b = b
  c1 = c1
  e1 = e1
  NoHost = NoHost
  NoRequest = NoRequest
  Hosts <- MCHosts
  Calls <- MCNoCalls
  Events <- MCEvents
  Requests <- MCRequests
  HostsReturn = FALSE
  Cancels = TRUE
  MaxEpoch = 2
  MaxVersion = 2
  MaxUploads = 3
SYMMETRY HostSymmetry
INVARIANTS
  PendingResolvedFirst
CHECK_DEADLOCK FALSE
