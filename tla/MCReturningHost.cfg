SPECIFICATION Spec
CONSTANTS
  a = a
  b = b
  c1 = c1
  e1 = e1
  NoHost = NoHost
  NoRequest = NoRequest
  Hosts <- MCHosts
  Calls <- MCNoCalls
  Events <- MCEvents
  Requests <- MCRequests
  HostsReturn = TRUE
  Cancels = FALSE
  MaxEpoch = 3
  MaxVersion = 3
  MaxUploads = 3
SYMMETRY HostSymmetry
INVARIANTS
  NoLostUpdate
CHECK_DEADLOCK FALSE
