SPECIFICATION Spec
CONSTANTS
  a = a
  b = b
  c1 = c1
  e1 = e1
  NoHost = NoHost
  NoRequest = NoRequest
  Hosts <- MCHosts
  Calls <- MCNoCalls
  Events <- MCEvents
  Requests <- MCRequests
  HostsReturn = TRUE
  Cancels = TRUE
  MaxEpoch = 3
  MaxVersion = 1
  MaxUploads = 2
SYMMETRY HostSymmetry
INVARIANTS
  SafeInv
  HeadReadable
  LinearHistory
  RepliesCommitted
CHECK_DEADLOCK FALSE
