SPECIFICATION Spec
CONSTANTS
  a = a
  b = b
  c1 = c1
  e1 = e1
  NoHost = NoHost
  NoRequest = NoRequest
  Hosts <- MCHosts
  Calls <- MCCalls
  Events <- MCEvents
  Requests <- MCRequests
  HostsReturn = FALSE
  Cancels = FALSE
  MaxEpoch = 2
  MaxVersion = 2
  MaxUploads = 3
SYMMETRY HostSymmetry
INVARIANTS
  TypeOK
  ExactInv
  NoLostUpdate
  CacheCurrent
  PendingResolvedFirst
  CallNotReapplied
PROPERTY
  ImplementsAtomic
CHECK_DEADLOCK FALSE
