SPECIFICATION Spec
CONSTANTS
  r1 = r1
  r2 = r2
  a1 = a1
  a2 = a2
  Hosts <- MCHosts
  Requests = {}
  NoHost = 0
  NoRequest = NoRequest
  Revisions <- MCRevisions
  Callers <- MCCallers
  NoCaller = NoCaller
  Processes <- MCProcesses
  Routes <- MCRoutes
  Admins <- MCAdmins
  Deploys <- MCDeploys
  NoRevision = NoRevision
  Prefixes <- MCNoPrefixes
SYMMETRY RouteSymmetry
INVARIANTS
  TypeOK
  OwnReply
  RoutedRevision
  RouteOfHost
PROPERTIES
  NoSteal
  RetriesForOthers
CHECK_DEADLOCK FALSE
