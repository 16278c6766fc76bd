SPECIFICATION Spec
CONSTANTS
  c1 = c1
  c2 = c2
  w1 = w1
  NoConn = NoConn
  Conns <- MCConns
  Posters <- MCPosters
  ActorEffects <- MCEffects
  Limit = 2
  MaxMessages <- MCMaxMessages
  MaxLost = 1
INVARIANTS
  TypeOK
  EventsOnce
  CatalogAccepted
  SnapshotFirst
  MetadataCurrent
PROPERTIES
  LifecycleOrder
  Departs
CHECK_DEADLOCK FALSE
