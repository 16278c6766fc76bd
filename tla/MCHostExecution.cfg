SPECIFICATION Spec
CONSTANTS
  a1 = a1
  a2 = a2
  o1 = o1
  o2 = o2
  o3 = o3
  x1 = x1
  NoOp = NoOp
  Actors <- MCActors
  Ops <- MCOps
  ActorOf <- MCActorOf
  Kind <- MCKind
  Elsewhere <- MCElsewhere
  MaxResident = 1
  HintLimit = 1
  MaxAdmitted = 2
INVARIANTS
  TypeOK
  OneAtATime
  ExecutesOnCached
  WaitsForWorker
  DrainedQuiet
PROPERTIES
  StopEnds
  Answered
CHECK_DEADLOCK FALSE
