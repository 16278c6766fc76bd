------------------------ MODULE MCHostExecution ------------------------
(* A method call and an event on one actor, which another host changes too, a  *)
(* disconnect event on another, and room for one resident actor.              *)
EXTENDS HostExecution

CONSTANTS a1, a2, o1, o2, o3, x1

MCActors == {a1, a2}
MCOps == {o1, o2, o3}
MCElsewhere == {x1}
MCActorOf == [o \in MCOps \cup MCElsewhere |-> IF o = o3 THEN a2 ELSE a1]
MCKind == [o \in MCOps |-> CASE o = o1 -> "method" [] o = o2 -> "event" [] o = o3 -> "disconnect"]
=============================================================================
