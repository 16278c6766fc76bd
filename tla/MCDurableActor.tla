------------------------- MODULE MCDurableActor -------------------------
(* Two hosts, one method call, one socket event.                            *)
EXTENDS DurableActor, TLC

CONSTANTS a, b, c1, e1

MCHosts == {a, b}
MCCalls == {c1}
MCEvents == {e1}
MCNoCalls == {}
MCRequests == Calls \cup Events
HostSymmetry == Permutations(Hosts)
=============================================================================
