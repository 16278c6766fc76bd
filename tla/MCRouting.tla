--------------------------- MODULE MCRouting ---------------------------
(* Two calls and two registrations; the host ids are numbers.               *)
EXTENDS Routing, TLC

CONSTANTS r1, r2, a1, a2

MCHosts == 1..3
MCRoutes == {r1, r2}
MCAdmins == {a1, a2}
MCCallers == MCRoutes \cup MCAdmins
MCRevisions == {"1.2", "1.2.3"}
MCDeploys == [a \in MCAdmins |-> IF a = a1 THEN "1.2.3" ELSE "1.2"]
MCNoPrefixes == {}
MCPrefixes == {<<"1.2.3", "1.2">>}
MCProcesses == 1..2
RouteSymmetry == Permutations(MCRoutes)
=============================================================================
