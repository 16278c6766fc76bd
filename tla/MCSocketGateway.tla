------------------------ MODULE MCSocketGateway ------------------------
(* Two connections of one actor, one of which sends messages, and a workflow *)
(* that posts a broadcast.                                                   *)
EXTENDS SocketGateway

CONSTANTS c1, c2, w1

MCConns == {c1, c2}
MCPosters == {w1}
MCMaxMessages == [c \in Conns |-> IF c = c1 THEN 1 ELSE 0]
MCEffects ==
    [c \in Conns |-> [kind \in Kinds |->
        CASE c = c1 /\ kind = "connect" -> {"metadata"}
          [] c = c1 /\ kind = "message" -> {"metadata", "close"}
          [] c = c2 /\ kind = "connect" -> {"send"}
          [] OTHER -> {}]]
=============================================================================
