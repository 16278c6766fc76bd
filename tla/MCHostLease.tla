-------------------------- MODULE MCHostLease --------------------------
(* Two sessions of one host id; half-millisecond ticks where rounding counts. *)
EXTENDS HostLease, TLC

CONSTANTS s1, s2

MCSessions == {s1, s2}
MCOffsets == {0, 1}
MCNoOffset == {0}
SessionSymmetry == Permutations(Sessions)
=============================================================================
