---------------------------- MODULE MCTargetCache ----------------------------
(* A small instance of TargetCache.                                         *)
EXTENDS TargetCache, TLC

CONSTANTS c1, c2

MCCalls == {c1, c2}
MCDeadlines == {1, 10}
MCSkews == {-1, 1}
CallSymmetry == Permutations(MCCalls)

=============================================================================
