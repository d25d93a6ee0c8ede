----------------------------- MODULE MCRunQuota -----------------------------
(* Two sessions, a deployment limit of three over a session limit of two, and *)
(* a window of three half-second ticks.                                      *)
EXTENDS RunQuota, TLC
CONSTANTS s1, s2
MCSessions == {s1, s2}
SessionSymmetry == Permutations(MCSessions)
=============================================================================
