---------------------------- MODULE MCTenantLease ----------------------------
(* Three worlds and four sessions: enough for a switch with an alternative,  *)
(* for contention over a world, and for an overflow into the observer world. *)
EXTENDS TenantLease, TLC
CONSTANTS s1, s2, s3, s4
MCSessions == {s1, s2, s3, s4}
SessionSymmetry == Permutations(MCSessions)
=============================================================================
