----------------------------- MODULE MCApproval -----------------------------
(* Instances of the approval pipeline for TLC.  Two tabs of one browser and one *)
(* of another over a single writable world, so that one browser can only        *)
(* observe; or one tab, two worlds and two options.                             *)
EXTENDS Approval, TLC

CONSTANTS b1, b2, b3, s1, s2, r1, o1, o2
MCTabs == {b1, b2, b3}
MCSessionOf == [b \in MCTabs |-> IF b = b3 THEN s2 ELSE s1]
OneTab == {b1}
OneSessionOf == [b \in OneTab |-> s1]
MCSessions == {s1, s2}
MCRuns == {r1}
MCOptions == {o1, o2}
OneOption == {o1}
MCSymmetry == Permutations({b1, b2})
=============================================================================
