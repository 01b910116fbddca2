-------------------------- MODULE MCClusterRouting ---------------------------
EXTENDS ClusterRouting, TLC

CONSTANTS b1, b2, c1, c2, c3, m1, m2

(* Two clients at b2 that share a link, and one at b1.                     *)
MCHome(c) == IF c = c3 THEN b1 ELSE b2
MCOrigin(m) == b1
MCQos(m) == IF m = m1 THEN 0 ELSE 2

Symmetry == Permutations({c1, c2})
=============================================================================
