----------------------------- MODULE MCDelivery ------------------------------
EXTENDS Delivery, TLC

CONSTANTS m1, m2, c1, c2, c3, g1

MCKinds(m) == IF m = m1 THEN {"plain", "retain"} ELSE {"clear", "will"}

(* A client of its own and a group of two, whose members are alike.        *)
MCGroup(c) == IF c = c1 THEN None ELSE g1

GroupSymmetry == Permutations({c2, c3})
=============================================================================
