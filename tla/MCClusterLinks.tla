---------------------------- MODULE MCClusterLinks ----------------------------
EXTENDS ClusterLinks

CONSTANTS n1, n2, u1

(* This broker itself, and another before and after a restart, which gives *)
(* it a new identifier at the same address.                                *)
MCEntry == {[id |-> i, url |-> u1] : i \in {Self, n1, n2}}
=============================================================================
