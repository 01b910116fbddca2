------------------------------ MODULE MCInflight -----------------------------
EXTENDS Inflight, TLC

CONSTANTS m1, m2

(* Publishers that happen to use different packet identifiers: a message   *)
(* stands for its identifier.                                              *)
MCDistinct(m) == m

Symmetric == Permutations(Message) \cup Permutations(Retry)
=============================================================================
