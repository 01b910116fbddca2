----------------------------- MODULE MCLifecycle -----------------------------
EXTENDS Lifecycle, TLC

ConnSymmetry == Permutations(Conn)
=============================================================================
