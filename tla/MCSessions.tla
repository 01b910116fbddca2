----------------------------- MODULE MCSessions ------------------------------
EXTENDS Sessions, TLC

ConnSymmetry == Permutations(Conn)
=============================================================================
