----------------------------- MODULE MCAwaitRel ------------------------------
EXTENDS AwaitRel, TLC

IdSymmetry == Permutations(PacketId)
=============================================================================
