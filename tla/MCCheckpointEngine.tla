------------------------- MODULE MCCheckpointEngine -------------------------
EXTENDS CheckpointEngine, TLC

CONSTANTS n1, n2, r1

OneNode == {n1}
TwoNodes == {n1, n2}
OneReader == {r1}
NodePerms == Permutations(TwoNodes)
=============================================================================
