----------------------------- MODULE MCClusterHA -----------------------------
EXTENDS ClusterHA, TLC

Symmetry == Permutations(Node)
=============================================================================
