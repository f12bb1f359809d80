--------------------------- MODULE MCRollingUpdate ---------------------------
EXTENDS RollingUpdate, TLC

Symmetry == Permutations(Node)
=============================================================================
