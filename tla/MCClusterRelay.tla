--------------------------- MODULE MCClusterRelay ---------------------------
\* Small instances of the cluster for TLC.
EXTENDS ClusterRelay, TLC
Symmetry == Permutations(Nodes) \cup Permutations(Pulls)
=============================================================================
