------------------------- MODULE MCClusterRegistry -------------------------
(* ClusterRegistry for TLC.                                                *)
EXTENDS ClusterRegistry, TLC

Symmetry == Permutations(Calls)

=============================================================================
