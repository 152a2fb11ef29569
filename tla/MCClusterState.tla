--------------------------- MODULE MCClusterState ----------------------------
(***************************************************************************)
(* Instances of ClusterState.  The instances of a group are alike, so they *)
(* are symmetric wherever no liveness is checked.                          *)
(***************************************************************************)
EXTENDS ClusterState, TLC

Symmetry == Permutations(Instances)

=============================================================================
