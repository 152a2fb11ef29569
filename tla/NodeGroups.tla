----------------------------- MODULE NodeGroups -----------------------------
(***************************************************************************)
(* The nodes and node groups the scale-down code of the Cluster Autoscaler *)
(* works on, and its two parallelism limits.  A node belongs to one group  *)
(* for its whole life (CloudProvider.NodeGroupForNode).  An atomic group   *)
(* is one whose options have ZeroOrMaxNodeScaling set: the cloud provider  *)
(* only resizes it between zero and its full size.                         *)
(***************************************************************************)
EXTENDS Naturals, FiniteSets

CONSTANTS
  Nodes,                    \* names of nodes
  Groups,                   \* ids of node groups
  GroupOf,                  \* [Nodes -> Groups], NodeGroupForNode
  AtomicGroups,             \* groups with ZeroOrMaxNodeScaling
  MaxScaleDownParallelism,  \* --max-scale-down-parallelism
  MaxDrainParallelism       \* --max-drain-parallelism

ASSUME NodeGroupsAssumption ==
  /\ IsFiniteSet(Nodes)
  /\ GroupOf \in [Nodes -> Groups]
  /\ AtomicGroups \subseteq Groups
  /\ MaxScaleDownParallelism \in Nat
  /\ MaxDrainParallelism \in Nat

NodesOf(g) == {n \in Nodes : GroupOf[n] = g}

IndividualNodes == {n \in Nodes : GroupOf[n] \notin AtomicGroups}

=============================================================================
