---------------------------- MODULE MCActuation ----------------------------
(***************************************************************************)
(* Instances of ScaleDownActuation: an atomic group and a group whose      *)
(* nodes are deleted one by one.                                           *)
(***************************************************************************)
EXTENDS ScaleDownActuation, TLC

CONSTANTS
  a1, a2, a3, b1, b2, b3,   \* nodes
  atomic, plain             \* groups

MCGroups == {atomic, plain}
MCAtomicGroups == {atomic}

(* An atomic group of two nodes and three nodes that are deleted one by    *)
(* one, also by force.                                                     *)
MCNodes == {a1, a2, b1, b2, b3}
MCGroupOf == [n \in MCNodes |-> IF n \in {a1, a2} THEN atomic ELSE plain]
MCForceGroups == {plain}
MCUnregistered == [g \in MCGroups |-> 0]

(* The nodes of a group are interchangeable. *)
Symmetry == Permutations({a1, a2}) \cup Permutations({b1, b2, b3})

(* An atomic group of three nodes. *)
WideNodes == {a1, a2, a3, b1}
WideGroupOf == [n \in WideNodes |-> IF n = b1 THEN plain ELSE atomic]
WideUnregistered == [g \in MCGroups |-> IF g = atomic THEN 1 ELSE 0]
NoForceGroups == {}

(* The atomic group alone. *)
AloneNodes == {a1, a2}
AloneGroups == {atomic}
AloneGroupOf == [n \in AloneNodes |-> atomic]
AloneUnregistered == [g \in AloneGroups |-> 0]

=============================================================================
