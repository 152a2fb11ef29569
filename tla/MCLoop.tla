------------------------------- MODULE MCLoop -------------------------------
(***************************************************************************)
(* Instance of ScaleDownLoop: an atomic group of two nodes and an instance *)
(* that never registered, and a group of two nodes of which one must       *)
(* remain.                                                                 *)
(***************************************************************************)
EXTENDS ScaleDownLoop

CONSTANTS
  a1, a2, b1, b2,       \* nodes
  atomic, plain         \* groups

MCNodes == {a1, a2, b1, b2}
MCGroups == {atomic, plain}
MCGroupOf == [n \in MCNodes |-> IF n \in {a1, a2} THEN atomic ELSE plain]
MCAtomicGroups == {atomic}
MCForceGroups == {}
MCUnregistered == [g \in MCGroups |-> IF g = atomic THEN 1 ELSE 0]
MCMinSize == [g \in MCGroups |-> IF g = plain THEN 1 ELSE 0]

=============================================================================
