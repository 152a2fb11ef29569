----------------------------- MODULE MCSnapshots ------------------------------
(***************************************************************************)
(* Two structures that a forked cluster snapshot is made of, side by side: *)
(* the patches that maps are kept in (PatchSet) and the store of nodes and *)
(* pods (DeltaSnapshotStore).  MCParts has the third, the resource claims. *)
(* They share no state, and every behaviour works on one of them, so that  *)
(* the states of the run are the sum of theirs and not the product.  The   *)
(* properties of the run are those of the two modules.                     *)
(***************************************************************************)
EXTENDS PatchSet, DeltaSnapshotStore

CONSTANTS
  n1, n2,               \* nodes
  a                     \* a pod

(* Two nodes, and one pod with a volume claim and anti-affinity. *)
MCNodes == {n1, n2}
MCPods == {a}

VARIABLE part           \* the structure that the behaviour works on

(* What the behaviour does not work on is empty. *)
SnapshotsInit ==
  /\ part \in {"patches", "store"}
  /\ PatchInit /\ (part # "patches" => patches = <<NewPatch>>)
  /\ Init

SnapshotsNext ==
  \/ part = "patches" /\ PatchNext /\ UNCHANGED <<deltaVars, part>>
  \/ part = "store" /\ Next /\ UNCHANGED <<patchVars, part>>

SnapshotsSpec == SnapshotsInit /\ [][SnapshotsNext]_<<patchVars, deltaVars, part>>
=============================================================================
