--------------------------- MODULE BudgetContract ---------------------------
(***************************************************************************)
(* What ScaleDownBudgetProcessor.CropNodes promises to the actuator: the   *)
(* relation between the deletions in progress, the sizes of the groups and *)
(* the nodes it selects.  Module Budgets holds the algorithm and a run     *)
(* shows that its selections satisfy the relation; ScaleDownActuation      *)
(* takes any selection the relation allows.  The planner hands its         *)
(* candidates over in the order of a Go map (unneeded.Nodes.RemovableAt),  *)
(* so which nodes of a group and which groups are met first is arbitrary.  *)
(***************************************************************************)
EXTENDS NodeGroups, Integers

(* The atomic groups some selected node belongs to. *)
AtomicSelected(selected) ==
  {g \in AtomicGroups : selected \cap NodesOf(g) # {}}

(* Nodes of a selection that are deleted one by one, and those that are    *)
(* deleted as part of a whole group.                                       *)
Individual(selected) == selected \cap IndividualNodes
Atomic(selected)     == selected \ IndividualNodes

(***************************************************************************)
(* NodeGroupView.BatchSize of an atomic group: its target size, or its     *)
(* registered size when the list CropNodes meets first - the empty nodes   *)
(* if there are any, else the nodes to drain - has every registered node.  *)
(***************************************************************************)
BatchSizeOf(g, empty, drain, target, registered) ==
  LET lead == IF empty \cap NodesOf(g) # {} THEN empty ELSE drain
  IN  IF Cardinality(lead \cap NodesOf(g)) = registered[g]
        THEN registered[g]
        ELSE target[g]

(* Mutant of ParallelismBudget: drains in progress are free.               *)
ParallelismIgnoringDrains(emptyInProgress, drainInProgress) ==
  MaxScaleDownParallelism - emptyInProgress

(* What the deletions in progress leave of the two limits; the budgets are *)
(* negative while an atomic group larger than a limit is being deleted.    *)
ParallelismBudget(emptyInProgress, drainInProgress) ==
  MaxScaleDownParallelism - emptyInProgress - drainInProgress

DrainBudget(drainInProgress) == MaxDrainParallelism - drainInProgress

(***************************************************************************)
(* emptyInProgress and drainInProgress are the deletions the tracker       *)
(* counts, target[g] and registered[g] the cloud's target size and the     *)
(* number of registered nodes of group g.                                  *)
(***************************************************************************)
WithinBudget(emptyInProgress, drainInProgress, target, registered, empty, drain) ==
  LET selected    == empty \cup drain
      parallelism == ParallelismBudget(emptyInProgress, drainInProgress)
      drains      == DrainBudget(drainInProgress)
  IN  \* an atomic group is selected as a whole or not at all
      /\ \A g \in AtomicSelected(selected) :
           Cardinality(selected \cap NodesOf(g)) \in {target[g], registered[g]}
      \* nodes deleted one by one only use what the whole groups left over
      /\ Individual(empty) # {} =>
           Cardinality(empty) + Cardinality(Atomic(drain)) <= parallelism
      /\ Individual(drain) # {} =>
           /\ Cardinality(selected) <= parallelism
           /\ Cardinality(drain) <= drains
      \* a second atomic group is only selected while all of them fit
      /\ Cardinality(AtomicSelected(selected)) > 1 =>
           /\ Cardinality(Atomic(selected)) <= parallelism
           /\ Cardinality(Atomic(drain)) <= drains
      \* budgets that are used up exactly let nothing in
      /\ parallelism = 0 /\ drains >= 0 => selected = {}
      /\ drains = 0 /\ parallelism >= 0 => drain = {}

=============================================================================
