----------------------------- MODULE CloudGroup ------------------------------
(***************************************************************************)
(* One node group as the main loop meets it: the cloud provider's side     *)
(* (target size and instances, with the operations of a GCE managed        *)
(* instance group) and the nodes its instances register in Kubernetes.     *)
(***************************************************************************)
EXTENDS Integers, FiniteSets

CONSTANTS
  Instances,    \* names of the instances the group can ever have
  MinSize,
  MaxSize,
  StartupTime,  \* MaxNodeStartupTime
  CloudFails,   \* calls of the cloud provider may fail
  Preemption    \* instances may go without anybody of the cluster asking

ASSUME GroupAssumption ==
  /\ IsFiniteSet(Instances)
  /\ MinSize \in Nat /\ MaxSize \in Nat
  /\ MinSize <= MaxSize
  /\ StartupTime \in Nat
  /\ CloudFails \in BOOLEAN /\ Preemption \in BOOLEAN

VARIABLES
  targetSize,  \* what TargetSize returns
  instance,    \* state of each instance; names are never used twice
  node,        \* state of the node of each instance
  nodeAge      \* time since the node was created, up to StartupTime

groupVars == <<targetSize, instance, node, nodeAge>>

(* An instance whose creation failed stays listed with its error until it  *)
(* is deleted.  A deleted instance was removed by the autoscaler, which    *)
(* tainted its node first; a preempted one left without a trace.  In both  *)
(* cases the node stays for a while, and the provider still knows the      *)
(* group that it belongs to.                                               *)
InstanceStates == {"unused", "creating", "failed", "running", "deleted", "preempted"}

GroupTypeOK ==
  /\ targetSize \in 0..MaxSize
  /\ instance \in [Instances -> InstanceStates]
  /\ node \in [Instances -> {"absent", "notready", "ready"}]
  /\ nodeAge \in [Instances -> 0..StartupTime]

(* The group was created with its minimum size; some of its instances may  *)
(* still be to come.                                                       *)
GroupInit ==
  /\ targetSize = MinSize
  /\ \E S \in SUBSET Instances :
       /\ Cardinality(S) <= MinSize
       /\ instance = [i \in Instances |-> IF i \in S THEN "running" ELSE "unused"]
       /\ node = [i \in Instances |-> IF i \in S THEN "ready" ELSE "absent"]
  /\ nodeAge = [i \in Instances |-> StartupTime]

InState(s) == {i \in Instances : instance[i] = s}

(* The instances that Nodes() lists. *)
Existing == InState("creating") \union InState("failed") \union InState("running")
NodesIn(s) == {i \in Instances : node[i] = s}

-----------------------------------------------------------------------------
(* Operations of the provider, each TRUE exactly when it succeeds. *)

IncreaseSize(delta) ==
  /\ targetSize + delta <= MaxSize
  /\ targetSize' = targetSize + delta
  /\ UNCHANGED <<instance, node, nodeAge>>

CanDecrease(delta) == targetSize + delta >= Cardinality(Existing)

(* Mutant of DecreaseTargetSize: existing instances are not looked at.     *)
DecreaseAnyway(delta) ==
  /\ targetSize' = targetSize + delta
  /\ UNCHANGED <<instance, node, nodeAge>>

DecreaseTargetSize(delta) ==
  /\ CanDecrease(delta)
  /\ targetSize' = targetSize + delta
  /\ UNCHANGED <<instance, node, nodeAge>>

(* Mutant of CanDelete: what remains is compared with the minimum, and     *)
(* strictly.                                                               *)
CanDeleteAboveMin(S) == targetSize - Cardinality(S) > MinSize /\ S \subseteq Existing

CanDelete(S) == targetSize > MinSize /\ S \subseteq Existing

DeleteNodes(S) ==
  /\ CanDelete(S)
  /\ targetSize' = targetSize - Cardinality(S)
  /\ instance' = [i \in Instances |-> IF i \in S THEN "deleted" ELSE instance[i]]
  /\ UNCHANGED <<node, nodeAge>>

-----------------------------------------------------------------------------
(* What happens outside of the autoscaler's loop. *)

Becomes(i, state) ==
  /\ instance' = [instance EXCEPT ![i] = state]
  /\ UNCHANGED <<targetSize, node, nodeAge>>

CreateInstance(i) ==
  /\ instance[i] = "unused"
  /\ Cardinality(Existing) < targetSize
  /\ Becomes(i, "creating")

CreationFails(i) == instance[i] = "creating" /\ Becomes(i, "failed")
InstanceRuns(i)  == instance[i] = "creating" /\ Becomes(i, "running")
Preempt(i) == Preemption /\ instance[i] = "running" /\ Becomes(i, "preempted")

NodeBecomes(i, state, age) ==
  /\ node' = [node EXCEPT ![i] = state]
  /\ nodeAge' = [nodeAge EXCEPT ![i] = age]
  /\ UNCHANGED <<targetSize, instance>>

Register(i) ==
  /\ instance[i] = "running"
  /\ node[i] = "absent"
  /\ NodeBecomes(i, "notready", 0)

NodeReady(i)  == instance[i] = "running" /\ node[i] = "notready" /\ NodeBecomes(i, "ready", nodeAge[i])
NodeBreaks(i) == node[i] = "ready" /\ NodeBecomes(i, "notready", nodeAge[i])

(* The node object goes some time after its instance. *)
NodeGoes(i) ==
  /\ instance[i] \in {"deleted", "preempted"}
  /\ node[i] # "absent"
  /\ NodeBecomes(i, "absent", StartupTime)

(* A goroutine of the scale-down actuator deletes a node. *)
ScaleDown(i) ==
  /\ instance[i] = "running"
  /\ node[i] # "absent"
  /\ DeleteNodes({i})

GroupStep ==
  \E i \in Instances :
    \/ CreateInstance(i) \/ CreationFails(i) \/ InstanceRuns(i) \/ Preempt(i)
    \/ Register(i) \/ NodeReady(i) \/ NodeBreaks(i) \/ NodeGoes(i)
    \/ ScaleDown(i)

NodesGetOlder ==
  nodeAge' = [i \in Instances |->
                IF nodeAge[i] < StartupTime THEN nodeAge[i] + 1 ELSE StartupTime]

=============================================================================
