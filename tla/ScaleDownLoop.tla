---------------------------- MODULE ScaleDownLoop ----------------------------
(***************************************************************************)
(* StaticAutoscaler.RunOnce as far as scale-down goes, over the actuator's *)
(* goroutines, and the death and restart of the whole process.             *)
(*                                                                         *)
(* An iteration lists the nodes, takes a snapshot of the deletions in      *)
(* progress (CheckStatus), refreshes the cloud provider, and then plans    *)
(* from these three while goroutines of earlier iterations go on changing  *)
(* what they were taken from.  Which of the possible nodes are unneeded is *)
(* arbitrary, so neither utilization nor the unneeded time is modelled; a  *)
(* ToBeDeleted taint only keeps a node from being chosen for five minutes  *)
(* (IsNodeBeingDeleted), so it is not relied upon either.                  *)
(***************************************************************************)
EXTENDS ScaleDownActuation

CONSTANTS
  MinSize,     \* [Groups -> Nat], NodeGroup.MinSize
  MaxCrashes   \* bound on the number of times the process dies

ASSUME LoopAssumption ==
  /\ MinSize \in [Groups -> Nat]
  /\ MaxCrashes \in Nat

VARIABLES
  loop,         \* where the iteration is
  listed,       \* allNodes, the nodes obtainNodeLists returned
  deletions,    \* scaleDownActuationStatus.DeletionsInProgress
  counts,       \* scaleDownActuationStatus.DeletionsCount of each group
  sizes,        \* target sizes as of the last Refresh
  initialized,  \* cleanUpIfRequired has run in this process
  crashes       \* number of times the process died

loopVars == <<loop, listed, deletions, counts, sizes, initialized, crashes>>
allVars  == <<vars, loopVars>>

NoCounts == [g \in Groups |-> 0]

LoopTypeOK ==
  /\ TypeOK
  /\ loop \in {"idle", "listed", "checked", "refreshed"}
  /\ listed \subseteq Nodes
  /\ deletions \subseteq Nodes
  /\ counts \in [Groups -> Nat]
  /\ sizes \in [Groups -> Nat]
  /\ initialized \in BOOLEAN
  /\ crashes \in 0..MaxCrashes

(* The local variables of RunOnce when no iteration is under way. *)
Idle ==
  /\ loop' = "idle"
  /\ listed' = {}
  /\ deletions' = {}
  /\ counts' = NoCounts
  /\ sizes' = NoCounts

LoopInit ==
  /\ Init
  /\ loop = "idle"
  /\ listed = {}
  /\ deletions = {}
  /\ counts = NoCounts
  /\ sizes = NoCounts
  /\ initialized = FALSE
  /\ crashes = 0

-----------------------------------------------------------------------------
(* Mutant of CleanUpIfRequired: not only once.                             *)
CleanUpInEachIteration == initialized' = TRUE /\ toBeDeleted' = toBeDeleted \ instances

(* Mutant of CleanUpIfRequired: the taints of an earlier process stay.     *)
NoCleanUp == initialized' = TRUE /\ UNCHANGED toBeDeleted

(* cleanUpIfRequired: once per process.  Listing the nodes or updating one *)
(* of them may fail, which is only logged.                                 *)
CleanUpIfRequired ==
  /\ initialized' = TRUE
  /\ IF initialized
       THEN UNCHANGED toBeDeleted
       ELSE \E cleaned \in SUBSET instances :
              /\ TaintApiFails \/ cleaned = instances
              /\ toBeDeleted' = toBeDeleted \ cleaned

(* The beginning of RunOnce up to obtainNodeLists. *)
ObtainNodeLists ==
  /\ loop = "idle"
  /\ At("picked") = {}
  /\ CleanUpIfRequired
  /\ loop' = "listed"
  /\ listed' = instances
  /\ UNCHANGED <<trackerVars, actuatorVars, schedulerVars, batcherVars, cloudVars,
                 deletions, counts, sizes, crashes>>

CheckStatus ==
  /\ loop = "listed"
  /\ loop' = "checked"
  /\ deletions' = InProgress
  /\ counts' = deletionsPerNodeGroup
  /\ UNCHANGED <<vars, listed, sizes, initialized, crashes>>

Refresh ==
  /\ loop = "checked"
  /\ loop' = "refreshed"
  /\ sizes' = targetSize
  /\ UNCHANGED <<vars, listed, deletions, counts, initialized, crashes>>

(* Mutant of FilterOutOngoingDeletions.                                    *)
NoFilter(nodes) == nodes

(* Nodes whose deletion was in progress are no candidates.                 *)
FilterOutOngoingDeletions(nodes) == nodes \ deletions

(* Mutant of AboveMinSize: the live counters instead of the snapshot.      *)
AboveMinSizeLive(g, taken) ==
  sizes[g] - deletionsPerNodeGroup[g] - (taken - 1) > MinSize[g]

(* verifyMinSize for the last of the taken nodes of a group.               *)
AboveMinSize(g, taken) == sizes[g] - counts[g] - (taken - 1) > MinSize[g]

(* RemovableAt: each node is taken while the size of its group less these  *)
(* deletions and less the nodes already taken is above the minimum.        *)
Removable(nodes) ==
  \A g \in Groups :
    LET taken == Cardinality(nodes \cap NodesOf(g))
    IN  taken > 0 => AboveMinSize(g, taken)

(* The nodes the cloud lists as instances of the group.                    *)
RegisteredNodes(g) == listed \cap instances \cap NodesOf(g)

(* AtomicResizeFilteringProcessor keeps an atomic group only if all nodes  *)
(* of its target size, or all that are registered, are to be removed.      *)
FilterUnremovableNodes(nodes) ==
  \A g \in AtomicSelected(nodes) :
    Cardinality(nodes \cap NodesOf(g))
      \in {targetSize[g], Cardinality(RegisteredNodes(g))}

(* UpdateClusterState: any candidates whose deletion is not in progress    *)
(* may turn out to be unneeded.                                            *)
UnneededNodes == FilterOutOngoingDeletions(listed)

(* UpdateClusterState, NodesToDelete and StartDeletion. *)
ScaleDown ==
  /\ loop = "refreshed"
  /\ \E selected \in SUBSET UnneededNodes :
       /\ Removable(selected)
       /\ FilterUnremovableNodes(selected)
       /\ \E empty \in SUBSET selected : StartDeletion(empty, selected \ empty, FALSE)
  /\ Idle
  /\ UNCHANGED <<initialized, crashes>>

(* An iteration that ends early: an error, a scale-up, or the cooldown.    *)
ReturnEarly ==
  /\ loop # "idle"
  /\ Idle
  /\ UNCHANGED <<vars, initialized, crashes>>

(***************************************************************************)
(* The process dies.  Everything in memory is lost; the taints and the     *)
(* cloud remain, and calls under way may or may not have taken effect, in  *)
(* part where instances are deleted one by one.                            *)
(***************************************************************************)
(* Mutant of Crash: a part of any call may have taken effect.              *)
InterruptedAnywhere == \E gone \in SUBSET UNION cloudCalls : Removed(gone)

Interrupted ==
  \E done \in SUBSET cloudCalls :
  \E part \in SUBSET ((UNION cloudCalls) \cap IndividualNodes) :
    Removed((UNION done) \cup part)

Crash ==
  /\ crashes < MaxCrashes
  /\ crashes' = crashes + 1
  /\ Interrupted
  /\ deletionsPerNodeGroup' = NoCounts
  /\ emptyNodeDeletions' = {}
  /\ drainedNodeDeletions' = {}
  /\ pc' = [n \in Nodes |-> "none"]
  /\ batchSize' = [n \in Nodes |-> 0]
  /\ forced' = {}
  /\ failuresForGroup' = {}
  /\ nodeQueue' = [g \in Groups |-> {}]
  /\ bucket' = [g \in Groups |-> {}]
  /\ cloudCalls' = {}
  /\ initialized' = FALSE
  /\ Idle
  /\ UNCHANGED toBeDeleted

LoopStep == ObtainNodeLists \/ CheckStatus \/ Refresh \/ ScaleDown \/ ReturnEarly

LoopNext ==
  \/ LoopStep
  \/ Crash
  \/ (StartDrain \/ GoroutineStep) /\ UNCHANGED loopVars

(***************************************************************************)
(* The actuator's goroutines run, and the loop is called again and again.  *)
(* An iteration may always end early.                                      *)
(***************************************************************************)
LoopFairness ==
  /\ WF_allVars(StartDrain /\ UNCHANGED loopVars)
  /\ WF_allVars(LoopStep)
  /\ \A n \in Nodes : WF_allVars(NodeStep(n) /\ UNCHANGED loopVars)
  /\ \A g \in Groups : WF_allVars(RemoveBucket(g) /\ UNCHANGED loopVars)
  /\ \A call \in SUBSET Nodes : WF_allVars(CloudDelete(call) /\ UNCHANGED loopVars)

LoopSpec == LoopInit /\ [][LoopNext]_allVars /\ LoopFairness

-----------------------------------------------------------------------------
(* Properties                                                              *)

(***************************************************************************)
(* No iteration starts a deletion for a node whose deletion is in progress *)
(* although it plans from a snapshot that is out of date by then.  Two     *)
(* deletions of a node would share one tracker entry: the first to end     *)
(* would untaint the node under the other and free its budget.             *)
(***************************************************************************)
NodeStartedOnce ==
  [][\A n \in Nodes : n \in InProgress => pc'[n] \notin {"picked", "started"}
                                          \/ pc'[n] = pc[n]]_allVars

(***************************************************************************)
(* What the iteration works with is well formed, and the loop never takes  *)
(* a taint away from a node whose deletion is in progress, not when it     *)
(* cleans up after a dead process either.                                  *)
(***************************************************************************)
LoopInvariant == LoopTypeOK /\ TaintedWhileDeleting

(***************************************************************************)
(* A group never gets below its minimum size, even if every deletion in    *)
(* progress succeeds: the size is read after the deletions are counted     *)
(* ("Snapshot scale-down actuation status before cache refresh" in         *)
(* RunOnce), so that one that ends in between is counted twice and never   *)
(* missed.                                                                 *)
(***************************************************************************)
MinSizeKept ==
  \A g \in Groups :
    targetSize[g] - Cardinality((Tracked \cup At("picked")) \cap instances \cap NodesOf(g))
      >= MinSize[g]

(***************************************************************************)
(* A node that is not part of an atomic group does not keep the            *)
(* ToBeDeleted taint: it is removed, or the taint is, even if the process  *)
(* that set the taint died.                                                *)
(***************************************************************************)
TaintResolved ==
  \A n \in IndividualNodes :
    n \in toBeDeleted /\ n \in instances ~> n \notin toBeDeleted \/ n \notin instances

(***************************************************************************)
(* What the actuator promises holds of the whole program as well, with     *)
(* deletions planned from a list and a snapshot that are out of date and   *)
(* with processes that die: no instance disappears that was not reported   *)
(* and tainted, no atomic group in part, and the clean-up of a new process *)
(* takes no taint from a node whose deletion is in progress.               *)
(***************************************************************************)
LoopPromiseKept == Promise!SpecWithRestarts

=============================================================================
