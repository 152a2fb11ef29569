------------------------- MODULE ScaleDownActuation -------------------------
(***************************************************************************)
(* The actuation half of the Cluster Autoscaler's scale-down: Actuator,    *)
(* GroupDeletionScheduler and NodeDeletionBatcher, on top of the           *)
(* NodeDeletionTracker.                                                    *)
(*                                                                         *)
(* StartDeletion runs in the main loop.  It taints the nodes CropNodes     *)
(* selected and starts one goroutine per group (deleteNodesAsync), which   *)
(* starts one per node (ScheduleDeletion).  A node that has been prepared  *)
(* enters its group's queue; a whole queue moves to the batcher, and a     *)
(* goroutine of the batcher calls the cloud provider.  Any of these can    *)
(* give the node up, which unwinds the taint and the tracker entry.        *)
(*                                                                         *)
(* pc[n] is where the deletion of node n is:                               *)
(*   none       no goroutine works on n                                    *)
(*   picked     selected for drain; the main loop has not tainted it yet   *)
(*   started    tracked; waits for its turn in deleteNodesAsync            *)
(*   preparing  ScheduleDeletion is evicting pods or waits for the         *)
(*              delay-deletion annotations                                 *)
(*   handed     its own goroutine has ended and n is in a node queue, in a *)
(*              batcher bucket or in a cloud call                          *)
(*   cleaning   given up; CleanToBeDeleted is next                         *)
(*   ending     untainted; EndDeletion with an error is next               *)
(*   deleted    removed by the cloud; EndDeletion with success is next     *)
(***************************************************************************)
EXTENDS NodeDeletionTracker, BudgetContract

CONSTANTS
  Unregistered,   \* [Groups -> Nat], instances that never became a node
  DeleteInterval, \* --node-deletion-batcher-interval is not zero
  ForceGroups,    \* groups whose nodes StartForceDeletion may be given
  TaintApiFails   \* updates of a node's taints may fail

ASSUME ActuationAssumption ==
  /\ Unregistered \in [Groups -> Nat]
  /\ DeleteInterval \in BOOLEAN
  /\ ForceGroups \subseteq Groups
  /\ TaintApiFails \in BOOLEAN

VARIABLES
  pc,                \* [Nodes -> PCs]
  batchSize,         \* [Nodes -> Nat], batchSize of the node's goroutine, else 0
  forced,            \* nodes whose goroutine runs a forced deletion
  toBeDeleted,       \* nodes with the ToBeDeleted taint
  failuresForGroup,  \* groups in which a node was given up in this phase
  nodeQueue,         \* [Groups -> SUBSET Nodes], prepared nodes of a group
  bucket,            \* [Groups -> SUBSET Nodes], batcher.deletionsPerNodeGroup
  cloudCalls,        \* sets of nodes the batcher's goroutines are deleting
  instances,         \* nodes whose instance exists in the cloud
  targetSize         \* [Groups -> Nat], the cloud's target size

actuatorVars  == <<pc, batchSize, forced>>
schedulerVars == <<failuresForGroup, nodeQueue>>
batcherVars   == <<bucket, cloudCalls>>
cloudVars     == <<instances, targetSize>>
vars == <<trackerVars, actuatorVars, toBeDeleted, schedulerVars, batcherVars, cloudVars>>

PCs == {"none", "picked", "started", "preparing", "handed",
        "cleaning", "ending", "deleted"}

TypeOK ==
  /\ TrackerTypeOK
  /\ pc \in [Nodes -> PCs]
  /\ batchSize \in [Nodes -> Nat]
  /\ forced \subseteq Nodes
  /\ toBeDeleted \subseteq Nodes
  /\ failuresForGroup \subseteq Groups
  /\ nodeQueue \in [Groups -> SUBSET Nodes]
  /\ bucket \in [Groups -> SUBSET Nodes]
  /\ cloudCalls \subseteq SUBSET Nodes
  /\ instances \subseteq Nodes
  /\ targetSize \in [Groups -> Nat]

Init ==
  /\ TrackerInit
  /\ pc = [n \in Nodes |-> "none"]
  /\ batchSize = [n \in Nodes |-> 0]
  /\ forced = {}
  /\ toBeDeleted = {}
  /\ failuresForGroup = {}
  /\ nodeQueue = [g \in Groups |-> {}]
  /\ bucket = [g \in Groups |-> {}]
  /\ cloudCalls = {}
  /\ instances = Nodes
  /\ targetSize = [g \in Groups |-> Cardinality(NodesOf(g)) + Unregistered[g]]

At(stage) == {n \in Nodes : pc[n] = stage}

(* pc with the nodes of a set moved to another stage. *)
Moved(moving, stage) == [n \in Nodes |-> IF n \in moving THEN stage ELSE pc[n]]

RegisteredSize == [g \in Groups |-> Cardinality(instances \cap NodesOf(g))]

-----------------------------------------------------------------------------
(* The main loop: Actuator.startDeletion.                                  *)

(***************************************************************************)
(* The outcomes of taintNodesSync: all nodes are tainted, or some update   *)
(* failed and the taints already applied are removed again, an attempt     *)
(* whose error is ignored - any proper part of the taints may remain.      *)
(***************************************************************************)
(* Mutant of TaintAll: the taints are never written.                       *)
TaintNothing(picked) == UNCHANGED toBeDeleted

TaintAll(picked) == toBeDeleted' = toBeDeleted \cup picked

(* Mutant of TaintFailed: the roll-back removes every taint there is.      *)
TaintFailedCleansAll(picked) == TaintApiFails /\ toBeDeleted' = {}

TaintFailed(picked) ==
  /\ TaintApiFails
  /\ \E tainted \in (SUBSET picked) \ {picked} : \E left \in SUBSET tainted :
       toBeDeleted' = (toBeDeleted \ tainted) \cup left

(* deleteAsyncEmpty, deleteAsyncDrain: the nodes are put into the tracker  *)
(* and a goroutine per group takes over.                                   *)
StartAsyncEmpty(empty) == TrackStart(empty)
StartAsyncDrain(drain) == TrackStartWithDrain(drain)

BatchSizes(empty, drain) ==
  [n \in Nodes |->
     IF n \in empty \cup drain
       THEN IF GroupOf[n] \in AtomicGroups
              THEN BatchSizeOf(GroupOf[n], empty, drain, targetSize, RegisteredSize)
              ELSE 0
       ELSE batchSize[n]]

(***************************************************************************)
(* startDeletion up to the end of its first half: forget the failures of   *)
(* the last phase, crop the candidates, taint the empty nodes and start    *)
(* their deletion.  If tainting fails the call returns and the nodes to    *)
(* drain are dropped with it.                                              *)
(***************************************************************************)
StartDeletion(empty, drain, force) ==
  /\ At("picked") = {}
  /\ WithinBudget(Cardinality(emptyNodeDeletions), Cardinality(drainedNodeDeletions),
                  targetSize, RegisteredSize, empty, drain)
  /\ failuresForGroup' = {}
  /\ \/ /\ TaintAll(empty)
        /\ StartAsyncEmpty(empty)
        /\ pc' = [n \in Nodes |-> IF n \in empty THEN "started"
                                  ELSE IF n \in drain THEN "picked" ELSE pc[n]]
        /\ batchSize' = BatchSizes(empty, drain)
        /\ forced' = IF force THEN forced \cup empty \cup drain ELSE forced
     \/ /\ empty # {}
        /\ TaintFailed(empty)
        /\ UNCHANGED <<trackerVars, actuatorVars>>
  /\ UNCHANGED <<nodeQueue, batcherVars, cloudVars>>

(***************************************************************************)
(* The second half of the same call: taint every node to drain, then start *)
(* draining.  If tainting fails the empty nodes stay started.              *)
(***************************************************************************)
StartDrain ==
  /\ At("picked") # {}
  /\ \/ /\ TaintAll(At("picked"))
        /\ StartAsyncDrain(At("picked"))
        /\ pc' = Moved(At("picked"), "started")
        /\ UNCHANGED <<batchSize, forced>>
     \/ /\ TaintFailed(At("picked"))
        /\ pc' = Moved(At("picked"), "none")
        /\ batchSize' = [n \in Nodes |-> IF pc[n] = "picked" THEN 0 ELSE batchSize[n]]
        /\ forced' = forced \ At("picked")
        /\ UNCHANGED trackerVars
  /\ UNCHANGED <<schedulerVars, batcherVars, cloudVars>>

-----------------------------------------------------------------------------
(* GroupDeletionScheduler and NodeDeletionBatcher.                         *)

(* The parameters of n's goroutine go with it. *)
GoroutineEnds(n) ==
  /\ batchSize' = [batchSize EXCEPT ![n] = 0]
  /\ forced' = forced \ {n}

(* Mutant of GivenUpWith: the queue is dropped without being rolled back.   *)
GivenUpAlone(n) == {n}

(* The nodes that are given up with n: all that wait in its group's queue. *)
GivenUpWith(n) == {n} \cup nodeQueue[GroupOf[n]]

(***************************************************************************)
(* AbortNodeDeletion: the group is marked as failed, and the node and the  *)
(* nodes of its group that were already queued are given up.               *)
(***************************************************************************)
Abort(n) ==
  LET g == GroupOf[n]
  IN  /\ failuresForGroup' = failuresForGroup \cup {g}
      /\ pc' = Moved(GivenUpWith(n), "cleaning")
      /\ GoroutineEnds(n)
      /\ nodeQueue' = [nodeQueue EXCEPT ![g] = {}]
      /\ UNCHANGED batcherVars

(* AddNodes: without an interval a goroutine calls the cloud at once; with *)
(* one, the nodes join the group's bucket, whose timer the first one set.  *)
AddNodes(g, nodes) ==
  IF DeleteInterval
    THEN /\ bucket' = [bucket EXCEPT ![g] = @ \cup nodes]
         /\ UNCHANGED cloudCalls
    ELSE /\ cloudCalls' = cloudCalls \cup {nodes}
         /\ UNCHANGED bucket

(* An atomic group of which some node was given up in this phase.          *)
Failed(g) == g \in AtomicGroups /\ g \in failuresForGroup

(* Mutant of Complete: off by one.                                         *)
CompleteWithoutLast(n, queue) ==
  GroupOf[n] \in AtomicGroups => Cardinality(queue) + 1 >= batchSize[n]

(* The nodes of a group wait for each other if it is atomic.               *)
Complete(n, queue) ==
  GroupOf[n] \in AtomicGroups => Cardinality(queue) >= batchSize[n]

(* addToBatcher, under the scheduler's lock. *)
AddToBatcher(n) ==
  LET g     == GroupOf[n]
      queue == nodeQueue[g] \cup {n}
  IN  /\ UNCHANGED failuresForGroup
      /\ GoroutineEnds(n)
      /\ IF Failed(g)
           THEN \* only n is cleaned up, but the whole queue is deleted
                /\ pc' = Moved({n}, "cleaning")
                /\ nodeQueue' = [nodeQueue EXCEPT ![g] = {}]
                /\ UNCHANGED batcherVars
           ELSE /\ pc' = Moved({n}, "handed")
                /\ IF Complete(n, queue)
                     THEN /\ nodeQueue' = [nodeQueue EXCEPT ![g] = {}]
                          /\ AddNodes(g, queue)
                     ELSE /\ nodeQueue' = [nodeQueue EXCEPT ![g] = queue]
                          /\ UNCHANGED batcherVars

(***************************************************************************)
(* One turn of the loop of deleteNodesAsync.  A snapshot or PDB listing    *)
(* error aborts every node of the goroutine; a node that is missing from   *)
(* the snapshot, has pods that must not move, or is no longer empty is     *)
(* aborted alone; otherwise its own goroutine is started.                  *)
(***************************************************************************)
DeleteNodesAsync(n) ==
  /\ pc[n] = "started"
  /\ \/ /\ pc' = Moved({n}, "preparing")
        /\ UNCHANGED <<batchSize, forced, schedulerVars, batcherVars>>
     \/ Abort(n)
  /\ UNCHANGED <<trackerVars, toBeDeleted, cloudVars>>

(***************************************************************************)
(* scheduleDeletion: the options could be read and prepareNodeForDeletion  *)
(* succeeded, or one of them failed.  prepareNodeForDeletion changes pods  *)
(* only and holds no lock.                                                 *)
(***************************************************************************)
ScheduleDeletion(n) ==
  /\ pc[n] = "preparing"
  /\ AddToBatcher(n) \/ Abort(n)
  /\ UNCHANGED <<trackerVars, toBeDeleted, cloudVars>>

(* The forced variant when preparing failed and ForceDeleteNodes removed   *)
(* the instance: the node goes on to the batcher all the same.             *)
ForceDelete(n) ==
  /\ pc[n] = "preparing"
  /\ n \in forced
  /\ n \in instances
  /\ instances' = instances \ {n}
  /\ targetSize' = [targetSize EXCEPT ![GroupOf[n]] = @ - 1]
  /\ AddToBatcher(n)
  /\ UNCHANGED <<trackerVars, toBeDeleted>>

(* remove, when the timer of the group's bucket fires. *)
RemoveBucket(g) ==
  /\ bucket[g] # {}
  /\ bucket' = [bucket EXCEPT ![g] = {}]
  /\ cloudCalls' = cloudCalls \cup {bucket[g]}
  /\ UNCHANGED <<trackerVars, actuatorVars, toBeDeleted, schedulerVars, cloudVars>>

(***************************************************************************)
(* deleteNodesFromCloudProvider.  On success every instance of the call is *)
(* gone.  On an error a provider that deletes instances one by one may     *)
(* have removed some of them; the resize of an atomic group is one         *)
(* operation of the cloud.                                                 *)
(***************************************************************************)
(* Mutant of Removed: instances that are gone already are counted again.   *)
RemovedAgain(call) ==
  /\ instances' = instances \ call
  /\ targetSize' = [g \in Groups |-> targetSize[g] - Cardinality(call \cap NodesOf(g))]

Removed(call) ==
  /\ instances' = instances \ call
  /\ targetSize' = [g \in Groups |->
       targetSize[g] - Cardinality(call \cap instances \cap NodesOf(g))]

CloudDelete(call) ==
  /\ call \in cloudCalls
  /\ cloudCalls' = cloudCalls \ {call}
  /\ \/ /\ Removed(call)
        /\ pc' = Moved(call, "deleted")
     \/ /\ \E gone \in SUBSET (call \cap IndividualNodes) : Removed(gone)
        /\ pc' = Moved(call, "cleaning")
  /\ UNCHANGED <<trackerVars, batchSize, forced, toBeDeleted, schedulerVars, bucket>>

(***************************************************************************)
(* CleanUpAndRecordFailedScaleDownEvent, in its two calls: remove the      *)
(* taint, whose error is ignored, and end the deletion in the tracker.     *)
(***************************************************************************)
CleanToBeDeleted(n) ==
  /\ pc[n] = "cleaning"
  /\ pc' = Moved({n}, "ending")
  /\ \/ toBeDeleted' = toBeDeleted \ {n}
     \/ TaintApiFails /\ UNCHANGED toBeDeleted
  /\ UNCHANGED <<trackerVars, batchSize, forced, schedulerVars, batcherVars, cloudVars>>

EndFailedDeletion(n) ==
  /\ pc[n] = "ending"
  /\ pc' = Moved({n}, "none")
  /\ TrackEnd(n)
  /\ UNCHANGED <<batchSize, forced, toBeDeleted, schedulerVars, batcherVars, cloudVars>>

(* RegisterAndRecordSuccessfulScaleDownEvent. *)
EndSuccessfulDeletion(n) ==
  /\ pc[n] = "deleted"
  /\ pc' = Moved({n}, "none")
  /\ TrackEnd(n)
  /\ UNCHANGED <<batchSize, forced, toBeDeleted, schedulerVars, batcherVars, cloudVars>>

-----------------------------------------------------------------------------
(***************************************************************************)
(* The goroutines of one node, and all of them.                            *)
(***************************************************************************)
NodeStep(n) ==
  \/ DeleteNodesAsync(n)
  \/ ScheduleDeletion(n)
  \/ ForceDelete(n)
  \/ CleanToBeDeleted(n)
  \/ EndFailedDeletion(n)
  \/ EndSuccessfulDeletion(n)

GoroutineStep ==
  \/ \E n \in Nodes : NodeStep(n)
  \/ \E g \in Groups : RemoveBucket(g)
  \/ \E call \in cloudCalls : CloudDelete(call)

(***************************************************************************)
(* The candidates are what the contract between planner and actuator       *)
(* allows: existing nodes that no deletion is in progress for.  Module     *)
(* ScaleDownLoop models how the main loop comes by them.                   *)
(***************************************************************************)
StartAnyDeletion ==
  \E selected \in SUBSET (At("none") \cap instances) :
  \E empty \in SUBSET selected :
  \E force \in BOOLEAN :
    /\ force => \A n \in selected : GroupOf[n] \in ForceGroups
    /\ StartDeletion(empty, selected \ empty, force)

Next == StartAnyDeletion \/ StartDrain \/ GoroutineStep

(***************************************************************************)
(* Every goroutine that has been started gets to run: the Go scheduler is  *)
(* fair, the drain and the delay-deletion wait are bounded by timeouts,    *)
(* and the batcher's timer fires.  Nothing makes the main loop start a     *)
(* deletion, but a call of startDeletion goes on to its end.               *)
(***************************************************************************)
Fairness ==
  /\ WF_vars(StartDrain)
  /\ \A n \in Nodes : WF_vars(NodeStep(n))
  /\ \A g \in Groups : WF_vars(RemoveBucket(g))
  /\ \A call \in SUBSET Nodes : WF_vars(CloudDelete(call))

Spec == Init /\ [][Next]_vars
FairSpec == Spec /\ Fairness

-----------------------------------------------------------------------------
(* Properties                                                              *)

(***************************************************************************)
(* No deletion is lost and none has two owners: a node is in the tracker   *)
(* exactly while some goroutine, queue, bucket or cloud call is            *)
(* responsible for ending its deletion, and a node whose own goroutine has *)
(* ended is in exactly one place.  A node that escaped would stay tainted  *)
(* and use up the parallelism budget for ever; one in two places would be  *)
(* deleted, or counted down, twice.                                        *)
(***************************************************************************)
Tracked == Nodes \ (At("none") \cup At("picked"))

Waiting(g) == nodeQueue[g] \cup bucket[g]

PlacedOnce ==
  /\ \A n \in Nodes :
       pc[n] = "handed" <=> n \in Waiting(GroupOf[n]) \/ \E call \in cloudCalls : n \in call
  /\ \A g \in Groups :
       /\ Waiting(g) \subseteq NodesOf(g)
       /\ nodeQueue[g] \cap bucket[g] = {}
       /\ \A call \in cloudCalls : Waiting(g) \cap call = {}
  /\ \A call, other \in cloudCalls : call # other => call \cap other = {}

NoDeletionLost == InProgress = Tracked /\ PlacedOnce

(***************************************************************************)
(* While a node is prepared, drained or handed to the cloud it carries the *)
(* taint: the clean-up of another attempt, of taintNodesSync or of a       *)
(* failed group, never takes away a taint that a deletion in progress      *)
(* relies on, and so evicted pods cannot come back to the node.            *)
(***************************************************************************)
TaintedWhileDeleting ==
  \A n \in Nodes :
    pc[n] \in {"started", "preparing", "handed", "cleaning", "deleted"}
      => n \in toBeDeleted

(***************************************************************************)
(* addToBatcher drops the whole queue of a failed group but cleans up only *)
(* the node it was called for; no other node is in that queue then, or its *)
(* deletion would be lost.                                                 *)
(***************************************************************************)
FailedGroupHasNoQueue ==
  \A g \in AtomicGroups \cap failuresForGroup : nodeQueue[g] = {}

(***************************************************************************)
(* Scale-down never leaves a part of an atomic group behind: the registered *)
(* nodes of a group with ZeroOrMaxNodeScaling are all there or all gone,   *)
(* whatever fails and however scale-down phases overlap.  StartForceDeletion *)
(* deletes the nodes it cannot drain one by one, so groups it may be given *)
(* are excluded; the main loop never calls it.                             *)
(***************************************************************************)
AtomicGroupWhole ==
  \A g \in AtomicGroups \ ForceGroups :
    NodesOf(g) \subseteq instances \/ NodesOf(g) \cap instances = {}

(***************************************************************************)
(* The nodes that are not part of atomic groups keep to both limits, over  *)
(* all scale-down phases whose goroutines still run.                       *)
(***************************************************************************)
IndividualParallelism ==
  /\ Cardinality(Individual(InProgress)) <= MaxScaleDownParallelism
  /\ Cardinality(Individual(drainedNodeDeletions)) <= MaxDrainParallelism

(***************************************************************************)
(* Every deletion of a node outside atomic groups that was started ends,   *)
(* in success or in a cleaned-up failure.                                  *)
(***************************************************************************)
IndividualDeletionEnds ==
  \A n \in IndividualNodes : n \in InProgress ~> n \notin InProgress

(***************************************************************************)
(* The promise of GroupDeletionScheduler's comment, "rolling back deletion *)
(* of all nodes from a group in case deletion fails for any of the other   *)
(* nodes": while nodes of a group wait in its queue, another node of the   *)
(* group is still on its way and will complete the queue or roll it back.  *)
(* Not kept: ResetAndReportMetrics forgets a failure while goroutines of   *)
(* the phase in which it happened still run.                               *)
(***************************************************************************)
QueueIsCompletedOrRolledBack ==
  \A g \in Groups :
    nodeQueue[g] # {} =>
      \E n \in NodesOf(g) : pc[n] \in {"picked", "started", "preparing"}

(***************************************************************************)
(* The promise towards the rest of the autoscaler.                         *)
(***************************************************************************)
Promise == INSTANCE NodeRemoval WITH
             deleting <- InProgress,
             whole    <- AtomicGroups \ ForceGroups

PromiseKept == Promise!Spec

=============================================================================
