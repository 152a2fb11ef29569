--------------------------- MODULE ScaleDownProofs ---------------------------
(***************************************************************************)
(* Proofs about ScaleDownActuation and, in the second part, about          *)
(* ScaleDownLoop, for any nodes, groups, limits and minimum sizes, and any *)
(* number of crashes: what the main loop plans from is out of date by the  *)
(* time it acts, and still safe.                                           *)
(***************************************************************************)
EXTENDS ScaleDownLoop, FiniteSetTheorems, TLAPS

-----------------------------------------------------------------------------
(* Counting the nodes of a group.                                          *)

(* A set of nodes is finite and has a number of elements. *)
LEMMA NodeSetCount ==
  ASSUME NEW S, S \subseteq Nodes
  PROVE  IsFiniteSet(S) /\ Cardinality(S) \in Nat
BY FS_Subset, FS_CardinalityType, NodeGroupsAssumption

(* NodesOf(g) only has nodes. *)
LEMMA NodesOfIsSubset == \A g : NodesOf(g) \subseteq Nodes
BY DEF NodesOf

(* Disjoint sets of nodes add up. *)
LEMMA DisjointCount ==
  ASSUME NEW C, NEW D, C \subseteq Nodes, D \subseteq Nodes, C \cap D = {}
  PROVE  Cardinality(C \cup D) = Cardinality(C) + Cardinality(D)
<1>1. IsFiniteSet(C) /\ IsFiniteSet(D) /\ Cardinality(C) \in Nat /\ Cardinality(D) \in Nat
  BY NodeSetCount
<1>2. Cardinality(C \cup D) = Cardinality(C) + Cardinality(D) - Cardinality(C \cap D)
  BY <1>1, FS_Union
<1>3. Cardinality(C \cap D) = 0
  BY FS_EmptySet
<1> QED
  BY <1>1, <1>2, <1>3

(* They do so in every group. *)
LEMMA CountAdded ==
  ASSUME NEW A \in SUBSET Nodes, NEW B \in SUBSET Nodes, NEW g, A \cap B = {}
  PROVE  Cardinality((A \cup B) \cap NodesOf(g)) =
           Cardinality(A \cap NodesOf(g)) + Cardinality(B \cap NodesOf(g))
<1>1. (A \cup B) \cap NodesOf(g) = (A \cap NodesOf(g)) \cup (B \cap NodesOf(g))
  OBVIOUS
<1>2. Cardinality((A \cap NodesOf(g)) \cup (B \cap NodesOf(g))) =
        Cardinality(A \cap NodesOf(g)) + Cardinality(B \cap NodesOf(g))
  BY DisjointCount
<1> QED
  BY <1>1, <1>2

(* What is taken out of a set no longer counts. *)
LEMMA CountRemoved ==
  ASSUME NEW A, NEW B, A \subseteq Nodes, NEW g
  PROVE  Cardinality((A \ B) \cap NodesOf(g)) =
           Cardinality(A \cap NodesOf(g)) - Cardinality(B \cap A \cap NodesOf(g))
<1> DEFINE Left == (A \ B) \cap NodesOf(g)
           Gone == B \cap A \cap NodesOf(g)
<1>1. A \cap NodesOf(g) = Left \cup Gone
  OBVIOUS
<1>2. Left \subseteq Nodes /\ Gone \subseteq Nodes /\ Left \cap Gone = {}
  OBVIOUS
<1> HIDE DEF Left, Gone
<1>3. Cardinality(Left \cup Gone) = Cardinality(Left) + Cardinality(Gone)
  BY <1>2, DisjointCount
<1>4. Cardinality(Left) \in Nat /\ Cardinality(Gone) \in Nat
  BY <1>2, NodeSetCount
<1>5. Cardinality(A \cap NodesOf(g)) = Cardinality(Left) + Cardinality(Gone)
  BY <1>1, <1>3
<1>6. Cardinality(Left) = Cardinality(A \cap NodesOf(g)) - Cardinality(Gone)
  BY <1>4, <1>5
<1> QED
  BY <1>6 DEF Left, Gone

(* Taking out one node lowers the count of its own group by one ... *)
LEMMA CountRemovedOne ==
  ASSUME NEW A, A \subseteq Nodes, NEW n \in A
  PROVE  /\ Cardinality(A \cap NodesOf(GroupOf[n])) \in Nat \ {0}
         /\ Cardinality((A \ {n}) \cap NodesOf(GroupOf[n])) =
              Cardinality(A \cap NodesOf(GroupOf[n])) - 1
<1>1. Cardinality((A \ {n}) \cap NodesOf(GroupOf[n])) =
        Cardinality(A \cap NodesOf(GroupOf[n]))
          - Cardinality({n} \cap A \cap NodesOf(GroupOf[n]))
  BY CountRemoved
<1>2. {n} \cap A \cap NodesOf(GroupOf[n]) = {n}
  BY DEF NodesOf
<1>3. Cardinality({n}) = 1
  BY FS_Singleton
<1>4. Cardinality((A \ {n}) \cap NodesOf(GroupOf[n])) =
        Cardinality(A \cap NodesOf(GroupOf[n])) - 1
  BY <1>1, <1>2, <1>3
<1>5. /\ Cardinality(A \cap NodesOf(GroupOf[n])) \in Nat
      /\ Cardinality((A \ {n}) \cap NodesOf(GroupOf[n])) \in Nat
  BY NodeSetCount
<1> QED
  BY <1>4, <1>5

(* ... and that of no other. *)
LEMMA CountRemovedOther ==
  ASSUME NEW A, A \subseteq Nodes, NEW n \in A, NEW g, g # GroupOf[n]
  PROVE  Cardinality((A \ {n}) \cap NodesOf(g)) = Cardinality(A \cap NodesOf(g))
<1>1. (A \ {n}) \cap NodesOf(g) = A \cap NodesOf(g)
  BY DEF NodesOf
<1> QED
  BY <1>1

(* A union has at most as many nodes as its parts together ... *)
LEMMA CountUnion ==
  ASSUME NEW C, NEW D, C \subseteq Nodes, D \subseteq Nodes
  PROVE  Cardinality(C \cup D) <= Cardinality(C) + Cardinality(D)
<1>1. IsFiniteSet(C) /\ IsFiniteSet(D) /\ Cardinality(C) \in Nat /\ Cardinality(D) \in Nat
  BY NodeSetCount
<1>2. Cardinality(C \cup D) = Cardinality(C) + Cardinality(D) - Cardinality(C \cap D)
  BY <1>1, FS_Union
<1>3. Cardinality(C \cap D) \in Nat
  BY NodeSetCount
<1> QED
  BY <1>1, <1>2, <1>3

(* ... a part at most as many as the whole, and as many only if it is the  *)
(* whole.                                                                  *)
LEMMA CountPart ==
  ASSUME NEW C, NEW D, C \subseteq D, D \subseteq Nodes
  PROVE  /\ Cardinality(C) <= Cardinality(D)
         /\ Cardinality(C) >= Cardinality(D) => C = D
<1>1. IsFiniteSet(D) /\ Cardinality(C) \in Nat /\ Cardinality(D) \in Nat
  BY NodeSetCount
<1>2. Cardinality(C) <= Cardinality(D) /\ (Cardinality(C) = Cardinality(D) => C = D)
  BY <1>1, FS_Subset
<1> QED
  BY <1>1, <1>2

-----------------------------------------------------------------------------
(* The inductive invariant.                                                *)

(* The cloud's target size is the number of instances that exist, the ones *)
(* that never registered included.                                         *)
TargetCounts ==
  \A g \in Groups :
    targetSize[g] = Cardinality(instances \cap NodesOf(g)) + Unregistered[g]

IInv ==
  /\ TypeOK
  /\ TargetCounts
  /\ TrackerConsistent
  /\ NoDeletionLost
  /\ TaintedWhileDeleting
  /\ FailedGroupHasNoQueue

-----------------------------------------------------------------------------
(* The operations the actions are made of.                                 *)

(* StartDeletion and StartDeletionWithDrain keep counters and sets in step *)
(* if no deletion of the nodes is in progress.                             *)
LEMMA TrackStartStep ==
  ASSUME TrackerTypeOK, TrackerConsistent,
         NEW started, started \subseteq Nodes, started \cap InProgress = {},
         TrackStart(started) \/ TrackStartWithDrain(started)
  PROVE  /\ TrackerTypeOK'
         /\ TrackerConsistent'
         /\ InProgress' = InProgress \cup started
<1>1. InProgress \subseteq Nodes /\ InProgress \cap started = {}
  BY DEF TrackerTypeOK, InProgress
<1>2. InProgress' = InProgress \cup started
  BY DEF TrackStart, TrackStartWithDrain, InProgress
<1>3. CountStarted(started)
  BY DEF TrackStart, TrackStartWithDrain
<1>4. \A g \in Groups :
        /\ Cardinality(started \cap NodesOf(g)) \in Nat
        /\ Cardinality((InProgress \cup started) \cap NodesOf(g)) =
             Cardinality(InProgress \cap NodesOf(g)) + Cardinality(started \cap NodesOf(g))
  <2> TAKE g \in Groups
  <2>1. Cardinality(started \cap NodesOf(g)) \in Nat
    BY NodeSetCount
  <2>2. Cardinality((InProgress \cup started) \cap NodesOf(g)) =
          Cardinality(InProgress \cap NodesOf(g)) + Cardinality(started \cap NodesOf(g))
    <3>1. InProgress \in SUBSET Nodes /\ started \in SUBSET Nodes
      BY <1>1
    <3> QED
      BY <1>1, <3>1, CountAdded
  <2> QED
    BY <2>1, <2>2
<1>5. deletionsPerNodeGroup' \in [Groups -> Nat]
  <2>1. ASSUME NEW g \in Groups
        PROVE  deletionsPerNodeGroup[g] + Cardinality(started \cap NodesOf(g)) \in Nat
    <3>1. deletionsPerNodeGroup[g] \in Nat
      BY DEF TrackerTypeOK
    <3>2. Cardinality(started \cap NodesOf(g)) \in Nat
      BY <1>4
    <3> QED
      BY <3>1, <3>2
  <2> QED
    BY <1>3, <2>1 DEF CountStarted
<1>6. /\ emptyNodeDeletions' \subseteq Nodes
      /\ drainedNodeDeletions' \subseteq Nodes
      /\ emptyNodeDeletions' \cap drainedNodeDeletions' = {}
  BY DEF TrackStart, TrackStartWithDrain, TrackerTypeOK, TrackerConsistent, InProgress
<1>7. ASSUME NEW g \in Groups
      PROVE  deletionsPerNodeGroup'[g] = Cardinality(InProgress' \cap NodesOf(g))
  <2>1. deletionsPerNodeGroup'[g] =
          Cardinality(InProgress \cap NodesOf(g)) + Cardinality(started \cap NodesOf(g))
    BY <1>3 DEF CountStarted, TrackerConsistent
  <2> QED
    BY <1>2, <1>4, <2>1
<1> QED
  BY <1>2, <1>5, <1>6, <1>7 DEF TrackerTypeOK, TrackerConsistent, NodesOf

(* EndDeletion never meets a missing counter. *)
LEMMA TrackEndStep ==
  ASSUME TrackerTypeOK, TrackerConsistent, NEW n \in InProgress, TrackEnd(n)
  PROVE  /\ TrackerTypeOK'
         /\ TrackerConsistent'
         /\ InProgress' = InProgress \ {n}
<1>1. InProgress \subseteq Nodes /\ n \in Nodes /\ GroupOf[n] \in Groups
  BY NodeGroupsAssumption DEF TrackerTypeOK, InProgress
<1>2. deletionsPerNodeGroup[GroupOf[n]] = Cardinality(InProgress \cap NodesOf(GroupOf[n]))
  BY <1>1 DEF TrackerConsistent
<1>3. deletionsPerNodeGroup[GroupOf[n]] \in Nat \ {0}
  BY <1>1, <1>2, CountRemovedOne
<1>4. /\ deletionsPerNodeGroup' = [deletionsPerNodeGroup EXCEPT
                                     ![GroupOf[n]] = deletionsPerNodeGroup[GroupOf[n]] - 1]
      /\ emptyNodeDeletions' = emptyNodeDeletions \ {n}
      /\ drainedNodeDeletions' = drainedNodeDeletions \ {n}
  BY <1>3 DEF TrackEnd
<1>5. InProgress' = InProgress \ {n}
  BY <1>4 DEF InProgress
<1>6. TrackerTypeOK'
  BY <1>1, <1>3, <1>4 DEF TrackerTypeOK
<1>7. ASSUME NEW g \in Groups
      PROVE  deletionsPerNodeGroup'[g] = Cardinality(InProgress' \cap NodesOf(g))
  <2>1. CASE g = GroupOf[n]
    <3>1. Cardinality((InProgress \ {n}) \cap NodesOf(GroupOf[n])) =
            Cardinality(InProgress \cap NodesOf(GroupOf[n])) - 1
      BY <1>1, CountRemovedOne
    <3>2. deletionsPerNodeGroup'[g] = deletionsPerNodeGroup[g] - 1
      BY <1>1, <1>4, <2>1 DEF TrackerTypeOK
    <3> QED
      BY <1>2, <1>5, <2>1, <3>1, <3>2
  <2>2. CASE g # GroupOf[n]
    <3>1. Cardinality((InProgress \ {n}) \cap NodesOf(g)) = Cardinality(InProgress \cap NodesOf(g))
      BY <1>1, <2>2, CountRemovedOther
    <3>2. deletionsPerNodeGroup'[g] = deletionsPerNodeGroup[g]
      BY <1>1, <1>4, <2>2 DEF TrackerTypeOK
    <3> QED
      BY <1>5, <3>1, <3>2 DEF TrackerConsistent
  <2> QED
    BY <2>1, <2>2
<1> QED
  BY <1>4, <1>5, <1>6, <1>7 DEF TrackerConsistent, NodesOf

(* Removing instances lowers the target sizes by as many. *)
LEMMA RemovedStep ==
  ASSUME instances \subseteq Nodes, targetSize \in [Groups -> Nat], TargetCounts,
         NEW call, Removed(call)
  PROVE  /\ instances' \subseteq Nodes
         /\ targetSize' \in [Groups -> Nat]
         /\ TargetCounts'
<1>1. /\ instances' = instances \ call
      /\ targetSize' = [g \in Groups |->
           targetSize[g] - Cardinality(call \cap instances \cap NodesOf(g))]
  BY DEF Removed
<1>2. ASSUME NEW g \in Groups
      PROVE  /\ targetSize'[g] = Cardinality(instances' \cap NodesOf(g)) + Unregistered[g]
             /\ targetSize'[g] \in Nat
  <2>1. Cardinality((instances \ call) \cap NodesOf(g)) =
          Cardinality(instances \cap NodesOf(g))
            - Cardinality(call \cap instances \cap NodesOf(g))
    BY CountRemoved
  <2>2. targetSize[g] = Cardinality(instances \cap NodesOf(g)) + Unregistered[g]
    BY DEF TargetCounts
  <2>3. /\ Cardinality(instances \cap NodesOf(g)) \in Nat
        /\ Cardinality(call \cap instances \cap NodesOf(g)) \in Nat
        /\ Cardinality((instances \ call) \cap NodesOf(g)) \in Nat
        /\ Unregistered[g] \in Nat
    BY NodeSetCount, ActuationAssumption
  <2>4. targetSize'[g] = targetSize[g] - Cardinality(call \cap instances \cap NodesOf(g))
    BY <1>1
  <2>5. targetSize'[g] = Cardinality((instances \ call) \cap NodesOf(g)) + Unregistered[g]
    BY <2>1, <2>2, <2>3, <2>4
  <2> QED
    BY <1>1, <2>3, <2>5
<1> QED
  BY <1>1, <1>2 DEF TargetCounts, NodesOf

(* The types of what the scheduler and the batcher keep. *)
SchedulerTypeOK ==
  /\ pc \in [Nodes -> PCs]
  /\ batchSize \in [Nodes -> Nat]
  /\ forced \subseteq Nodes
  /\ failuresForGroup \subseteq Groups
  /\ nodeQueue \in [Groups -> SUBSET Nodes]
  /\ bucket \in [Groups -> SUBSET Nodes]
  /\ cloudCalls \subseteq SUBSET Nodes

(* A goroutine that gives up takes the queue of its group along. *)
LEMMA AbortStep ==
  ASSUME SchedulerTypeOK, PlacedOnce, FailedGroupHasNoQueue,
         NEW n \in Nodes, pc[n] \in {"started", "preparing"}, Abort(n)
  PROVE  /\ SchedulerTypeOK'
         /\ PlacedOnce'
         /\ FailedGroupHasNoQueue'
         /\ pc'[n] = "cleaning"
         /\ \A m \in Nodes : pc'[m] # pc[m] =>
              /\ pc[m] \in {"started", "preparing", "handed"}
              /\ pc'[m] = "cleaning"
<1> DEFINE g == GroupOf[n]
<1>1. g \in Groups
  BY NodeGroupsAssumption
<1>2. /\ failuresForGroup' = failuresForGroup \cup {g}
      /\ pc' = [m \in Nodes |-> IF m = n \/ m \in nodeQueue[g] THEN "cleaning" ELSE pc[m]]
      /\ batchSize' = [batchSize EXCEPT ![n] = 0]
      /\ forced' = forced \ {n}
      /\ nodeQueue' = [nodeQueue EXCEPT ![g] = {}]
      /\ bucket' = bucket
      /\ cloudCalls' = cloudCalls
  BY DEF Abort, GivenUpWith, GoroutineEnds, Moved, batcherVars
<1>3. SchedulerTypeOK'
  BY <1>1, <1>2 DEF SchedulerTypeOK, PCs
<1>4. \A h \in Groups : nodeQueue'[h] = IF h = g THEN {} ELSE nodeQueue[h]
  BY <1>1, <1>2 DEF SchedulerTypeOK
<1>5. \A m \in Nodes : GroupOf[m] \in Groups /\ (m \in nodeQueue[g] => GroupOf[m] = g)
  BY <1>1, NodeGroupsAssumption DEF PlacedOnce, Waiting, NodesOf
<1>6. \A m \in nodeQueue[g] : m \in Nodes /\ pc[m] = "handed"
  BY <1>1, <1>5 DEF PlacedOnce, Waiting, SchedulerTypeOK
<1> HIDE DEF g
<1>7. ASSUME NEW m \in Nodes
      PROVE  pc'[m] = "handed" <=>
               m \in Waiting(GroupOf[m])' \/ \E call \in cloudCalls' : m \in call
  <2>1. pc[m] = "handed" <=>
          m \in nodeQueue[GroupOf[m]] \/ m \in bucket[GroupOf[m]]
            \/ \E call \in cloudCalls : m \in call
    BY DEF PlacedOnce, Waiting
  <2>2. CASE m = n
    BY <1>1, <1>2, <1>4, <2>1, <2>2 DEF Waiting, g
  <2>3. CASE m # n /\ m \in nodeQueue[g]
    <3>1. pc'[m] = "cleaning" /\ GroupOf[m] = g
      BY <1>2, <1>5, <2>3
    <3>2. m \notin bucket[g] /\ \A call \in cloudCalls : m \notin call
      BY <1>1, <2>3 DEF PlacedOnce, Waiting
    <3> QED
      BY <1>1, <1>2, <1>4, <3>1, <3>2 DEF Waiting
  <2>4. CASE m # n /\ m \notin nodeQueue[g]
    <3>1. pc'[m] = pc[m]
      BY <1>2, <2>4
    <3>2. m \in nodeQueue'[GroupOf[m]] <=> m \in nodeQueue[GroupOf[m]]
      BY <1>4, <1>5, <2>4
    <3> QED
      BY <1>2, <2>1, <3>1, <3>2 DEF Waiting
  <2> QED
    BY <2>2, <2>3, <2>4
<1>8. PlacedOnce'
  <2>1. \A h \in Groups :
          /\ Waiting(h)' \subseteq NodesOf(h)
          /\ nodeQueue'[h] \cap bucket'[h] = {}
          /\ \A call \in cloudCalls' : Waiting(h)' \cap call = {}
    BY <1>2, <1>4 DEF PlacedOnce, Waiting
  <2> QED
    BY <1>2, <1>7, <2>1 DEF PlacedOnce, NodesOf
<1>9. FailedGroupHasNoQueue'
  BY <1>1, <1>2, <1>4, NodeGroupsAssumption DEF FailedGroupHasNoQueue
<1> QED
  BY <1>2, <1>3, <1>6, <1>8, <1>9

(* A prepared node is given up, waits in the queue, or takes the queue to  *)
(* the batcher.                                                            *)
LEMMA AddToBatcherStep ==
  ASSUME SchedulerTypeOK, PlacedOnce, FailedGroupHasNoQueue,
         NEW n \in Nodes, pc[n] = "preparing", AddToBatcher(n)
  PROVE  /\ SchedulerTypeOK'
         /\ PlacedOnce'
         /\ FailedGroupHasNoQueue'
         /\ pc'[n] \in {"cleaning", "handed"}
         /\ \A m \in Nodes : m # n => pc'[m] = pc[m]
<1> DEFINE g == GroupOf[n]
           queue == nodeQueue[g] \cup {n}
<1>1. g \in Groups /\ n \in NodesOf(g)
  BY NodeGroupsAssumption DEF NodesOf
<1>2. /\ failuresForGroup' = failuresForGroup
      /\ batchSize' = [batchSize EXCEPT ![n] = 0]
      /\ forced' = forced \ {n}
  BY DEF AddToBatcher, GoroutineEnds
<1>3. \A m \in Nodes : GroupOf[m] \in Groups
  BY NodeGroupsAssumption
<1>4. n \notin Waiting(g) /\ \A call \in cloudCalls : n \notin call
  BY DEF PlacedOnce
<1> HIDE DEF g
<1>5. CASE Failed(g)
  <2>1. /\ pc' = [m \in Nodes |-> IF m \in {n} THEN "cleaning" ELSE pc[m]]
        /\ nodeQueue' = [nodeQueue EXCEPT ![g] = {}]
        /\ bucket' = bucket
        /\ cloudCalls' = cloudCalls
    BY <1>5 DEF AddToBatcher, Moved, batcherVars, g
  <2>2. nodeQueue[g] = {}
    BY <1>5 DEF Failed, FailedGroupHasNoQueue
  <2>3. nodeQueue' = nodeQueue
    BY <1>1, <2>1, <2>2 DEF SchedulerTypeOK
  <2>4. SchedulerTypeOK'
    BY <1>2, <2>1, <2>3 DEF SchedulerTypeOK, PCs
  <2>5. \A m \in Nodes : pc'[m] = IF m = n THEN "cleaning" ELSE pc[m]
    BY <2>1
  <2>6. \A m \in Nodes : pc'[m] = "handed" <=> pc[m] = "handed"
    BY <2>5
  <2>7. PlacedOnce'
    BY <2>1, <2>3, <2>6 DEF PlacedOnce, Waiting, NodesOf
  <2>8. FailedGroupHasNoQueue'
    BY <1>2, <2>3 DEF FailedGroupHasNoQueue
  <2> QED
    BY <2>4, <2>5, <2>7, <2>8
<1>6. CASE ~Failed(g)
  <2>1. pc' = [m \in Nodes |-> IF m \in {n} THEN "handed" ELSE pc[m]]
    BY <1>6 DEF AddToBatcher, Moved, g
  <2>2. \A m \in Nodes : pc'[m] = IF m = n THEN "handed" ELSE pc[m]
    BY <2>1
  <2>3. queue \subseteq NodesOf(g)
    BY <1>1 DEF PlacedOnce, Waiting
  <2>4. \/ /\ nodeQueue' = [nodeQueue EXCEPT ![g] = queue]
           /\ bucket' = bucket
           /\ cloudCalls' = cloudCalls
        \/ /\ nodeQueue' = [nodeQueue EXCEPT ![g] = {}]
           /\ bucket' = [bucket EXCEPT ![g] = bucket[g] \cup queue]
           /\ cloudCalls' = cloudCalls
        \/ /\ nodeQueue' = [nodeQueue EXCEPT ![g] = {}]
           /\ bucket' = bucket
           /\ cloudCalls' = cloudCalls \cup {queue}
    BY <1>6 DEF AddToBatcher, AddNodes, batcherVars, g
  <2>5. SchedulerTypeOK'
    <3>1. queue \in SUBSET Nodes /\ bucket[g] \in SUBSET Nodes
      BY <1>1, <2>3 DEF NodesOf, SchedulerTypeOK
    <3> HIDE DEF queue
    <3> QED
      BY <1>1, <1>2, <2>1, <2>4, <3>1 DEF SchedulerTypeOK, PCs
  <2>6. \A h \in Groups : h # g => nodeQueue'[h] = nodeQueue[h] /\ bucket'[h] = bucket[h]
    BY <2>4 DEF SchedulerTypeOK
  <2>7. Waiting(g) \subseteq NodesOf(g) /\ nodeQueue[g] \cap bucket[g] = {}
    BY <1>1 DEF PlacedOnce
  <2>8. \/ /\ nodeQueue'[g] = queue
           /\ bucket'[g] = bucket[g]
           /\ cloudCalls' = cloudCalls
        \/ /\ nodeQueue'[g] = {}
           /\ bucket'[g] = bucket[g] \cup queue
           /\ cloudCalls' = cloudCalls
        \/ /\ nodeQueue'[g] = {}
           /\ bucket'[g] = bucket[g]
           /\ cloudCalls' = cloudCalls \cup {queue}
    BY <1>1, <2>4 DEF SchedulerTypeOK
  <2>9. \A h \in Groups : \A call \in cloudCalls : Waiting(h) \cap call = {}
    BY DEF PlacedOnce
  <2>10. \A h \in Groups :
          /\ Waiting(h)' \subseteq NodesOf(h)
          /\ nodeQueue'[h] \cap bucket'[h] = {}
          /\ \A call \in cloudCalls' : Waiting(h)' \cap call = {}
    <3> TAKE h \in Groups
    <3>1. CASE h = g
      BY <1>1, <1>4, <2>3, <2>7, <2>8, <2>9, <3>1 DEF Waiting
    <3>2. CASE h # g
      <4>1. Waiting(h)' = Waiting(h) /\ Waiting(h) \subseteq NodesOf(h)
        BY <2>6, <3>2 DEF Waiting, PlacedOnce
      <4>2. nodeQueue'[h] \cap bucket'[h] = {}
        BY <2>6, <3>2 DEF PlacedOnce
      <4>3. Waiting(h) \cap queue = {}
        BY <2>3, <3>2, <4>1 DEF NodesOf
      <4> HIDE DEF queue
      <4> QED
        BY <2>8, <2>9, <4>1, <4>2, <4>3
    <3> QED
      BY <3>1, <3>2
  <2>11. \A call, other \in cloudCalls' : call # other => call \cap other = {}
    <3>1. \A call \in cloudCalls : call \cap queue = {}
      BY <1>1, <1>4, <2>9 DEF Waiting
    <3>2. \A call, other \in cloudCalls : call # other => call \cap other = {}
      BY DEF PlacedOnce
    <3> HIDE DEF queue
    <3> QED
      BY <2>8, <3>1, <3>2
  <2>12. ASSUME NEW m \in Nodes
         PROVE  pc'[m] = "handed" <=>
                  m \in Waiting(GroupOf[m])' \/ \E call \in cloudCalls' : m \in call
    <3>1. pc[m] = "handed" <=>
            m \in Waiting(GroupOf[m]) \/ \E call \in cloudCalls : m \in call
      BY DEF PlacedOnce
    <3>2. CASE m = n
      BY <1>1, <2>2, <2>8, <3>2 DEF Waiting, g
    <3>3. CASE m # n /\ GroupOf[m] = g
      <4>1. m \in queue <=> m \in nodeQueue[g]
        BY <3>3
      <4>2. pc'[m] = pc[m]
        BY <2>2, <3>3
      <4> HIDE DEF queue
      <4>3. CASE nodeQueue'[g] = queue /\ bucket'[g] = bucket[g] /\ cloudCalls' = cloudCalls
        BY <3>1, <3>3, <4>1, <4>2, <4>3 DEF Waiting
      <4>4. CASE /\ nodeQueue'[g] = {}
                 /\ bucket'[g] = bucket[g] \cup queue
                 /\ cloudCalls' = cloudCalls
        BY <3>1, <3>3, <4>1, <4>2, <4>4 DEF Waiting
      <4>5. CASE /\ nodeQueue'[g] = {}
                 /\ bucket'[g] = bucket[g]
                 /\ cloudCalls' = cloudCalls \cup {queue}
        BY <3>1, <3>3, <4>1, <4>2, <4>5 DEF Waiting
      <4> QED
        BY <2>8, <4>3, <4>4, <4>5
    <3>4. CASE m # n /\ GroupOf[m] # g
      <4>1. Waiting(GroupOf[m])' = Waiting(GroupOf[m])
        BY <1>3, <2>6, <3>4 DEF Waiting
      <4>2. m \notin queue
        BY <2>3, <3>4 DEF NodesOf
      <4> HIDE DEF queue
      <4> QED
        BY <2>2, <2>8, <3>1, <3>4, <4>1, <4>2
    <3> QED
      BY <3>2, <3>3, <3>4
  <2>13. PlacedOnce'
    BY <2>10, <2>11, <2>12 DEF PlacedOnce, NodesOf
  <2>14. FailedGroupHasNoQueue'
    BY <1>1, <1>2, <1>6, <2>6, NodeGroupsAssumption DEF FailedGroupHasNoQueue, Failed
  <2> QED
    BY <2>2, <2>5, <2>13, <2>14
<1> QED
  BY <1>5, <1>6

(* As long as no node enters or leaves the stage "handed", nothing is lost. *)
LEMMA PlacedSame ==
  ASSUME PlacedOnce,
         \A m \in Nodes : pc'[m] = "handed" <=> pc[m] = "handed",
         UNCHANGED <<nodeQueue, bucket, cloudCalls>>
  PROVE  PlacedOnce'
BY DEF PlacedOnce, Waiting, NodesOf

(* The nodes that need an entry in the tracker, one by one. *)
LEMMA TrackedStages ==
  \A m : m \in Tracked <=> m \in Nodes /\ pc[m] \notin {"none", "picked"}
BY DEF Tracked, At

LEMMA TrackedStagesNext ==
  \A m : m \in Tracked' <=> m \in Nodes /\ pc'[m] \notin {"none", "picked"}
BY DEF Tracked, At

-----------------------------------------------------------------------------
(* Every action preserves the invariant.                                   *)

(* StartDeletion keeps it for any nodes that no deletion is in progress    *)
(* for, whether they still exist or not.                                   *)
LEMMA StartDeletionStep ==
  ASSUME IInv,
         NEW selected \in SUBSET At("none"),
         NEW empty \in SUBSET selected,
         NEW force \in BOOLEAN,
         StartDeletion(empty, selected \ empty, force)
  PROVE  IInv'
<1> DEFINE drain == selected \ empty
<1>1. /\ failuresForGroup' = {}
      /\ UNCHANGED <<nodeQueue, bucket, cloudCalls, instances, targetSize>>
  BY DEF StartDeletion, batcherVars, cloudVars
<1>2. selected \subseteq Nodes /\ \A m \in selected : pc[m] = "none"
  BY DEF At
<1>3. selected \cap InProgress = {}
  BY <1>2, TrackedStages DEF IInv, NoDeletionLost
<1>4. TargetCounts'
  BY <1>1 DEF IInv, TargetCounts, NodesOf
<1>5. FailedGroupHasNoQueue'
  BY <1>1 DEF FailedGroupHasNoQueue
<1>6. CASE /\ TaintAll(empty)
           /\ StartAsyncEmpty(empty)
           /\ pc' = [n \in Nodes |-> IF n \in empty THEN "started"
                                     ELSE IF n \in drain THEN "picked" ELSE pc[n]]
           /\ batchSize' = BatchSizes(empty, drain)
           /\ forced' = IF force THEN forced \cup empty \cup drain ELSE forced
  <2>1. /\ TrackerTypeOK'
        /\ TrackerConsistent'
        /\ InProgress' = InProgress \cup empty
    <3>1. empty \subseteq Nodes /\ empty \cap InProgress = {}
      BY <1>2, <1>3
    <3> QED
      BY <1>6, <3>1, TrackStartStep DEF IInv, TypeOK, StartAsyncEmpty
  <2>2. \A m \in Nodes : pc'[m] = IF m \in empty THEN "started"
                                  ELSE IF m \in drain THEN "picked" ELSE pc[m]
    BY <1>6
  <2>3. batchSize' \in [Nodes -> Nat]
    <3>1. \A g \in Groups : RegisteredSize[g] \in Nat /\ targetSize[g] \in Nat
      <4> TAKE g \in Groups
      <4>1. Cardinality(instances \cap NodesOf(g)) \in Nat
        BY NodeSetCount DEF IInv, TypeOK
      <4> QED
        BY <4>1 DEF RegisteredSize, IInv, TypeOK
    <3>2. \A g \in Groups :
            BatchSizeOf(g, empty, drain, targetSize, RegisteredSize) \in Nat
      BY <3>1 DEF BatchSizeOf
    <3>3. batchSize \in [Nodes -> Nat] /\ GroupOf \in [Nodes -> Groups]
      BY NodeGroupsAssumption DEF IInv, TypeOK
    <3> HIDE DEF drain
    <3> QED
      BY <1>6, <3>2, <3>3 DEF BatchSizes
  <2>4. TypeOK'
    <3>1. pc' \in [Nodes -> PCs] /\ forced' \subseteq Nodes /\ toBeDeleted' \subseteq Nodes
      BY <1>2, <1>6 DEF IInv, TypeOK, PCs, TaintAll
    <3> QED
      BY <1>1, <2>1, <2>3, <3>1 DEF IInv, TypeOK
  <2>5. InProgress' = Tracked'
    <3>1. \A m : m \in InProgress' <=> m \in Tracked'
      BY <1>2, <2>1, <2>2, TrackedStages, TrackedStagesNext DEF IInv, NoDeletionLost
    <3> QED
      BY <3>1
  <2>6. PlacedOnce'
    BY <1>1, <1>2, <2>2, PlacedSame DEF IInv, NoDeletionLost
  <2>7. TaintedWhileDeleting'
    BY <1>6, <2>2 DEF IInv, TaintedWhileDeleting, TaintAll
  <2> QED
    BY <1>4, <1>5, <2>1, <2>4, <2>5, <2>6, <2>7 DEF IInv, NoDeletionLost
<1>7. CASE TaintFailed(empty) /\ UNCHANGED <<trackerVars, actuatorVars>>
  <2>1. toBeDeleted' \subseteq toBeDeleted \cup empty /\ toBeDeleted \ empty \subseteq toBeDeleted'
    BY <1>7 DEF TaintFailed
  <2>2. UNCHANGED <<deletionsPerNodeGroup, emptyNodeDeletions, drainedNodeDeletions,
                    pc, batchSize, forced>>
    BY <1>7 DEF trackerVars, actuatorVars
  <2>3. TypeOK'
    BY <1>1, <1>2, <2>1, <2>2 DEF IInv, TypeOK, TrackerTypeOK
  <2>4. TrackerConsistent' /\ InProgress' = Tracked'
    BY <2>2 DEF IInv, TrackerConsistent, NoDeletionLost, InProgress, Tracked, At, NodesOf
  <2>5. PlacedOnce'
    BY <1>1, <2>2, PlacedSame DEF IInv, NoDeletionLost
  <2>6. TaintedWhileDeleting'
    BY <1>2, <2>1, <2>2 DEF IInv, TaintedWhileDeleting
  <2> QED
    BY <1>4, <1>5, <2>3, <2>4, <2>5, <2>6 DEF IInv, NoDeletionLost
<1> QED
  BY <1>6, <1>7 DEF StartDeletion

LEMMA StartAnyDeletionStep == IInv /\ StartAnyDeletion => IInv'
<1> SUFFICES ASSUME IInv,
                    NEW selected \in SUBSET (At("none") \cap instances),
                    NEW empty \in SUBSET selected,
                    NEW force \in BOOLEAN,
                    StartDeletion(empty, selected \ empty, force)
             PROVE  IInv'
  BY DEF StartAnyDeletion
<1>1. selected \in SUBSET At("none")
  OBVIOUS
<1> QED
  BY <1>1, StartDeletionStep

LEMMA StartDrainStep == IInv /\ StartDrain => IInv'
<1> SUFFICES ASSUME IInv, StartDrain
             PROVE  IInv'
  OBVIOUS
<1> DEFINE drain == At("picked")
<1>1. UNCHANGED <<failuresForGroup, nodeQueue, bucket, cloudCalls, instances, targetSize>>
  BY DEF StartDrain, schedulerVars, batcherVars, cloudVars
<1>2. drain \subseteq Nodes /\ \A m \in Nodes : m \in drain <=> pc[m] = "picked"
  BY DEF At
<1>3. drain \cap InProgress = {}
  BY <1>2, TrackedStages DEF IInv, NoDeletionLost
<1>4. TargetCounts' /\ FailedGroupHasNoQueue'
  BY <1>1 DEF IInv, TargetCounts, FailedGroupHasNoQueue, NodesOf
<1>5. CASE /\ TaintAll(drain)
           /\ StartAsyncDrain(drain)
           /\ pc' = Moved(drain, "started")
           /\ UNCHANGED <<batchSize, forced>>
  <2> HIDE DEF drain
  <2>1. /\ TrackerTypeOK'
        /\ TrackerConsistent'
        /\ InProgress' = InProgress \cup drain
    BY <1>2, <1>3, <1>5, TrackStartStep DEF IInv, TypeOK, StartAsyncDrain
  <2>2. \A m \in Nodes : pc'[m] = IF m \in drain THEN "started" ELSE pc[m]
    BY <1>5 DEF Moved
  <2>3. TypeOK'
    BY <1>1, <1>2, <1>5, <2>1 DEF IInv, TypeOK, PCs, TaintAll, Moved
  <2>4. InProgress' = Tracked'
    <3>1. \A m : m \in InProgress' <=> m \in Tracked'
      BY <1>2, <2>1, <2>2, TrackedStages, TrackedStagesNext DEF IInv, NoDeletionLost
    <3> QED
      BY <3>1
  <2>5. PlacedOnce'
    BY <1>1, <1>2, <2>2, PlacedSame DEF IInv, NoDeletionLost
  <2>6. TaintedWhileDeleting'
    BY <1>5, <2>2 DEF IInv, TaintedWhileDeleting, TaintAll
  <2> QED
    BY <1>4, <2>1, <2>3, <2>4, <2>5, <2>6 DEF IInv, NoDeletionLost
<1>6. CASE /\ TaintFailed(drain)
           /\ pc' = Moved(drain, "none")
           /\ batchSize' = [n \in Nodes |-> IF pc[n] = "picked" THEN 0 ELSE batchSize[n]]
           /\ forced' = forced \ drain
           /\ UNCHANGED trackerVars
  <2> HIDE DEF drain
  <2>1. toBeDeleted' \subseteq toBeDeleted \cup drain /\ toBeDeleted \ drain \subseteq toBeDeleted'
    BY <1>6 DEF TaintFailed
  <2>2. UNCHANGED <<deletionsPerNodeGroup, emptyNodeDeletions, drainedNodeDeletions>>
    BY <1>6 DEF trackerVars
  <2>3. \A m \in Nodes : pc'[m] = IF m \in drain THEN "none" ELSE pc[m]
    BY <1>6 DEF Moved
  <2>4. TypeOK'
    BY <1>1, <1>2, <1>6, <2>1, <2>2 DEF IInv, TypeOK, TrackerTypeOK, PCs, Moved
  <2>5. TrackerConsistent'
    BY <2>2 DEF IInv, TrackerConsistent, InProgress, NodesOf
  <2>6. InProgress' = Tracked'
    <3>1. InProgress' = InProgress
      BY <2>2 DEF InProgress
    <3>2. \A m : m \in InProgress' <=> m \in Tracked'
      BY <1>2, <2>3, <3>1, TrackedStages, TrackedStagesNext DEF IInv, NoDeletionLost
    <3> QED
      BY <3>2
  <2>7. PlacedOnce'
    BY <1>1, <1>2, <2>3, PlacedSame DEF IInv, NoDeletionLost
  <2>8. TaintedWhileDeleting'
    BY <1>2, <2>1, <2>3 DEF IInv, TaintedWhileDeleting
  <2> QED
    BY <1>4, <2>4, <2>5, <2>6, <2>7, <2>8 DEF IInv, NoDeletionLost
<1> QED
  BY <1>5, <1>6 DEF StartDrain

(* A step that leaves the tracker and the taints alone, and that moves     *)
(* nodes between stages in which they are tracked and tainted.             *)
LEMMA TrackerUntouched ==
  ASSUME IInv, UNCHANGED <<trackerVars, toBeDeleted>>,
         SchedulerTypeOK', PlacedOnce', FailedGroupHasNoQueue',
         instances' \subseteq Nodes, targetSize' \in [Groups -> Nat], TargetCounts',
         \A m \in Nodes : pc'[m] # pc[m] =>
           /\ pc[m] \in {"started", "preparing", "handed"}
           /\ pc'[m] \in {"preparing", "handed", "cleaning", "deleted"}
  PROVE  IInv'
<1>1. /\ UNCHANGED <<deletionsPerNodeGroup, emptyNodeDeletions, drainedNodeDeletions>>
      /\ toBeDeleted' = toBeDeleted
  BY DEF trackerVars
<1>2. TypeOK'
  BY <1>1 DEF IInv, TypeOK, TrackerTypeOK, SchedulerTypeOK
<1>3. TrackerConsistent' /\ InProgress' = InProgress
  BY <1>1 DEF IInv, TrackerConsistent, InProgress, NodesOf
<1>4. \A m : m \in Tracked' <=> m \in Tracked
  BY TrackedStages, TrackedStagesNext
<1>5. InProgress' = Tracked'
  BY <1>3, <1>4 DEF IInv, NoDeletionLost
<1>6. TaintedWhileDeleting'
  BY <1>1 DEF IInv, TaintedWhileDeleting
<1> QED
  BY <1>2, <1>3, <1>5, <1>6 DEF IInv, NoDeletionLost

LEMMA DeleteNodesAsyncStep ==
  ASSUME IInv, NEW n \in Nodes, DeleteNodesAsync(n)
  PROVE  IInv'
<1>1. /\ UNCHANGED <<trackerVars, toBeDeleted, instances, targetSize>>
      /\ pc[n] = "started"
  BY DEF DeleteNodesAsync, cloudVars
<1>2. /\ instances' \subseteq Nodes
      /\ targetSize' \in [Groups -> Nat]
      /\ TargetCounts'
  BY <1>1 DEF IInv, TypeOK, TargetCounts, NodesOf
<1>3. SchedulerTypeOK /\ PlacedOnce /\ FailedGroupHasNoQueue
  BY DEF IInv, TypeOK, SchedulerTypeOK, NoDeletionLost
<1>4. CASE /\ pc' = Moved({n}, "preparing")
           /\ UNCHANGED <<batchSize, forced, schedulerVars, batcherVars>>
  <2>1. UNCHANGED <<batchSize, forced, failuresForGroup, nodeQueue, bucket, cloudCalls>>
    BY <1>4 DEF schedulerVars, batcherVars
  <2>2. \A m \in Nodes : pc'[m] = IF m = n THEN "preparing" ELSE pc[m]
    BY <1>4 DEF Moved
  <2>3. SchedulerTypeOK'
    BY <1>3, <1>4, <2>1 DEF SchedulerTypeOK, PCs, Moved
  <2>4. \A m \in Nodes : pc'[m] = "handed" <=> pc[m] = "handed"
    BY <1>1, <2>2
  <2>5. PlacedOnce'
    BY <1>3, <2>1, <2>4, PlacedSame
  <2>6. FailedGroupHasNoQueue'
    BY <1>3, <2>1 DEF FailedGroupHasNoQueue
  <2> QED
    BY <1>1, <1>2, <2>2, <2>3, <2>5, <2>6, TrackerUntouched
<1>5. CASE Abort(n)
  <2>1. /\ SchedulerTypeOK'
        /\ PlacedOnce'
        /\ FailedGroupHasNoQueue'
        /\ \A m \in Nodes : pc'[m] # pc[m] =>
              /\ pc[m] \in {"started", "preparing", "handed"}
              /\ pc'[m] = "cleaning"
    BY <1>1, <1>3, <1>5, AbortStep
  <2> QED
    BY <1>1, <1>2, <2>1, TrackerUntouched
<1> QED
  BY <1>4, <1>5 DEF DeleteNodesAsync

LEMMA ScheduleDeletionStep ==
  ASSUME IInv, NEW n \in Nodes, ScheduleDeletion(n)
  PROVE  IInv'
<1>1. /\ UNCHANGED <<trackerVars, toBeDeleted, instances, targetSize>>
      /\ pc[n] = "preparing"
  BY DEF ScheduleDeletion, cloudVars
<1>2. /\ instances' \subseteq Nodes
      /\ targetSize' \in [Groups -> Nat]
      /\ TargetCounts'
  BY <1>1 DEF IInv, TypeOK, TargetCounts, NodesOf
<1>3. SchedulerTypeOK /\ PlacedOnce /\ FailedGroupHasNoQueue
  BY DEF IInv, TypeOK, SchedulerTypeOK, NoDeletionLost
<1>4. CASE AddToBatcher(n)
  <2>1. /\ SchedulerTypeOK'
        /\ PlacedOnce'
        /\ FailedGroupHasNoQueue'
        /\ pc'[n] \in {"cleaning", "handed"}
        /\ \A m \in Nodes : m # n => pc'[m] = pc[m]
    BY <1>1, <1>3, <1>4, AddToBatcherStep
  <2> QED
    BY <1>1, <1>2, <2>1, TrackerUntouched
<1>5. CASE Abort(n)
  <2>1. /\ SchedulerTypeOK'
        /\ PlacedOnce'
        /\ FailedGroupHasNoQueue'
        /\ \A m \in Nodes : pc'[m] # pc[m] =>
              /\ pc[m] \in {"started", "preparing", "handed"}
              /\ pc'[m] = "cleaning"
    BY <1>1, <1>3, <1>5, AbortStep
  <2> QED
    BY <1>1, <1>2, <2>1, TrackerUntouched
<1> QED
  BY <1>4, <1>5 DEF ScheduleDeletion

LEMMA ForceDeleteStep ==
  ASSUME IInv, NEW n \in Nodes, ForceDelete(n)
  PROVE  IInv'
<1>1. /\ UNCHANGED <<trackerVars, toBeDeleted>>
      /\ pc[n] = "preparing"
      /\ n \in instances
      /\ instances' = instances \ {n}
      /\ targetSize' = [targetSize EXCEPT ![GroupOf[n]] = targetSize[GroupOf[n]] - 1]
      /\ AddToBatcher(n)
  BY DEF ForceDelete
<1>2. Removed({n})
  <2>1. ASSUME NEW g \in Groups
        PROVE  targetSize'[g] =
                 targetSize[g] - Cardinality({n} \cap instances \cap NodesOf(g))
    <3>1. CASE g = GroupOf[n]
      <4>1. {n} \cap instances \cap NodesOf(g) = {n}
        BY <1>1, <3>1 DEF NodesOf
      <4>2. Cardinality({n} \cap instances \cap NodesOf(g)) = 1
        BY <4>1, FS_Singleton
      <4> QED
        BY <1>1, <3>1, <4>2 DEF IInv, TypeOK
    <3>2. CASE g # GroupOf[n]
      <4>1. {n} \cap instances \cap NodesOf(g) = {}
        BY <3>2 DEF NodesOf
      <4>2. Cardinality({n} \cap instances \cap NodesOf(g)) = 0
        BY <4>1, FS_EmptySet
      <4> QED
        BY <1>1, <3>2, <4>2 DEF IInv, TypeOK
    <3> QED
      BY <3>1, <3>2
  <2>2. DOMAIN targetSize' = Groups
    BY <1>1 DEF IInv, TypeOK
  <2>3. targetSize' = [g \in Groups |->
          targetSize[g] - Cardinality({n} \cap instances \cap NodesOf(g))]
    BY <1>1, <2>1, <2>2 DEF IInv, TypeOK
  <2> QED
    BY <1>1, <2>3 DEF Removed
<1>3. /\ instances' \subseteq Nodes
      /\ targetSize' \in [Groups -> Nat]
      /\ TargetCounts'
  BY <1>2, RemovedStep DEF IInv, TypeOK
<1>4. SchedulerTypeOK /\ PlacedOnce /\ FailedGroupHasNoQueue
  BY DEF IInv, TypeOK, SchedulerTypeOK, NoDeletionLost
<1>5. /\ SchedulerTypeOK'
      /\ PlacedOnce'
      /\ FailedGroupHasNoQueue'
      /\ pc'[n] \in {"cleaning", "handed"}
      /\ \A m \in Nodes : m # n => pc'[m] = pc[m]
  BY <1>1, <1>4, AddToBatcherStep
<1> QED
  BY <1>1, <1>3, <1>5, TrackerUntouched

LEMMA RemoveBucketStep ==
  ASSUME IInv, NEW g \in Groups, RemoveBucket(g)
  PROVE  IInv'
<1> DEFINE moved == bucket[g]
<1>1. /\ UNCHANGED <<trackerVars, toBeDeleted, instances, targetSize>>
      /\ UNCHANGED <<pc, batchSize, forced, failuresForGroup, nodeQueue>>
      /\ bucket' = [bucket EXCEPT ![g] = {}]
      /\ cloudCalls' = cloudCalls \cup {moved}
  BY DEF RemoveBucket, cloudVars, actuatorVars, schedulerVars
<1>2. /\ instances' \subseteq Nodes
      /\ targetSize' \in [Groups -> Nat]
      /\ TargetCounts'
  BY <1>1 DEF IInv, TypeOK, TargetCounts, NodesOf
<1>3. SchedulerTypeOK /\ PlacedOnce /\ FailedGroupHasNoQueue
  BY DEF IInv, TypeOK, SchedulerTypeOK, NoDeletionLost
<1>4. FailedGroupHasNoQueue'
  BY <1>1, <1>3 DEF FailedGroupHasNoQueue
<1>5. moved \subseteq NodesOf(g) /\ moved \subseteq Nodes
  BY <1>3 DEF PlacedOnce, Waiting, NodesOf
<1>6. SchedulerTypeOK'
  BY <1>1, <1>3, <1>5 DEF SchedulerTypeOK
<1>7. \A h \in Groups : bucket'[h] = IF h = g THEN {} ELSE bucket[h]
  BY <1>1, <1>3 DEF SchedulerTypeOK
<1>8. \A h \in Groups : \A call \in cloudCalls : bucket[h] \cap call = {}
  BY <1>3 DEF PlacedOnce, Waiting
<1>9. ASSUME NEW h \in Groups
      PROVE  /\ Waiting(h)' \subseteq NodesOf(h)
             /\ nodeQueue'[h] \cap bucket'[h] = {}
             /\ \A call \in cloudCalls' : Waiting(h)' \cap call = {}
  <2>1. /\ Waiting(h)' = nodeQueue[h] \cup bucket'[h]
        /\ Waiting(h) \subseteq NodesOf(h)
        /\ nodeQueue[h] \cap bucket[h] = {}
        /\ \A call \in cloudCalls : Waiting(h) \cap call = {}
    BY <1>1, <1>3 DEF PlacedOnce, Waiting
  <2>2. bucket'[h] \subseteq bucket[h]
    BY <1>7
  <2>3. Waiting(h)' \cap moved = {}
    <3>1. CASE h = g
      BY <1>7, <2>1, <3>1
    <3>2. CASE h # g
      <4>1. NodesOf(h) \cap NodesOf(g) = {}
        BY <3>2 DEF NodesOf
      <4> QED
        BY <1>5, <2>1, <2>2, <4>1 DEF Waiting
    <3> QED
      BY <3>1, <3>2
  <2> HIDE DEF moved
  <2> QED
    BY <1>1, <2>1, <2>2, <2>3 DEF Waiting
<1>10. \A call, other \in cloudCalls' : call # other => call \cap other = {}
  <2>1. \A call \in cloudCalls : call \cap moved = {}
    BY <1>8
  <2>2. \A call, other \in cloudCalls : call # other => call \cap other = {}
    BY <1>3 DEF PlacedOnce
  <2> HIDE DEF moved
  <2> QED
    BY <1>1, <2>1, <2>2
<1>11. ASSUME NEW m \in Nodes
       PROVE  pc'[m] = "handed" <=>
                m \in Waiting(GroupOf[m])' \/ \E call \in cloudCalls' : m \in call
  <2>1. pc[m] = "handed" <=>
          m \in Waiting(GroupOf[m]) \/ \E call \in cloudCalls : m \in call
    BY <1>3 DEF PlacedOnce
  <2>2. GroupOf[m] \in Groups
    BY NodeGroupsAssumption
  <2>3. m \in moved => GroupOf[m] = g
    BY <1>5 DEF NodesOf
  <2>4. m \in Waiting(GroupOf[m]) <=> m \in Waiting(GroupOf[m])' \/ m \in moved
    BY <1>1, <1>7, <2>2, <2>3 DEF Waiting
  <2> HIDE DEF moved
  <2> QED
    BY <1>1, <2>1, <2>4
<1>12. PlacedOnce'
  BY <1>9, <1>10, <1>11 DEF PlacedOnce, NodesOf
<1> QED
  BY <1>1, <1>2, <1>4, <1>6, <1>12, TrackerUntouched

LEMMA CloudDeleteStep ==
  ASSUME IInv, NEW call \in cloudCalls, CloudDelete(call)
  PROVE  IInv'
<1>1. /\ UNCHANGED <<trackerVars, toBeDeleted>>
      /\ UNCHANGED <<batchSize, forced, failuresForGroup, nodeQueue, bucket>>
      /\ cloudCalls' = cloudCalls \ {call}
  BY DEF CloudDelete, schedulerVars
<1>2. PICK gone \in SUBSET call, stage \in {"deleted", "cleaning"} :
        Removed(gone) /\ pc' = Moved(call, stage)
  <2>1. CASE Removed(call) /\ pc' = Moved(call, "deleted")
    BY <2>1
  <2>2. ASSUME NEW gone \in SUBSET (call \cap IndividualNodes), Removed(gone),
               pc' = Moved(call, "cleaning")
        PROVE  \E some \in SUBSET call, stage \in {"deleted", "cleaning"} :
                 Removed(some) /\ pc' = Moved(call, stage)
    <3>1. gone \in SUBSET call
      OBVIOUS
    <3> QED
      BY <2>2, <3>1
  <2> QED
    BY <2>1, <2>2 DEF CloudDelete
<1>3. /\ instances' \subseteq Nodes
      /\ targetSize' \in [Groups -> Nat]
      /\ TargetCounts'
  BY <1>2, RemovedStep DEF IInv, TypeOK
<1>4. SchedulerTypeOK /\ PlacedOnce /\ FailedGroupHasNoQueue
  BY DEF IInv, TypeOK, SchedulerTypeOK, NoDeletionLost
<1>5. FailedGroupHasNoQueue'
  BY <1>1, <1>4 DEF FailedGroupHasNoQueue
<1>6. SchedulerTypeOK'
  BY <1>1, <1>2, <1>4 DEF SchedulerTypeOK, PCs, Moved
<1>7. \A m \in Nodes : pc'[m] = IF m \in call THEN stage ELSE pc[m]
  BY <1>2 DEF Moved
<1>8. \A h \in Groups : Waiting(h)' = Waiting(h)
  BY <1>1 DEF Waiting
<1>9. ASSUME NEW m \in Nodes
      PROVE  pc'[m] = "handed" <=>
               m \in Waiting(GroupOf[m])' \/ \E other \in cloudCalls' : m \in other
  <2>1. pc[m] = "handed" <=>
          m \in Waiting(GroupOf[m]) \/ \E other \in cloudCalls : m \in other
    BY <1>4 DEF PlacedOnce
  <2>2. GroupOf[m] \in Groups
    BY NodeGroupsAssumption
  <2>3. CASE m \in call
    <3>1. m \notin Waiting(GroupOf[m]) /\ \A other \in cloudCalls : other # call => m \notin other
      BY <1>4, <2>2, <2>3 DEF PlacedOnce
    <3>2. pc'[m] # "handed"
      BY <1>7, <2>3
    <3> QED
      BY <1>1, <1>8, <2>2, <3>1, <3>2
  <2>4. CASE m \notin call
    BY <1>1, <1>7, <1>8, <2>1, <2>2, <2>4
  <2> QED
    BY <2>3, <2>4
<1>10. PlacedOnce'
  BY <1>1, <1>4, <1>8, <1>9 DEF PlacedOnce, NodesOf
<1>11. \A m \in call : m \in Nodes => pc[m] = "handed"
  BY <1>4 DEF PlacedOnce
<1>12. \A m \in Nodes : pc'[m] # pc[m] => pc[m] = "handed" /\ pc'[m] = stage
  BY <1>7, <1>11
<1> QED
  BY <1>1, <1>3, <1>5, <1>6, <1>10, <1>12, TrackerUntouched

LEMMA CleanToBeDeletedStep ==
  ASSUME IInv, NEW n \in Nodes, CleanToBeDeleted(n)
  PROVE  IInv'
<1>1. /\ UNCHANGED <<deletionsPerNodeGroup, emptyNodeDeletions, drainedNodeDeletions>>
      /\ UNCHANGED <<batchSize, forced, failuresForGroup, nodeQueue, bucket, cloudCalls,
                     instances, targetSize>>
      /\ pc' = Moved({n}, "ending")
      /\ pc[n] = "cleaning"
      /\ toBeDeleted' \subseteq toBeDeleted
      /\ toBeDeleted \ {n} \subseteq toBeDeleted'
  BY DEF CleanToBeDeleted, trackerVars, schedulerVars, batcherVars, cloudVars
<1>2. \A m \in Nodes : pc'[m] = IF m = n THEN "ending" ELSE pc[m]
  BY <1>1 DEF Moved
<1>3. TypeOK'
  BY <1>1 DEF IInv, TypeOK, TrackerTypeOK, PCs, Moved
<1>4. TrackerConsistent' /\ InProgress' = InProgress
  BY <1>1 DEF IInv, TrackerConsistent, InProgress, NodesOf
<1>5. InProgress' = Tracked'
  <2>1. \A m : m \in Tracked' <=> m \in Tracked
    BY <1>1, <1>2, TrackedStages, TrackedStagesNext
  <2> QED
    BY <1>4, <2>1 DEF IInv, NoDeletionLost
<1>6. PlacedOnce'
  BY <1>1, <1>2, PlacedSame DEF IInv, NoDeletionLost
<1>7. TaintedWhileDeleting'
  BY <1>1, <1>2 DEF IInv, TaintedWhileDeleting
<1>8. TargetCounts' /\ FailedGroupHasNoQueue'
  BY <1>1 DEF IInv, TargetCounts, FailedGroupHasNoQueue, NodesOf
<1> QED
  BY <1>3, <1>4, <1>5, <1>6, <1>7, <1>8 DEF IInv, NoDeletionLost

(* Both ways in which a deletion ends.                                     *)
LEMMA EndDeletionStep ==
  ASSUME IInv, NEW n \in Nodes, EndFailedDeletion(n) \/ EndSuccessfulDeletion(n)
  PROVE  IInv'
<1>1. /\ UNCHANGED <<batchSize, forced, toBeDeleted, failuresForGroup, nodeQueue, bucket,
                     cloudCalls, instances, targetSize>>
      /\ pc' = Moved({n}, "none")
      /\ pc[n] \in {"ending", "deleted"}
      /\ TrackEnd(n)
  BY DEF EndFailedDeletion, EndSuccessfulDeletion, schedulerVars, batcherVars, cloudVars
<1>2. \A m \in Nodes : pc'[m] = IF m = n THEN "none" ELSE pc[m]
  BY <1>1 DEF Moved
<1>3. n \in InProgress
  BY <1>1, TrackedStages DEF IInv, NoDeletionLost
<1>4. /\ TrackerTypeOK'
      /\ TrackerConsistent'
      /\ InProgress' = InProgress \ {n}
  BY <1>1, <1>3, TrackEndStep DEF IInv, TypeOK
<1>5. TypeOK'
  BY <1>1, <1>4 DEF IInv, TypeOK, PCs, Moved
<1>6. InProgress' = Tracked'
  <2>1. \A m : m \in InProgress' <=> m \in Tracked'
    BY <1>2, <1>4, TrackedStages, TrackedStagesNext DEF IInv, NoDeletionLost
  <2> QED
    BY <2>1
<1>7. PlacedOnce'
  BY <1>1, <1>2, PlacedSame DEF IInv, NoDeletionLost
<1>8. TaintedWhileDeleting'
  BY <1>1, <1>2 DEF IInv, TaintedWhileDeleting
<1>9. TargetCounts' /\ FailedGroupHasNoQueue'
  BY <1>1 DEF IInv, TargetCounts, FailedGroupHasNoQueue, NodesOf
<1> QED
  BY <1>4, <1>5, <1>6, <1>7, <1>8, <1>9 DEF IInv, NoDeletionLost

-----------------------------------------------------------------------------
(* The invariant holds at the start and for ever.                          *)

LEMMA InitIInv == Init => IInv
<1> SUFFICES ASSUME Init
             PROVE  IInv
  OBVIOUS
<1>1. \A g \in Groups : /\ Cardinality(NodesOf(g)) \in Nat
                        /\ Unregistered[g] \in Nat
                        /\ Nodes \cap NodesOf(g) = NodesOf(g)
  BY NodesOfIsSubset, NodeSetCount, ActuationAssumption
<1>2. TypeOK
  BY <1>1 DEF Init, TypeOK, TrackerInit, TrackerTypeOK, PCs
<1>3. TargetCounts
  BY <1>1 DEF Init, TargetCounts
<1>4. TrackerConsistent
  BY FS_EmptySet DEF Init, TrackerInit, TrackerConsistent, InProgress
<1>5. NoDeletionLost
  <2>1. InProgress = Tracked
    BY DEF Init, TrackerInit, InProgress, Tracked, At
  <2>2. PlacedOnce
    BY NodeGroupsAssumption DEF Init, PlacedOnce, Waiting
  <2> QED
    BY <2>1, <2>2 DEF NoDeletionLost
<1>6. TaintedWhileDeleting
  BY DEF Init, TaintedWhileDeleting
<1>7. FailedGroupHasNoQueue
  BY DEF Init, FailedGroupHasNoQueue
<1> QED
  BY <1>2, <1>3, <1>4, <1>5, <1>6, <1>7 DEF IInv

(* What the main loop's call leaves to others keeps the invariant. *)
LEMMA GoroutineIInv == IInv /\ (StartDrain \/ GoroutineStep) => IInv'
<1> SUFFICES ASSUME IInv, StartDrain \/ GoroutineStep
             PROVE  IInv'
  OBVIOUS
<1>1. CASE StartDrain
  BY <1>1, StartDrainStep
<1>2. ASSUME NEW n \in Nodes, NodeStep(n)
      PROVE  IInv'
  BY <1>2, DeleteNodesAsyncStep, ScheduleDeletionStep, ForceDeleteStep,
     CleanToBeDeletedStep, EndDeletionStep
     DEF NodeStep
<1>3. ASSUME NEW g \in Groups, RemoveBucket(g)
      PROVE  IInv'
  BY <1>3, RemoveBucketStep
<1>4. ASSUME NEW call \in cloudCalls, CloudDelete(call)
      PROVE  IInv'
  BY <1>4, CloudDeleteStep
<1> QED
  BY <1>1, <1>2, <1>3, <1>4 DEF GoroutineStep

(* A step that changes nothing. *)
LEMMA StutterIInv == IInv /\ UNCHANGED vars => IInv'
<1> SUFFICES ASSUME IInv, UNCHANGED vars
             PROVE  IInv'
  OBVIOUS
<1>1. /\ UNCHANGED <<deletionsPerNodeGroup, emptyNodeDeletions, drainedNodeDeletions>>
      /\ UNCHANGED <<pc, batchSize, forced, toBeDeleted, failuresForGroup, nodeQueue,
                     bucket, cloudCalls, instances, targetSize>>
  BY DEF vars, trackerVars, actuatorVars, schedulerVars, batcherVars, cloudVars
<1>2. TypeOK' /\ TargetCounts' /\ FailedGroupHasNoQueue' /\ TaintedWhileDeleting'
  BY <1>1 DEF IInv, TypeOK, TrackerTypeOK, TargetCounts, FailedGroupHasNoQueue,
              TaintedWhileDeleting, NodesOf
<1>3. TrackerConsistent' /\ InProgress' = Tracked'
  BY <1>1 DEF IInv, TrackerConsistent, NoDeletionLost, InProgress, Tracked, At, NodesOf
<1>4. PlacedOnce'
  BY <1>1, PlacedSame DEF IInv, NoDeletionLost
<1> QED
  BY <1>2, <1>3, <1>4 DEF IInv, NoDeletionLost

LEMMA NextIInv == IInv /\ [Next]_vars => IInv'
BY StartAnyDeletionStep, GoroutineIInv, StutterIInv DEF Next

LEMMA Invariance == Spec => []IInv
BY InitIInv, NextIInv, PTL DEF Spec

-----------------------------------------------------------------------------
(* The two limits on parallel deletions.                                   *)

(* The nodes that are selected but not in the tracker yet count as well:   *)
(* CropNodes took them out of the budget already.                          *)
Claimed       == InProgress \cup At("picked")
DrainsClaimed == drainedNodeDeletions \cup At("picked")

WithinLimits ==
  /\ Cardinality(Individual(Claimed)) <= MaxScaleDownParallelism
  /\ Cardinality(Individual(DrainsClaimed)) <= MaxDrainParallelism

(* Fewer nodes stay within the limits. *)
LEMMA FewerWithinLimits ==
  ASSUME IInv, WithinLimits, Claimed' \subseteq Claimed, DrainsClaimed' \subseteq DrainsClaimed
  PROVE  WithinLimits'
<1>1. Claimed \subseteq Nodes /\ DrainsClaimed \subseteq Nodes
  BY DEF Claimed, DrainsClaimed, InProgress, At, IInv, TypeOK, TrackerTypeOK
<1>2. /\ Individual(Claimed') \subseteq Individual(Claimed)
      /\ Individual(Claimed) \subseteq Nodes
      /\ Individual(DrainsClaimed') \subseteq Individual(DrainsClaimed)
      /\ Individual(DrainsClaimed) \subseteq Nodes
  BY <1>1 DEF Individual
<1>3. /\ Cardinality(Individual(Claimed)) \in Nat
      /\ Cardinality(Individual(Claimed')) \in Nat
      /\ Cardinality(Individual(DrainsClaimed)) \in Nat
      /\ Cardinality(Individual(DrainsClaimed')) \in Nat
  <2>1. Individual(Claimed') \subseteq Nodes /\ Individual(DrainsClaimed') \subseteq Nodes
    BY <1>2
  <2> QED
    BY <1>2, <2>1, NodeSetCount
<1>4. /\ Cardinality(Individual(Claimed')) <= Cardinality(Individual(Claimed))
      /\ Cardinality(Individual(DrainsClaimed')) <= Cardinality(Individual(DrainsClaimed))
  BY <1>2, CountPart
<1> QED
  BY <1>3, <1>4, NodeGroupsAssumption DEF WithinLimits, Individual, IndividualNodes

(* A selection within the budgets of CropNodes is within the limits        *)
(* together with what is in progress: an atomic group may use more than    *)
(* the budget, but then no node is selected that is deleted alone.         *)
LEMMA SelectionWithinLimits ==
  ASSUME IInv, WithinLimits, At("picked") = {},
         NEW selected, selected \subseteq Nodes, NEW empty \in SUBSET selected,
         WithinBudget(Cardinality(emptyNodeDeletions), Cardinality(drainedNodeDeletions),
                      targetSize, RegisteredSize, empty, selected \ empty),
         Claimed' \subseteq InProgress \cup selected,
         DrainsClaimed' \subseteq drainedNodeDeletions \cup (selected \ empty)
  PROVE  WithinLimits'
<1> DEFINE drain == selected \ empty
           E == Cardinality(emptyNodeDeletions)
           D == Cardinality(drainedNodeDeletions)
<1>1. /\ empty \subseteq Nodes /\ drain \subseteq Nodes /\ InProgress \subseteq Nodes
      /\ emptyNodeDeletions \subseteq Nodes /\ drainedNodeDeletions \subseteq Nodes
      /\ Individual(InProgress) \subseteq Nodes /\ Individual(drainedNodeDeletions) \subseteq Nodes
  BY DEF InProgress, IInv, TypeOK, TrackerTypeOK, Individual
<1>2. /\ E \in Nat /\ D \in Nat
      /\ Cardinality(empty) \in Nat /\ Cardinality(drain) \in Nat
      /\ Cardinality(selected) \in Nat
  BY <1>1, NodeSetCount
<1>3. Cardinality(InProgress) = E + D
  BY <1>1, DisjointCount DEF InProgress, IInv, TrackerConsistent
<1>4. empty \cup drain = selected
  OBVIOUS
<1>5. /\ Individual(empty) # {} =>
           Cardinality(empty) + Cardinality(Atomic(drain)) <= MaxScaleDownParallelism - E - D
      /\ Individual(drain) # {} =>
           /\ Cardinality(selected) <= MaxScaleDownParallelism - E - D
           /\ Cardinality(drain) <= MaxDrainParallelism - D
  BY <1>4 DEF WithinBudget, ParallelismBudget, DrainBudget
<1>6. Cardinality(Atomic(drain)) \in Nat
  <2>1. Atomic(drain) \subseteq Nodes
    BY <1>1 DEF Atomic
  <2> QED
    BY <2>1, NodeSetCount
<1>7. Claimed' \subseteq Nodes /\ DrainsClaimed' \subseteq Nodes
  BY <1>1
<1> HIDE DEF drain, E, D
<1>8. ASSUME NEW some, some \subseteq Nodes,
             Individual(Claimed') \subseteq InProgress \cup some,
             Cardinality(some) <= MaxScaleDownParallelism - E - D
      PROVE  Cardinality(Individual(Claimed')) <= MaxScaleDownParallelism
  <2>1. Cardinality(InProgress \cup some) <= Cardinality(InProgress) + Cardinality(some)
    BY <1>1, <1>8, CountUnion
  <2>2. InProgress \cup some \subseteq Nodes
    BY <1>1, <1>8
  <2>3. Cardinality(Individual(Claimed')) <= Cardinality(InProgress \cup some)
    BY <1>8, <2>2, CountPart
  <2>4. /\ Cardinality(some) \in Nat
        /\ Cardinality(InProgress \cup some) \in Nat
        /\ Cardinality(Individual(Claimed')) \in Nat
    <3>1. Individual(Claimed') \subseteq Nodes
      BY <1>7 DEF Individual
    <3> QED
      BY <1>8, <2>2, <3>1, NodeSetCount
  <2> QED
    BY <1>2, <1>3, <1>8, <2>1, <2>3, <2>4, NodeGroupsAssumption
<1>9. Cardinality(Individual(Claimed')) <= MaxScaleDownParallelism
  <2>1. CASE Individual(drain) # {}
    <3>1. Individual(Claimed') \subseteq InProgress \cup selected
      BY DEF Individual
    <3> QED
      BY <1>5, <1>8, <2>1, <3>1
  <2>2. CASE Individual(drain) = {} /\ Individual(empty) # {}
    <3>1. Individual(Claimed') \subseteq InProgress \cup empty
      BY <1>4, <2>2 DEF Individual
    <3>2. Cardinality(empty) <= MaxScaleDownParallelism - E - D
      BY <1>2, <1>5, <1>6, <2>2, NodeGroupsAssumption
    <3> QED
      BY <1>1, <1>8, <3>1, <3>2
  <2>3. CASE Individual(drain) = {} /\ Individual(empty) = {}
    <3>1. Individual(Claimed') \subseteq Individual(Claimed)
      BY <1>4, <2>3 DEF Individual, Claimed
    <3>2. Individual(Claimed) \subseteq Nodes
      BY DEF Individual, IndividualNodes
    <3>3. Cardinality(Individual(Claimed')) <= Cardinality(Individual(Claimed))
      BY <3>1, <3>2, CountPart
    <3>4. /\ Cardinality(Individual(Claimed)) \in Nat
          /\ Cardinality(Individual(Claimed')) \in Nat
      <4>1. Individual(Claimed') \subseteq Nodes
        BY <3>1, <3>2
      <4> QED
        BY <3>2, <4>1, NodeSetCount
    <3> QED
      BY <3>3, <3>4, NodeGroupsAssumption DEF WithinLimits
  <2> QED
    BY <2>1, <2>2, <2>3
<1>10. Cardinality(Individual(DrainsClaimed')) <= MaxDrainParallelism
  <2>1. CASE Individual(drain) # {}
    <3>1. Cardinality(drainedNodeDeletions \cup drain) <= D + Cardinality(drain)
      BY <1>1, CountUnion DEF D
    <3>2. drainedNodeDeletions \cup drain \subseteq Nodes
      BY <1>1
    <3>3. Individual(DrainsClaimed') \subseteq drainedNodeDeletions \cup drain
      BY DEF Individual, drain
    <3>4. Cardinality(Individual(DrainsClaimed')) <= Cardinality(drainedNodeDeletions \cup drain)
      BY <3>2, <3>3, CountPart
    <3>5. /\ Cardinality(drainedNodeDeletions \cup drain) \in Nat
          /\ Cardinality(Individual(DrainsClaimed')) \in Nat
      <4>1. Individual(DrainsClaimed') \subseteq Nodes
        BY <3>2, <3>3
      <4> QED
        BY <3>2, <4>1, NodeSetCount
    <3> QED
      BY <1>2, <1>5, <2>1, <3>1, <3>4, <3>5, NodeGroupsAssumption
  <2>2. CASE Individual(drain) = {}
    <3>1. Individual(DrainsClaimed') \subseteq Individual(DrainsClaimed)
      BY <2>2 DEF Individual, DrainsClaimed, drain
    <3>2. Individual(DrainsClaimed) \subseteq Nodes
      BY DEF Individual, IndividualNodes
    <3>3. Cardinality(Individual(DrainsClaimed')) <= Cardinality(Individual(DrainsClaimed))
      BY <3>1, <3>2, CountPart
    <3>4. /\ Cardinality(Individual(DrainsClaimed)) \in Nat
          /\ Cardinality(Individual(DrainsClaimed')) \in Nat
      <4>1. Individual(DrainsClaimed') \subseteq Nodes
        BY <3>1, <3>2
      <4> QED
        BY <3>2, <4>1, NodeSetCount
    <3> QED
      BY <3>3, <3>4, NodeGroupsAssumption DEF WithinLimits
  <2> QED
    BY <2>1, <2>2
<1> QED
  BY <1>9, <1>10 DEF WithinLimits, Individual, IndividualNodes

LEMMA StartDeletionLimits ==
  ASSUME IInv, WithinLimits,
         NEW selected \in SUBSET At("none"),
         NEW empty \in SUBSET selected,
         NEW force \in BOOLEAN,
         StartDeletion(empty, selected \ empty, force)
  PROVE  WithinLimits'
<1> DEFINE drain == selected \ empty
<1>1. selected \subseteq Nodes /\ empty \subseteq Nodes /\ At("picked") = {}
  BY DEF At, StartDeletion
<1>2. CASE /\ StartAsyncEmpty(empty)
           /\ pc' = [n \in Nodes |-> IF n \in empty THEN "started"
                                     ELSE IF n \in drain THEN "picked" ELSE pc[n]]
  <2>1. /\ emptyNodeDeletions' = emptyNodeDeletions \cup empty
        /\ drainedNodeDeletions' = drainedNodeDeletions
    BY <1>2 DEF StartAsyncEmpty, TrackStart
  <2>2. At("picked")' \subseteq drain
    BY <1>1, <1>2 DEF At
  <2>3. Claimed' \subseteq InProgress \cup selected
    BY <2>1, <2>2 DEF Claimed, InProgress
  <2>4. DrainsClaimed' \subseteq drainedNodeDeletions \cup drain
    BY <2>1, <2>2 DEF DrainsClaimed
  <2>5. WithinBudget(Cardinality(emptyNodeDeletions), Cardinality(drainedNodeDeletions),
                     targetSize, RegisteredSize, empty, drain)
    BY DEF StartDeletion
  <2> QED
    BY <1>1, <2>3, <2>4, <2>5, SelectionWithinLimits
<1>3. CASE UNCHANGED <<trackerVars, actuatorVars>>
  <2>1. Claimed' = Claimed /\ DrainsClaimed' = DrainsClaimed
    BY <1>3 DEF trackerVars, actuatorVars, Claimed, DrainsClaimed, InProgress, At
  <2> QED
    BY <2>1, FewerWithinLimits
<1> QED
  BY <1>2, <1>3 DEF StartDeletion

(* Nothing else claims more. *)
LEMMA GoroutineClaims ==
  IInv /\ (StartDrain \/ GoroutineStep) => Claimed' \subseteq Claimed
                                         /\ DrainsClaimed' \subseteq DrainsClaimed
<1> SUFFICES ASSUME IInv, StartDrain \/ GoroutineStep
             PROVE  Claimed' \subseteq Claimed /\ DrainsClaimed' \subseteq DrainsClaimed
  OBVIOUS
<1>1. ASSUME \A m \in Nodes : pc'[m] = "picked" => pc[m] = "picked",
             emptyNodeDeletions' \subseteq emptyNodeDeletions,
             drainedNodeDeletions' \subseteq drainedNodeDeletions
      PROVE  Claimed' \subseteq Claimed /\ DrainsClaimed' \subseteq DrainsClaimed
  <2>1. At("picked")' \subseteq At("picked")
    BY <1>1 DEF At
  <2> QED
    BY <1>1, <2>1 DEF Claimed, DrainsClaimed, InProgress
<1>2. CASE StartDrain
  <2>1. CASE StartAsyncDrain(At("picked")) /\ pc' = Moved(At("picked"), "started")
    <3>1. At("picked")' = {}
      BY <2>1 DEF At, Moved
    <3> QED
      BY <2>1, <3>1 DEF StartAsyncDrain, TrackStartWithDrain, Claimed, DrainsClaimed, InProgress
  <2>2. CASE UNCHANGED trackerVars /\ pc' = Moved(At("picked"), "none")
    BY <1>1, <2>2 DEF trackerVars, At, Moved
  <2> QED
    BY <1>2, <2>1, <2>2 DEF StartDrain
<1>3. ASSUME NEW n \in Nodes, DeleteNodesAsync(n) \/ ScheduleDeletion(n) \/ ForceDelete(n)
      PROVE  Claimed' \subseteq Claimed /\ DrainsClaimed' \subseteq DrainsClaimed
  <2>1. UNCHANGED <<deletionsPerNodeGroup, emptyNodeDeletions, drainedNodeDeletions>>
    BY <1>3 DEF DeleteNodesAsync, ScheduleDeletion, ForceDelete, trackerVars
  <2>2. \E moving, stage : stage # "picked" /\ pc' = Moved(moving, stage)
    BY <1>3 DEF DeleteNodesAsync, ScheduleDeletion, ForceDelete, Abort, AddToBatcher
  <2> QED
    BY <1>1, <2>1, <2>2 DEF Moved
<1>4. ASSUME NEW n \in Nodes, CleanToBeDeleted(n)
      PROVE  Claimed' \subseteq Claimed /\ DrainsClaimed' \subseteq DrainsClaimed
  BY <1>1, <1>4 DEF CleanToBeDeleted, trackerVars, Moved
<1>5. ASSUME NEW n \in Nodes, EndFailedDeletion(n) \/ EndSuccessfulDeletion(n)
      PROVE  Claimed' \subseteq Claimed /\ DrainsClaimed' \subseteq DrainsClaimed
  BY <1>1, <1>5 DEF EndFailedDeletion, EndSuccessfulDeletion, TrackEnd, trackerVars, Moved
<1>6. ASSUME NEW g \in Groups, RemoveBucket(g)
      PROVE  Claimed' \subseteq Claimed /\ DrainsClaimed' \subseteq DrainsClaimed
  BY <1>1, <1>6 DEF RemoveBucket, trackerVars, actuatorVars
<1>7. ASSUME NEW call \in cloudCalls, CloudDelete(call)
      PROVE  Claimed' \subseteq Claimed /\ DrainsClaimed' \subseteq DrainsClaimed
  BY <1>1, <1>7 DEF CloudDelete, trackerVars, Moved
<1> QED
  BY <1>2, <1>3, <1>4, <1>5, <1>6, <1>7 DEF GoroutineStep, NodeStep

(* What is in progress is part of what is claimed. *)
LEMMA WithinLimitsKept == IInv /\ WithinLimits => IndividualParallelism
<1> SUFFICES ASSUME IInv, WithinLimits
             PROVE  IndividualParallelism
  OBVIOUS
<1>1. /\ Individual(InProgress) \subseteq Individual(Claimed)
      /\ Individual(drainedNodeDeletions) \subseteq Individual(DrainsClaimed)
      /\ Individual(Claimed) \subseteq Nodes
      /\ Individual(DrainsClaimed) \subseteq Nodes
  BY DEF Individual, IndividualNodes, Claimed, DrainsClaimed
<1>2. /\ Cardinality(Individual(InProgress)) <= Cardinality(Individual(Claimed))
      /\ Cardinality(Individual(drainedNodeDeletions)) <= Cardinality(Individual(DrainsClaimed))
  BY <1>1, CountPart
<1>3. /\ Cardinality(Individual(InProgress)) \in Nat
      /\ Cardinality(Individual(drainedNodeDeletions)) \in Nat
      /\ Cardinality(Individual(Claimed)) \in Nat
      /\ Cardinality(Individual(DrainsClaimed)) \in Nat
  <2>1. Individual(InProgress) \subseteq Nodes /\ Individual(drainedNodeDeletions) \subseteq Nodes
    BY <1>1
  <2> QED
    BY <1>1, <2>1, NodeSetCount
<1> QED
  BY <1>2, <1>3, NodeGroupsAssumption DEF WithinLimits, IndividualParallelism

LEMMA InitWithinLimits == Init => WithinLimits
<1> SUFFICES ASSUME Init
             PROVE  WithinLimits
  OBVIOUS
<1>1. Individual(Claimed) = {} /\ Individual(DrainsClaimed) = {}
  BY DEF Init, TrackerInit, Claimed, DrainsClaimed, InProgress, At, Individual
<1> QED
  BY <1>1, FS_EmptySet, NodeGroupsAssumption DEF WithinLimits

LEMMA LimitsInvariance == Spec => [](IInv /\ WithinLimits)
<1>1. Init => WithinLimits
  BY InitWithinLimits
<1>2. IInv /\ WithinLimits /\ [Next]_vars => WithinLimits'
  <2> SUFFICES ASSUME IInv, WithinLimits, [Next]_vars
               PROVE  WithinLimits'
    OBVIOUS
  <2>1. CASE StartAnyDeletion
    <3> SUFFICES ASSUME NEW selected \in SUBSET (At("none") \cap instances),
                        NEW empty \in SUBSET selected,
                        NEW force \in BOOLEAN,
                        StartDeletion(empty, selected \ empty, force)
                 PROVE  WithinLimits'
      BY <2>1 DEF StartAnyDeletion
    <3>1. selected \in SUBSET At("none")
      OBVIOUS
    <3> QED
      BY <3>1, StartDeletionLimits
  <2>2. CASE StartDrain \/ GoroutineStep
    BY <2>2, GoroutineClaims, FewerWithinLimits
  <2>3. CASE UNCHANGED vars
    <3>1. Claimed' = Claimed /\ DrainsClaimed' = DrainsClaimed
      BY <2>3 DEF vars, trackerVars, actuatorVars, Claimed, DrainsClaimed, InProgress, At
    <3> QED
      BY <3>1, FewerWithinLimits
  <2> QED
    BY <2>1, <2>2, <2>3 DEF Next
<1> QED
  BY <1>1, <1>2, InitIInv, NextIInv, PTL DEF Spec

-----------------------------------------------------------------------------
(* Atomic groups that StartForceDeletion is never given.                   *)

WholeGroups == AtomicGroups \ ForceGroups

OnItsWay == {"picked", "started", "preparing"}

(* Of a group, the nodes have every registered node or none.               *)
AllOrNone(g, nodes) ==
  nodes \cap NodesOf(g) = {} \/ instances \cap NodesOf(g) \subseteq nodes

(* Why a group stays whole: a node on its way waits for as many nodes as   *)
(* the group has instances, and so what leaves the queue, and later the    *)
(* bucket, is the whole group.  Nothing is said of a group that is gone:   *)
(* the main loop may still select its nodes, from an older list.           *)
WholeInv ==
  /\ \A n \in forced : GroupOf[n] \in ForceGroups
  /\ \A n \in Nodes : GroupOf[n] \in WholeGroups /\ pc[n] \in OnItsWay =>
       batchSize[n] >= Cardinality(instances \cap NodesOf(GroupOf[n]))
  /\ \A g \in WholeGroups :
       /\ AllOrNone(g, bucket[g])
       /\ \A call \in cloudCalls : AllOrNone(g, call)
  /\ \A call \in cloudCalls : \E g \in Groups : call \subseteq NodesOf(g)
  /\ AtomicGroupWhole

(* Steps after which no node is on its way that was not before.            *)
LEMMA FewerOnTheirWay ==
  ASSUME WholeInv,
         UNCHANGED <<instances, bucket>>,
         cloudCalls' \subseteq cloudCalls,
         \A n \in forced' : n \in forced,
         \A m \in Nodes : pc'[m] \in OnItsWay =>
           pc[m] \in OnItsWay /\ batchSize'[m] = batchSize[m]
  PROVE  WholeInv'
<1>1. ASSUME NEW n \in Nodes, GroupOf[n] \in WholeGroups
      PROVE  pc'[n] \in OnItsWay =>
               batchSize'[n] >= Cardinality(instances' \cap NodesOf(GroupOf[n]))
  BY <1>1 DEF WholeInv
<1>2. ASSUME NEW g \in WholeGroups
      PROVE  /\ AllOrNone(g, bucket[g])'
             /\ \A call \in cloudCalls' : AllOrNone(g, call)'
  BY DEF WholeInv, AllOrNone, NodesOf
<1>3. AtomicGroupWhole'
  BY DEF WholeInv, AtomicGroupWhole, NodesOf
<1>4. \A call \in cloudCalls' : \E g \in Groups : call \subseteq NodesOf(g)
  BY DEF WholeInv
<1> QED
  BY <1>1, <1>2, <1>3, <1>4 DEF WholeInv, NodesOf, WholeGroups, OnItsWay, AllOrNone

(* A batch is never smaller than what is registered of its group.          *)
LEMMA BatchCoversGroup ==
  ASSUME IInv, NEW g \in Groups, NEW empty, NEW drain
  PROVE  BatchSizeOf(g, empty, drain, targetSize, RegisteredSize)
           >= Cardinality(instances \cap NodesOf(g))
<1>1. Cardinality(instances \cap NodesOf(g)) \in Nat /\ Unregistered[g] \in Nat
  <2>1. instances \cap NodesOf(g) \subseteq Nodes
    BY NodesOfIsSubset
  <2> QED
    BY <2>1, NodeSetCount, ActuationAssumption
<1>2. /\ targetSize[g] = Cardinality(instances \cap NodesOf(g)) + Unregistered[g]
      /\ RegisteredSize[g] = Cardinality(instances \cap NodesOf(g))
  BY DEF IInv, TargetCounts, RegisteredSize
<1>3. BatchSizeOf(g, empty, drain, targetSize, RegisteredSize)
        \in {targetSize[g], RegisteredSize[g]}
  BY DEF BatchSizeOf
<1> QED
  BY <1>1, <1>2, <1>3

LEMMA StartDeletionWhole ==
  ASSUME IInv, WholeInv,
         NEW selected \in SUBSET At("none"),
         NEW empty \in SUBSET selected,
         NEW force \in BOOLEAN,
         force => \A n \in selected : GroupOf[n] \in ForceGroups,
         StartDeletion(empty, selected \ empty, force)
  PROVE  WholeInv'
<1> DEFINE drain == selected \ empty
<1>1. UNCHANGED <<nodeQueue, bucket, cloudCalls, instances, targetSize>>
  BY DEF StartDeletion, batcherVars, cloudVars
<1>2. CASE /\ pc' = [n \in Nodes |-> IF n \in empty THEN "started"
                                     ELSE IF n \in drain THEN "picked" ELSE pc[n]]
           /\ batchSize' = BatchSizes(empty, drain)
           /\ forced' = IF force THEN forced \cup empty \cup drain ELSE forced
  <2>1. \A n \in forced' : GroupOf[n] \in ForceGroups
    BY <1>2 DEF WholeInv
  <2>2. ASSUME NEW n \in Nodes, GroupOf[n] \in WholeGroups
        PROVE  pc'[n] \in OnItsWay =>
                 batchSize'[n] >= Cardinality(instances' \cap NodesOf(GroupOf[n]))
    <3>1. CASE n \in selected
      <4>1. GroupOf[n] \in Groups /\ GroupOf[n] \in AtomicGroups
        BY <2>2, <3>1, NodeGroupsAssumption DEF WholeGroups
      <4>2. batchSize'[n] = BatchSizeOf(GroupOf[n], empty, drain, targetSize, RegisteredSize)
        BY <1>2, <3>1, <4>1 DEF BatchSizes
      <4> QED
        BY <1>1, <4>1, <4>2, BatchCoversGroup
    <3>2. CASE n \notin selected
      <4>1. pc'[n] = pc[n] /\ batchSize'[n] = batchSize[n]
        BY <1>2, <3>2 DEF BatchSizes
      <4> QED
        BY <1>1, <2>2, <4>1 DEF WholeInv
    <3> QED
      BY <3>1, <3>2
  <2>3. ASSUME NEW g \in WholeGroups
        PROVE  /\ AllOrNone(g, bucket[g])'
               /\ \A call \in cloudCalls' : AllOrNone(g, call)'
    BY <1>1 DEF WholeInv, AllOrNone, NodesOf
  <2>4. AtomicGroupWhole' /\ \A call \in cloudCalls' : \E g \in Groups : call \subseteq NodesOf(g)
    BY <1>1 DEF WholeInv, AtomicGroupWhole, NodesOf
  <2> QED
    BY <2>1, <2>2, <2>3, <2>4 DEF WholeInv, NodesOf, WholeGroups, OnItsWay, AllOrNone
<1>3. CASE UNCHANGED <<trackerVars, actuatorVars>>
  <2>1. UNCHANGED <<pc, batchSize, forced>>
    BY <1>3 DEF actuatorVars
  <2> QED
    BY <1>1, <2>1, FewerOnTheirWay
<1> QED
  BY <1>2, <1>3 DEF StartDeletion

(* A queue that is complete has all that is left of the group.             *)
LEMMA CompleteQueueIsWhole ==
  ASSUME IInv, WholeInv, NEW n \in Nodes, pc[n] = "preparing", GroupOf[n] \in WholeGroups,
         Complete(n, nodeQueue[GroupOf[n]] \cup {n})
  PROVE  instances \cap NodesOf(GroupOf[n]) \subseteq nodeQueue[GroupOf[n]] \cup {n}
<1> DEFINE g == GroupOf[n]
           queue == nodeQueue[g] \cup {n}
           left == instances \cap NodesOf(g)
<1>1. g \in Groups /\ g \in AtomicGroups /\ n \in NodesOf(g)
  BY NodeGroupsAssumption DEF WholeGroups, NodesOf
<1>2. queue \subseteq NodesOf(g)
  BY <1>1 DEF IInv, NoDeletionLost, PlacedOnce, Waiting
<1>3. left = NodesOf(g) \/ left = {}
  BY DEF WholeInv, AtomicGroupWhole, WholeGroups
<1>4. CASE left = {}
  BY <1>4
<1>5. CASE left = NodesOf(g)
  <2>1. Cardinality(queue) >= batchSize[n] /\ batchSize[n] >= Cardinality(left)
    BY <1>1 DEF Complete, WholeInv, OnItsWay
  <2>2. left \subseteq Nodes /\ queue \subseteq Nodes /\ queue \subseteq left
    BY <1>2, <1>5 DEF NodesOf
  <2>3. batchSize[n] \in Nat
    BY DEF IInv, TypeOK
  <2> HIDE DEF queue, left
  <2>4. Cardinality(queue) >= Cardinality(left)
    BY <2>1, <2>2, <2>3, NodeSetCount
  <2>5. queue = left
    BY <2>2, <2>4, CountPart
  <2> QED
    BY <2>5 DEF queue, left
<1> QED
  BY <1>3, <1>4, <1>5

(* ForceDeleteNodes may take n's instance on the way, but not from a group *)
(* that must stay whole.                                                   *)
LEMMA AddToBatcherWhole ==
  ASSUME IInv, WholeInv, NEW n \in Nodes, pc[n] = "preparing", AddToBatcher(n),
         \/ instances' = instances
         \/ n \in forced /\ instances' = instances \ {n}
  PROVE  WholeInv'
<1> DEFINE g == GroupOf[n]
           queue == nodeQueue[g] \cup {n}
<1>1. g \in Groups /\ n \in NodesOf(g)
  BY NodeGroupsAssumption DEF NodesOf
<1>2. \A h \in WholeGroups : instances' \cap NodesOf(h) = instances \cap NodesOf(h)
  BY DEF WholeInv, WholeGroups, NodesOf
<1>4. /\ forced' \subseteq forced
      /\ \A m \in Nodes : m # n => pc'[m] = pc[m] /\ batchSize'[m] = batchSize[m]
      /\ pc'[n] \in {"cleaning", "handed"}
  BY DEF AddToBatcher, GoroutineEnds, Moved, IInv, TypeOK
<1>5. \A m \in forced' : GroupOf[m] \in ForceGroups
  BY <1>4 DEF WholeInv
<1>6. ASSUME NEW m \in Nodes, GroupOf[m] \in WholeGroups
      PROVE  pc'[m] \in OnItsWay =>
               batchSize'[m] >= Cardinality(instances' \cap NodesOf(GroupOf[m]))
  <2>1. CASE m = n
    BY <1>4, <2>1 DEF OnItsWay
  <2>2. CASE m # n
    BY <1>2, <1>4, <1>6, <2>2 DEF WholeInv
  <2> QED
    BY <2>1, <2>2
<1>7. queue \subseteq NodesOf(g)
  BY <1>1 DEF IInv, NoDeletionLost, PlacedOnce, Waiting
<1>8. /\ \A h \in Groups :
           \/ bucket'[h] = bucket[h]
           \/ h = g /\ Complete(n, queue) /\ bucket'[h] = bucket[h] \cup queue
      /\ \A call \in cloudCalls' :
           \/ call \in cloudCalls
           \/ Complete(n, queue) /\ call = queue
  <2>1. CASE UNCHANGED batcherVars
    BY <2>1 DEF batcherVars
  <2>2. CASE Complete(n, queue) /\ AddNodes(g, queue)
    BY <1>1, <2>2 DEF AddNodes, IInv, TypeOK
  <2> QED
    BY <2>1, <2>2 DEF AddToBatcher
<1>9. g \in WholeGroups /\ Complete(n, queue) => instances \cap NodesOf(g) \subseteq queue
  BY CompleteQueueIsWhole
<1> HIDE DEF g, queue
<1>10. ASSUME NEW h \in WholeGroups
       PROVE  /\ AllOrNone(h, bucket[h])'
              /\ \A call \in cloudCalls' : AllOrNone(h, call)'
  <2>1. h \in Groups
    BY NodeGroupsAssumption DEF WholeGroups
  <2>2. /\ bucket[h] \cap NodesOf(h) = {} \/ instances \cap NodesOf(h) \subseteq bucket[h]
        /\ \A call \in cloudCalls :
             call \cap NodesOf(h) = {} \/ instances \cap NodesOf(h) \subseteq call
    BY DEF WholeInv, AllOrNone
  <2>3. bucket'[h] \cap NodesOf(h) = {} \/ instances \cap NodesOf(h) \subseteq bucket'[h]
    BY <1>8, <1>9, <2>1, <2>2
  <2>4. ASSUME NEW call \in cloudCalls'
        PROVE  call \cap NodesOf(h) = {} \/ instances \cap NodesOf(h) \subseteq call
    <3>1. CASE call \in cloudCalls
      BY <2>2, <3>1
    <3>2. CASE Complete(n, queue) /\ call = queue /\ h = g
      BY <1>9, <3>2
    <3>3. CASE Complete(n, queue) /\ call = queue /\ h # g
      <4>1. NodesOf(g) \cap NodesOf(h) = {}
        BY <3>3 DEF NodesOf
      <4> QED
        BY <1>7, <3>3, <4>1
    <3> QED
      BY <1>8, <3>1, <3>2, <3>3
  <2> QED
    BY <1>2, <2>3, <2>4 DEF AllOrNone, NodesOf
<1>11. \A call \in cloudCalls' : \E h \in Groups : call \subseteq NodesOf(h)
  BY <1>1, <1>7, <1>8 DEF WholeInv
<1>12. AtomicGroupWhole'
  <2>1. \A h \in WholeGroups : NodesOf(h) \subseteq instances \/ NodesOf(h) \cap instances = {}
    BY DEF WholeInv, AtomicGroupWhole, WholeGroups
  <2>2. \A h \in WholeGroups : NodesOf(h) \subseteq instances' \/ NodesOf(h) \cap instances' = {}
    BY <1>2, <2>1
  <2> QED
    BY <2>2 DEF AtomicGroupWhole, WholeGroups, NodesOf
<1> QED
  BY <1>5, <1>6, <1>10, <1>11, <1>12 DEF WholeInv, NodesOf, WholeGroups, OnItsWay, AllOrNone

(* A bucket has nodes of its own group only, and all of them if it has any. *)
LEMMA RemoveBucketWhole ==
  ASSUME IInv, WholeInv, NEW g \in Groups, RemoveBucket(g)
  PROVE  WholeInv'
<1>1. /\ UNCHANGED <<pc, batchSize, forced, instances>>
      /\ bucket' = [bucket EXCEPT ![g] = {}]
      /\ cloudCalls' = cloudCalls \cup {bucket[g]}
  BY DEF RemoveBucket, actuatorVars, cloudVars
<1>2. bucket[g] \subseteq NodesOf(g)
  BY DEF IInv, NoDeletionLost, PlacedOnce, Waiting
<1>3. ASSUME NEW h \in WholeGroups
      PROVE  /\ AllOrNone(h, bucket[h])'
             /\ \A call \in cloudCalls' : AllOrNone(h, call)'
  <2>1. h \in Groups
    BY NodeGroupsAssumption DEF WholeGroups
  <2>2. bucket'[h] = IF h = g THEN {} ELSE bucket[h]
    BY <1>1, <2>1 DEF IInv, TypeOK
  <2>3. bucket[g] \cap NodesOf(h) = {} \/ instances \cap NodesOf(h) \subseteq bucket[g]
    <3>1. CASE h = g
      BY <3>1 DEF WholeInv, AllOrNone
    <3>2. CASE h # g
      BY <1>2, <3>2 DEF NodesOf
    <3> QED
      BY <3>1, <3>2
  <2> QED
    BY <1>1, <2>2, <2>3 DEF WholeInv, AllOrNone, NodesOf
<1>4. \A call \in cloudCalls' : \E h \in Groups : call \subseteq NodesOf(h)
  BY <1>1, <1>2 DEF WholeInv
<1> QED
  BY <1>1, <1>3, <1>4 DEF WholeInv, AtomicGroupWhole, NodesOf, WholeGroups, OnItsWay, AllOrNone

(* What is left of a group only becomes less.                              *)
LEMMA FewerInstances ==
  ASSUME NEW g, NEW size \in Nat, NEW gone, NEW left,
         size >= Cardinality(instances \cap NodesOf(g)), left = instances \ gone
  PROVE  size >= Cardinality(left \cap NodesOf(g))
<1>1. /\ left \cap NodesOf(g) \subseteq instances \cap NodesOf(g)
      /\ left \cap NodesOf(g) \subseteq Nodes
      /\ instances \cap NodesOf(g) \subseteq Nodes
  BY DEF NodesOf
<1> QED
  BY <1>1, CountPart, NodeSetCount

(* What a call to the cloud takes from a group that must stay whole.       *)
LEMMA CloudDeleteWhole ==
  ASSUME IInv, WholeInv, NEW call \in cloudCalls, CloudDelete(call)
  PROVE  WholeInv'
<1>1. /\ UNCHANGED <<batchSize, forced, bucket>>
      /\ cloudCalls' = cloudCalls \ {call}
  BY DEF CloudDelete
<1>2. PICK gone \in SUBSET call, stage \in {"deleted", "cleaning"} :
        /\ Removed(gone)
        /\ pc' = Moved(call, stage)
        /\ gone = call \/ gone \subseteq IndividualNodes
  <2>1. CASE Removed(call) /\ pc' = Moved(call, "deleted")
    BY <2>1
  <2>2. ASSUME NEW gone \in SUBSET (call \cap IndividualNodes), Removed(gone),
               pc' = Moved(call, "cleaning")
        PROVE  \E some \in SUBSET call, stage \in {"deleted", "cleaning"} :
                 /\ Removed(some)
                 /\ pc' = Moved(call, stage)
                 /\ some = call \/ some \subseteq IndividualNodes
    <3>1. gone \in SUBSET call /\ gone \subseteq IndividualNodes
      OBVIOUS
    <3> QED
      BY <2>2, <3>1
  <2> QED
    BY <2>1, <2>2 DEF CloudDelete
<1>3. instances' = instances \ gone
  BY <1>2 DEF Removed
<1>4. \A m \in Nodes : pc'[m] = IF m \in call THEN stage ELSE pc[m]
  BY <1>2 DEF Moved
<1>5. ASSUME NEW g \in WholeGroups
      PROVE  \/ gone \cap NodesOf(g) = {}
             \/ gone = call /\ instances \cap NodesOf(g) \subseteq call
  <2>1. CASE gone = call
    BY <2>1 DEF WholeInv, AllOrNone
  <2>2. CASE gone \subseteq IndividualNodes
    BY <2>2 DEF IndividualNodes, NodesOf, WholeGroups
  <2> QED
    BY <1>2, <2>1, <2>2
<1>6. ASSUME NEW m \in Nodes, GroupOf[m] \in WholeGroups
      PROVE  pc'[m] \in OnItsWay =>
               batchSize'[m] >= Cardinality(instances' \cap NodesOf(GroupOf[m]))
  <2> SUFFICES ASSUME pc'[m] \in OnItsWay
               PROVE  batchSize[m] >= Cardinality(instances' \cap NodesOf(GroupOf[m]))
    BY <1>1
  <2>1. pc[m] \in OnItsWay
    BY <1>4 DEF OnItsWay
  <2>2. batchSize[m] \in Nat /\ batchSize[m] >= Cardinality(instances \cap NodesOf(GroupOf[m]))
    BY <1>6, <2>1 DEF WholeInv, IInv, TypeOK
  <2> QED
    BY <1>3, <2>2, FewerInstances
<1>7. ASSUME NEW g \in WholeGroups
      PROVE  /\ AllOrNone(g, bucket[g])'
             /\ \A other \in cloudCalls' : AllOrNone(g, other)'
  BY <1>1, <1>3 DEF WholeInv, AllOrNone, NodesOf
<1>8. AtomicGroupWhole'
  <2>1. ASSUME NEW g \in WholeGroups
        PROVE  NodesOf(g) \subseteq instances' \/ NodesOf(g) \cap instances' = {}
    BY <1>3, <1>5 DEF WholeInv, AtomicGroupWhole, WholeGroups
  <2> QED
    BY <2>1 DEF AtomicGroupWhole, WholeGroups, NodesOf
<1> QED
  BY <1>1, <1>6, <1>7, <1>8 DEF WholeInv, NodesOf, WholeGroups, OnItsWay, AllOrNone

(* The goroutines never leave a part of such a group behind. *)
LEMMA GoroutineWhole == IInv /\ WholeInv /\ (StartDrain \/ GoroutineStep) => WholeInv'
<1> SUFFICES ASSUME IInv, WholeInv, StartDrain \/ GoroutineStep
             PROVE  WholeInv'
  OBVIOUS
<1>1. CASE StartDrain
  <2>1. UNCHANGED <<nodeQueue, bucket, cloudCalls, instances>> /\ forced' \subseteq forced
    BY <1>1 DEF StartDrain, batcherVars, cloudVars, schedulerVars
  <2>2. CASE pc' = Moved(At("picked"), "started") /\ batchSize' = batchSize
    <3>1. \A m \in Nodes : pc'[m] = IF pc[m] = "picked" THEN "started" ELSE pc[m]
      BY <2>2 DEF Moved, At
    <3> QED
      BY <2>1, <2>2, <3>1, FewerOnTheirWay DEF OnItsWay
  <2>3. CASE /\ pc' = Moved(At("picked"), "none")
             /\ batchSize' = [n \in Nodes |-> IF pc[n] = "picked" THEN 0 ELSE batchSize[n]]
    <3>1. \A m \in Nodes : pc'[m] = IF pc[m] = "picked" THEN "none" ELSE pc[m]
      BY <2>3 DEF Moved, At
    <3> QED
      BY <2>1, <2>3, <3>1, FewerOnTheirWay DEF OnItsWay
  <2> QED
    BY <1>1, <2>2, <2>3 DEF StartDrain
<1>2. ASSUME NEW n \in Nodes, pc[n] \in {"started", "preparing"}, Abort(n),
             UNCHANGED instances
      PROVE  WholeInv'
  <2>1. UNCHANGED <<bucket, cloudCalls>> /\ forced' \subseteq forced
    BY <1>2 DEF Abort, GoroutineEnds, batcherVars
  <2>2. \A m \in Nodes : /\ pc'[m] = IF m \in GivenUpWith(n) THEN "cleaning" ELSE pc[m]
                         /\ m # n => batchSize'[m] = batchSize[m]
    BY <1>2 DEF Abort, Moved, GoroutineEnds, IInv, TypeOK
  <2>3. n \in GivenUpWith(n)
    BY DEF GivenUpWith
  <2> QED
    BY <1>2, <2>1, <2>2, <2>3, FewerOnTheirWay DEF OnItsWay
<1>3. ASSUME NEW n \in Nodes, DeleteNodesAsync(n)
      PROVE  WholeInv'
  <2>1. UNCHANGED instances /\ pc[n] = "started"
    BY <1>3 DEF DeleteNodesAsync, cloudVars
  <2>2. CASE /\ pc' = Moved({n}, "preparing")
             /\ UNCHANGED <<batchSize, forced, schedulerVars, batcherVars>>
    <3>1. \A m \in Nodes : pc'[m] = IF m = n THEN "preparing" ELSE pc[m]
      BY <2>2 DEF Moved
    <3>2. UNCHANGED <<bucket, cloudCalls>>
      BY <2>2 DEF batcherVars
    <3> QED
      BY <2>1, <2>2, <3>1, <3>2, FewerOnTheirWay DEF OnItsWay
  <2> QED
    BY <1>2, <1>3, <2>1, <2>2 DEF DeleteNodesAsync
<1>4. ASSUME NEW n \in Nodes, ScheduleDeletion(n)
      PROVE  WholeInv'
  <2>1. UNCHANGED instances /\ pc[n] = "preparing"
    BY <1>4 DEF ScheduleDeletion, cloudVars
  <2> QED
    BY <1>2, <1>4, <2>1, AddToBatcherWhole DEF ScheduleDeletion
<1>5. ASSUME NEW n \in Nodes, ForceDelete(n)
      PROVE  WholeInv'
  BY <1>5, AddToBatcherWhole DEF ForceDelete
<1>6. ASSUME NEW n \in Nodes,
             CleanToBeDeleted(n) \/ EndFailedDeletion(n) \/ EndSuccessfulDeletion(n)
      PROVE  WholeInv'
  <2>1. UNCHANGED <<batchSize, forced, bucket, cloudCalls, instances>>
    BY <1>6 DEF CleanToBeDeleted, EndFailedDeletion, EndSuccessfulDeletion, batcherVars, cloudVars
  <2>2. \A m \in Nodes : pc'[m] = pc[m] \/ pc'[m] \in {"ending", "none"}
    BY <1>6 DEF CleanToBeDeleted, EndFailedDeletion, EndSuccessfulDeletion, Moved
  <2> QED
    BY <2>1, <2>2, FewerOnTheirWay DEF OnItsWay
<1>7. ASSUME NEW g \in Groups, RemoveBucket(g)
      PROVE  WholeInv'
  BY <1>7, RemoveBucketWhole
<1>8. ASSUME NEW call \in cloudCalls, CloudDelete(call)
      PROVE  WholeInv'
  BY <1>8, CloudDeleteWhole
<1> QED
  BY <1>1, <1>3, <1>4, <1>5, <1>6, <1>7, <1>8 DEF GoroutineStep, NodeStep

LEMMA InitWhole == Init => WholeInv
BY NodeGroupsAssumption
   DEF Init, WholeInv, OnItsWay, AllOrNone, AtomicGroupWhole, NodesOf, WholeGroups

LEMMA WholeInvariance == Spec => [](IInv /\ WholeInv)
<1>1. Init => WholeInv
  BY InitWhole
<1>2. IInv /\ WholeInv /\ [Next]_vars => WholeInv'
  <2> SUFFICES ASSUME IInv, WholeInv, [Next]_vars
               PROVE  WholeInv'
    OBVIOUS
  <2>1. CASE StartAnyDeletion
    <3> SUFFICES ASSUME NEW selected \in SUBSET (At("none") \cap instances),
                        NEW empty \in SUBSET selected,
                        NEW force \in BOOLEAN,
                        force => \A n \in selected : GroupOf[n] \in ForceGroups,
                        StartDeletion(empty, selected \ empty, force)
                 PROVE  WholeInv'
      BY <2>1 DEF StartAnyDeletion
    <3>1. selected \in SUBSET At("none")
      OBVIOUS
    <3> QED
      BY <3>1, StartDeletionWhole
  <2>2. CASE StartDrain \/ GoroutineStep
    BY <2>2, GoroutineWhole
  <2>3. CASE UNCHANGED vars
    <3>1. UNCHANGED <<pc, batchSize, forced, bucket, cloudCalls, instances>>
      BY <2>3 DEF vars, actuatorVars, batcherVars, cloudVars
    <3> QED
      BY <3>1, FewerOnTheirWay
  <2> QED
    BY <2>1, <2>2, <2>3 DEF Next
<1> QED
  BY <1>1, <1>2, InitIInv, NextIInv, PTL DEF Spec

-----------------------------------------------------------------------------
(* The actuator implements NodeRemoval.                                    *)

PromiseStep == [Promise!Next]_(Promise!removalVars)

LEMMA PromiseInit == Init => Promise!Init
BY DEF Init, TrackerInit, InProgress, Promise!Init

(* A node whose instance may be removed is reported and tainted. *)
LEMMA RemovableStages ==
  ASSUME IInv, NEW n \in Nodes, pc[n] \in {"preparing", "handed"}
  PROVE  n \in InProgress /\ n \in toBeDeleted
BY TrackedStages DEF IInv, NoDeletionLost, TaintedWhileDeleting

(* What the promise does not mention. *)
LEMMA PromiseStutter ==
  ASSUME UNCHANGED <<emptyNodeDeletions, drainedNodeDeletions, toBeDeleted, instances>>
  PROVE  PromiseStep
BY DEF PromiseStep, Promise!removalVars, InProgress

LEMMA StartDeletionPromise ==
  ASSUME IInv,
         NEW selected \in SUBSET At("none"),
         NEW empty \in SUBSET selected,
         NEW force \in BOOLEAN,
         StartDeletion(empty, selected \ empty, force)
  PROVE  PromiseStep
<1>1. instances' = instances
  BY DEF StartDeletion, cloudVars
<1>2. empty \in SUBSET (Nodes \ InProgress)
  BY TrackedStages DEF At, IInv, NoDeletionLost
<1>3. CASE TaintAll(empty) /\ StartAsyncEmpty(empty)
  <2>1. InProgress' = InProgress \cup empty /\ toBeDeleted' = toBeDeleted \cup empty
    BY <1>3 DEF TaintAll, StartAsyncEmpty, TrackStart, InProgress
  <2>2. Promise!Begin
    BY <1>1, <1>2, <2>1 DEF Promise!Begin
  <2> QED
    BY <2>2 DEF PromiseStep, Promise!Next
<1>4. CASE TaintFailed(empty) /\ UNCHANGED <<trackerVars, actuatorVars>>
  <2>1. InProgress' = InProgress
    BY <1>4 DEF trackerVars, InProgress
  <2>2. /\ toBeDeleted' \subseteq toBeDeleted \cup empty
        /\ toBeDeleted \ empty \subseteq toBeDeleted'
    BY <1>4 DEF TaintFailed
  <2>3. Promise!Taint
    BY <1>1, <1>2, <2>1, <2>2 DEF Promise!Taint
  <2> QED
    BY <2>3 DEF PromiseStep, Promise!Next
<1> QED
  BY <1>3, <1>4 DEF StartDeletion

LEMMA StartDrainPromise == IInv /\ StartDrain => PromiseStep
<1> SUFFICES ASSUME IInv, StartDrain
             PROVE  PromiseStep
  OBVIOUS
<1> DEFINE drain == At("picked")
<1>1. instances' = instances
  BY DEF StartDrain, cloudVars
<1>2. drain \in SUBSET (Nodes \ InProgress)
  BY TrackedStages DEF At, IInv, NoDeletionLost
<1>3. \/ TaintAll(drain) /\ StartAsyncDrain(drain)
      \/ TaintFailed(drain) /\ UNCHANGED trackerVars
  BY DEF StartDrain
<1> HIDE DEF drain
<1>4. CASE TaintAll(drain) /\ StartAsyncDrain(drain)
  <2>1. InProgress' = InProgress \cup drain /\ toBeDeleted' = toBeDeleted \cup drain
    BY <1>4 DEF TaintAll, StartAsyncDrain, TrackStartWithDrain, InProgress
  <2>2. Promise!Begin
    BY <1>1, <1>2, <2>1 DEF Promise!Begin
  <2> QED
    BY <2>2 DEF PromiseStep, Promise!Next
<1>5. CASE TaintFailed(drain) /\ UNCHANGED trackerVars
  <2>1. InProgress' = InProgress
    BY <1>5 DEF trackerVars, InProgress
  <2>2. /\ toBeDeleted' \subseteq toBeDeleted \cup drain
        /\ toBeDeleted \ drain \subseteq toBeDeleted'
    BY <1>5 DEF TaintFailed
  <2>3. Promise!Taint
    BY <1>1, <1>2, <2>1, <2>2 DEF Promise!Taint
  <2> QED
    BY <2>3 DEF PromiseStep, Promise!Next
<1> QED
  BY <1>3, <1>4, <1>5

(* The instances of a call go in one step if their group must stay whole.  *)
LEMMA CloudDeletePromise ==
  ASSUME IInv, WholeInv, NEW call \in cloudCalls, CloudDelete(call)
  PROVE  PromiseStep
<1>1. UNCHANGED <<emptyNodeDeletions, drainedNodeDeletions, toBeDeleted>>
  BY DEF CloudDelete, trackerVars
<1>2. PICK gone \in SUBSET call :
        instances' = instances \ gone /\ (gone = call \/ gone \subseteq IndividualNodes)
  <2>1. CASE Removed(call)
    BY <2>1 DEF Removed
  <2>2. ASSUME NEW gone \in SUBSET (call \cap IndividualNodes), Removed(gone)
        PROVE  \E some \in SUBSET call :
                 instances' = instances \ some /\ (some = call \/ some \subseteq IndividualNodes)
    <3>1. gone \in SUBSET call /\ gone \subseteq IndividualNodes
      OBVIOUS
    <3> QED
      BY <2>2, <3>1 DEF Removed
  <2> QED
    BY <2>1, <2>2 DEF CloudDelete
<1>3. PICK g \in Groups : call \subseteq NodesOf(g)
  BY DEF WholeInv
<1>4. \A m \in call : m \in Nodes /\ m \in InProgress /\ m \in toBeDeleted
  <2> TAKE m \in call
  <2>1. m \in Nodes
    BY DEF IInv, TypeOK
  <2>2. pc[m] = "handed"
    BY <2>1 DEF IInv, NoDeletionLost, PlacedOnce
  <2> QED
    BY <2>1, <2>2, RemovableStages
<1>5. CASE gone = {}
  BY <1>1, <1>2, <1>5, PromiseStutter
<1>6. CASE gone # {}
  <2>1. gone \in SUBSET (NodesOf(g) \cap InProgress \cap toBeDeleted)
    BY <1>3, <1>4
  <2>2. g \in WholeGroups => NodesOf(g) \cap instances \subseteq gone
    <3> SUFFICES ASSUME g \in WholeGroups
                 PROVE  NodesOf(g) \cap instances \subseteq gone
      OBVIOUS
    <3>1. gone = call
      BY <1>2, <1>3, <1>6 DEF IndividualNodes, NodesOf, WholeGroups
    <3> QED
      BY <1>3, <1>6, <3>1 DEF WholeInv, AllOrNone
  <2>3. Promise!Remove(g)
    BY <1>1, <1>2, <2>1, <2>2
       DEF Promise!Remove, Promise!NodesOf, NodesOf, InProgress, WholeGroups
  <2> QED
    BY <2>3 DEF PromiseStep, Promise!Next
<1> QED
  BY <1>5, <1>6

LEMMA ForceDeletePromise ==
  ASSUME IInv, WholeInv, NEW n \in Nodes, ForceDelete(n)
  PROVE  PromiseStep
<1>1. /\ UNCHANGED <<emptyNodeDeletions, drainedNodeDeletions, toBeDeleted>>
      /\ instances' = instances \ {n}
      /\ pc[n] = "preparing"
      /\ n \in forced
  BY DEF ForceDelete, trackerVars
<1>2. GroupOf[n] \in Groups /\ GroupOf[n] \notin WholeGroups
  BY <1>1, NodeGroupsAssumption DEF WholeInv, WholeGroups
<1>3. {n} \in SUBSET (NodesOf(GroupOf[n]) \cap InProgress \cap toBeDeleted)
  BY <1>1, RemovableStages DEF NodesOf
<1>4. Promise!Remove(GroupOf[n])
  BY <1>1, <1>2, <1>3
     DEF Promise!Remove, Promise!NodesOf, NodesOf, InProgress, WholeGroups
<1> QED
  BY <1>2, <1>4 DEF PromiseStep, Promise!Next

LEMMA EndingPromise ==
  ASSUME IInv, NEW n \in Nodes,
         CleanToBeDeleted(n) \/ EndFailedDeletion(n) \/ EndSuccessfulDeletion(n)
  PROVE  PromiseStep
<1>1. n \in InProgress
  BY TrackedStages
     DEF IInv, NoDeletionLost, CleanToBeDeleted, EndFailedDeletion, EndSuccessfulDeletion
<1>2. CASE CleanToBeDeleted(n)
  <2>1. /\ UNCHANGED <<emptyNodeDeletions, drainedNodeDeletions, instances>>
        /\ toBeDeleted' = toBeDeleted \ {n} \/ toBeDeleted' = toBeDeleted
    BY <1>2 DEF CleanToBeDeleted, trackerVars, cloudVars
  <2>2. CASE toBeDeleted' = toBeDeleted \ {n}
    <3>1. Promise!Untaint(n)
      BY <1>1, <2>1, <2>2 DEF Promise!Untaint, InProgress
    <3> QED
      BY <3>1 DEF PromiseStep, Promise!Next
  <2>3. CASE toBeDeleted' = toBeDeleted
    BY <2>1, <2>3, PromiseStutter
  <2> QED
    BY <2>1, <2>2, <2>3
<1>3. CASE EndFailedDeletion(n) \/ EndSuccessfulDeletion(n)
  <2>1. TrackEnd(n) /\ UNCHANGED <<toBeDeleted, instances>>
    BY <1>3 DEF EndFailedDeletion, EndSuccessfulDeletion, cloudVars
  <2>2. InProgress' = InProgress \ {n}
    BY <1>1, <2>1, TrackEndStep DEF IInv, TypeOK
  <2>3. Promise!End(n)
    BY <1>1, <2>1, <2>2 DEF Promise!End
  <2> QED
    BY <2>3 DEF PromiseStep, Promise!Next
<1> QED
  BY <1>2, <1>3

LEMMA NextPromise == IInv /\ WholeInv /\ [Next]_vars => PromiseStep
<1> SUFFICES ASSUME IInv, WholeInv, [Next]_vars
             PROVE  PromiseStep
  OBVIOUS
<1>1. CASE StartAnyDeletion
  <2> SUFFICES ASSUME NEW selected \in SUBSET (At("none") \cap instances),
                      NEW empty \in SUBSET selected,
                      NEW force \in BOOLEAN,
                      StartDeletion(empty, selected \ empty, force)
               PROVE  PromiseStep
    BY <1>1 DEF StartAnyDeletion
  <2>1. selected \in SUBSET At("none")
    OBVIOUS
  <2> QED
    BY <2>1, StartDeletionPromise
<1>2. CASE StartDrain
  BY <1>2, StartDrainPromise
<1>3. ASSUME NEW n \in Nodes, NodeStep(n)
      PROVE  PromiseStep
  <2>1. CASE DeleteNodesAsync(n) \/ ScheduleDeletion(n)
    BY <2>1, PromiseStutter DEF DeleteNodesAsync, ScheduleDeletion, trackerVars, cloudVars
  <2> QED
    BY <1>3, <2>1, ForceDeletePromise, EndingPromise DEF NodeStep
<1>4. ASSUME NEW g \in Groups, RemoveBucket(g)
      PROVE  PromiseStep
  BY <1>4, PromiseStutter DEF RemoveBucket, trackerVars, cloudVars
<1>5. ASSUME NEW call \in cloudCalls, CloudDelete(call)
      PROVE  PromiseStep
  BY <1>5, CloudDeletePromise
<1>6. CASE UNCHANGED vars
  BY <1>6, PromiseStutter DEF vars, trackerVars, cloudVars
<1> QED
  BY <1>1, <1>2, <1>3, <1>4, <1>5, <1>6 DEF Next, GoroutineStep

-----------------------------------------------------------------------------
(* Theorems                                                                *)

(* Every variable of the actuator keeps its type; no counter and no target *)
(* size is lowered below zero, for any nodes, groups and limits.           *)
THEOREM TypeCorrect == Spec => []TypeOK
<1>1. IInv => TypeOK
  BY DEF IInv
<1> QED
  BY <1>1, Invariance, PTL

(* The counters per group that the planner subtracts from the sizes of the *)
(* groups always agree with the sets of nodes under deletion.              *)
THEOREM TrackerStaysConsistent == Spec => []TrackerConsistent
<1>1. IInv => TrackerConsistent
  BY DEF IInv
<1> QED
  BY <1>1, Invariance, PTL

(* No interleaving of the goroutines loses a deletion, gives it two owners *)
(* or ends it twice: see the comment on NoDeletionLost.                    *)
THEOREM DeletionsAreNotLost == Spec => []NoDeletionLost
<1>1. IInv => NoDeletionLost
  BY DEF IInv
<1> QED
  BY <1>1, Invariance, PTL

(* A node keeps the ToBeDeleted taint for as long as it is prepared,       *)
(* drained or deleted, whatever other deletions clean up.                  *)
THEOREM TaintsAreKept == Spec => []TaintedWhileDeleting
<1>1. IInv => TaintedWhileDeleting
  BY DEF IInv
<1> QED
  BY <1>1, Invariance, PTL

(* addToBatcher never drops queued nodes that nobody cleans up.            *)
THEOREM FailedGroupsHaveNoQueue == Spec => []FailedGroupHasNoQueue
<1>1. IInv => FailedGroupHasNoQueue
  BY DEF IInv
<1> QED
  BY <1>1, Invariance, PTL

(* Over all phases whose goroutines still run, the nodes that are not part *)
(* of atomic groups keep to both limits.  CropNodes only reads what is in  *)
(* the tracker when a phase begins; nothing that was selected then and is  *)
(* tracked later takes the sum above a limit.                              *)
THEOREM LimitsAreKept == Spec => []IndividualParallelism
<1>1. IInv /\ WithinLimits => IndividualParallelism
  BY WithinLimitsKept
<1> QED
  BY <1>1, LimitsInvariance, PTL

(* Scale-down never leaves a part of an atomic group behind, for any       *)
(* number of groups and nodes, whatever fails and however phases overlap.  *)
THEOREM AtomicGroupsStayWhole == Spec => []AtomicGroupWhole
<1>1. IInv /\ WholeInv => AtomicGroupWhole
  BY DEF WholeInv
<1> QED
  BY <1>1, WholeInvariance, PTL

(* The goroutines, queues and batches keep the promise the main loop and   *)
(* the planner rely on: every step of the actuator is a step of            *)
(* NodeRemoval or changes nothing that it mentions.                        *)
THEOREM ActuatorKeepsPromise == Spec => PromiseKept
<1>1. Init => Promise!Init
  BY PromiseInit
<1>2. IInv /\ WholeInv /\ [Next]_vars => [Promise!Next]_(Promise!removalVars)
  BY NextPromise DEF PromiseStep
<1> QED
  BY <1>1, <1>2, WholeInvariance, PTL DEF Spec, PromiseKept, Promise!Spec

-----------------------------------------------------------------------------
(* The main loop: the inductive invariant.                                 *)

(* The nodes of a group that exist and that nobody works on, ...           *)
Remaining(g) == {n \in instances : pc[n] = "none"} \cap NodesOf(g)

(* ... those that somebody works on, and the size of the group if all of   *)
(* these deletions succeed.                                                *)
Going(g) == (Tracked \cup At("picked")) \cap instances \cap NodesOf(g)
SizeLeft(g) == targetSize[g] - Cardinality(Going(g))

(***************************************************************************)
(* Nothing runs before the first iteration of a process has cleaned up.    *)
(* From the moment the status is taken, the snapshot covers all deletions  *)
(* that are in progress, and its counters all nodes that may still go;     *)
(* and what the size of a group is going to be is never less than the      *)
(* sizes and the counters, read one after the other, make it.              *)
(***************************************************************************)
SnapshotsCover ==
  /\ ~initialized => \A n \in Nodes : pc[n] = "none"
  /\ loop # "idle" => initialized /\ At("picked") = {}
  /\ loop \in {"checked", "refreshed"} =>
       /\ InProgress \subseteq deletions
       /\ \A g \in Groups : counts[g] >= Cardinality(Going(g))
  /\ loop = "refreshed" =>
       \A g \in Groups : SizeLeft(g) >= sizes[g] - counts[g]

LoopInv == LoopTypeOK /\ IInv /\ SnapshotsCover

-----------------------------------------------------------------------------
(* What the goroutines do to what the loop has read.                       *)

(* What will be left of a group are the nodes nobody works on and the      *)
(* instances that never registered.                                        *)
LEMMA SizeLeftCounts ==
  ASSUME IInv, NEW g \in Groups
  PROVE  /\ SizeLeft(g) = Cardinality(Remaining(g)) + Unregistered[g]
         /\ Cardinality(Remaining(g)) \in Nat /\ Unregistered[g] \in Nat
         /\ Cardinality(Going(g)) \in Nat /\ SizeLeft(g) \in Nat
<1>1. Remaining(g) \subseteq Nodes /\ Going(g) \subseteq Nodes
  BY DEF Remaining, Going, NodesOf
<1>2. Remaining(g) \cap Going(g) = {}
  BY DEF Remaining, Going, Tracked, At
<1>3. instances \cap NodesOf(g) = Remaining(g) \cup Going(g)
  BY DEF Remaining, Going, Tracked, At, NodesOf
<1>4. Cardinality(Remaining(g) \cup Going(g)) =
        Cardinality(Remaining(g)) + Cardinality(Going(g))
  BY <1>1, <1>2, DisjointCount
<1>5. /\ Cardinality(Remaining(g)) \in Nat
      /\ Cardinality(Going(g)) \in Nat
      /\ Unregistered[g] \in Nat
  BY <1>1, NodeSetCount, ActuationAssumption
<1>6. targetSize[g] = Cardinality(instances \cap NodesOf(g)) + Unregistered[g]
  BY DEF IInv, TargetCounts
<1>7. targetSize[g] = Cardinality(Remaining(g)) + Cardinality(Going(g)) + Unregistered[g]
  BY <1>3, <1>4, <1>6
<1> QED
  BY <1>5, <1>7 DEF SizeLeft

(* The same after a step. *)
LEMMA SizeLeftCountsNext ==
  ASSUME IInv', NEW g \in Groups
  PROVE  /\ SizeLeft(g)' = Cardinality(Remaining(g)') + Unregistered[g]
         /\ Cardinality(Remaining(g)') \in Nat /\ Unregistered[g] \in Nat
         /\ Cardinality(Going(g)') \in Nat /\ SizeLeft(g)' \in Nat
<1>1. Remaining(g)' \subseteq Nodes /\ Going(g)' \subseteq Nodes
  BY DEF Remaining, Going, NodesOf
<1>2. Remaining(g)' \cap Going(g)' = {}
  BY DEF Remaining, Going, Tracked, At
<1>3. instances' \cap NodesOf(g) = Remaining(g)' \cup Going(g)'
  BY DEF Remaining, Going, Tracked, At, NodesOf
<1>4. Cardinality(Remaining(g)' \cup Going(g)') =
        Cardinality(Remaining(g)') + Cardinality(Going(g)')
  BY <1>1, <1>2, DisjointCount
<1>5. /\ Cardinality(Remaining(g)') \in Nat
      /\ Cardinality(Going(g)') \in Nat
      /\ Unregistered[g] \in Nat
  BY <1>1, NodeSetCount, ActuationAssumption
<1>6. targetSize'[g] = Cardinality(instances' \cap NodesOf(g)) + Unregistered[g]
  BY DEF IInv, TargetCounts, NodesOf
<1>7. targetSize'[g] = Cardinality(Remaining(g)') + Cardinality(Going(g)') + Unregistered[g]
  BY <1>3, <1>4, <1>6
<1> QED
  BY <1>5, <1>7 DEF SizeLeft

(* The goroutines take up no node of their own and remove none that nobody *)
(* works on.                                                               *)
LEMMA GoroutineFrame ==
  ASSUME IInv, StartDrain \/ GoroutineStep
  PROVE  /\ instances' \subseteq instances
         /\ \A n \in Nodes : pc[n] = "none" =>
              pc'[n] = "none" /\ (n \in instances => n \in instances')
         /\ \A n \in Nodes : pc'[n] = "picked" => pc[n] = "picked"
         /\ \A n \in Nodes : pc'[n] = "started" => pc[n] \in {"picked", "started"}
<1> DEFINE Goal ==
      /\ instances' \subseteq instances
      /\ \A n \in Nodes : pc[n] = "none" =>
           pc'[n] = "none" /\ (n \in instances => n \in instances')
      /\ \A n \in Nodes : pc'[n] = "picked" => pc[n] = "picked"
      /\ \A n \in Nodes : pc'[n] = "started" => pc[n] \in {"picked", "started"}
<1>1. CASE StartDrain
  <2>1. instances' = instances
    BY <1>1 DEF StartDrain, cloudVars
  <2>2. \/ pc' = Moved(At("picked"), "started")
        \/ pc' = Moved(At("picked"), "none")
    BY <1>1 DEF StartDrain
  <2> QED
    BY <2>1, <2>2 DEF Moved, At
<1>2. SchedulerTypeOK /\ PlacedOnce /\ FailedGroupHasNoQueue
  BY DEF IInv, TypeOK, SchedulerTypeOK, NoDeletionLost
<1>3. ASSUME NEW n \in Nodes, Abort(n), pc[n] \in {"started", "preparing"},
             instances' = instances
      PROVE  Goal
  <2>1. \A m \in Nodes : pc'[m] # pc[m] =>
          /\ pc[m] \in {"started", "preparing", "handed"}
          /\ pc'[m] = "cleaning"
    BY <1>2, <1>3, AbortStep
  <2> QED
    BY <1>3, <2>1
<1>4. ASSUME NEW n \in Nodes, DeleteNodesAsync(n)
      PROVE  Goal
  <2>1. pc[n] = "started" /\ instances' = instances
    BY <1>4 DEF DeleteNodesAsync, cloudVars
  <2>2. CASE pc' = Moved({n}, "preparing")
    BY <2>1, <2>2 DEF Moved
  <2> QED
    BY <1>3, <1>4, <2>1, <2>2 DEF DeleteNodesAsync
<1>5. ASSUME NEW n \in Nodes, AddToBatcher(n), pc[n] = "preparing",
             instances' = instances \/ instances' = instances \ {n}
      PROVE  Goal
  <2>1. /\ pc'[n] \in {"cleaning", "handed"}
        /\ \A m \in Nodes : m # n => pc'[m] = pc[m]
    BY <1>2, <1>5, AddToBatcherStep
  <2> QED
    BY <1>5, <2>1
<1>6. ASSUME NEW n \in Nodes, ScheduleDeletion(n)
      PROVE  Goal
  <2>1. pc[n] = "preparing" /\ instances' = instances
    BY <1>6 DEF ScheduleDeletion, cloudVars
  <2> QED
    BY <1>3, <1>5, <1>6, <2>1 DEF ScheduleDeletion
<1>7. ASSUME NEW n \in Nodes, ForceDelete(n)
      PROVE  Goal
  BY <1>5, <1>7 DEF ForceDelete
<1>8. ASSUME NEW n \in Nodes,
             CleanToBeDeleted(n) \/ EndFailedDeletion(n) \/ EndSuccessfulDeletion(n)
      PROVE  Goal
  <2>1. /\ instances' = instances
        /\ pc[n] \in {"cleaning", "ending", "deleted"}
        /\ \A m \in Nodes : IF m = n THEN pc'[m] \in {"ending", "none"} ELSE pc'[m] = pc[m]
    BY <1>8 DEF CleanToBeDeleted, EndFailedDeletion, EndSuccessfulDeletion, cloudVars, Moved
  <2> QED
    BY <2>1
<1>9. ASSUME NEW g \in Groups, RemoveBucket(g)
      PROVE  Goal
  BY <1>9 DEF RemoveBucket, actuatorVars, cloudVars
<1>10. ASSUME NEW call \in cloudCalls, CloudDelete(call)
       PROVE  Goal
  <2>1. \A m \in Nodes : m \in call => pc[m] = "handed"
    BY <1>2 DEF PlacedOnce
  <2>2. instances' \subseteq instances /\ instances \ call \subseteq instances'
    BY <1>10 DEF CloudDelete, Removed
  <2>3. \A m \in Nodes : IF m \in call THEN pc'[m] \in {"deleted", "cleaning"}
                                       ELSE pc'[m] = pc[m]
    BY <1>10 DEF CloudDelete, Moved
  <2> QED
    BY <2>1, <2>2, <2>3
<1> QED
  BY <1>1, <1>4, <1>6, <1>7, <1>8, <1>9, <1>10 DEF GoroutineStep, NodeStep

(* If no node that nobody works on is lost, fewer nodes are going and no   *)
(* group ends up smaller.                                                  *)
LEMMA NoGroupSmaller ==
  ASSUME IInv, IInv', NEW g \in Groups, instances' \subseteq instances,
         \A n \in Nodes : pc[n] = "none" =>
           pc'[n] = "none" /\ (n \in instances => n \in instances')
  PROVE  /\ SizeLeft(g)' >= SizeLeft(g)
         /\ Cardinality(Going(g)') <= Cardinality(Going(g))
<1>1. Remaining(g) \subseteq Remaining(g)'
  BY DEF Remaining, NodesOf
<1>2. Going(g)' \subseteq Going(g)
  BY DEF Going, Tracked, At, NodesOf
<1>3. Remaining(g)' \subseteq Nodes /\ Going(g) \subseteq Nodes
  BY DEF Remaining, Going, NodesOf
<1>4. /\ Cardinality(Remaining(g)) <= Cardinality(Remaining(g)')
      /\ Cardinality(Going(g)') <= Cardinality(Going(g))
  BY <1>1, <1>2, <1>3, CountPart
<1> QED
  BY <1>4, SizeLeftCounts, SizeLeftCountsNext

-----------------------------------------------------------------------------
(* Every step of the loop and every step of a goroutine keeps the          *)
(* invariant.                                                              *)

(* A step that leaves the actuator and the cloud alone. *)
LEMMA ActuatorSame ==
  ASSUME IInv, UNCHANGED vars
  PROVE  /\ IInv' /\ TypeOK'
         /\ pc' = pc /\ targetSize' = targetSize
         /\ InProgress' = InProgress
         /\ deletionsPerNodeGroup' = deletionsPerNodeGroup
         /\ At("picked")' = At("picked")
         /\ \A g : Going(g)' = Going(g) /\ SizeLeft(g)' = SizeLeft(g)
<1>1. /\ UNCHANGED <<deletionsPerNodeGroup, emptyNodeDeletions, drainedNodeDeletions>>
      /\ UNCHANGED <<pc, instances, targetSize>>
  BY DEF vars, trackerVars, actuatorVars, cloudVars
<1>2. IInv' /\ TypeOK'
  BY StutterIInv DEF IInv
<1>3. \A g : Going(g)' = Going(g)
  BY <1>1 DEF Going, Tracked, At, NodesOf
<1> QED
  BY <1>1, <1>2, <1>3 DEF SizeLeft, InProgress, At

LEMMA ObtainNodeListsStep ==
  ASSUME LoopInv, ObtainNodeLists
  PROVE  LoopInv'
<1>1. /\ UNCHANGED <<deletionsPerNodeGroup, emptyNodeDeletions, drainedNodeDeletions>>
      /\ UNCHANGED <<pc, batchSize, forced, failuresForGroup, nodeQueue, bucket, cloudCalls>>
      /\ UNCHANGED <<instances, targetSize, deletions, counts, sizes, crashes>>
      /\ loop = "idle" /\ loop' = "listed"
      /\ listed' = instances
      /\ initialized' = TRUE
      /\ At("picked") = {}
  BY DEF ObtainNodeLists, CleanUpIfRequired, trackerVars, actuatorVars, schedulerVars,
         batcherVars, cloudVars
<1>2. /\ toBeDeleted' \subseteq toBeDeleted
      /\ initialized => toBeDeleted' = toBeDeleted
  BY DEF ObtainNodeLists, CleanUpIfRequired
<1>3. TypeOK'
  BY <1>1, <1>2 DEF LoopInv, IInv, TypeOK, TrackerTypeOK
<1>4. LoopTypeOK'
  BY <1>1, <1>3 DEF LoopInv, LoopTypeOK, IInv, TypeOK
<1>5. TargetCounts' /\ FailedGroupHasNoQueue' /\ TrackerConsistent'
  BY <1>1 DEF LoopInv, IInv, TargetCounts, FailedGroupHasNoQueue, TrackerConsistent,
              InProgress, NodesOf
<1>6. NoDeletionLost'
  <2>1. InProgress' = Tracked'
    BY <1>1 DEF LoopInv, IInv, NoDeletionLost, InProgress, Tracked, At
  <2>2. PlacedOnce'
    BY <1>1, PlacedSame DEF LoopInv, IInv, NoDeletionLost
  <2> QED
    BY <2>1, <2>2 DEF NoDeletionLost
<1>7. TaintedWhileDeleting'
  BY <1>1, <1>2 DEF LoopInv, IInv, SnapshotsCover, TaintedWhileDeleting
<1>8. SnapshotsCover'
  BY <1>1 DEF SnapshotsCover, At
<1> QED
  BY <1>3, <1>4, <1>5, <1>6, <1>7, <1>8 DEF LoopInv, IInv

(* All deletions in progress are counted by the snapshot taken now. *)
LEMMA CheckStatusStep ==
  ASSUME LoopInv, CheckStatus
  PROVE  LoopInv'
<1>1. /\ UNCHANGED <<vars, listed, sizes, initialized, crashes>>
      /\ loop = "listed" /\ loop' = "checked"
      /\ deletions' = InProgress
      /\ counts' = deletionsPerNodeGroup
  BY DEF CheckStatus
<1>2. IInv /\ At("picked") = {} /\ initialized
  BY <1>1 DEF LoopInv, SnapshotsCover
<1>3. LoopTypeOK'
  BY <1>1, <1>2, ActuatorSame DEF LoopInv, LoopTypeOK, IInv, TypeOK, TrackerTypeOK, InProgress
<1>4. ASSUME NEW g \in Groups
      PROVE  counts'[g] >= Cardinality(Going(g)')
  <2>1. counts'[g] = Cardinality(InProgress \cap NodesOf(g))
    BY <1>1, <1>2 DEF IInv, TrackerConsistent
  <2>2. Going(g) \subseteq InProgress \cap NodesOf(g)
    BY <1>2 DEF Going, IInv, NoDeletionLost
  <2>3. InProgress \cap NodesOf(g) \subseteq Nodes
    BY DEF NodesOf
  <2>4. Cardinality(Going(g)) <= Cardinality(InProgress \cap NodesOf(g))
    BY <2>2, <2>3, CountPart
  <2>5. Cardinality(Going(g)) \in Nat /\ Cardinality(InProgress \cap NodesOf(g)) \in Nat
    BY <1>2, <2>3, NodeSetCount, SizeLeftCounts
  <2>6. Going(g)' = Going(g)
    BY <1>1, <1>2, ActuatorSame
  <2> QED
    BY <2>1, <2>4, <2>5, <2>6
<1>5. SnapshotsCover'
  BY <1>1, <1>2, <1>4, ActuatorSame DEF SnapshotsCover
<1> QED
  BY <1>1, <1>2, <1>3, <1>5, ActuatorSame DEF LoopInv

(* The sizes are read after the deletions were counted. *)
LEMMA RefreshStep ==
  ASSUME LoopInv, Refresh
  PROVE  LoopInv'
<1>1. /\ UNCHANGED <<vars, listed, deletions, counts, initialized, crashes>>
      /\ loop = "checked" /\ loop' = "refreshed"
      /\ sizes' = targetSize
  BY DEF Refresh
<1>2. IInv /\ At("picked") = {} /\ initialized /\ InProgress \subseteq deletions
  BY <1>1 DEF LoopInv, SnapshotsCover
<1>3. LoopTypeOK'
  BY <1>1, <1>2, ActuatorSame DEF LoopInv, LoopTypeOK, IInv, TypeOK
<1>4. ASSUME NEW g \in Groups
      PROVE  /\ counts'[g] >= Cardinality(Going(g)')
             /\ SizeLeft(g)' >= sizes'[g] - counts'[g]
  <2>1. counts[g] >= Cardinality(Going(g)) /\ counts[g] \in Nat /\ targetSize[g] \in Nat
    BY <1>1 DEF LoopInv, SnapshotsCover, LoopTypeOK, IInv, TypeOK
  <2>2. Cardinality(Going(g)) \in Nat
    BY <1>2, SizeLeftCounts
  <2>3. SizeLeft(g) >= targetSize[g] - counts[g]
    BY <2>1, <2>2 DEF SizeLeft
  <2>4. Going(g)' = Going(g) /\ SizeLeft(g)' = SizeLeft(g)
    BY <1>1, <1>2, ActuatorSame
  <2> QED
    BY <1>1, <2>1, <2>3, <2>4
<1>5. SnapshotsCover'
  BY <1>1, <1>2, <1>4, ActuatorSame DEF SnapshotsCover
<1> QED
  BY <1>1, <1>2, <1>3, <1>5, ActuatorSame DEF LoopInv

(* Local variables that have been reset. *)
LEMMA IdleTypes ==
  ASSUME Idle
  PROVE  /\ loop' = "idle" /\ listed' \subseteq Nodes /\ deletions' \subseteq Nodes
         /\ counts' \in [Groups -> Nat] /\ sizes' \in [Groups -> Nat]
BY DEF Idle, NoCounts

LEMMA ReturnEarlyStep ==
  ASSUME LoopInv, ReturnEarly
  PROVE  LoopInv'
<1>1. UNCHANGED <<vars, initialized, crashes>> /\ Idle
  BY DEF ReturnEarly
<1>2. IInv
  BY DEF LoopInv
<1>3. LoopTypeOK'
  BY <1>1, <1>2, ActuatorSame, IdleTypes DEF LoopInv, LoopTypeOK
<1>4. SnapshotsCover'
  BY <1>1, <1>2, ActuatorSame, IdleTypes DEF LoopInv, SnapshotsCover
<1> QED
  BY <1>1, <1>2, <1>3, <1>4, ActuatorSame DEF LoopInv

(* What the plan may contain is not being worked on, although the list and *)
(* the snapshot are older than that.                                       *)
LEMMA PlannedNodesAreFree ==
  ASSUME LoopInv, loop = "refreshed"
  PROVE  UnneededNodes \subseteq At("none")
<1>1. UnneededNodes \subseteq Nodes /\ UnneededNodes \cap InProgress = {} /\ At("picked") = {}
  BY DEF UnneededNodes, FilterOutOngoingDeletions, LoopInv, LoopTypeOK, SnapshotsCover
<1> QED
  BY <1>1 DEF LoopInv, IInv, NoDeletionLost, Tracked, At

LEMMA ScaleDownStep ==
  ASSUME LoopInv, ScaleDown
  PROVE  LoopInv'
<1>1. /\ UNCHANGED <<initialized, crashes>> /\ Idle
      /\ loop = "refreshed"
  BY DEF ScaleDown
<1>2. PICK selected \in SUBSET UnneededNodes :
        \E empty \in SUBSET selected : StartDeletion(empty, selected \ empty, FALSE)
  BY DEF ScaleDown
<1>3. PICK empty \in SUBSET selected : StartDeletion(empty, selected \ empty, FALSE)
  BY <1>2
<1>4. selected \in SUBSET At("none")
  BY <1>1, PlannedNodesAreFree
<1>5. IInv'
  BY <1>3, <1>4, StartDeletionStep DEF LoopInv
<1>6. LoopTypeOK'
  BY <1>1, <1>5, IdleTypes DEF LoopInv, LoopTypeOK, IInv
<1>7. SnapshotsCover'
  BY <1>1, IdleTypes DEF LoopInv, SnapshotsCover
<1> QED
  BY <1>5, <1>6, <1>7 DEF LoopInv

(* What the calls of a dying process may still take. *)
LEMMA InterruptedStep ==
  ASSUME Interrupted
  PROVE  \E done \in SUBSET cloudCalls :
         \E part \in SUBSET ((UNION cloudCalls) \cap IndividualNodes) :
         \E gone \in SUBSET UNION cloudCalls :
           gone = (UNION done) \cup part /\ instances' = instances \ gone
<1>1. PICK done \in SUBSET cloudCalls, part \in SUBSET ((UNION cloudCalls) \cap IndividualNodes) :
        Removed((UNION done) \cup part)
  BY DEF Interrupted
<1>2. (UNION done) \cup part \in SUBSET UNION cloudCalls
  OBVIOUS
<1> QED
  BY <1>1, <1>2 DEF Removed

(* What a new process finds: no work under way, and the cloud's sizes. *)
LEMMA CrashStep ==
  ASSUME LoopInv, Crash
  PROVE  LoopInv'
<1>1. /\ deletionsPerNodeGroup' = NoCounts
      /\ emptyNodeDeletions' = {} /\ drainedNodeDeletions' = {}
      /\ pc' = [n \in Nodes |-> "none"] /\ batchSize' = [n \in Nodes |-> 0]
      /\ forced' = {} /\ failuresForGroup' = {}
      /\ nodeQueue' = [g \in Groups |-> {}] /\ bucket' = [g \in Groups |-> {}]
      /\ cloudCalls' = {}
      /\ initialized' = FALSE
      /\ toBeDeleted' = toBeDeleted
      /\ crashes < MaxCrashes /\ crashes' = crashes + 1
      /\ Idle
  BY DEF Crash
<1>2. /\ instances' \subseteq Nodes
      /\ targetSize' \in [Groups -> Nat]
      /\ TargetCounts'
  BY RemovedStep DEF Crash, Interrupted, LoopInv, IInv, TypeOK
<1>3. TypeOK'
  BY <1>1, <1>2 DEF LoopInv, IInv, TypeOK, TrackerTypeOK, PCs, NoCounts
<1>4. TrackerConsistent'
  BY <1>1, FS_EmptySet DEF TrackerConsistent, InProgress, NoCounts
<1>5. NoDeletionLost'
  <2>1. InProgress' = Tracked'
    BY <1>1 DEF InProgress, Tracked, At
  <2>2. PlacedOnce'
    BY <1>1, NodeGroupsAssumption DEF PlacedOnce, Waiting
  <2> QED
    BY <2>1, <2>2 DEF NoDeletionLost
<1>6. TaintedWhileDeleting' /\ FailedGroupHasNoQueue'
  BY <1>1 DEF TaintedWhileDeleting, FailedGroupHasNoQueue
<1>7. LoopTypeOK'
  <2>1. crashes' \in 0..MaxCrashes
    BY <1>1, LoopAssumption DEF LoopInv, LoopTypeOK
  <2> QED
    BY <1>1, <1>3, <2>1, IdleTypes DEF LoopTypeOK
<1>8. SnapshotsCover'
  BY <1>1, IdleTypes DEF SnapshotsCover
<1> QED
  BY <1>2, <1>3, <1>4, <1>5, <1>6, <1>7, <1>8 DEF LoopInv, IInv

(* Goroutines go on while the loop plans.                                  *)
LEMMA LoopGoroutineStep ==
  ASSUME LoopInv, StartDrain \/ GoroutineStep, UNCHANGED loopVars
  PROVE  LoopInv'
<1>1. UNCHANGED <<loop, listed, deletions, counts, sizes, initialized, crashes>>
  BY DEF loopVars
<1>2. IInv /\ IInv'
  BY GoroutineIInv DEF LoopInv
<1>3. LoopTypeOK'
  BY <1>1, <1>2 DEF LoopInv, LoopTypeOK, IInv
<1>4. /\ instances' \subseteq instances
      /\ \A n \in Nodes : pc[n] = "none" =>
           pc'[n] = "none" /\ (n \in instances => n \in instances')
      /\ \A n \in Nodes : pc'[n] = "picked" => pc[n] = "picked"
  BY <1>2, GoroutineFrame
<1>5. ~initialized' => \A n \in Nodes : pc'[n] = "none"
  BY <1>1, <1>4 DEF LoopInv, SnapshotsCover
<1>6. loop' # "idle" => initialized' /\ At("picked")' = {}
  BY <1>1, <1>4 DEF LoopInv, SnapshotsCover, At
<1>7. ASSUME loop' \in {"checked", "refreshed"}
      PROVE  /\ InProgress' \subseteq deletions'
             /\ \A g \in Groups : counts'[g] >= Cardinality(Going(g)')
  <2>1. /\ InProgress \subseteq deletions /\ At("picked") = {}
        /\ \A g \in Groups : counts[g] >= Cardinality(Going(g))
    BY <1>1, <1>7 DEF LoopInv, SnapshotsCover
  <2>2. InProgress' \subseteq InProgress
    BY <1>2, <1>4, <2>1 DEF IInv, NoDeletionLost, Tracked, At
  <2>3. ASSUME NEW g \in Groups
        PROVE  counts'[g] >= Cardinality(Going(g)')
    <3>1. Cardinality(Going(g)') <= Cardinality(Going(g))
      BY <1>2, <1>4, NoGroupSmaller
    <3>2. /\ Cardinality(Going(g)') \in Nat
          /\ Cardinality(Going(g)) \in Nat
          /\ counts[g] \in Nat
      BY <1>2, SizeLeftCounts, SizeLeftCountsNext DEF LoopInv, LoopTypeOK
    <3> QED
      BY <1>1, <2>1, <3>1, <3>2
  <2> QED
    BY <1>1, <2>1, <2>2, <2>3
<1>8. ASSUME loop' = "refreshed", NEW g \in Groups
      PROVE  SizeLeft(g)' >= sizes'[g] - counts'[g]
  <2>1. SizeLeft(g) >= sizes[g] - counts[g]
    BY <1>1, <1>8 DEF LoopInv, SnapshotsCover
  <2>2. SizeLeft(g)' >= SizeLeft(g)
    BY <1>2, <1>4, NoGroupSmaller
  <2>3. SizeLeft(g)' \in Nat /\ SizeLeft(g) \in Nat /\ counts[g] \in Nat /\ sizes[g] \in Nat
    BY <1>2, SizeLeftCounts, SizeLeftCountsNext DEF LoopInv, LoopTypeOK
  <2> QED
    BY <1>1, <2>1, <2>2, <2>3
<1>9. SnapshotsCover'
  BY <1>5, <1>6, <1>7, <1>8 DEF SnapshotsCover
<1> QED
  BY <1>2, <1>3, <1>9 DEF LoopInv

-----------------------------------------------------------------------------
(* The minimum size.                                                       *)

(* What an iteration selects was counted against the sizes it read, and    *)
(* these never promise more than will be left.                             *)
LEMMA ScaleDownMinSize ==
  ASSUME LoopInv, MinSizeKept, ScaleDown, NEW g \in Groups
  PROVE  SizeLeft(g)' >= MinSize[g]
<1>1. loop = "refreshed" /\ IInv /\ IInv'
  BY ScaleDownStep DEF ScaleDown, LoopInv
<1>2. PICK selected \in SUBSET UnneededNodes :
        /\ Removable(selected)
        /\ \E empty \in SUBSET selected : StartDeletion(empty, selected \ empty, FALSE)
  BY DEF ScaleDown
<1>3. selected \subseteq Nodes
  BY <1>1, PlannedNodesAreFree DEF At
<1> DEFINE taken == Cardinality(selected \cap NodesOf(g))
           free == {n \in instances : pc[n] = "none"}
<1>4. /\ taken \in Nat
      /\ Cardinality(selected \cap free \cap NodesOf(g)) \in Nat
      /\ Cardinality(selected \cap free \cap NodesOf(g)) <= taken
  <2>1. /\ selected \cap NodesOf(g) \subseteq Nodes
        /\ selected \cap free \cap NodesOf(g) \subseteq selected \cap NodesOf(g)
        /\ selected \cap free \cap NodesOf(g) \subseteq Nodes
    BY <1>3
  <2> QED
    BY <2>1, NodeSetCount, CountPart
<1>5. instances' = instances /\ \A n \in Nodes : n \notin selected => pc'[n] = pc[n]
  <2>1. PICK empty \in SUBSET selected : StartDeletion(empty, selected \ empty, FALSE)
    BY <1>2
  <2> QED
    BY <2>1 DEF StartDeletion, cloudVars, actuatorVars
<1>6. Remaining(g) \ selected \subseteq Remaining(g)'
  BY <1>3, <1>5 DEF Remaining, NodesOf
<1>7. /\ Cardinality(Remaining(g) \ selected) <= Cardinality(Remaining(g)')
      /\ Cardinality(Remaining(g) \ selected) \in Nat
      /\ Cardinality(Remaining(g)') \in Nat
  <2>1. Remaining(g)' \subseteq Nodes /\ Remaining(g) \ selected \subseteq Nodes
    BY DEF Remaining, NodesOf
  <2> QED
    BY <1>6, <2>1, CountPart, NodeSetCount
<1>8. Cardinality(Remaining(g) \ selected) =
        Cardinality(Remaining(g)) - Cardinality(selected \cap free \cap NodesOf(g))
  <2>1. free \subseteq Nodes
    BY <1>1 DEF IInv, TypeOK
  <2>2. Cardinality((free \ selected) \cap NodesOf(g)) =
          Cardinality(free \cap NodesOf(g)) - Cardinality(selected \cap free \cap NodesOf(g))
    BY <2>1, CountRemoved
  <2>3. (free \ selected) \cap NodesOf(g) = Remaining(g) \ selected /\ free \cap NodesOf(g) = Remaining(g)
    BY DEF Remaining
  <2> QED
    BY <2>2, <2>3
<1>9. SizeLeft(g)' >= SizeLeft(g) - taken
  <2>1. /\ SizeLeft(g) = Cardinality(Remaining(g)) + Unregistered[g]
        /\ SizeLeft(g)' = Cardinality(Remaining(g)') + Unregistered[g]
        /\ Cardinality(Remaining(g)) \in Nat /\ Unregistered[g] \in Nat
    BY <1>1, SizeLeftCounts, SizeLeftCountsNext
  <2> HIDE DEF taken, free
  <2> QED
    BY <1>4, <1>7, <1>8, <2>1
<1>10. SizeLeft(g) \in Nat /\ SizeLeft(g)' \in Nat /\ MinSize[g] \in Nat
  BY <1>1, SizeLeftCounts, SizeLeftCountsNext, LoopAssumption
<1>11. CASE taken = 0
  <2>1. SizeLeft(g) >= MinSize[g]
    BY DEF MinSizeKept, SizeLeft, Going
  <2> QED
    BY <1>9, <1>10, <1>11, <2>1
<1>12. CASE taken > 0
  <2>1. sizes[g] - counts[g] - (taken - 1) > MinSize[g]
    BY <1>2, <1>12 DEF Removable, AboveMinSize
  <2>2. SizeLeft(g) >= sizes[g] - counts[g]
    BY <1>1 DEF LoopInv, SnapshotsCover
  <2>3. sizes[g] \in Nat /\ counts[g] \in Nat
    BY DEF LoopInv, LoopTypeOK
  <2> HIDE DEF taken
  <2> QED
    BY <1>4, <1>9, <1>10, <2>1, <2>2, <2>3
<1> QED
  BY <1>4, <1>11, <1>12

LEMMA NextMinSize ==
  ASSUME LoopInv, MinSizeKept, [LoopNext]_allVars, LoopInv'
  PROVE  MinSizeKept'
<1> SUFFICES ASSUME NEW g \in Groups
             PROVE  SizeLeft(g)' >= MinSize[g]
  BY DEF MinSizeKept, SizeLeft, Going, NodesOf
<1>1. SizeLeft(g) >= MinSize[g]
  BY DEF MinSizeKept, SizeLeft, Going
<1>2. IInv /\ IInv' /\ MinSize[g] \in Nat /\ SizeLeft(g) \in Nat /\ SizeLeft(g)' \in Nat
  BY SizeLeftCounts, SizeLeftCountsNext, LoopAssumption DEF LoopInv
<1>3. CASE /\ instances' \subseteq instances
           /\ \A n \in Nodes : pc[n] = "none" =>
                pc'[n] = "none" /\ (n \in instances => n \in instances')
  <2>1. SizeLeft(g)' >= SizeLeft(g)
    BY <1>2, <1>3, NoGroupSmaller
  <2> QED
    BY <1>1, <1>2, <2>1
<1>4. CASE UNCHANGED <<pc, instances>>
  BY <1>3, <1>4
<1>5. CASE ObtainNodeLists
  BY <1>4, <1>5 DEF ObtainNodeLists, actuatorVars, cloudVars
<1>6. CASE UNCHANGED vars
  BY <1>4, <1>6 DEF vars, actuatorVars, cloudVars
<1>7. CASE ScaleDown
  BY <1>7, ScaleDownMinSize
<1>8. CASE Crash
  <2>1. PICK gone \in SUBSET UNION cloudCalls : instances' = instances \ gone
    BY <1>8, InterruptedStep DEF Crash
  <2>2. \A n \in Nodes : n \in gone => pc[n] = "handed"
    BY <1>2 DEF IInv, NoDeletionLost, PlacedOnce
  <2>3. \A n \in Nodes : pc'[n] = "none"
    BY <1>8 DEF Crash
  <2> QED
    BY <1>3, <2>1, <2>2, <2>3
<1>9. CASE StartDrain \/ GoroutineStep
  BY <1>2, <1>3, <1>9, GoroutineFrame
<1> QED
  BY <1>5, <1>6, <1>7, <1>8, <1>9
     DEF LoopNext, LoopStep, CheckStatus, Refresh, ReturnEarly, allVars

-----------------------------------------------------------------------------
(* The limits and the atomic groups, when deletions are planned from what  *)
(* is out of date and processes die.                                       *)

(* What an iteration starts is a deletion of nodes nobody works on, though *)
(* their instances may be gone by then, and never a forced one.            *)
LEMMA PlanIsFree ==
  ASSUME LoopInv, ScaleDown
  PROVE  \E selected \in SUBSET At("none") :
         \E empty \in SUBSET selected : StartDeletion(empty, selected \ empty, FALSE)
<1>1. PICK selected \in SUBSET UnneededNodes :
        \E empty \in SUBSET selected : StartDeletion(empty, selected \ empty, FALSE)
  BY DEF ScaleDown
<1>2. UnneededNodes \subseteq At("none")
  BY PlannedNodesAreFree DEF ScaleDown
<1>3. selected \in SUBSET At("none")
  BY <1>2
<1> QED
  BY <1>1, <1>3

(* The other steps of an iteration leave the actuator and the cloud alone. *)
LEMMA OtherLoopSteps ==
  ASSUME ObtainNodeLists \/ CheckStatus \/ Refresh \/ ReturnEarly \/ UNCHANGED allVars
  PROVE  /\ UNCHANGED <<emptyNodeDeletions, drainedNodeDeletions>>
         /\ UNCHANGED <<pc, batchSize, forced, bucket, cloudCalls, instances>>
BY DEF ObtainNodeLists, CheckStatus, Refresh, ReturnEarly, allVars, vars, trackerVars,
       actuatorVars, batcherVars, cloudVars

LEMMA LoopLimits ==
  ASSUME LoopInv, WithinLimits, [LoopNext]_allVars
  PROVE  WithinLimits'
<1>1. IInv
  BY DEF LoopInv
<1>2. CASE ScaleDown
  BY <1>1, <1>2, PlanIsFree, StartDeletionLimits
<1>3. CASE StartDrain \/ GoroutineStep
  BY <1>1, <1>3, GoroutineClaims, FewerWithinLimits
<1>4. CASE Crash
  <2>1. Claimed' = {} /\ DrainsClaimed' = {}
    BY <1>4 DEF Crash, Claimed, DrainsClaimed, InProgress, At
  <2> QED
    BY <1>1, <2>1, FewerWithinLimits
<1>5. CASE ObtainNodeLists \/ CheckStatus \/ Refresh \/ ReturnEarly \/ UNCHANGED allVars
  <2>1. Claimed' = Claimed /\ DrainsClaimed' = DrainsClaimed
    BY <1>5, OtherLoopSteps DEF Claimed, DrainsClaimed, InProgress, At
  <2> QED
    BY <1>1, <2>1, FewerWithinLimits
<1> QED
  BY <1>2, <1>3, <1>4, <1>5 DEF LoopNext, LoopStep

(* A process that dies takes all of such a group with it or none.          *)
LEMMA CrashTakesWhole ==
  ASSUME IInv, WholeInv, Crash
  PROVE  \E gone \in SUBSET (InProgress \cap toBeDeleted) :
           /\ instances' = instances \ gone
           /\ \A g \in WholeGroups : AllOrNone(g, gone)
<1>1. PICK done \in SUBSET cloudCalls,
           part \in SUBSET ((UNION cloudCalls) \cap IndividualNodes),
           gone \in SUBSET UNION cloudCalls :
        gone = (UNION done) \cup part /\ instances' = instances \ gone
  BY InterruptedStep DEF Crash
<1>2. ASSUME NEW m \in UNION cloudCalls
      PROVE  m \in InProgress /\ m \in toBeDeleted
  <2>1. m \in Nodes
    BY DEF IInv, TypeOK
  <2>2. pc[m] = "handed"
    BY <2>1 DEF IInv, NoDeletionLost, PlacedOnce
  <2> QED
    BY <2>1, <2>2, RemovableStages
<1>3. ASSUME NEW g \in WholeGroups
      PROVE  AllOrNone(g, gone)
  <2>1. part \cap NodesOf(g) = {}
    BY DEF IndividualNodes, NodesOf, WholeGroups
  <2>2. \A call \in done : AllOrNone(g, call)
    BY DEF WholeInv
  <2> QED
    BY <1>1, <2>1, <2>2 DEF AllOrNone
<1> QED
  BY <1>1, <1>2, <1>3

LEMMA LoopWhole ==
  ASSUME LoopInv, WholeInv, [LoopNext]_allVars
  PROVE  WholeInv'
<1>1. IInv
  BY DEF LoopInv
<1>2. CASE ScaleDown
  <2>1. PICK selected \in SUBSET At("none") :
          \E empty \in SUBSET selected : StartDeletion(empty, selected \ empty, FALSE)
    BY <1>2, PlanIsFree
  <2>2. PICK empty \in SUBSET selected : StartDeletion(empty, selected \ empty, FALSE)
    BY <2>1
  <2>3. FALSE => \A n \in selected : GroupOf[n] \in ForceGroups
    OBVIOUS
  <2> QED
    BY <1>1, <2>2, <2>3, StartDeletionWhole
<1>3. CASE StartDrain \/ GoroutineStep
  BY <1>1, <1>3, GoroutineWhole
<1>4. CASE Crash
  <2>1. /\ pc' = [n \in Nodes |-> "none"]
        /\ forced' = {} /\ bucket' = [g \in Groups |-> {}] /\ cloudCalls' = {}
    BY <1>4 DEF Crash
  <2>2. PICK gone \in SUBSET (InProgress \cap toBeDeleted) :
          /\ instances' = instances \ gone
          /\ \A g \in WholeGroups : AllOrNone(g, gone)
    BY <1>1, <1>4, CrashTakesWhole
  <2>3. AtomicGroupWhole'
    <3>1. ASSUME NEW g \in WholeGroups
          PROVE  NodesOf(g) \subseteq instances' \/ NodesOf(g) \cap instances' = {}
      BY <2>2 DEF WholeInv, AtomicGroupWhole, WholeGroups, AllOrNone
    <3> QED
      BY <3>1 DEF AtomicGroupWhole, WholeGroups, NodesOf
  <2>4. \A g \in WholeGroups : bucket'[g] = {}
    BY <2>1, NodeGroupsAssumption DEF WholeGroups
  <2> QED
    BY <2>1, <2>3, <2>4 DEF WholeInv, OnItsWay, AllOrNone, NodesOf, WholeGroups
<1>5. CASE ObtainNodeLists \/ CheckStatus \/ Refresh \/ ReturnEarly \/ UNCHANGED allVars
  BY <1>5, OtherLoopSteps, FewerOnTheirWay
<1> QED
  BY <1>2, <1>3, <1>4, <1>5 DEF LoopNext, LoopStep

-----------------------------------------------------------------------------
(* The program implements NodeRemoval with restarts.                       *)

LoopPromiseStep == [Promise!Next \/ Promise!Restart]_(Promise!removalVars)

(* cleanUpIfRequired takes taints away only before any deletion starts.    *)
LEMMA CleanUpPromise ==
  ASSUME LoopInv, ObtainNodeLists
  PROVE  PromiseStep
<1>1. UNCHANGED <<emptyNodeDeletions, drainedNodeDeletions, instances>>
  BY DEF ObtainNodeLists, trackerVars, cloudVars
<1>2. CASE toBeDeleted' = toBeDeleted
  BY <1>1, <1>2, PromiseStutter
<1>3. CASE ~initialized
  <2>1. InProgress = {}
    BY <1>3, TrackedStages DEF LoopInv, SnapshotsCover, IInv, NoDeletionLost, Tracked, At
  <2>2. toBeDeleted' \subseteq toBeDeleted
    BY <1>3 DEF ObtainNodeLists, CleanUpIfRequired
  <2>3. InProgress' = InProgress
    BY <1>1 DEF InProgress
  <2>4. Promise!Taint
    BY <1>1, <2>1, <2>2, <2>3 DEF Promise!Taint
  <2> QED
    BY <2>4 DEF PromiseStep, Promise!Next
<1> QED
  BY <1>2, <1>3 DEF ObtainNodeLists, CleanUpIfRequired

LEMMA CrashPromise ==
  ASSUME LoopInv, WholeInv, Crash
  PROVE  Promise!Restart
<1>1. PICK gone \in SUBSET (InProgress \cap toBeDeleted) :
        /\ instances' = instances \ gone
        /\ \A g \in WholeGroups : AllOrNone(g, gone)
  BY CrashTakesWhole DEF LoopInv
<1>2. InProgress' = {} /\ toBeDeleted' = toBeDeleted
  BY DEF Crash, InProgress
<1>3. \A g \in WholeGroups :
        gone \cap NodesOf(g) = {} \/ NodesOf(g) \cap instances \subseteq gone
  BY <1>1 DEF AllOrNone
<1> QED
  BY <1>1, <1>2, <1>3 DEF Promise!Restart, Promise!NodesOf, NodesOf, WholeGroups

LEMMA LoopPromise ==
  ASSUME LoopInv, WholeInv, [LoopNext]_allVars
  PROVE  LoopPromiseStep
<1>1. IInv
  BY DEF LoopInv
<1>2. PromiseStep => LoopPromiseStep
  BY DEF PromiseStep, LoopPromiseStep
<1>3. CASE ScaleDown
  BY <1>1, <1>2, <1>3, PlanIsFree, StartDeletionPromise
<1>4. CASE StartDrain \/ GoroutineStep
  BY <1>1, <1>2, <1>4, NextPromise DEF Next
<1>5. CASE Crash
  BY <1>5, CrashPromise DEF LoopPromiseStep
<1>6. CASE ObtainNodeLists
  BY <1>2, <1>6, CleanUpPromise
<1>7. CASE CheckStatus \/ Refresh \/ ReturnEarly \/ UNCHANGED allVars
  <2>1. UNCHANGED vars
    BY <1>7 DEF CheckStatus, Refresh, ReturnEarly, allVars
  <2> QED
    BY <1>2, <2>1, PromiseStutter DEF vars, trackerVars, cloudVars
<1> QED
  BY <1>3, <1>4, <1>5, <1>6, <1>7 DEF LoopNext, LoopStep

-----------------------------------------------------------------------------
(* The invariant holds at the start and for ever.                          *)

LEMMA InitLoopInv == LoopInit => LoopInv
<1> SUFFICES ASSUME LoopInit
             PROVE  LoopInv
  OBVIOUS
<1>1. IInv
  BY InitIInv DEF LoopInit
<1>2. LoopTypeOK
  <2>1. initialized \in BOOLEAN
    BY DEF LoopInit
  <2>2. counts \in [Groups -> Nat] /\ sizes \in [Groups -> Nat] /\ crashes \in 0..MaxCrashes
    BY LoopAssumption DEF LoopInit, NoCounts
  <2>3. listed \subseteq Nodes /\ deletions \subseteq Nodes /\ loop = "idle"
    BY DEF LoopInit
  <2> QED
    BY <1>1, <2>1, <2>2, <2>3 DEF LoopTypeOK, IInv
<1>3. SnapshotsCover
  BY DEF LoopInit, Init, SnapshotsCover
<1> QED
  BY <1>1, <1>2, <1>3 DEF LoopInv

LEMMA NextLoopInv == LoopInv /\ [LoopNext]_allVars => LoopInv'
<1> SUFFICES ASSUME LoopInv, [LoopNext]_allVars
             PROVE  LoopInv'
  OBVIOUS
<1>1. CASE UNCHANGED allVars
  <2>1. /\ UNCHANGED vars
        /\ UNCHANGED <<loop, listed, deletions, counts, sizes, initialized, crashes>>
    BY <1>1 DEF allVars, loopVars
  <2>2. IInv
    BY DEF LoopInv
  <2>3. LoopTypeOK' /\ SnapshotsCover'
    BY <2>1, <2>2, ActuatorSame DEF LoopInv, LoopTypeOK, SnapshotsCover
  <2> QED
    BY <2>1, <2>2, <2>3, ActuatorSame DEF LoopInv
<1> QED
  BY <1>1, ObtainNodeListsStep, CheckStatusStep, RefreshStep, ScaleDownStep, ReturnEarlyStep,
     CrashStep, LoopGoroutineStep
     DEF LoopNext, LoopStep

LEMMA LoopInvariance == LoopSpec => []LoopInv
BY InitLoopInv, NextLoopInv, PTL DEF LoopSpec

LEMMA LoopLimitsInvariance == LoopSpec => [](LoopInv /\ WithinLimits)
<1>1. LoopInit => WithinLimits
  BY InitWithinLimits DEF LoopInit
<1>2. LoopInv /\ WithinLimits /\ [LoopNext]_allVars => WithinLimits'
  BY LoopLimits
<1> QED
  BY <1>1, <1>2, LoopInvariance, PTL DEF LoopSpec

LEMMA LoopWholeInvariance == LoopSpec => [](LoopInv /\ WholeInv)
<1>1. LoopInit => WholeInv
  BY InitWhole DEF LoopInit
<1>2. LoopInv /\ WholeInv /\ [LoopNext]_allVars => WholeInv'
  BY LoopWhole
<1> QED
  BY <1>1, <1>2, LoopInvariance, PTL DEF LoopSpec

-----------------------------------------------------------------------------
(* Theorems                                                                *)

(* What an iteration works with is well formed, and neither the loop nor   *)
(* the clean-up of a new process takes a taint from a node whose deletion  *)
(* is in progress.                                                         *)
THEOREM LoopIsSafe == LoopSpec => []LoopInvariant
<1>1. LoopInv => LoopInvariant
  BY DEF LoopInv, LoopInvariant, IInv
<1> QED
  BY <1>1, LoopInvariance, PTL

(* No iteration starts a deletion of a node whose deletion is in progress: *)
(* the snapshot of the deletions is taken after the nodes are listed, and  *)
(* only iterations start deletions.                                        *)
THEOREM DeletionsStartOnce == LoopSpec => NodeStartedOnce
<1> DEFINE Once == \A n \in Nodes : n \in InProgress =>
                     pc'[n] \notin {"picked", "started"} \/ pc'[n] = pc[n]
<1>1. LoopInv /\ [LoopNext]_allVars => [Once]_allVars
  <2> SUFFICES ASSUME LoopInv, LoopNext, NEW n \in Nodes, n \in InProgress
               PROVE  pc'[n] \notin {"picked", "started"} \/ pc'[n] = pc[n]
    OBVIOUS
  <2>1. pc[n] \notin {"none", "picked"}
    BY TrackedStages DEF LoopInv, IInv, NoDeletionLost
  <2>2. CASE ScaleDown
    <3>1. loop = "refreshed"
      BY <2>2 DEF ScaleDown
    <3>2. PICK selected \in SUBSET UnneededNodes :
            \E empty \in SUBSET selected : StartDeletion(empty, selected \ empty, FALSE)
      BY <2>2 DEF ScaleDown
    <3>3. n \notin selected
      BY <2>1, <3>1, PlannedNodesAreFree DEF At
    <3> QED
      BY <3>2, <3>3 DEF StartDeletion, actuatorVars
  <2>3. CASE StartDrain \/ GoroutineStep
    <3>1. pc'[n] = "picked" => pc[n] = "picked"
      BY <2>3, GoroutineFrame DEF LoopInv
    <3>2. pc'[n] = "started" => pc[n] \in {"picked", "started"}
      BY <2>3, GoroutineFrame DEF LoopInv
    <3> QED
      BY <2>1, <3>1, <3>2
  <2>4. CASE Crash
    BY <2>4 DEF Crash
  <2>5. CASE ObtainNodeLists \/ CheckStatus \/ Refresh \/ ReturnEarly
    BY <2>5 DEF ObtainNodeLists, CheckStatus, Refresh, ReturnEarly, vars, actuatorVars
  <2> QED
    BY <2>2, <2>3, <2>4, <2>5 DEF LoopNext, LoopStep
<1> QED
  BY <1>1, LoopInvariance, PTL DEF LoopSpec, NodeStartedOnce

(* Groups that are not below their minimum size at the start never get     *)
(* below it, not even when every deletion in progress succeeds: reading    *)
(* the counters before the sizes is what makes the stale plan safe.        *)
THEOREM MinSizeIsKept ==
  ASSUME \A g \in Groups : MinSize[g] <= Cardinality(NodesOf(g)) + Unregistered[g]
  PROVE  LoopSpec => []MinSizeKept
<1>1. LoopInit => MinSizeKept
  <2> SUFFICES ASSUME LoopInit, NEW g \in Groups
               PROVE  SizeLeft(g) >= MinSize[g]
    BY DEF MinSizeKept, SizeLeft, Going
  <2>1. targetSize[g] = Cardinality(NodesOf(g)) + Unregistered[g]
    BY DEF LoopInit, Init
  <2>2. Going(g) = {}
    BY DEF LoopInit, Init, Going, Tracked, At
  <2>3. Cardinality(NodesOf(g)) \in Nat /\ Unregistered[g] \in Nat
    BY NodesOfIsSubset, NodeSetCount, ActuationAssumption
  <2> QED
    BY <2>1, <2>2, <2>3, FS_EmptySet DEF SizeLeft
<1>2. LoopInv /\ MinSizeKept /\ LoopInv' /\ [LoopNext]_allVars => MinSizeKept'
  BY NextMinSize
<1> QED
  BY <1>1, <1>2, LoopInvariance, PTL DEF LoopSpec

(* The limits are kept by the whole program: what a new process starts is  *)
(* counted from nothing, as nothing of the old one runs any more.          *)
THEOREM LoopKeepsLimits == LoopSpec => []IndividualParallelism
<1>1. LoopInv /\ WithinLimits => IndividualParallelism
  BY WithinLimitsKept DEF LoopInv
<1> QED
  BY <1>1, LoopLimitsInvariance, PTL

(* No part of an atomic group is left behind either when the main loop     *)
(* plans from an older list of nodes, even of nodes that are gone, or when *)
(* the process dies in the middle of deletions and starts again.           *)
THEOREM LoopKeepsGroupsWhole == LoopSpec => []AtomicGroupWhole
<1>1. LoopInv /\ WholeInv => AtomicGroupWhole
  BY DEF WholeInv
<1> QED
  BY <1>1, LoopWholeInvariance, PTL

(* The program implements NodeRemoval with restarts: a death maps to one   *)
(* Restart, whichever calls it interrupts, and the clean-up of the next    *)
(* process to a change of taints that no deletion relies on.               *)
THEOREM LoopKeepsPromise == LoopSpec => LoopPromiseKept
<1>1. LoopInit => Promise!Init
  BY PromiseInit DEF LoopInit
<1>2. LoopInv /\ WholeInv /\ [LoopNext]_allVars
        => [Promise!Next \/ Promise!Restart]_(Promise!removalVars)
  BY LoopPromise DEF LoopPromiseStep
<1> QED
  BY <1>1, <1>2, LoopWholeInvariance, PTL
     DEF LoopSpec, LoopPromiseKept, Promise!SpecWithRestarts
=============================================================================
