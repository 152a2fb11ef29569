# Verification of the autoscalers and the web shop

This directory holds TLA+ specifications of parts of this repository, the
configurations with which TLC checks them on small instances, and theorems that
TLAPS proves for instances of every size. The paths below are relative to the
root of the repository; `CA/` stands for `src/autoscaler/cluster-autoscaler/`,
`VPA/` for `src/autoscaler/vertical-pod-autoscaler/pkg/` and `SHOP/` for
`src/services/pfe_devsecops/src/`.

To repeat the work: `tlc -config <cfg> <module>` for each run of
`PROJECT.json`, and `tlapm <module>` for the eight modules whose names end in
`Proofs`.

## 1. Inventory

The repository is a DevSecOps project: a web shop of microservices, several
autoscalers that act on it or on the cluster it runs in, and the configuration
that builds and deploys them. Almost all of its own concurrent, stateful logic is in the
autoscalers; the shop has some in checkout and cart. The last column says what
of a component is modelled; `PROJECT.json` says what of it is left out.

| Component | State | Operations | What is hard | What makes it correct | Modelled |
|---|---|---|---|---|---|
| Node deletion tracker (`CA/core/scaledown/deletiontracker`) | deletions per group, empty and drained nodes under deletion, expiring lists of results and evictions | StartDeletion, StartDeletionWithDrain, EndDeletion, DeletionsInProgress, DeletionsCount, DeletionResults, ClearResultsNotNewerThan, Snapshot | written by many goroutines, read live and as a snapshot | counters and sets agree; every start has exactly one end; every result is reported once | partly |
| Group deletion scheduler, node deletion batcher (`CA/core/scaledown/actuation`) | failures and queue of each group; buckets and their timers | ScheduleDeletion, addToBatcher, AbortNodeDeletion, ResetAndReportMetrics; AddNodes, remove | nodes of an atomic group wait for each other across goroutines and phases; any step can fail | no node is lost or deleted twice; atomic groups go as a whole | yes |
| Actuator (same directory) | none of its own; taints in the API server | StartDeletion, StartForceDeletion, taintNodesSync, deleteNodesAsync; evictions and waits | partial failures while tainting, phases that overlap | what is deleted is tainted; whatever starts ends | partly |
| Scale-down budgets (`CA/core/scaledown/budgets`) | none | CropNodes | two limits, overflow by one atomic group, unregistered instances | limits hold over all deletions in progress; groups whole or not at all | yes |
| Planner, unneeded nodes, set processor (`CA/core/scaledown/planner`, `unneeded`, `CA/processors/nodes`) | unneeded nodes with times, unremovable nodes | UpdateClusterState, NodesToDelete | plans from a snapshot that is out of date | minimum size kept, no node chosen twice | partly |
| Main loop (`CA/core/static_autoscaler.go`) | initialized flag, cooldown times, the actuation snapshot | RunOnce and its early returns, cleanUpIfRequired | order of snapshot, refresh and use; crashes | taints of a dead process go away | partly |
| Cluster state registry, scale-up (`CA/clusterstate`, `CA/core/scaleup`, `CA/utils/backoff`) | scale requests, acceptable ranges, incorrect sizes, readiness, unregistered nodes, backoff, cached instances | RegisterScaleUp, UpdateNodes, Recalculate, GetUpcomingNodes, Refresh | timeouts that race with nodes coming up; a registry built from several readings | requests end; the target size covers the instances; wrong sizes are corrected | partly |
| Balancing of scale-ups (`CA/processors/nodegroupset`) | none | BalanceScaleUpBetweenGroups | two indexes over a list that the loop reorders | all nodes handed out, evenly | partly |
| Cluster snapshot (`CA/simulator/clustersnapshot`, `CA/simulator/common`) | stacks of patches and of deltas, with caches | Fork, Revert, Commit; nodes, pods, claims | caches over a stack that is forked and merged | as if everything were copied | partly |
| Snapshot of dynamic resources (`CA/simulator/dynamicresources`) | claims with reservations and allocations | reserve, unreserve, add, remove, fork | objects shared between patches and changed in place | claims reserved for the pods placed; a revert restores | partly |
| Simulator, estimator, expanders, cloud providers (`CA/simulator` ...) | - | scheduling simulation, bin packing | numerical, external | out of reach of a small model | no |
| VPA updater (`VPA/updater`) | eviction statistics per replica group, times of in-place attempts | CanEvict, Evict, CanInPlaceUpdate, InPlaceUpdate | a loop over a pod list that is out of date | a replica group keeps running; every pod is updated | partly |
| VPA recommender and admission controller (`VPA/recommender`, `VPA/admission-controller`) | histograms | recommendations, patches of pods | numerical | - | no |
| Balancer (`src/autoscaler/balancer/pkg`) | none | priority and proportional placement, scaling | distribution of replicas with minimum, maximum and fallback | sums and bounds | no |
| Addon resizer (`src/autoscaler/addon-resizer/nanny`) | last update time | polling, estimate, update | little | estimate within bounds | no |
| Custom autoscaler (`src/custom-autoscaler`) | last scale time, histories | metrics, choice of an algorithm, kubectl scale | failing calls read as values, decisions from old data | replicas within bounds | no |
| Checkout and money (`SHOP/checkoutservice`) | none of its own | PlaceOrder, Sum, MultiplySlow | calls of one order that fail in the middle, carts that change meanwhile, carries | what is charged is what is shipped; exact sums | partly |
| Cart (`SHOP/cartservice`) | carts in Redis, Spanner or AlloyDB | AddItem, GetCart, EmptyCart | reading and writing without a lock | no lost item | yes |
| Other services of the shop | catalog, sessions | stateless handlers | - | - | no |
| Infra, GitOps, CI, load tests, backups | none | - | - | - | no |

How the parts of the Cluster Autoscaler interact. RunOnce of the main loop is one
goroutine. In each iteration it lists the nodes, takes a snapshot of the
tracker (`CheckStatus`), refreshes the cloud provider, updates the cluster state
registry (`UpdateNodes`), which reads the instances through a cache that another goroutine
refreshes, removes what never registered or failed, corrects target sizes and scales up;
otherwise it hands the snapshot to the planner (`UpdateClusterState`), asks it for nodes
(`NodesToDelete`) and gives them to the
actuator (`StartDeletion`). The actuator crops them with the budget processor,
which reads the *live* tracker, taints nodes through the API server, enters them
into the tracker and starts goroutines. From then on the goroutines of this
and of earlier iterations run against each other and against the loop: one per
view of a group (`deleteNodesAsync`), one per node (`ScheduleDeletion`), one per
bucket timer and one per cloud call. They share the tracker (a mutex), the
scheduler's maps (a mutex, not held while a node is prepared), the batcher's
buckets (a mutex), and the taints. All simulations of planner and scale-up work on one cluster
snapshot that they fork and revert, and that keeps claims of dynamic resources in step with its pods.

The VPA updater is one loop too; it shares the pods with their controller, the kubelet and the
admission controller. In the shop, PlaceOrder calls cart, catalog, currency, shipping, payment
and mail, one after the other, while other requests of the same user do the same.

The hazards this exposes the code to are listed in `PROJECT.json`, each at its line
and with the properties that cover it or a note why none does.

## 2. Modules

| Module | Models | Extends |
|---|---|---|
| `NodeGroups` | nodes, groups, atomic groups, the two limits, with their assumptions | |
| `NodeDeletionTracker` | `nodedeletiontracker.go` | `NodeGroups` |
| `BudgetContract` | what `CropNodes` promises, as a relation | `NodeGroups` |
| `ScaleDownActuation` | `actuator.go`, `group_deletion_scheduler.go`, `delete_in_batch.go` | the two above |
| `NodeRemoval` | abstract specification of what the actuator promises | `NodeGroups` |
| `Budgets` | `budgets.go`, the algorithm | `BudgetContract` |
| `ScaleDownLoop` | `static_autoscaler.go`, the filters of planner and set processor, crashes | `ScaleDownActuation` |
| `DeletionReports` | the expiring list of deletion results and the loop that reads and clears it | |
| `CloudGroup` | a node group: the provider's side, and its nodes | |
| `InstancesCache` | `clusterstate/utils/node_instances_cache.go` | `CloudGroup` |
| `ExponentialBackoff` | `utils/backoff/exponential_backoff.go` | |
| `ClusterState` | `clusterstate.go`, and the parts of `static_autoscaler.go` and of the scale-up executor that act on it | the two above |
| `ScaleUpBalancing` | `balancing_processor.go` | |
| `ForkableMap` | abstract specification: a map that is copied at each fork | |
| `PatchSet` | `simulator/common/patchset.go`, `patch.go` | |
| `BasicSnapshotStore` | `clustersnapshot/store/basic.go` | |
| `DeltaSnapshotStore` | `clustersnapshot/store/delta.go` | |
| `DraSnapshot` | `dynamicresources/snapshot`, and `predicate_snapshot.go` where it calls it | |
| `VpaUpdater` | `VPA/updater`: the loop and the restrictions | |
| `Money` | `SHOP/checkoutservice/money/money.go` | |
| `CartStore` | the three stores of `SHOP/cartservice` | |
| `Checkout` | `SHOP/checkoutservice/main.go` | `CartStore`, `Money` |
| `MCActuation`, `MCBudgets`, `MCLoop`, `MCClusterState`, `MCVpa`, `MCCheckout` | instances for TLC | one each |
| `MCSnapshots` | instances of `PatchSet` and `DeltaSnapshotStore` | these two |
| `MCParts` | instances of `ScaleUpBalancing`, `ExponentialBackoff`, `DeletionReports`, `DraSnapshot` | these four |
| `BudgetProofs`, `PatchProofs`, `DeltaProofs`, `VpaProofs`, `ClusterStateProofs` | theorems | the module they are about |
| `PartsProofs` | theorems about `ScaleUpBalancing`, `DeletionReports` and `DraSnapshot`, and about the four side by side | `MCParts` |
| `CheckoutProofs` | theorems about `Checkout`, `CartStore` and `Money` | `Checkout` |
| `ScaleDownProofs` | theorems about `ScaleDownActuation` and `ScaleDownLoop` | `ScaleDownLoop` |

### ScaleDownActuation

One variable per piece of state of the code: the tracker's three, `failuresForGroup`,
`nodeQueue`, `bucket` (`deletionsPerNodeGroup` of the batcher), the taints
(`toBeDeleted`) and the cloud (`instances`, `targetSize`). `pc[n]` is the place at
which the goroutines of node `n` are, and `cloudCalls` the sets of nodes
of calls under way. The actions are the handlers:

* `StartDeletion` and `StartDrain` are the two halves of `startDeletion`. They are
  separate because goroutines of the empty nodes run while the nodes to drain are
  being tainted. Each succeeds or fails in `taintNodesSync`; after a failure
  any part of the taints written may remain, because errors of
  the roll-back are ignored.
* `DeleteNodesAsync(n)` is one turn of the loop in `deleteNodesAsync`. An error of
  the snapshot or of the PDB listing, which aborts every node of the goroutine, is
  the abort of one node after the other.
  The order of the nodes is left open because the planner fills its lists from
  Go maps.
* `ScheduleDeletion(n)` and `ForceDelete(n)`: preparing a node (evictions, the wait for delay annotations)
  is a time that passes at stage `preparing` and then an outcome. `addToBatcher` and
  `AbortNodeDeletion` run under the scheduler's mutex and are one step each.
* `RemoveBucket(g)` and `CloudDelete(call)` are the timer and the cloud. A failed call may have
  removed some nodes that are deleted one by one; the resize
  of an atomic group is one operation.
* `CleanToBeDeleted(n)`, `EndFailedDeletion(n)`, `EndSuccessfulDeletion(n)` unwind a
  deletion. In the code the scheduler's mutex is held across some of these; the model lets
  other steps come in between, which allows more behaviours and never fewer.

`StartAnyDeletion` offers any candidates that are not under
deletion and that `WithinBudget` allows; that `CropNodes` satisfies `WithinBudget` is what the run `budgets`
checks and `BudgetProofs` proves, and that the main loop respects the first condition is `NodeStartedOnce`.

### NodeRemoval

The actuator without its goroutines: a node's instance only disappears while the
node is reported as being deleted and is tainted; a group that is deleted as a whole
disappears in one step; ending a deletion changes the report of that node only. `SpecWithRestarts` adds the death of the process, which ends
all reports at once and may take tainted nodes with it, of a whole group all or none.
`ScaleDownActuation!Promise` maps `deleting` to the two sets of the tracker and `whole` to
the atomic groups that forced deletions are not used on.

### Budgets

`Cropped` follows `CropNodes` loop by loop, each loop a recursive function over the views that `Grouped` makes
of a list; a turn passes over the views that `categorize` does not give its loop, and a `break` is the field `left`. The initial states range over all numbers of deletions in
progress up to `MaxInProgress`, unregistered instances, groups whose instances cannot
be listed, and groups whose target size is unknown. The candidate lists grow one
node at a time, so every pair of disjoint sequences is cropped.

### ScaleDownLoop

An iteration is cut at the points where it reads shared state: `ObtainNodeLists`
(with `cleanUpIfRequired` before it), `CheckStatus`, `Refresh`, `ScaleDown`.
`ReturnEarly` stands for every return in between. Which nodes are
unneeded is an arbitrary choice. `Crash` loses all memory; calls to the cloud that were
under way take effect or not (`Interrupted`; of nodes that are deleted one by one, in part); taints and cloud stay.
`LoopPromiseKept` is the promise of `NodeRemoval` for the whole program, with `Restart` as a further step of it.

### CloudGroup, InstancesCache, ExponentialBackoff and ClusterState

The registry keeps one entry of everything per node group, so there is one
group. `CloudGroup` is the provider's side (the guards are those of
`cloudprovider/gce`) with instances that start, fail, run and are deleted, and nodes that
register, break and linger. An iteration of RunOnce is cut where it calls
the provider or lets others in: `StartIteration` lists the nodes and is where
time passes, `GetTargetSizes` and `UpdateNodes` are the two halves of `UpdateNodes`, followed by
removal of unregistered instances, deletion of failed ones, correction of the size
and scale-up. Between any two parts instances change, the actuator of scale-down
deletes nodes and the cache is refreshed. Durations are the time since, one unit past the limit
they are compared with at most. Which pods need how many nodes is arbitrary, and so is what
scale-down removes: it is one background step, as `ScaleDownLoop` looks at it in detail.

### ScaleUpBalancing

One step is one turn of the loop. The initial states range over all sizes, limits, numbers of
nodes and orders of groups of the same size (the sort is not stable). A group
may be above its limit.

### ForkableMap, PatchSet, BasicSnapshotStore, DeltaSnapshotStore, DraSnapshot

`PatchSet` has the patches and the cache over them; `Map == INSTANCE ForkableMap` maps each
level to what the patches up to it say. `DeltaSnapshotStore` has per level what was
added, modified and deleted, and the lists it has built; `Basic == INSTANCE BasicSnapshotStore`
maps it to a stack of whole maps. In both, reading is an action too, as it fills caches. `DraSnapshot` is one level up:
patches say which of its objects a claim is (`heap[c]`: the informer's, or a copy), because the code
changes claims in place and patches could share them; its actions are the operations of
`PredicateSnapshot` that change claims or pods. `SchedulePodFails` is a SchedulePod with an error after the filters have passed: the code does
not clean up after it (the TODO at `predicate_snapshot.go:289`), so some claims may stay allocated, or all of them reserved for a pod that is not placed.
`ForceAddPod` places a pod that waits for preemption without reserving its claims (`filter_out_expendable.go:60`), and
`ForceRemovePod`, which only tests call, takes one out with its reservations left. `unmatched` is a history variable: the pods for which the
store and the reservations differ, at each level. An operation loops over the claims of a pod or of
the pods of a node; `Becomes` writes them all at once, as an object is of one claim and the claims do not
depend on each other. A copy that nothing refers to is collected, so that one copy more than forks suffices.

### DeletionReports

`EndDeletion` appends a result with the time of the clock; RunOnce reads
(`DeletionResults`) and later clears what is not newer than what it read, in two calls
with the tracker unlocked in between.

### VpaUpdater

One loop of the updater is `List` (statistics and the choice of pods), `UpdateInPlace` and
`Evict` pod by pod, `EndLoop`. The cluster recreates, starts and resizes pods meanwhile.
A controller with `fresh` FALSE has a lister that lags behind: the loop lists
from what it last saw.

### Money, CartStore, Checkout

`Money` has units and nanos with a constant number of nanos in a unit. A cart is the set of additions in it, so
lost and resurrected pieces are told apart; the stores differ in what `AddItemAsync` reads and
overwrites (`Extent`) and in whether it is a transaction. An order goes from stage to stage,
one per call that has an effect. Each call may fail before or after it took effect;
where a sum is refused, `Must` panics, no interceptor recovers, and all orders under way die (`Crash`).
The order of the items is arbitrary.

## 3. Runs

| Run | Instance | Distinct states | Shows |
|---|---|---|---|
| `actuation` | atomic group of 2, plain group of 3, limits 2 and 1, batching with an interval, forced deletions, failing taint updates | 65,692 | the safety invariants of the actuator, the limits over overlapping phases |
| `actuation_promise` | atomic group of 3 with an unregistered instance, 1 plain node, no interval | 182,154 | implements `NodeRemoval`; deletions outside atomic groups end |
| `actuation_queue` | atomic group of 2 | (violation) | finding 1 |
| `budgets` | atomic groups of 2 and 1, plain group of 2, limits 3 and 2, up to 3 + 3 deletions in progress | 886,784 | the contract with equal batch sizes, no wasted budget |
| `budgets_batch` | the same | (violation) | finding 2 |
| `loop` | atomic group of 2 and an unregistered instance, plain group of 2 with minimum size 1, one crash | 162,738 | planning from old snapshots is safe; the program implements `NodeRemoval` with restarts; taints are resolved after a crash |
| `cluster_state` | 2 instances, sizes 0 to 2, failing calls and listings, refreshed cache | 2,265,957 | the registry is well formed; the target size covers what exists |
| `cluster_state_live` | 1 instance, sizes 0 to 2, failing calls, preemption, refreshed cache | 47,000 | stuck and failed instances go, requests end, wrong sizes are corrected |
| `snapshots` | patches: 2 keys, 2 values, 2 forks; store: 2 nodes, 1 pod, 1 fork | 16,894 | both refinements; caches never stale |
| `parts` | 3 groups of size up to 4, 8 nodes; backoff 3 to 20 with reset 30; 4 results of 2 nodes; 2 pods, 2 claims, 1 fork | 352,211 | even spreading; served backoffs; every result in one status; claims in step with pods, forced and failed ones apart |
| `vpa` | 2 pods in place, 3 evicted with tolerance 2, 2 with a lister that lags; one change of the recommendation | 356,543 | enough pods keep running; all get updated |
| `checkout` | 2 orders, 3 additions of 2 products, 3 stores, prices 0.3 and 1.5, 10 nanos a unit | 495,892 | charged is what is shipped, once; no addition is lost |

Two runs are unions. The parts of `snapshots` and of `parts` share no state, so every
behaviour works on one of them, chosen initially, and the states are the sum of the states of the
parts. The refinements are looked at where the behaviour works on the part.

Why the bounds suffice. Two nodes of an atomic group are enough for one to fail
while the other is queued, bucketed or still preparing, and with two plain nodes two
phases overlap in every order; the scheduler treats groups independently except for the
limits. Three plain nodes exceed the limits of `actuation`, so they cut. The third atomic node in `actuation_promise`
lets a group be split in three stages at once, and its unregistered
instance makes target size and registered size differ. In `budgets` the limits are
smaller than the number of candidates and the in-progress counts reach beyond both limits, so
negative budgets occur. In `loop` the unregistered instance lets
the atomic group be selected again while a node of it is still on its way. One crash is enough because a second one meets
the same persistent state, taints and cloud, as the first. In `cluster_state` one instance
may be on its way while the other fails, or come late; names are used once, so with two
a deleted instance can be replaced. `cluster_state_live` has fewer because liveness needs the complete graph
without symmetry; a maximum size above the number of instances makes sizes that
are never reached. Patches of three levels have a middle one, which is both merged into and merged. In `parts` one pod shares a claim with
another and owns one, which is every relation a pair can have. Three groups are the fewest in which the balancing
loop swaps past a group that stays. Four results let a node end twice, before and after
a reading. Three pods with a tolerance of two have a group that two evictions
of one loop exceed; a third outcome of a tolerance does not exist. Two orders and two additions of one product
overlap in every way, the third addition is of another row; ten nanos a unit with 0.3 and 1.5 carry,
borrow and cancel. `MaxInProgress`, `MaxCrashes`, `MaxScaleUps`, `MaxForks`, `MaxPatchForks`, `MaxResults`, `MaxRecommendations` and the
clock bound of `DeletionReports` are the only
bounds on counters; every other set is finite in the model itself.

Deadlock checking is off where a behaviour may be at its end: a crop (`budgets`), a balanced scale-up, all results
and an unplaceable pod (`parts`), all orders and additions (`checkout`). All others check it.
Symmetry is used in runs without liveness only.

Fairness. `FairSpec` of `ScaleDownActuation` and `LoopFairness` assume weak fairness of each goroutine of the
actuator: the Go scheduler runs it, evictions and the delay annotation are waited for
with timeouts (`drain.go`, `delay.go`), and a bucket's timer fires. In `LoopFairness` the
loop itself is called again and again, but nothing forces an iteration to get as far as scaling
down. Neither a successful deletion nor a successful API call is ever assumed there.
`loop` takes updates of taints to succeed (`TaintApiFails` is FALSE): when
the one attempt to remove a taint fails, the code only logs it.
`ClusterState!FairSpec` assumes that the loop runs, that the goroutine of the cache does, and
(strong fairness) that a call of the provider that is tried again and again does not fail for ever; nothing
is assumed of instances and nodes. `VpaUpdater!FairSpec` assumes that the loop runs on its ticker, that time passes, that
the lister catches up, that controller and kubelet create and start pods, and that an eviction that is granted again and
again is not refused for ever; a resize may stay deferred. The balancing loop is one thread: weak fairness of its turns.

## 4. What was found

### Findings with a run

1. `actuation_queue` / `QueueIsCompletedOrRolledBack`. `ResetAndReportMetrics`
   clears `failuresForGroup` at the start of each phase
   (`group_deletion_scheduler.go:71`), also while goroutines of an earlier phase run. Node
   `a` of an atomic group {a, b} fails, a new phase starts, `b` gets prepared: it is
   queued, one of two, and nothing will complete the queue or roll it back. `b` stays tainted and
   in the tracker, so it also uses up a part of the parallelism budget. The comment of the type promises
   "rolling back deletion of all nodes from a group in case deletion fails for any of
   the other nodes".
   The same state is reached without a second phase when empty nodes of a group
   are started and tainting its nodes to drain fails (`actuator.go:158`).
2. `budgets_batch` / `BatchIsReachable`. For an atomic group with both empty
   nodes and nodes to drain, `CropNodes` compares only the empty ones with the
   number of registered nodes when it chooses the batch size (`budgets.go:111`), and
   accepts the group on the sum. With an unregistered instance the
   batch size is the target size, which the queue never reaches, although the comment
   at lines 103-105 wants to avoid exactly that wait.

### Properties that the code does not keep

These are stated in the modules under the comment "Not kept" (or with the exception in the
property that remains). TLC refutes each with the constants given; all
else is as in the run of the module. Line numbers are of the file named.

| Property | Module, constants | What happens |
|---|---|---|
| `FinishedMeansArrived` | `ClusterState`: sizes 1 to 2, no failures, `OkTotalUnreadyCount` 2 | `updateScaleRequests` drops a request as finished when the target size is not above the registered nodes that have started (`clusterstate.go:297`), and these include nodes being deleted, although such nodes "are not included in NodeGroup.TargetSize()" (`clusterstate.go:621-622`). A group of one scales up, its old node is deleted and lingers: target one, one registered node, and the request is gone before the new instance exists. Neither a timeout nor a creation error can then back the group off. |
| `UpcomingNotUnderestimated` | `ClusterState`: 3 instances, sizes 0 to 3 | `GetUpcomingNodes` subtracts node counts of `UpdateNodes` from a target size that `Recalculate` has read again since (`clusterstate.go:1052`). Its comment says that it "may overestimate" (`:1032`). A failed instance is deleted while a node counted as unready goes too, and the instance on its way is missing from the estimate. |
| `TargetWithinLimits` | `ClusterState`: sizes 1 to 2 | `deleteCreatedNodesWithErrors` hands all failed instances to `DeleteNodes`, which compares the size before the deletion with the minimum (`static_autoscaler.go:926`); `removeOldUnregisteredNodes` caps their number, this one does not. Both instances of a group with minimum one fail, and its target size becomes zero. |
| `TargetReached` | `ClusterState`: 1 instance, sizes 0 to 1, `FairSpec` | A group without any node has no readiness, so `updateIncorrectNodeGroupSizes` skips it (`clusterstate.go:745`). It scales up from zero, the instance never comes, the request times out: the target size stays at one, the group is unhealthy and never scaled, and one upcoming node is counted for ever. |
| `SizeIsFixed` | `ClusterState`: 1 instance, sizes 2 to 2, `MaxScaleUps` 0, `FairSpec` | The correction goes down to the registered nodes, below the unregistered instances that exist, and `DecreaseTargetSize` refuses. With the size at its minimum the unregistered instance is not removed either, and each iteration returns with the error before it scales anything, for all groups (`static_autoscaler.go:793`). |
| `RestHasRoom` | `ScaleUpBalancing`: 2 groups, `SizeBound` 2, `NodesBound` 3 | Loop invariant 2 of the comment (`balancing_processor.go:129`): a node that fills a group leaves it behind `startIndex` until `currentIndex` comes to it again. Harmless, as the loop tests for it. |
| `NeverPanics` | `DraSnapshot`: `Refs[b] = {own, shared}` | `findPodClaims` called with `ignoreNotTracked` leaves nil for a claim that is not tracked, and `RemovePodOwnedClaims` takes the id of every entry (`snapshot.go:141`), though it "doesn't error out if any of the claims are missing" (`:133`). A pod that references a claim made for another pod of its node, removed after it, makes the removal of the node panic. |
| `ReservedForEachPlaced` | `DraSnapshot`, as in the run | `ForceAddPod` "does NOT compute or reserve new claims" (`predicate_snapshot.go:368`), and filtering out expendable pods uses it for pods that wait for preemption (`filter_out_expendable.go:60`, with a TODO that this "doesn't work with DRA pods"). The claim of such a pod looks free, and when the last pod that has a reservation is unscheduled the claim is deallocated although the forced pod is in the store. A SchedulePod that fails after its Reserve phase leaves reservations of a pod that is not there (TODO at `predicate_snapshot.go:289`). `ReservedByPlaced` says that nothing else makes the two differ. |
| `InformerUntouched` | `DraSnapshot`, as in the run | `ensureClaimWritable` copies a claim only when it is not in the current patch; without a fork the current patch holds the objects of the lister (`snapshot.go:348`, `provider.go`). Scheduling a pod on the unforked snapshot, as filtering out schedulable pods does, writes its reservation into the informer's cache. |
| `ReportedExactlyOnce` | `DeletionReports`: `SameTime` TRUE | Clearing drops results exactly as old as the last one read, so a result registered at that time after the reading is dropped unread (`utils/expiring/list.go:84`). The list only expects times that do not decrease. |
| `FallbackInTime` | `VpaUpdater`: an in-place controller, `DeferredTimeout` 1 | `CanEvictInPlacingPod` enters the time of the first attempt of a pod and nothing changes or deletes it (`pods_inplace_restriction.go:213`). When a later recommendation is deferred, the time since the first resize counts, and the pod is evicted at once, not after "more than 5 minutes" (`docs/features.md:164` of the Vertical Pod Autoscaler). |
| `RunningKept` without `Fresh =>` | `VpaUpdater`: a controller of 2 pods with `fresh` FALSE | The statistics are counted from the lister (`pods_restriction_factory.go:264`). Of two pods one is evicted, the list still has it running, and the next loop evicts the other. |
| `AdditionsKept` without `InOrder =>` | `Checkout`, `store` "redis" or "alloydb" | `AddItemAsync` reads and writes without a lock (`RedisCartStore.cs:40`, `AlloyDBCartStore.cs:69`): of two additions one is lost. |
| `AdditionsKept` without `\ late` | `Checkout` | What is added while an order is under way is emptied unread (`main.go:263`). |
| `ChargedOnce` without `InOrder =>` | `Checkout`, `store` "redis" or "alloydb" | An addition that read the cart before an order emptied it brings the items back, and the next order charges them again. |

What `Checkout` does not promise at all, and no property says: an order whose shipping fails after the
charge is not refunded (`main.go:258`), so a second attempt charges again; two orders of
one cart that overlap both charge it; an order of an empty cart is charged the shipping. And `Sum` of two
amounts without whole units whose nanos are not zero, such as 0.5 and 0.3 or 0 and 0.3, returns (1, -0.2) or (1, -0.7):
worth the right amount (theorem `SumIsExact`), but against "If `units` is positive, `nanos` must
be positive or zero" (`protos/demo.proto:156`), so the next `Sum` refuses it and `Must` panics. No price of the catalog is
below one dollar and shipping costs 8.99, so this takes a currency in which they are; `PanicsOnlyBelowOne` says that nothing else leads there.

Two observations on budgets and clean-up. A negative budget passes the test
`parallelismBudget == 0` (`budgets.go:91`, `:141`), so while a group that exceeds the
limits is being deleted another whole group may be selected; `WithinBudget` states what holds all the same.
`cleanUpIfRequired` sets `initialized` even if listing the nodes failed (`static_autoscaler.go:251-264`).

## 5. Proofs

Every theorem is about a specification of section 2 and holds for all values of the
constants that satisfy the named assumptions of its module. In each proof an
inductive invariant comes first, then the lemmas, by operation, then one lemma per action or group
of actions, and the theorems last.

### The actuator (`ScaleDownProofs`)

From `NodeGroupsAssumption` (finitely many nodes, each in one group, limits that are numbers) and `ActuationAssumption` (types
of the constants), for all nodes, groups and limits:

* `TypeCorrect`: `Spec => []TypeOK`
* `TrackerStaysConsistent`: `Spec => []TrackerConsistent`
* `DeletionsAreNotLost`: `Spec => []NoDeletionLost`
* `TaintsAreKept`: `Spec => []TaintedWhileDeleting`
* `FailedGroupsHaveNoQueue`: `Spec => []FailedGroupHasNoQueue`
* `LimitsAreKept`: `Spec => []IndividualParallelism`
* `AtomicGroupsStayWhole`: `Spec => []AtomicGroupWhole`
* `ActuatorKeepsPromise`: `Spec => PromiseKept`, the refinement of `NodeRemoval`

None of the first five is inductive alone. `TypeOK` says that counters and target sizes are
natural numbers, which needs to know what they count: `TrackerConsistent` for the
counters (`EndDeletion` lowers one by one) and `TargetCounts` for the target sizes
(a cloud call lowers them by the instances it removes). The tracker stays consistent
because a deletion is only ended for a node that is in it and
only started for one that is not, which is `NoDeletionLost`. That in turn needs
`FailedGroupHasNoQueue`, since `addToBatcher` drops the queue of a failed group, and the
disjointness of queues, buckets and calls. `IInv` is their conjunction. The lemmas are arranged by
operation: counting nodes of a group; `TrackStart`, `TrackEnd`, `Removed`, `Abort` and `AddToBatcher` with what each
preserves; then one lemma per action; `TrackerUntouched` is shared by the five actions that
leave tracker and taints alone.

The limits are not inductive either, because a phase enters its nodes in two steps: `WithinLimits` counts the nodes that are
picked for draining and not in the tracker yet as well. A new phase has no such nodes, so what `CropNodes` read
is all there is.

For whole groups, `WholeInv` says of every node on its way to the batcher that its batch size is at least the number of nodes
that are left of its group, and of every bucket and every call that it has all of a group's instances or none. A queue that reaches the
batch size is then the group (`CompleteQueueIsWhole`: a part of a finite set that is not smaller is all of it), and from there on the group
travels as one. It says nothing of nodes whose instances are gone: with the main loop, that plans from an older list, such nodes are on their way as well. A group that a forced deletion may be used on is exempt from all of it, as in the property.

In the refinement the steps of goroutines that only move a node are stutters; a cloud call removes nodes that are in the tracker and tainted,
which is `IInv`, and groups as a whole, which is `WholeInv`.

### The budgets (`BudgetProofs`)

From `NodeGroupsAssumption` and `BudgetsAssumption` (`MaxInProgress` is a number), for any nodes, groups, limits, candidate lists and
deletions in progress: `SelectionKeepsContract` (`Spec => []KeepsContract`) and `NoBudgetIsWasted` (`Spec => []BudgetIsUsedUp`).
The theorems about the actuator start from selections that `WithinBudget` allows; the first one says that those are the only ones `CropNodes` makes.

A list of distinct nodes is grouped into one view per group with all of the group's nodes in the list (`GroupedIsGrouping`). The loops are followed turn by turn
with the set `T` of groups taken so far: the views selected are exactly those of `T` with all their candidates, the budgets are the limits
minus their nodes, and either `T` has one group at most or neither budget is below zero (`FirstLoop`). The second loop works on the smaller of the two
budgets, so its invariant is another (`SecondLoop`), and it must not meet a group that the first one took: those have empty
nodes, and the loop passes over such groups. A turn takes a group or changes no budget (`EmptyTurn`, `DrainTurn`), and a group it takes is all of its target
size or all of its registered nodes (`Whole`). `cropIndividualNodes` takes as many nodes as the budget has or the list has, whichever is less (`CropTakes`).
`CroppedSelects` puts the four loops together: what is selected is the nodes of the groups `T`, and
sets `I` and `J` of single nodes of the sizes that `Spends` gives. `SelectionIsRight` draws both properties from it. A budget may be
negative throughout, when more is in progress than a limit allows.

The recursion is handled as in `CheckoutProofs`, by `Recursion` and `Induction`; `BudgetProofs` states and proves these two again, so that it can be read and checked by itself, as does `DeltaProofs`.

### The main loop (`ScaleDownProofs`, second part)

From the assumptions above and `LoopAssumption`, for any number of crashes: `LoopIsSafe` (`LoopSpec => []LoopInvariant`),
`DeletionsStartOnce` (`LoopSpec => NodeStartedOnce`) and `MinSizeIsKept` (`LoopSpec => []MinSizeKept`). `SnapshotsCover` relates what the loop has read to
what goes on meanwhile: the deletions in progress are among those of the snapshot, because between status and plan nodes only leave the
tracker; the counters cover the nodes that may still go; and the size that is left of a group
if all its deletions succeed is never below the sizes read minus the counters read. Counters are read before sizes, so a deletion
that ends in between is subtracted twice. In the other order the last clause would fail. `MinSizeIsKept` has a hypothesis: no group
starts below its minimum, as such a group is below it without any deletion. The configuration of `loop` satisfies it.
The steps of the actuator are taken over from the first part; a crash leaves `IInv` because it drops all work at once.

What is proved of the actuator for any candidates that exist holds of the whole program too, where candidates come from a list that is out of date and may be gone:
`LoopKeepsLimits` (`LoopSpec => []IndividualParallelism`), `LoopKeepsGroupsWhole` (`LoopSpec => []AtomicGroupWhole`) and `LoopKeepsPromise` (`LoopSpec => LoopPromiseKept`),
the refinement of `NodeRemoval` with restarts. `PlanIsFree` reduces an iteration to the lemmas about `StartDeletion`: what it selects is not being worked on. `CrashTakesWhole` is the new
step: the calls a dying process leaves behind only have nodes that are handed over, so reported and tainted, and each call has all of a group or none. The clean-up of a new process
maps to `Taint`, as nothing is in progress before the first iteration has cleaned up.

### The updater (`VpaProofs`)

`EnoughPodsKeepRunning` (`Spec => []UpdaterInvariant`), from `UpdaterAssumption` (finitely many pods, types). That enough pods run is not inductive: a pod
that starts during a loop could hide one eviction too many until the next. `EnoughRun` says that the pods that were *seen* running and still run are
enough by themselves, and at least as many as the statistics say minus those evicted; `StatsCount` that each pod that was seen
is counted at most once, those that are still ahead not yet. Only `Fresh` controllers have it, as in the property.

### The registry and the backoff (`ClusterStateProofs`)

`TargetCovers` (`Spec => []RegistryInvariant`), from `GroupAssumption` (finitely many instances, sizes in order), `RegistryAssumption` and `BackoffAssumption`.
The hard step is the one-way one: the target size may go down only when nothing is left that it would have to cover. `DecreaseTargetSize` refuses below the
instances that exist, and `DeleteNodes` removes what it subtracts. The
types need that no node is listed both as ready and as not ready, or a readiness could
count more nodes than there are, and that a request never asks for more than the scale-ups together did.
`BackoffsAreServed` (`BackoffSpec => BackoffIsServed`) is about `ExponentialBackoff` alone; it rests on durations between the initial and the maximal
one, and on `MaxBackoff <= BackoffReset`, without which a reset could end a backoff early.

### Balancing, the results of deletions and resource claims (`PartsProofs`)

From `BalancingAssumption` (finitely many groups, bounds that are numbers), for any number of groups and any
sizes: `BalancingTypeCorrect` (`Spec => []BalancingTypeOK`), `LoopInvariantsHold` and `SpreadEvenly` (`Spec => []Balanced`).
The inductive `BalancingInv` says that the groups before `startIndex` are full (`FrontFull`, loop invariant 1 of the comment), that from there on those before
`currentIndex` have one node more and the others are sorted (`PartlySorted`), and that a group that was given a node is at most one above all that remain (`Low`), whence
`Balanced`. The swap is the hard step: `SwapKeepsOrder`. That the index never leaves the list (`IndexInRange`, the first part of `LoopInvariants`) needs the capacity: `RoomInv` says that no more
nodes are left than places are free, counted as a set. If `currentIndex` could pass the end while nodes are left, `startIndex` would have passed it too, all groups would be full and no place free.
`LoopEnds` is the safety half of `AllAllocated`: `TurnsLeft`, the nodes left plus the groups not yet moved to the front, is a natural number that every turn lowers,
and a turn is possible while nodes are left. That the loop takes its turns is the fairness that only TLC works with.

`NoResultIsLost` (`~SameTime |- ReportsSpec => []ReportsTypeOK /\ ReportedExactlyOnce`), for any nodes and number of deletions: a clock that never returns a time
twice is assumed, because with one that does the property fails (section 4). The code reads nanoseconds from a clock that does not go back; nothing in it says that
they differ. `ReportsInv` says what holds while the loop is between reading and clearing: a waiting result that was reported is not newer than the reading, one that is not newer was reported,
unless a later one of its node was, and what a goroutine registers meanwhile is newer. `ClearReports` needs the order of the list: dropping stops at the first result that is newer.

`ClaimsFollowPods` (`OwnedAreOwn |- DraSpec => [](DraTypeOK /\ ReservedByPlaced)`), `ClaimsAreFound` (`OwnedAreOwn |- DraSpec => []NeverPanics`) and `RevertFindsWhatWas` (`OwnedAreOwn |- DraSpec => LowerLevelsKept`), for any pods (finitely many),
claims and depth of forks. `ReservedByPlaced` has the pods of `unmatched` as its exceptions: those that `ForceAddPod` placed, and those that a failed SchedulePod or `ForceRemovePod` left with reservations, at the levels that know of it. `OwnedAreOwn` says that no pod references the claim made for another, as in the run; with a pod that does, `NeverPanics` fails (section 4), and unscheduling
the owner takes away the allocation of a claim that is still reserved. `DraInv` adds `OwnObjects`: patches share no object, and only the first has those of the informer; that is what makes changing an object of
the topmost patch in place harmless. `TopStep` says what the operations that change claims leave alone, `TopIsRight` when the topmost level is right after them: if its
claims have the reservations of the pods that then should have one (`Holders`). `StoreIsRight` is the same for the two operations that change the store only. `EffectiveOfTop`, `EffectiveBelow` and `SameEffective` are what is needed of the lookup through the patches, `MergedSaysTheSame` that a commit
does not change it. `FreshObject` counts: there are more copies than patches below the topmost one, so that the bound on objects is none. `RemovalTracks` is why the nil claims that `findPodClaims`
may leave are never met: a placed pod's claims are tracked at its level.

`PartsKeepShape` (`~SameTime, OwnedAreOwn |- PartsSpec => []PartsInvariant`) puts the invariants of the parts together for the specification that the run `parts` checks, with `BackoffKeepsType` for the backoff.

### The patch set (`PatchProofs`)

For any keys, values and depth of forks, `CacheIsCorrect` (`PatchSpec => []CacheCorrect`): an entry of the cache is what the patches say of the
key, and a cache in sync lacks none; and `PatchesAreAMap` (`PatchSpec => PatchesImplementMap`): a patch set is a stack of whole maps, copied at each fork. `PatchInv` adds the types; the lemmas
say what `Merged`, `WithCurrent` and a patch on top do to `IsEffective`, the relation between a key and what the patches say of it. That this relation is a function needs
the topmost patch that says something, so a least number: `LeastNumber` gets it from
`WFMin`, the one induction principle of the library that is about sets and not about operators. `ForkIsMapped`, `CommitIsMapped`, `RevertIsMapped` and `ChangeIsMapped`
then follow level by level. `DraSnapshot` relies on all of this: it reads patches without the cache.

### The snapshot store (`DeltaProofs`)

From `StoreAssumption` (finitely many nodes, a node without pods is not an absent one), which `snapshots` evaluates for its instance, for any nodes, pods and depth of forks:
`NoCacheIsStale` (`Spec => []CachesFresh`), `LevelsAreConsistent` (`Spec => []LevelsConsistent`: the types and `LevelsFit`) and `StoreAnswersLikeCopies` (`Spec => StoreImplementsBasic`): the refinement.

The invariant `StoreInv` says of each level that it fits what the levels below say (`Fits`, of `LevelsFit`) and that its caches are those of what the levels up to it say (`Fresh`, of
`CachesFresh`), and that a pod is on one node only (`Apart`), without which removing a node from the copies would take away claims that are used elsewhere. What a stack
says is a fold of `On`, one level on a map (`ViewUnfolds`, from `LargestNumber`), so a change of the topmost level is right if it is right of `On` (`TopChanged`): the
lemmas `AddingANode`, `RemovingANode`, `CopyingANode`, `ChangingPods`, `PlacingAPod` and `UnplacingAPod` say when an operation refuses, and that it changes what the stack says at one node.
A list is built from those below, and `ListedOn` and `ListsOfLevels` show by induction that this gives the list of what the levels say.
A commit is three loops over sets in whatever order Go has for a map; `SetRecursion` shows that they have a result, `DeletedIsApplied`, `ModifiedIsApplied` and `AddedIsApplied` follow
them by `SetInduction`, and `Committing` concludes that no step of them fails and the level below says what the two said before. Until then a commit that fails
half way is possible for all the code says: it would leave the level below half changed.

### Money and checkout (`CheckoutProofs`)

The first part is about `Money` alone. It proves, for every number of nanos in a unit and valid amounts of any sign, `SumIsExact` (the sum is worth what its arguments are) and
`SumIsValid` (it is valid unless the units cancel out and the nanos do not), from `MoneyAssumption` alone; and `MultiplyIsExact`: the product by any
number from one on, made by repeated addition as in the code, is worth that many times the price, unless it is refused. The provers have no induction principle over
operators, so `Induction` is stated about a set of numbers and follows from `WFMin`, as `LeastNumber` does in `PatchProofs`; and `Recursion`
shows that a definition by recursion over an interval has a solution, without which nothing could be said of a function defined by it.

The second part proves `AdditionsAreKept` (`Spec => []AdditionsKept`) and `NothingIsChargedTwice` (`Spec => []ChargedOnce`) for any additions, orders, prices and
each store. Neither is inductive: what empties the cart has to have been read and shipped, or come late (`ReadOrLate`, `ShipsItems`), and what an order that ended well
had in its items must not come back (`DoneIsGone`), which holds because only additions that were made are ever in a cart or in what was read of one (`OnlyMade`)
and an addition that overwrites nothing adds only its own piece (`AddFacts`).

`ChargedIsShipped` (`Spec => []CheckoutInvariant`) and `OnlySmallAmountsPanic` (`Spec => []PanicsOnlyBelowOne`) are about the totals, for any finite catalogue
(`CartAssumption`), any prices that are valid and not negative, any shipping cost, any number of additions and orders. The worth of the items is a sum
over a set, the total of an order a recursion over a list in arbitrary order. `AddsExists` and `AddsUp` show that the sum over a finite set exists and grows by each
element whichever comes first, `OrderingIsOneToOne` that the list has each product once, and `TotalIsExact` that the two agree up to the shipping cost, by
induction over how much of the list is added; `WholeTotals` is the same induction for amounts of a unit or more, which no sum refuses. The invariant `ChargeInv` then follows an
order by its stage: a priced order has the right total, nothing is charged before that, what is charged stays what the items cost although the cart
changes, and what is shipped was charged. Carts are finite (`FiniteCarts`) as steps only add single pieces to them. The order of the carries
is arbitrary all along: the theorem does not say that amounts on the way are valid, it says that the one that is charged is exact.

### Only model-checked

* All liveness, `AllAllocated`, `AllUpdated` and what `cluster_state_live`, `loop` and `actuation_promise` check of it: TLAPS does not handle ENABLED and fairness.
* Nothing is checked or claimed of resource claims without `OwnedAreOwn`, except the counterexample that section 4 describes.

## 6. Not modelled

Components that are left out, with the reason in `PROJECT.json`: simulator, estimator, expanders and cloud providers; recommender and admission controller of
the Vertical Pod Autoscaler; Balancer; addon resizer; custom autoscaler; the stateless services of the shop; deployment. Most of the repository's lines are vendored
SDKs and generated clients of cloud providers, which have no logic of this program. Of the components that are modelled, these parts are left out:

* Evicted pods, the second expiring list of the tracker.
* What evictions do to pods, pod disruption budgets, soft taints, the measured delay after tainting.
* How nodes become unneeded, and the cooldowns: the choice is arbitrary, which covers every outcome.
* The five minutes for which a taint keeps a node from being chosen (`IsNodeBeingDeleted`): not relied upon.
* In `ScaleDownLoop`, a listing that still shows a removed node, and new nodes: `listed` are the instances that exist, `instances` only shrinks. Scale-up is in `ClusterState`; the two are not composed.
* Suspended nodes, ZeroOrMaxNodeScaling, asynchronous node groups, and the written status, in the registry.
* Resource slices, device classes, and nodes added with claims, in `DraSnapshot`; nodes with required anti-affinity, kept like those with affinity, and SetClusterState, in the stores.
* Startup boost, in-place-skip-disruption-budget, pod priorities and rate limiters, in the updater.
* Differing currencies, Negate and the predicates of the money package, overflow of units, the confirmation mail, several users.
* Logging, events, metrics.

## 7. Plan

In this order:

1. `UnneededNodes`: unneeded times, stale listings and the five minutes of a taint.
2. `ScaleDownLoop` composed with `ClusterState`.
3. `PlacementPolicies` of the Balancer, and the loop of the custom autoscaler.
