---------------------------- MODULE ClusterState -----------------------------
(***************************************************************************)
(* ClusterStateRegistry and the part of StaticAutoscaler.RunOnce that acts *)
(* on it: removal of instances that never registered, deletion of failed   *)
(* instances, correction of the target size, and scale-up.                 *)
(*                                                                         *)
(* The registry keeps one entry of everything per node group and treats    *)
(* the groups alike, so there is one group.  An iteration takes no time;   *)
(* between two of them one unit of time passes.  Times are kept as the     *)
(* time that has passed since, up to one unit past the limit they are      *)
(* compared with.  While an iteration is under way, instances come up, the *)
(* goroutines of the actuator delete nodes, and the cache is refreshed.    *)
(***************************************************************************)
EXTENDS InstancesCache, ExponentialBackoff

CONSTANTS
  MaxNodeProvisionTime,
  OkTotalUnreadyCount,
  MaxTotalUnreadyPercentage,
  MaxScaleUps                 \* bound on the number of scale-ups

ASSUME RegistryAssumption ==
  /\ MaxNodeProvisionTime \in Nat
  /\ OkTotalUnreadyCount \in Nat
  /\ MaxTotalUnreadyPercentage \in 0..100
  /\ MaxScaleUps \in Nat

VARIABLES
  pc,            \* the next part of RunOnce
  listed,        \* the nodes RunOnce works with, ready and not ready
  size,          \* target size that UpdateNodes has read
  failed,        \* failed ones of cloudProviderNodeInstances, all it is read for later
  unregistered,  \* unregisteredNodes: time since UnregisteredSince
  readiness,     \* perNodeGroupReadiness, as numbers of nodes
  acceptable,    \* acceptableRanges
  incorrect,     \* incorrectNodeGroupSizes
  request,       \* scaleUpRequests
  toRemove,      \* unregistered nodes about to be removed
  scaleUps       \* number of scale-ups so far

registryVars == <<failed, unregistered, readiness, acceptable, incorrect, request, backoff>>
iterationVars == <<listed, size, toRemove>>
vars == <<groupVars, cacheVars, registryVars, iterationVars, pc, scaleUps>>

NotTracked == -1
TooLong == MaxNodeProvisionTime + 1   \* the saturated time

Older(age) == IF age < TooLong THEN age + 1 ELSE TooLong

NoRequest == [increase |-> 0, age |-> 0]
NoIncorrect == [current |-> 0, expected |-> 0, age |-> 0]
NoNodes == [ready |-> {}, notready |-> {}]

NodeNumbers == 0..Cardinality(Instances)

RegistryTypeOK ==
  /\ GroupTypeOK /\ CacheTypeOK /\ BackoffTypeOK
  /\ pc \in {"start", "listed", "update", "unregistered", "remove", "healthcheck", "fix", "scaleup"}
  /\ listed \in [ready: SUBSET Instances, notready: SUBSET Instances]
  /\ size \in 0..MaxSize
  /\ failed \subseteq Instances
  /\ unregistered \in [Instances -> NotTracked..TooLong]
  /\ readiness \in [ready: NodeNumbers, unready: NodeNumbers, deleted: NodeNumbers,
                    notStarted: NodeNumbers, unregistered: NodeNumbers,
                    longUnregistered: NodeNumbers]
  /\ acceptable.minNodes \in Int /\ acceptable.currentTarget \in 0..MaxSize
  /\ incorrect \in [current: NodeNumbers, expected: 0..MaxSize, age: 0..TooLong]
  /\ request.increase \in 0..(MaxSize * MaxScaleUps) /\ request.age \in 0..TooLong
  /\ toRemove \subseteq Instances
  /\ scaleUps \in 0..MaxScaleUps

-----------------------------------------------------------------------------
(* Reading the registry. *)

NoReadiness == [ready |-> 0, unready |-> 0, deleted |-> 0, notStarted |-> 0,
                unregistered |-> 0, longUnregistered |-> 0]

(* len(readiness.Registered) *)
Registered(r) == r.ready + r.unready + r.deleted + r.notStarted

Provisioned(r) == Registered(r) - r.notStarted

(* areThereUpcomingNodesInNodeGroup *)
AreThereUpcoming(r, target) == target > Provisioned(r)

(* IsNodeGroupScalingUp *)
IsScalingUp(r, target, req) == AreThereUpcoming(r, target) /\ req # NoRequest

TooMany(number, total) ==
  /\ number > OkTotalUnreadyCount
  /\ number * 100 > MaxTotalUnreadyPercentage * total

IsClusterHealthy == ~TooMany(readiness.unready, Registered(readiness))

(* IsNodeGroupHealthy.  A group without any node has no readiness.         *)
IsGroupHealthy ==
  IF readiness = NoReadiness
    THEN acceptable.currentTarget = 0 \/ acceptable.minNodes = 0
    ELSE LET missing == acceptable.minNodes - readiness.ready
         IN  ~TooMany(missing, readiness.ready + readiness.unready + readiness.notStarted)

(* GetUpcomingNodes *)
UpcomingNodes ==
  LET n == acceptable.currentTarget -
             (readiness.ready + readiness.unready + readiness.longUnregistered)
  IN  IF n > 0 THEN n ELSE 0

-----------------------------------------------------------------------------
(* Parts of UpdateNodes. *)

(* Mutant of Tracked: the time starts again in every iteration.            *)
TrackedAnew(listing) ==
  [i \in Instances |->
     IF i \in (listing.all \ listing.failed) \ (listed.ready \union listed.notready)
       THEN 0 ELSE NotTracked]

(* getNotRegisteredNodes and updateUnregisteredNodes: instances that have  *)
(* no error and no node, with the time they were first seen so.            *)
Tracked(listing) ==
  [i \in Instances |->
     IF i \in (listing.all \ listing.failed) \ (listed.ready \union listed.notready)
       THEN IF unregistered[i] = NotTracked THEN 0 ELSE unregistered[i]
       ELSE NotTracked]

(* updateReadinessStats, where HasInstance is not implemented, so that the *)
(* taint tells which nodes are being deleted.                              *)
ReadinessOf(tracked) ==
  LET deleted == {i \in listed.ready \union listed.notready : instance[i] = "deleted"}
      starting == {i \in listed.notready \ deleted : nodeAge[i] < StartupTime}
      long == {i \in Instances : tracked[i] > MaxNodeProvisionTime}
  IN  [ready |-> Cardinality(listed.ready \ deleted),
       unready |-> Cardinality((listed.notready \ deleted) \ starting),
       deleted |-> Cardinality(deleted),
       notStarted |-> Cardinality(starting),
       unregistered |-> Cardinality({i \in Instances : tracked[i] # NotTracked} \ long),
       longUnregistered |-> Cardinality(long)]

(* updateAcceptableRanges; nothing reads MaxNodes but the status. *)
AcceptableRange(target, r, req) ==
  [minNodes |-> (target - r.longUnregistered) - req.increase, currentTarget |-> target]

(* Mutant of TimedOut: one unit late, which the saturated time never is.   *)
NeverTimedOut(req) == req.age > TooLong

TimedOut(req) == req.age > MaxNodeProvisionTime

(* registerOrUpdateScaleUpNoLock *)
UpdatedRequest(req, delta) ==
  IF req.increase + delta <= 0 THEN NoRequest
  ELSE [increase |-> req.increase + delta, age |-> IF delta > 0 THEN 0 ELSE req.age]

(* updateScaleRequests followed by handleInstanceCreationErrors, in which  *)
(* unseen instances failed that the listing before did not know as failed. *)
RequestOutcomes(r, unseen) ==
  LET b0 == WithoutStale(backoff)
      finished == ~AreThereUpcoming(r, size)
      expired == request # NoRequest /\ ~finished /\ TimedOut(request)
      req1 == IF finished \/ expired THEN NoRequest ELSE request
      b1 == IF expired THEN AfterFailure(b0) ELSE b0
  IN  IF unseen # {} /\ IsScalingUp(r, size, req1)
        THEN [request |-> UpdatedRequest(req1, -Cardinality(unseen)),
              backoff |-> AfterFailure(b1)]
        ELSE [request |-> req1, backoff |-> b1]

(* Mutant of IncorrectSize: observed anew in every iteration.              *)
IncorrectSizeAnew(r) ==
  IF r # NoReadiness /\ ~(Registered(r) \in (size - (r.unregistered + r.longUnregistered))..size)
    THEN [current |-> Registered(r), expected |-> size, age |-> 0]
    ELSE NoIncorrect

(* updateIncorrectNodeGroupSizes *)
IncorrectSize(r) ==
  IF r # NoReadiness /\ ~(Registered(r) \in (size - (r.unregistered + r.longUnregistered))..size)
    THEN IF incorrect.current = Registered(r) /\ incorrect.expected = size
           THEN incorrect
           ELSE [current |-> Registered(r), expected |-> size, age |-> 0]
    ELSE NoIncorrect

(* Recalculate, with the request as it is after the step. *)
Recalculate == acceptable' = AcceptableRange(targetSize', readiness, request')

-----------------------------------------------------------------------------
(* The parts of an iteration. *)

Goto(next) == pc' = next

(* The iteration begins and lists the nodes; time has passed. *)
StartIteration ==
  /\ pc = "start"
  /\ Goto("listed")
  /\ listed' = [ready |-> NodesIn("ready"), notready |-> NodesIn("notready")]
  /\ NodesGetOlder
  /\ unregistered' = [i \in Instances |->
       IF unregistered[i] = NotTracked THEN NotTracked ELSE Older(unregistered[i])]
  /\ incorrect' = IF incorrect = NoIncorrect THEN incorrect
                  ELSE [incorrect EXCEPT !.age = Older(@)]
  /\ request' = IF request = NoRequest THEN request ELSE [request EXCEPT !.age = Older(@)]
  /\ backoff' = Later(backoff)
  /\ UNCHANGED <<targetSize, instance, node, cacheVars, failed, readiness, acceptable,
                 size, toRemove, scaleUps>>

(* The end of an iteration, whatever it has come to. *)
EndIteration ==
  /\ Goto("start")
  /\ listed' = NoNodes
  /\ size' = 0
  /\ toRemove' = {}

(* UpdateNodes up to the instances: the target size, and the entry of a    *)
(* group that is scaling up is dropped from the cache.                     *)
GetTargetSizes ==
  /\ pc = "listed"
  /\ Goto("update")
  /\ size' = targetSize
  /\ IF IsScalingUp(readiness, acceptable.currentTarget, request)
       THEN Invalidate
       ELSE UNCHANGED cached
  /\ UNCHANGED <<groupVars, fetched, registryVars, listed, toRemove, scaleUps>>

UpdateNodes ==
  /\ pc = "update"
  /\ Goto("unregistered")
  /\ \E listing \in cached \union {Nodes} :
       /\ GetInstances(listing)
       /\ LET tracked == Tracked(listing)
              r == ReadinessOf(tracked)
              outcome == RequestOutcomes(r, listing.failed \ failed)
          IN  /\ failed' = listing.failed
              /\ unregistered' = tracked
              /\ readiness' = r
              /\ request' = outcome.request
              /\ backoff' = outcome.backoff
              /\ acceptable' = AcceptableRange(size, r, outcome.request)
              /\ incorrect' = IncorrectSize(r)
  /\ listed' = NoNodes
  /\ size' = 0
  /\ UNCHANGED <<groupVars, fetched, toRemove, scaleUps>>

UpdateFails ==
  /\ pc \in {"listed", "update"}
  /\ pc = "listed" => CloudFails
  /\ pc = "update" => GetFails
  /\ EndIteration
  /\ UNCHANGED <<groupVars, cacheVars, registryVars, scaleUps>>

(* S is a choice that removeOldUnregisteredNodes makes of the nodes that   *)
(* have been unregistered for too long: all, or as many as MinSize allows. *)
OldUnregistered(S) ==
  LET old == {i \in Instances : unregistered[i] > MaxNodeProvisionTime}
      possible == targetSize - MinSize
  IN  /\ S \subseteq old
      /\ Cardinality(S) = IF possible <= 0 THEN 0
                          ELSE IF Cardinality(old) > possible THEN possible
                          ELSE Cardinality(old)

SelectOldUnregistered ==
  /\ pc = "unregistered"
  /\ \E S \in SUBSET Instances :
       /\ OldUnregistered(S)
       /\ toRemove' = S
       /\ Goto(IF S = {} THEN "healthcheck" ELSE "remove")
  /\ UNCHANGED <<groupVars, cacheVars, registryVars, listed, size, scaleUps>>

(* The call of DeleteNodes for them.  An error is logged, and the entry of *)
(* the cache is dropped in either case.                                    *)
RemoveOldUnregistered ==
  /\ pc = "remove"
  /\ Goto("healthcheck")
  /\ \/ DeleteNodes(toRemove)
     \/ (CloudFails \/ ~CanDelete(toRemove)) /\ UNCHANGED groupVars
  /\ Invalidate
  /\ toRemove' = {}
  /\ UNCHANGED <<fetched, registryVars, listed, size, scaleUps>>

(* An unhealthy cluster is left alone. *)
Unhealthy ==
  /\ pc = "healthcheck"
  /\ ~IsClusterHealthy
  /\ EndIteration
  /\ UNCHANGED <<groupVars, cacheVars, registryVars, scaleUps>>

(* deleteCreatedNodesWithErrors, which is tried in each iteration. *)
DeleteCreatedNodesWithErrors ==
  /\ pc = "healthcheck"
  /\ IsClusterHealthy
  /\ Goto("fix")
  /\ \/ /\ failed # {}
        /\ DeleteNodes(failed)
        /\ Invalidate
        /\ UNCHANGED request
        /\ Recalculate
     \/ /\ failed = {} \/ CloudFails \/ ~CanDelete(failed)
        /\ UNCHANGED <<groupVars, cached, acceptable, request>>
  /\ UNCHANGED <<fetched, failed, unregistered, readiness, incorrect, backoff,
                 iterationVars, scaleUps>>

(* What fixNodeGroupSize has to do. *)
Excess == incorrect.expected - incorrect.current
FixIsDue == incorrect.age > MaxNodeProvisionTime /\ Excess > 0

NothingToFix ==
  /\ pc = "fix"
  /\ ~FixIsDue
  /\ Goto("scaleup")
  /\ UNCHANGED <<groupVars, cacheVars, registryVars, iterationVars, scaleUps>>

(* fixNodeGroupSize ends the iteration, whether it succeeds or not. *)
FixNodeGroupSize ==
  /\ pc = "fix"
  /\ FixIsDue
  /\ EndIteration
  /\ \/ DecreaseTargetSize(-Excess)
     \/ (CloudFails \/ ~CanDecrease(-Excess)) /\ UNCHANGED groupVars
  /\ UNCHANGED <<cacheVars, registryVars, scaleUps>>

SafeToScale == IsGroupHealthy /\ ~IsBackedOff(backoff)

NoScaleUp ==
  /\ pc = "scaleup"
  /\ EndIteration
  /\ UNCHANGED <<groupVars, cacheVars, registryVars, scaleUps>>

(* ScaleUp for pods that nothing is known of, executed for this group. *)
ScaleUp ==
  /\ pc = "scaleup"
  /\ SafeToScale
  /\ scaleUps < MaxScaleUps
  /\ scaleUps' = scaleUps + 1
  /\ \E delta \in 1..(MaxSize - targetSize) :
       \/ /\ IncreaseSize(delta)
          /\ request' = UpdatedRequest(request, delta)
          /\ UNCHANGED backoff
          /\ Recalculate
       \/ /\ CloudFails
          /\ backoff' = AfterFailure(backoff)
          /\ UNCHANGED <<groupVars, request, acceptable>>
  /\ EndIteration
  /\ UNCHANGED <<cacheVars, failed, unregistered, readiness, incorrect>>

-----------------------------------------------------------------------------
Init ==
  /\ GroupInit
  /\ CacheInit
  /\ BackoffInit
  /\ pc = "start"
  /\ listed = NoNodes
  /\ size = 0
  /\ toRemove = {}
  /\ failed = {}
  /\ unregistered = [i \in Instances |-> NotTracked]
  /\ readiness = NoReadiness
  /\ acceptable = [minNodes |-> 0, currentTarget |-> 0]
  /\ incorrect = NoIncorrect
  /\ request = NoRequest
  /\ scaleUps = 0

RunOnce ==
  \/ StartIteration \/ GetTargetSizes \/ UpdateNodes \/ UpdateFails
  \/ SelectOldUnregistered \/ RemoveOldUnregistered
  \/ Unhealthy \/ DeleteCreatedNodesWithErrors
  \/ NothingToFix \/ FixNodeGroupSize \/ NoScaleUp \/ ScaleUp

Background ==
  \/ GroupStep /\ UNCHANGED cacheVars
  \/ (RefreshAsks \/ RefreshStores) /\ UNCHANGED groupVars

Next ==
  \/ RunOnce
  \/ Background /\ UNCHANGED <<registryVars, iterationVars, pc, scaleUps>>

Spec == Init /\ [][Next]_vars

(* The loop goes on, the goroutine of the cache does, and a call that may  *)
(* fail does not fail forever.                                             *)
Fairness ==
  /\ WF_vars(RunOnce)
  /\ SF_vars(GetTargetSizes)
  /\ SF_vars(UpdateNodes)
  /\ SF_vars(RemoveOldUnregistered /\ DeleteNodes(toRemove))
  /\ SF_vars(DeleteCreatedNodesWithErrors /\ DeleteNodes(failed))
  /\ SF_vars(FixNodeGroupSize /\ DecreaseTargetSize(-Excess))
  /\ WF_vars((RefreshAsks \/ RefreshStores) /\ UNCHANGED <<groupVars, registryVars, iterationVars, pc, scaleUps>>)

FairSpec == Spec /\ Fairness

-----------------------------------------------------------------------------
(* No instance exists that the target size does not cover: whatever the    *)
(* loop and the actuator delete or give up at the same time, the provider  *)
(* has no reason to delete an instance of its own accord (the promise of   *)
(* DecreaseTargetSize).                                                    *)
TargetCoversInstances == Cardinality(Existing) <= targetSize

(* The registry is well formed, and the target size covers all instances. *)
RegistryInvariant == RegistryTypeOK /\ TargetCoversInstances

(* An instance that runs without a node is removed in the end, unless its  *)
(* node registers (FAQ.md: "It will also attempt to remove any nodes left  *)
(* unregistered after this time").                                         *)
UnregisteredRemoved ==
  \A i \in Instances :
    instance[i] = "running" /\ node[i] = "absent"
      ~> instance[i] # "running" \/ node[i] # "absent"

(* An instance whose creation failed is deleted in the end, so that it     *)
(* does not use up the group's size (deleteCreatedNodesWithErrors).        *)
FailedDeleted ==
  \A i \in Instances : instance[i] = "failed" ~> instance[i] # "failed"

(* A scale-up request does not stay: all its nodes come, or it times out.  *)
RequestResolved == request # NoRequest ~> request = NoRequest

(* When fewer nodes than the target size asks for are seen for long, the   *)
(* difference goes away: nodes come, or fixNodeGroupSize gives them up.    *)
SizeIsFixed == Excess > 0 ~> Excess <= 0

(* The last four are what comments and documentation suggest, but the code *)
(* does not keep them; README, section 4, has the constants and the steps. *)

(* Not kept: a request that UpdateNodes takes for finished has brought as  *)
(* many nodes as the target size asks for.  Nodes being deleted count, too *)
(* (line 297), and may stand in for one that has not come.                 *)
FinishedMeansArrived ==
  [][(pc = "update" /\ pc' = "unregistered" /\ request # NoRequest /\ request' = NoRequest
        /\ ~TimedOut(request) /\ failed' \subseteq failed)
       => readiness'.ready + readiness'.unready >= size]_vars

(* Not kept: where a scale-up is decided, no instance that is on its way   *)
(* is missing from the upcoming nodes.  They are the difference of a size  *)
(* read again by Recalculate and node counts of UpdateNodes (line 1052).   *)
OnTheirWay ==
  InState("creating") \union
  {i \in InState("running") : node[i] = "absent" /\ unregistered[i] <= MaxNodeProvisionTime}

UpcomingNotUnderestimated == pc = "scaleup" => UpcomingNodes >= Cardinality(OnTheirWay)

(* Not kept: the autoscaler keeps a group from falling below its minimum.  *)
(* Failed instances are deleted whatever their number.                     *)
TargetWithinLimits == targetSize \in MinSize..MaxSize

(* Not kept: a target size that the instances never reach is corrected.  A *)
(* group without nodes has no readiness and is skipped (line 745).         *)
TargetReached == targetSize > Cardinality(Existing) ~> targetSize = Cardinality(Existing)

=============================================================================
