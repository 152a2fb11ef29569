-------------------------- MODULE ClusterStateProofs --------------------------
(***************************************************************************)
(* Proofs about ClusterState and ExponentialBackoff, for any instances,    *)
(* sizes, times and percentages: the target size covers the instances      *)
(* whatever the loop and the actuator delete at the same time, and a group *)
(* that is backed off stays so.                                            *)
(***************************************************************************)
EXTENDS ClusterState, FiniteSetTheorems, TLAPS

-----------------------------------------------------------------------------
(* The inductive invariant, by component.                                  *)

GroupInv == GroupTypeOK /\ TargetCoversInstances

AtMostOne(S) == {{}} \cup {{x} : x \in S}
CacheInv == cached \in AtMostOne(Listings) /\ fetched \in AtMostOne(Listings)

Readinesses == [ready : NodeNumbers, unready : NodeNumbers, deleted : NodeNumbers,
                notStarted : NodeNumbers, unregistered : NodeNumbers,
                longUnregistered : NodeNumbers]
Ranges == [minNodes : Int, currentTarget : 0..MaxSize]
Requests == [increase : Nat, age : 0..TooLong]
IncorrectSizes == [current : NodeNumbers, expected : 0..MaxSize, age : 0..TooLong]

(* What the loop works with: no node is listed both as ready and as not    *)
(* ready.                                                                  *)
IterationInv ==
  /\ pc \in {"start", "listed", "update", "unregistered", "remove", "healthcheck", "fix", "scaleup"}
  /\ listed \in [ready : SUBSET Instances, notready : SUBSET Instances]
  /\ listed.ready \cap listed.notready = {}
  /\ size \in 0..MaxSize
  /\ toRemove \in SUBSET Instances

(* What the registry keeps: every scale-up requests at most MaxSize.       *)
RegistryTypes ==
  /\ failed \in SUBSET Instances
  /\ unregistered \in [Instances -> NotTracked..TooLong]
  /\ readiness \in Readinesses
  /\ acceptable \in Ranges
  /\ incorrect \in IncorrectSizes
  /\ request \in Requests
  /\ request.increase <= MaxSize * scaleUps
  /\ scaleUps \in 0..MaxScaleUps

RegistryInv == GroupInv /\ CacheInv /\ BackoffTypeOK /\ IterationInv /\ RegistryTypes

-----------------------------------------------------------------------------
(* Counting instances.                                                     *)

LEMMA InstanceCount ==
  ASSUME NEW S \in SUBSET Instances
  PROVE  /\ IsFiniteSet(S) /\ Cardinality(S) \in Nat /\ Cardinality(S) \in NodeNumbers
         /\ Cardinality(Instances) \in Nat
         /\ \A T \in SUBSET S : Cardinality(T) <= Cardinality(S)
<1>1. IsFiniteSet(Instances)
  BY GroupAssumption
<1>2. /\ IsFiniteSet(S) /\ Cardinality(S) <= Cardinality(Instances)
      /\ \A T \in SUBSET S : Cardinality(T) <= Cardinality(S)
  BY <1>1, FS_Subset
<1> QED
  BY <1>1, <1>2, FS_CardinalityType DEF NodeNumbers

LEMMA RestCount ==
  ASSUME NEW S \in SUBSET Instances, NEW T \in SUBSET S
  PROVE  Cardinality(S \ T) = Cardinality(S) - Cardinality(T)
<1>1. IsFiniteSet(S) /\ S \cap T = T
  BY InstanceCount
<1>2. Cardinality(S \ T) = Cardinality(S) - Cardinality(S \cap T)
  BY <1>1, FS_Difference
<1> QED
  BY <1>1, <1>2

(* Four parts of the instances that have none in common. *)
LEMMA PartsCount ==
  ASSUME NEW A \in SUBSET Instances, NEW B \in SUBSET Instances,
         NEW C \in SUBSET Instances, NEW D \in SUBSET Instances,
         A \cap B = {}, A \cap C = {}, A \cap D = {}, B \cap C = {}, B \cap D = {}, C \cap D = {}
  PROVE  Cardinality(A) + Cardinality(B) + Cardinality(C) + Cardinality(D) \in NodeNumbers
<1> DEFINE rest1 == Instances \ A
           rest2 == rest1 \ B
           rest3 == rest2 \ C
<1>1. /\ rest1 \in SUBSET Instances /\ rest2 \in SUBSET Instances /\ rest3 \in SUBSET Instances
      /\ B \in SUBSET rest1 /\ C \in SUBSET rest2 /\ D \in SUBSET rest3
  OBVIOUS
<1>2. /\ Cardinality(rest1) = Cardinality(Instances) - Cardinality(A)
      /\ Cardinality(rest2) = Cardinality(rest1) - Cardinality(B)
      /\ Cardinality(rest3) = Cardinality(rest2) - Cardinality(C)
  BY <1>1, RestCount
<1>3. Cardinality(D) <= Cardinality(rest3)
  BY <1>1, InstanceCount
<1>4. /\ Cardinality(A) \in Nat /\ Cardinality(B) \in Nat
      /\ Cardinality(C) \in Nat /\ Cardinality(D) \in Nat /\ Cardinality(Instances) \in Nat
      /\ Cardinality(rest1) \in Nat /\ Cardinality(rest2) \in Nat /\ Cardinality(rest3) \in Nat
  BY <1>1, InstanceCount
<1> HIDE DEF rest1, rest2, rest3
<1> QED
  BY <1>2, <1>3, <1>4 DEF NodeNumbers

-----------------------------------------------------------------------------
(* The operations of the provider keep the instances covered.              *)

(* No step but a creation makes more instances exist. *)
LEMMA FewerExist ==
  ASSUME GroupInv, GroupTypeOK', targetSize' = targetSize, Existing' \subseteq Existing
  PROVE  GroupInv'
<1>1. Existing \in SUBSET Instances /\ Existing' \in SUBSET Existing
  BY DEF Existing, InState
<1>2. Cardinality(Existing') <= Cardinality(Existing)
  BY <1>1, InstanceCount
<1>3. Cardinality(Existing) \in Nat /\ Cardinality(Existing') \in Nat
  BY <1>1, InstanceCount
<1> QED
  BY <1>2, <1>3 DEF GroupInv, GroupTypeOK, TargetCoversInstances

LEMMA DeleteNodesCovers ==
  ASSUME GroupInv, NEW S, DeleteNodes(S)
  PROVE  GroupInv'
<1>1. /\ S \in SUBSET Existing /\ Existing \in SUBSET Instances /\ S \in SUBSET Instances
  BY DEF DeleteNodes, CanDelete, Existing, InState
<1>2. /\ targetSize' = targetSize - Cardinality(S)
      /\ instance' = [i \in Instances |-> IF i \in S THEN "deleted" ELSE instance[i]]
      /\ UNCHANGED <<node, nodeAge>>
  BY DEF DeleteNodes
<1>3. Existing' = Existing \ S
  BY <1>2 DEF Existing, InState
<1>4. Cardinality(Existing') = Cardinality(Existing) - Cardinality(S)
  BY <1>1, <1>3, RestCount
<1>5. /\ Cardinality(S) \in Nat /\ Cardinality(Existing) \in Nat
      /\ Cardinality(S) <= Cardinality(Existing)
      /\ Cardinality(Existing) <= targetSize /\ targetSize \in 0..MaxSize /\ MaxSize \in Nat
  BY <1>1, InstanceCount, GroupAssumption DEF GroupInv, GroupTypeOK, TargetCoversInstances
<1>6. targetSize' \in 0..MaxSize /\ Cardinality(Existing') <= targetSize'
  BY <1>2, <1>4, <1>5
<1>7. GroupTypeOK'
  BY <1>2, <1>6 DEF GroupInv, GroupTypeOK, InstanceStates
<1> QED
  BY <1>6, <1>7 DEF GroupInv, TargetCoversInstances

(* A size that changes but stays between the instances and the maximum.    *)
LEMMA SizeChangeCovers ==
  ASSUME GroupInv, targetSize' \in Int, targetSize' <= MaxSize,
         targetSize' >= Cardinality(Existing), UNCHANGED <<instance, node, nodeAge>>
  PROVE  GroupInv'
<1>1. Existing' = Existing /\ Existing \in SUBSET Instances
  BY DEF Existing, InState
<1>2. Cardinality(Existing) \in Nat /\ MaxSize \in Nat
  BY <1>1, InstanceCount, GroupAssumption
<1> QED
  BY <1>1, <1>2 DEF GroupInv, GroupTypeOK, TargetCoversInstances

LEMMA GroupUnchanged ==
  ASSUME GroupInv, UNCHANGED groupVars
  PROVE  GroupInv'
BY DEF GroupInv, GroupTypeOK, TargetCoversInstances, groupVars, Existing, InState

LEMMA GroupStepCovers ==
  ASSUME GroupInv, GroupStep
  PROVE  GroupInv'
<1>1. PICK i \in Instances :
        \/ CreateInstance(i) \/ CreationFails(i) \/ InstanceRuns(i) \/ Preempt(i)
        \/ Register(i) \/ NodeReady(i) \/ NodeBreaks(i) \/ NodeGoes(i)
        \/ ScaleDown(i)
  BY DEF GroupStep
<1>2. GroupTypeOK
  BY DEF GroupInv
<1>3. CASE CreateInstance(i)
  <2>1. /\ instance' = [instance EXCEPT ![i] = "creating"] /\ instance[i] = "unused"
        /\ UNCHANGED <<targetSize, node, nodeAge>>
        /\ Cardinality(Existing) < targetSize
    BY <1>3 DEF CreateInstance, Becomes
  <2>2. GroupTypeOK'
    BY <1>2, <2>1 DEF GroupTypeOK, InstanceStates
  <2>3. Existing \in SUBSET Instances /\ i \notin Existing /\ Existing' = Existing \cup {i}
    BY <1>2, <2>1 DEF GroupTypeOK, Existing, InState
  <2>4. Cardinality(Existing') = Cardinality(Existing) + 1
    BY <2>3, InstanceCount, FS_AddElement
  <2>5. Cardinality(Existing) \in Nat
    BY <2>3, InstanceCount
  <2> QED
    BY <1>2, <2>1, <2>2, <2>4, <2>5 DEF GroupInv, GroupTypeOK, TargetCoversInstances
<1>4. CASE CreationFails(i) \/ InstanceRuns(i) \/ Preempt(i)
  <2>1. /\ \E s \in {"failed", "running", "preempted"} : instance' = [instance EXCEPT ![i] = s]
        /\ instance[i] \in {"creating", "running"}
        /\ UNCHANGED <<targetSize, node, nodeAge>>
    BY <1>4 DEF CreationFails, InstanceRuns, Preempt, Becomes
  <2>2. GroupTypeOK'
    BY <1>2, <2>1 DEF GroupTypeOK, InstanceStates
  <2>3. Existing' \subseteq Existing
    BY <1>2, <2>1 DEF GroupTypeOK, Existing, InState
  <2> QED
    BY <2>1, <2>2, <2>3, FewerExist
<1>5. CASE Register(i) \/ NodeReady(i) \/ NodeBreaks(i) \/ NodeGoes(i)
  <2>1. \E s \in {"absent", "notready", "ready"}, age \in 0..StartupTime : NodeBecomes(i, s, age)
    <3>1. nodeAge[i] \in 0..StartupTime /\ 0 \in 0..StartupTime /\ StartupTime \in 0..StartupTime
      BY <1>2, GroupAssumption DEF GroupTypeOK
    <3> QED
      BY <1>5, <3>1 DEF Register, NodeReady, NodeBreaks, NodeGoes
  <2>2. GroupTypeOK' /\ Existing' \subseteq Existing /\ targetSize' = targetSize
    BY <1>2, <2>1 DEF NodeBecomes, GroupTypeOK, Existing, InState
  <2> QED
    BY <2>2, FewerExist
<1>6. CASE ScaleDown(i)
  BY <1>6, DeleteNodesCovers DEF ScaleDown
<1> QED
  BY <1>1, <1>3, <1>4, <1>5, <1>6

-----------------------------------------------------------------------------
(* The backoff of a group.                                                 *)

LEMMA BackoffTypes ==
  ASSUME NEW e \in BackoffEntries \cup {NoBackoff}
  PROVE  /\ AfterFailure(e) \in BackoffEntries
         /\ WithoutStale(e) \in BackoffEntries \cup {NoBackoff}
         /\ Later(e) \in BackoffEntries \cup {NoBackoff}
<1>1. NextDuration(e) \in InitialBackoff..MaxBackoff
  BY BackoffAssumption DEF BackoffEntries, NoBackoff, NextDuration, NoMoreThan
<1>2. AfterFailure(e) \in BackoffEntries
  BY <1>1, BackoffAssumption DEF AfterFailure, BackoffEntries
<1>3. Later(e) \in BackoffEntries \cup {NoBackoff}
  BY BackoffAssumption DEF BackoffEntries, NoBackoff, Later, NoMoreThan
<1> QED
  BY <1>2, <1>3 DEF WithoutStale

-----------------------------------------------------------------------------
(* What UpdateNodes computes.                                              *)

LEMMA TimeBounds ==
  /\ TooLong \in Nat /\ TooLong >= 1 /\ MaxNodeProvisionTime \in Nat /\ MaxSize \in Nat /\ MaxScaleUps \in Nat
  /\ \A age \in NotTracked..TooLong : age # NotTracked => Older(age) \in 0..TooLong
BY RegistryAssumption, GroupAssumption DEF TooLong, NotTracked, Older

LEMMA ListingTypes ==
  ASSUME CacheInv, NEW listing \in cached \cup {Nodes}, GetInstances(listing)
  PROVE  listing \in Listings /\ cached' \in AtMostOne(Listings)
<1>1. Nodes \in Listings
  BY DEF Nodes, Listings, Existing, InState
<1>2. listing \in Listings
  BY <1>1 DEF CacheInv, AtMostOne
<1>3. CASE cached # {}
  BY <1>2, <1>3 DEF GetInstances, CacheInv
<1>4. CASE cached = {}
  BY <1>2, <1>4 DEF GetInstances, AtMostOne
<1> QED
  BY <1>2, <1>3, <1>4

LEMMA TrackedTypes ==
  ASSUME RegistryTypes, NEW listing \in Listings
  PROVE  Tracked(listing) \in [Instances -> NotTracked..TooLong]
BY TimeBounds DEF RegistryTypes, Tracked, NotTracked

(* The numbers of nodes of a group are those of disjoint sets.             *)
LEMMA ReadinessTypes ==
  ASSUME IterationInv, NEW tracked \in [Instances -> NotTracked..TooLong]
  PROVE  /\ ReadinessOf(tracked) \in Readinesses
         /\ Registered(ReadinessOf(tracked)) \in NodeNumbers
<1> DEFINE deleted == {i \in listed.ready \cup listed.notready : instance[i] = "deleted"}
           starting == {i \in listed.notready \ deleted : nodeAge[i] < StartupTime}
           long == {i \in Instances : tracked[i] > MaxNodeProvisionTime}
           ready == listed.ready \ deleted
           unready == (listed.notready \ deleted) \ starting
           notLong == {i \in Instances : tracked[i] # NotTracked} \ long
<1>1. /\ listed.ready \in SUBSET Instances /\ listed.notready \in SUBSET Instances
      /\ listed.ready \cap listed.notready = {}
  BY DEF IterationInv
<1>2. /\ deleted \in SUBSET Instances /\ starting \in SUBSET Instances
      /\ long \in SUBSET Instances /\ ready \in SUBSET Instances
      /\ unready \in SUBSET Instances /\ notLong \in SUBSET Instances
  BY <1>1
<1>3. /\ Cardinality(deleted) \in NodeNumbers /\ Cardinality(starting) \in NodeNumbers
      /\ Cardinality(long) \in NodeNumbers /\ Cardinality(ready) \in NodeNumbers
      /\ Cardinality(unready) \in NodeNumbers /\ Cardinality(notLong) \in NodeNumbers
  BY <1>2, InstanceCount
<1>4. /\ ready \cap unready = {} /\ ready \cap deleted = {} /\ ready \cap starting = {}
      /\ unready \cap deleted = {} /\ unready \cap starting = {} /\ deleted \cap starting = {}
  BY <1>1
<1>5. Cardinality(ready) + Cardinality(unready) + Cardinality(deleted) + Cardinality(starting)
        \in NodeNumbers
  BY <1>2, <1>4, PartsCount
<1>6. ReadinessOf(tracked) =
        [ready |-> Cardinality(ready), unready |-> Cardinality(unready),
         deleted |-> Cardinality(deleted), notStarted |-> Cardinality(starting),
         unregistered |-> Cardinality(notLong), longUnregistered |-> Cardinality(long)]
  BY DEF ReadinessOf
<1> HIDE DEF deleted, starting, long, ready, unready, notLong
<1> QED
  BY <1>3, <1>5, <1>6 DEF Readinesses, Registered

LEMMA RequestTypes ==
  ASSUME NEW req \in Requests, NEW delta \in Int
  PROVE  /\ UpdatedRequest(req, delta) \in Requests /\ NoRequest \in Requests
         /\ delta >= 0 => UpdatedRequest(req, delta).increase <= req.increase + delta
         /\ delta <= 0 => UpdatedRequest(req, delta).increase <= req.increase
<1>1. 0 \in 0..TooLong /\ NoRequest \in Requests /\ NoRequest.increase = 0
  BY TimeBounds DEF NoRequest, Requests
<1>2. CASE req.increase + delta <= 0
  BY <1>1, <1>2 DEF UpdatedRequest, Requests
<1>3. CASE ~(req.increase + delta <= 0)
  <2>1. UpdatedRequest(req, delta) =
          [increase |-> req.increase + delta, age |-> IF delta > 0 THEN 0 ELSE req.age]
    BY <1>3 DEF UpdatedRequest
  <2>2. req.increase + delta \in Nat
    BY <1>3 DEF Requests
  <2> QED
    BY <1>1, <2>1, <2>2 DEF Requests
<1> QED
  BY <1>1, <1>2, <1>3

LEMMA OutcomeTypes ==
  ASSUME RegistryTypes, BackoffTypeOK, NEW r, NEW unseen \in SUBSET Instances
  PROVE  /\ RequestOutcomes(r, unseen).request \in Requests
         /\ RequestOutcomes(r, unseen).request.increase <= request.increase
         /\ RequestOutcomes(r, unseen).backoff \in BackoffEntries \cup {NoBackoff}
<1> DEFINE b0 == WithoutStale(backoff)
           finished == ~AreThereUpcoming(r, size)
           expired == request # NoRequest /\ ~finished /\ TimedOut(request)
           req1 == IF finished \/ expired THEN NoRequest ELSE request
           b1 == IF expired THEN AfterFailure(b0) ELSE b0
<1>1. b0 \in BackoffEntries \cup {NoBackoff}
  BY BackoffTypes DEF BackoffTypeOK
<1>2. b1 \in BackoffEntries \cup {NoBackoff}
  BY <1>1, BackoffTypes
<1>3. AfterFailure(b1) \in BackoffEntries
  BY <1>2, BackoffTypes
<1>4. request \in Requests
  BY DEF RegistryTypes
<1>5. NoRequest \in Requests /\ NoRequest.increase = 0 /\ 0 \in Int
  BY <1>4, RequestTypes DEF NoRequest
<1>6. req1 \in Requests /\ req1.increase <= request.increase
  BY <1>4, <1>5 DEF Requests
<1>7. Cardinality(unseen) \in Nat
  BY InstanceCount
<1>8. /\ UpdatedRequest(req1, -Cardinality(unseen)) \in Requests
      /\ UpdatedRequest(req1, -Cardinality(unseen)).increase <= req1.increase
  <2>1. -Cardinality(unseen) \in Int /\ -Cardinality(unseen) <= 0
    BY <1>7
  <2>2. req1 \in Requests
    BY <1>6
  <2> HIDE DEF req1
  <2> QED
    BY <2>1, <2>2, RequestTypes
<1>9. RequestOutcomes(r, unseen) =
        IF unseen # {} /\ IsScalingUp(r, size, req1)
          THEN [request |-> UpdatedRequest(req1, -Cardinality(unseen)), backoff |-> AfterFailure(b1)]
          ELSE [request |-> req1, backoff |-> b1]
  BY DEF RequestOutcomes
<1> HIDE DEF req1, b1
<1>10. UpdatedRequest(req1, -Cardinality(unseen)).increase <= request.increase
  BY <1>4, <1>6, <1>8 DEF Requests
<1> QED
  BY <1>2, <1>3, <1>6, <1>8, <1>9, <1>10

LEMMA RangeTypes ==
  ASSUME NEW target \in 0..MaxSize, NEW r \in Readinesses, NEW req \in Requests
  PROVE  AcceptableRange(target, r, req) \in Ranges
<1>1. /\ target \in Int /\ req.increase \in Int
      /\ r.longUnregistered \in NodeNumbers
  BY DEF Readinesses, Requests
<1>2. r.longUnregistered \in Int
  BY <1>1 DEF NodeNumbers
<1> QED
  BY <1>1, <1>2 DEF AcceptableRange, Ranges

LEMMA IncorrectTypes ==
  ASSUME IterationInv, RegistryTypes, NEW r \in Readinesses, Registered(r) \in NodeNumbers
  PROVE  IncorrectSize(r) \in IncorrectSizes
<1>1. 0 \in NodeNumbers /\ 0 \in 0..MaxSize /\ 0 \in 0..TooLong
  <2>1. Cardinality(Instances) \in Nat
    BY InstanceCount
  <2> QED
    BY <2>1, TimeBounds DEF NodeNumbers
<1>2. incorrect \in IncorrectSizes /\ size \in 0..MaxSize
  BY DEF IterationInv, RegistryTypes
<1>3. NoIncorrect \in IncorrectSizes
  BY <1>1 DEF NoIncorrect, IncorrectSizes
<1>4. [current |-> Registered(r), expected |-> size, age |-> 0] \in IncorrectSizes
  BY <1>1, <1>2 DEF IncorrectSizes
<1>5. IncorrectSize(r) \in
        {incorrect, NoIncorrect, [current |-> Registered(r), expected |-> size, age |-> 0]}
  BY Zenon DEF IncorrectSize
<1> QED
  BY <1>2, <1>3, <1>4, <1>5

-----------------------------------------------------------------------------
(* The parts of an iteration.                                              *)

LEMMA EndOfIteration ==
  ASSUME EndIteration
  PROVE  IterationInv'
<1>1. 0 \in 0..MaxSize
  BY TimeBounds
<1> QED
  BY <1>1 DEF EndIteration, Goto, NoNodes, IterationInv

LEMMA RegistryUnchanged ==
  ASSUME RegistryTypes, BackoffTypeOK, UNCHANGED <<registryVars, scaleUps>>
  PROVE  RegistryTypes' /\ BackoffTypeOK'
BY DEF RegistryTypes, BackoffTypeOK, registryVars

LEMMA CacheUnchanged ==
  ASSUME CacheInv, UNCHANGED fetched, Invalidate \/ UNCHANGED cached
  PROVE  CacheInv'
BY DEF CacheInv, AtMostOne, Invalidate

LEMMA StartIterationStep ==
  ASSUME RegistryInv, StartIteration
  PROVE  RegistryInv'
<1>1. GroupInv'
  <2>1. GroupTypeOK'
    BY GroupAssumption DEF RegistryInv, GroupInv, GroupTypeOK, StartIteration, NodesGetOlder
  <2>2. targetSize' = targetSize /\ Existing' \subseteq Existing
    BY DEF StartIteration, Existing, InState
  <2> QED
    BY <2>1, <2>2, FewerExist DEF RegistryInv
<1>2. CacheInv'
  BY CacheUnchanged DEF RegistryInv, StartIteration, cacheVars
<1>3. BackoffTypeOK'
  BY BackoffTypes DEF RegistryInv, BackoffTypeOK, StartIteration
<1>4. IterationInv'
  BY DEF RegistryInv, IterationInv, StartIteration, Goto, NodesIn
<1>5. RegistryTypes'
  <2>1. unregistered' \in [Instances -> NotTracked..TooLong]
    <3>1. /\ unregistered \in [Instances -> NotTracked..TooLong]
          /\ unregistered' = [i \in Instances |->
               IF unregistered[i] = NotTracked THEN NotTracked ELSE Older(unregistered[i])]
      BY DEF RegistryInv, RegistryTypes, StartIteration
    <3>2. \A t \in NotTracked..TooLong :
            (IF t = NotTracked THEN NotTracked ELSE Older(t)) \in NotTracked..TooLong
      BY TimeBounds DEF NotTracked
    <3> QED
      BY <3>1, <3>2
  <2>2. \A t \in 0..TooLong : Older(t) \in 0..TooLong
    BY TimeBounds DEF NotTracked
  <2>3. incorrect' \in IncorrectSizes
    BY <2>2 DEF RegistryInv, RegistryTypes, StartIteration, IncorrectSizes
  <2>4. request' \in Requests /\ request'.increase = request.increase
    BY <2>2 DEF RegistryInv, RegistryTypes, StartIteration, Requests
  <2> QED
    BY <2>1, <2>3, <2>4 DEF RegistryInv, RegistryTypes, StartIteration
<1> QED
  BY <1>1, <1>2, <1>3, <1>4, <1>5 DEF RegistryInv

LEMMA GetTargetSizesStep ==
  ASSUME RegistryInv, GetTargetSizes
  PROVE  RegistryInv'
<1>1. GroupInv'
  BY GroupUnchanged DEF RegistryInv, GetTargetSizes
<1>2. CacheInv'
  BY CacheUnchanged DEF RegistryInv, GetTargetSizes
<1>3. RegistryTypes' /\ BackoffTypeOK'
  BY RegistryUnchanged DEF RegistryInv, GetTargetSizes
<1>4. IterationInv'
  BY DEF RegistryInv, GroupInv, GroupTypeOK, IterationInv, GetTargetSizes, Goto
<1> QED
  BY <1>1, <1>2, <1>3, <1>4 DEF RegistryInv

LEMMA UpdateNodesStep ==
  ASSUME RegistryInv, UpdateNodes
  PROVE  RegistryInv'
<1> DEFINE r(listing) == ReadinessOf(Tracked(listing))
           outcome(listing) == RequestOutcomes(r(listing), listing.failed \ failed)
<1>1. PICK listing \in cached \cup {Nodes} :
        /\ GetInstances(listing)
        /\ failed' = listing.failed
        /\ unregistered' = Tracked(listing)
        /\ readiness' = r(listing)
        /\ request' = outcome(listing).request
        /\ backoff' = outcome(listing).backoff
        /\ acceptable' = AcceptableRange(size, r(listing), outcome(listing).request)
        /\ incorrect' = IncorrectSize(r(listing))
  BY Zenon DEF UpdateNodes
<1>2. /\ UNCHANGED <<groupVars, fetched, toRemove, scaleUps>>
      /\ listed' = NoNodes /\ size' = 0 /\ pc' = "unregistered"
  BY DEF UpdateNodes, Goto
<1>3. listing \in Listings /\ cached' \in AtMostOne(Listings)
  BY <1>1, ListingTypes DEF RegistryInv
<1>4. Tracked(listing) \in [Instances -> NotTracked..TooLong]
  BY <1>3, TrackedTypes DEF RegistryInv
<1>5. r(listing) \in Readinesses /\ Registered(r(listing)) \in NodeNumbers
  BY <1>4, ReadinessTypes DEF RegistryInv
<1>6. listing.failed \in SUBSET Instances /\ listing.failed \ failed \in SUBSET Instances
  BY <1>3 DEF Listings
<1>7. /\ outcome(listing).request \in Requests
      /\ outcome(listing).request.increase <= request.increase
      /\ outcome(listing).backoff \in BackoffEntries \cup {NoBackoff}
  BY <1>6, OutcomeTypes DEF RegistryInv
<1>8. AcceptableRange(size, r(listing), outcome(listing).request) \in Ranges
  BY <1>5, <1>7, RangeTypes DEF RegistryInv, IterationInv
<1>9. IncorrectSize(r(listing)) \in IncorrectSizes
  BY <1>5, IncorrectTypes DEF RegistryInv
<1> HIDE DEF r, outcome
<1>10. GroupInv'
  BY <1>2, GroupUnchanged DEF RegistryInv
<1>11. CacheInv'
  BY <1>2, <1>3 DEF RegistryInv, CacheInv
<1>12. BackoffTypeOK'
  BY <1>1, <1>7 DEF BackoffTypeOK
<1>13. IterationInv'
  BY <1>2, TimeBounds DEF RegistryInv, IterationInv, NoNodes
<1>14. RegistryTypes'
  <2>1. request' \in Requests /\ request'.increase <= MaxSize * scaleUps
    <3>1. /\ request \in Requests /\ request.increase <= MaxSize * scaleUps
          /\ scaleUps \in Nat /\ MaxSize \in Nat
      BY TimeBounds DEF RegistryInv, RegistryTypes
    <3>2. MaxSize * scaleUps \in Nat
      BY <3>1
    <3> QED
      BY <1>1, <1>7, <3>1, <3>2 DEF Requests
  <2> QED
    BY <1>1, <1>2, <1>4, <1>5, <1>6, <1>8, <1>9, <2>1 DEF RegistryInv, RegistryTypes
<1> QED
  BY <1>10, <1>11, <1>12, <1>13, <1>14 DEF RegistryInv

(* Steps after which the loop goes on, or not, without a change. *)
LEMMA QuietStep ==
  ASSUME RegistryInv,
         UpdateFails \/ SelectOldUnregistered \/ Unhealthy \/ NothingToFix \/ NoScaleUp
  PROVE  RegistryInv'
<1>1. UNCHANGED <<groupVars, cacheVars, registryVars, scaleUps>>
  BY DEF UpdateFails, SelectOldUnregistered, Unhealthy, NothingToFix, NoScaleUp
<1>2. GroupInv'
  BY <1>1, GroupUnchanged DEF RegistryInv
<1>3. CacheInv'
  BY <1>1, CacheUnchanged DEF RegistryInv, cacheVars
<1>4. RegistryTypes' /\ BackoffTypeOK'
  BY <1>1, RegistryUnchanged DEF RegistryInv
<1>5. IterationInv'
  <2>1. CASE EndIteration
    BY <2>1, EndOfIteration
  <2>2. CASE SelectOldUnregistered
    BY <2>2 DEF RegistryInv, IterationInv, SelectOldUnregistered, Goto
  <2>3. CASE NothingToFix
    BY <2>3 DEF RegistryInv, IterationInv, NothingToFix, Goto, iterationVars
  <2> QED
    BY <2>1, <2>2, <2>3 DEF UpdateFails, Unhealthy, NoScaleUp
<1> QED
  BY <1>2, <1>3, <1>4, <1>5 DEF RegistryInv

LEMMA RemoveOldUnregisteredStep ==
  ASSUME RegistryInv, RemoveOldUnregistered
  PROVE  RegistryInv'
<1>1. GroupInv'
  BY DeleteNodesCovers, GroupUnchanged DEF RegistryInv, RemoveOldUnregistered
<1>2. CacheInv'
  BY CacheUnchanged DEF RegistryInv, RemoveOldUnregistered
<1>3. RegistryTypes' /\ BackoffTypeOK'
  BY RegistryUnchanged DEF RegistryInv, RemoveOldUnregistered
<1>4. IterationInv'
  BY DEF RegistryInv, IterationInv, RemoveOldUnregistered, Goto
<1> QED
  BY <1>1, <1>2, <1>3, <1>4 DEF RegistryInv

LEMMA DeleteCreatedStep ==
  ASSUME RegistryInv, DeleteCreatedNodesWithErrors
  PROVE  RegistryInv'
<1>1. GroupInv'
  BY DeleteNodesCovers, GroupUnchanged DEF RegistryInv, DeleteCreatedNodesWithErrors
<1>2. CacheInv'
  BY CacheUnchanged DEF RegistryInv, DeleteCreatedNodesWithErrors
<1>3. /\ UNCHANGED <<failed, unregistered, readiness, incorrect, backoff, iterationVars, scaleUps>>
      /\ request' = request /\ pc' = "fix"
      /\ Recalculate \/ acceptable' = acceptable
  BY DEF DeleteCreatedNodesWithErrors, Goto
<1>4. acceptable' \in Ranges
  <2>1. targetSize' \in 0..MaxSize
    BY <1>1 DEF GroupInv, GroupTypeOK
  <2> QED
    BY <1>3, <2>1, RangeTypes DEF RegistryInv, RegistryTypes, Recalculate
<1>5. RegistryTypes' /\ BackoffTypeOK'
  BY <1>3, <1>4 DEF RegistryInv, RegistryTypes, BackoffTypeOK
<1>6. IterationInv'
  BY <1>3 DEF RegistryInv, IterationInv, iterationVars
<1> QED
  BY <1>1, <1>2, <1>5, <1>6 DEF RegistryInv

LEMMA FixNodeGroupSizeStep ==
  ASSUME RegistryInv, FixNodeGroupSize
  PROVE  RegistryInv'
<1>1. GroupInv'
  <2>1. Excess > 0 /\ Excess \in Int
    <3>1. incorrect.expected \in 0..MaxSize /\ incorrect.current \in NodeNumbers
      BY DEF RegistryInv, RegistryTypes, IncorrectSizes
    <3> QED
      BY <3>1 DEF FixNodeGroupSize, FixIsDue, Excess, NodeNumbers
  <2>2. ASSUME DecreaseTargetSize(-Excess)
        PROVE  GroupInv'
    <3>1. /\ targetSize' = targetSize + (-Excess) /\ targetSize' >= Cardinality(Existing)
          /\ UNCHANGED <<instance, node, nodeAge>>
      BY <2>2 DEF DecreaseTargetSize, CanDecrease
    <3>2. targetSize \in 0..MaxSize /\ MaxSize \in Nat
      BY TimeBounds DEF RegistryInv, GroupInv, GroupTypeOK
    <3>3. targetSize' \in Int /\ targetSize' <= MaxSize
      BY <2>1, <3>1, <3>2
    <3> QED
      BY <3>1, <3>3, SizeChangeCovers DEF RegistryInv
  <2> QED
    BY <2>2, GroupUnchanged DEF RegistryInv, FixNodeGroupSize
<1>2. CacheInv'
  BY CacheUnchanged DEF RegistryInv, FixNodeGroupSize, cacheVars
<1>3. RegistryTypes' /\ BackoffTypeOK'
  BY RegistryUnchanged DEF RegistryInv, FixNodeGroupSize
<1>4. IterationInv'
  BY EndOfIteration DEF FixNodeGroupSize
<1> QED
  BY <1>1, <1>2, <1>3, <1>4 DEF RegistryInv

LEMMA ScaleUpStep ==
  ASSUME RegistryInv, ScaleUp
  PROVE  RegistryInv'
<1>1. /\ UNCHANGED <<cacheVars, failed, unregistered, readiness, incorrect>>
      /\ scaleUps' = scaleUps + 1 /\ scaleUps < MaxScaleUps /\ EndIteration
  BY DEF ScaleUp
<1>2. PICK delta \in 1..(MaxSize - targetSize) :
        \/ /\ IncreaseSize(delta)
           /\ request' = UpdatedRequest(request, delta)
           /\ UNCHANGED backoff
           /\ Recalculate
        \/ /\ CloudFails
           /\ backoff' = AfterFailure(backoff)
           /\ UNCHANGED <<groupVars, request, acceptable>>
  BY DEF ScaleUp
<1>3. /\ targetSize \in 0..MaxSize /\ MaxSize \in Nat /\ delta \in Nat /\ delta <= MaxSize
      /\ scaleUps \in 0..MaxScaleUps /\ MaxScaleUps \in Nat
      /\ request \in Requests /\ request.increase <= MaxSize * scaleUps
  BY TimeBounds DEF RegistryInv, GroupInv, GroupTypeOK, RegistryTypes
<1>4. GroupInv'
  <2>1. ASSUME IncreaseSize(delta)
        PROVE  GroupInv'
    <3>1. /\ targetSize' = targetSize + delta /\ targetSize' <= MaxSize
          /\ UNCHANGED <<instance, node, nodeAge>>
      BY <2>1 DEF IncreaseSize
    <3>2. Cardinality(Existing) \in Nat /\ Cardinality(Existing) <= targetSize
      <4>1. Existing \in SUBSET Instances
        BY DEF Existing, InState
      <4> QED
        BY <4>1, InstanceCount DEF RegistryInv, GroupInv, TargetCoversInstances
    <3>3. targetSize' \in Int /\ targetSize' >= Cardinality(Existing)
      BY <1>3, <3>1, <3>2
    <3> QED
      BY <3>1, <3>3, SizeChangeCovers DEF RegistryInv
  <2> QED
    BY <1>2, <2>1, GroupUnchanged DEF RegistryInv
<1>5. BackoffTypeOK'
  BY <1>2, BackoffTypes DEF RegistryInv, BackoffTypeOK
<1>6. request' \in Requests /\ request'.increase <= MaxSize * scaleUps'
  <2>1. MaxSize * (scaleUps + 1) = MaxSize * scaleUps + MaxSize /\ MaxSize * scaleUps \in Nat
    BY <1>3
  <2>2. request' \in Requests /\ request'.increase <= request.increase + delta
    <3>1. delta \in Int /\ delta >= 0 /\ request \in Requests /\ request.increase \in Nat
      BY <1>3 DEF Requests
    <3>2. /\ UpdatedRequest(request, delta) \in Requests
          /\ UpdatedRequest(request, delta).increase <= request.increase + delta
      BY <3>1, RequestTypes
    <3>3. request' \in {request, UpdatedRequest(request, delta)}
      BY <1>2
    <3> QED
      BY <3>1, <3>2, <3>3
  <2>3. request.increase \in Nat /\ request'.increase \in Nat
    BY <1>3, <2>2 DEF Requests
  <2> QED
    BY <1>1, <1>3, <2>1, <2>2, <2>3
<1>7. acceptable' \in Ranges
  <2>1. targetSize' \in 0..MaxSize
    BY <1>4 DEF GroupInv, GroupTypeOK
  <2>2. readiness' \in Readinesses /\ readiness \in Readinesses
    BY <1>1 DEF RegistryInv, RegistryTypes
  <2> QED
    BY <1>2, <1>6, <2>1, <2>2, RangeTypes DEF RegistryInv, RegistryTypes, Recalculate
<1>8. RegistryTypes'
  BY <1>1, <1>3, <1>6, <1>7 DEF RegistryInv, RegistryTypes
<1>9. CacheInv'
  BY <1>1, CacheUnchanged DEF RegistryInv, cacheVars
<1>10. IterationInv'
  BY <1>1, EndOfIteration
<1> QED
  BY <1>4, <1>5, <1>8, <1>9, <1>10 DEF RegistryInv

(* The actuator, the kubelet, the provider and the goroutine of the cache. *)
LEMMA BackgroundStep ==
  ASSUME RegistryInv, Background, UNCHANGED <<registryVars, iterationVars, pc, scaleUps>>
  PROVE  RegistryInv'
<1>1. RegistryTypes' /\ BackoffTypeOK'
  BY RegistryUnchanged DEF RegistryInv
<1>2. IterationInv'
  BY DEF RegistryInv, IterationInv, iterationVars
<1>3. CASE GroupStep /\ UNCHANGED cacheVars
  <2>1. GroupInv'
    BY <1>3, GroupStepCovers DEF RegistryInv
  <2>2. CacheInv'
    BY <1>3, CacheUnchanged DEF RegistryInv, cacheVars
  <2> QED
    BY <1>1, <1>2, <2>1, <2>2 DEF RegistryInv
<1>4. CASE (RefreshAsks \/ RefreshStores) /\ UNCHANGED groupVars
  <2>1. GroupInv'
    BY <1>4, GroupUnchanged DEF RegistryInv
  <2>2. Nodes \in Listings /\ NilListing \in Listings
    BY DEF Nodes, NilListing, Listings, Existing, InState
  <2>3. CacheInv'
    BY <1>4, <2>2 DEF RegistryInv, CacheInv, AtMostOne, RefreshAsks, RefreshStores
  <2> QED
    BY <1>1, <1>2, <2>1, <2>3 DEF RegistryInv
<1> QED
  BY <1>3, <1>4 DEF Background

LEMMA InitIsSafe == Init => RegistryInv
<1> SUFFICES ASSUME Init PROVE RegistryInv
  OBVIOUS
<1>1. /\ 0 \in 0..MaxSize /\ 0 \in 0..TooLong /\ 0 \in 0..MaxScaleUps /\ 0 \in NodeNumbers
      /\ NotTracked \in NotTracked..TooLong /\ MaxSize * 0 = 0
  <2>1. Cardinality(Instances) \in Nat
    BY InstanceCount
  <2> QED
    BY <2>1, TimeBounds DEF NodeNumbers, NotTracked
<1>2. GroupInv
  <2>1. PICK S \in SUBSET Instances :
          /\ Cardinality(S) <= MinSize
          /\ instance = [i \in Instances |-> IF i \in S THEN "running" ELSE "unused"]
          /\ node = [i \in Instances |-> IF i \in S THEN "ready" ELSE "absent"]
    BY DEF Init, GroupInit
  <2>2. Existing = S
    BY <2>1 DEF Existing, InState
  <2>3. GroupTypeOK
    BY <2>1, GroupAssumption DEF Init, GroupInit, GroupTypeOK, InstanceStates
  <2> QED
    BY <2>1, <2>2, <2>3 DEF Init, GroupInit, GroupInv, TargetCoversInstances
<1>3. CacheInv
  BY DEF Init, CacheInit, CacheInv, AtMostOne
<1>4. BackoffTypeOK
  BY DEF Init, BackoffInit, BackoffTypeOK
<1>5. IterationInv
  BY <1>1 DEF Init, IterationInv, NoNodes
<1>6. RegistryTypes
  <2>1. NoIncorrect \in IncorrectSizes /\ NoRequest \in Requests /\ NoRequest.increase = 0
    BY <1>1 DEF NoIncorrect, IncorrectSizes, NoRequest, Requests
  <2>2. NoReadiness \in Readinesses
    BY <1>1 DEF NoReadiness, Readinesses
  <2>3. acceptable \in Ranges
    BY <1>1 DEF Init, Ranges
  <2> QED
    BY <1>1, <2>1, <2>2, <2>3 DEF Init, RegistryTypes
<1> QED
  BY <1>2, <1>3, <1>4, <1>5, <1>6 DEF RegistryInv

-----------------------------------------------------------------------------
LEMMA InvHolds == Spec => []RegistryInv
<1>1. RegistryInv /\ [Next]_vars => RegistryInv'
  <2> SUFFICES ASSUME RegistryInv, [Next]_vars PROVE RegistryInv'
    OBVIOUS
  <2>1. CASE RunOnce
    BY <2>1, StartIterationStep, GetTargetSizesStep, UpdateNodesStep, QuietStep,
       RemoveOldUnregisteredStep, DeleteCreatedStep, FixNodeGroupSizeStep, ScaleUpStep DEF RunOnce
  <2>2. CASE Background /\ UNCHANGED <<registryVars, iterationVars, pc, scaleUps>>
    BY <2>2, BackgroundStep
  <2>3. CASE UNCHANGED vars
    <3>1. UNCHANGED <<groupVars, cacheVars, registryVars, iterationVars, pc, scaleUps>>
      BY <2>3 DEF vars
    <3>2. GroupInv'
      BY <3>1, GroupUnchanged DEF RegistryInv
    <3>3. CacheInv'
      BY <3>1, CacheUnchanged DEF RegistryInv, cacheVars
    <3>4. RegistryTypes' /\ BackoffTypeOK'
      BY <3>1, RegistryUnchanged DEF RegistryInv
    <3>5. IterationInv'
      BY <3>1 DEF RegistryInv, IterationInv, iterationVars
    <3> QED
      BY <3>2, <3>3, <3>4, <3>5 DEF RegistryInv
  <2> QED
    BY <2>1, <2>2, <2>3 DEF Next
<1> QED
  BY InitIsSafe, <1>1, PTL DEF Spec

(* Whatever the loop deletes or gives up while the actuator deletes nodes, *)
(* instances come up or fail, and the cache is out of date, the target     *)
(* size covers the instances that exist, so that the provider never has a  *)
(* reason to delete one of its own accord; and the registry is well        *)
(* formed: a request, however often it is raised, stays within what the    *)
(* scale-ups asked for.                                                    *)
THEOREM TargetCovers == Spec => []RegistryInvariant
<1>1. RegistryInv => RegistryInvariant
  <2> SUFFICES ASSUME RegistryInv PROVE RegistryInvariant
    OBVIOUS
  <2>1. CacheTypeOK
    <3>1. /\ Cardinality({}) <= 1
          /\ \A x \in Listings : Cardinality({x}) <= 1
      <4>1. Cardinality({}) = 0 /\ \A x \in Listings : Cardinality({x}) = 1
        BY FS_EmptySet, FS_Singleton
      <4> QED
        BY <4>1
    <3> QED
      BY <3>1 DEF RegistryInv, CacheInv, AtMostOne, CacheTypeOK
  <2>2. request.increase \in 0..(MaxSize * MaxScaleUps) /\ request.age \in 0..TooLong
    <3>1. /\ MaxSize \in Nat /\ MaxScaleUps \in Nat /\ scaleUps \in 0..MaxScaleUps
          /\ request \in Requests /\ request.increase <= MaxSize * scaleUps
      BY TimeBounds DEF RegistryInv, RegistryTypes
    <3>2. MaxSize * scaleUps <= MaxSize * MaxScaleUps /\ MaxSize * scaleUps \in Nat
      BY <3>1
    <3>3. MaxSize * MaxScaleUps \in Nat
      BY <3>1
    <3> QED
      BY <3>1, <3>2, <3>3 DEF Requests
  <2>3. acceptable.minNodes \in Int /\ acceptable.currentTarget \in 0..MaxSize
    BY DEF RegistryInv, RegistryTypes, Ranges
  <2>4. RegistryTypeOK
    BY <2>1, <2>2, <2>3 DEF RegistryInv, GroupInv, IterationInv, RegistryTypes, RegistryTypeOK,
       Readinesses, IncorrectSizes
  <2> QED
    BY <2>4 DEF RegistryInv, GroupInv, RegistryInvariant
<1> QED
  BY InvHolds, <1>1, PTL

-----------------------------------------------------------------------------
LEMMA BackoffStaysTyped == BackoffSpec => []BackoffTypeOK
<1>1. BackoffInit => BackoffTypeOK
  BY DEF BackoffInit, BackoffTypeOK
<1>2. BackoffTypeOK /\ [BackoffNext]_backoff => BackoffTypeOK'
  <2> SUFFICES ASSUME BackoffTypeOK, [BackoffNext]_backoff PROVE BackoffTypeOK'
    OBVIOUS
  <2> QED
    BY BackoffTypes DEF BackoffTypeOK, BackoffNext, Fail, RemoveStale, TimePasses
<1> QED
  BY <1>1, <1>2, PTL DEF BackoffSpec

(* A backoff is served: only time ends it, and at its end; no clean-up and *)
(* no further failure does, and a failure never shortens the next one.     *)
THEOREM BackoffsAreServed == BackoffSpec => BackoffIsServed
<1> DEFINE Served ==
      /\ IsBackedOff(backoff) /\ ~IsBackedOff(backoff') =>
           backoff.since = backoff.duration /\ backoff' = Later(backoff)
      /\ backoff' # NoBackoff /\ backoff'.since = 0 =>
           /\ IsBackedOff(backoff) => backoff'.duration = backoff.duration
           /\ backoff'.duration >= backoff.duration
<1>1. BackoffTypeOK /\ [BackoffNext]_backoff => [Served]_backoff
  <2> SUFFICES ASSUME BackoffTypeOK, BackoffNext PROVE Served
    OBVIOUS
  <2>1. /\ InitialBackoff \in Nat \ {0} /\ MaxBackoff \in Nat /\ BackoffReset \in Nat
        /\ InitialBackoff <= MaxBackoff /\ MaxBackoff <= BackoffReset
    BY BackoffAssumption
  <2>2. CASE backoff = NoBackoff
    <3>1. CASE Fail
      <4>1. backoff' = [duration |-> InitialBackoff, since |-> 0]
        BY <2>2, <3>1 DEF Fail, AfterFailure, NextDuration
      <4> QED
        BY <2>1, <2>2, <4>1 DEF NoBackoff, IsBackedOff
    <3>2. CASE RemoveStale \/ TimePasses
      BY <2>2, <3>2 DEF RemoveStale, TimePasses, WithoutStale, Later, IsBackedOff
    <3> QED
      BY <3>1, <3>2 DEF BackoffNext
  <2>3. CASE backoff # NoBackoff
    <3>1. /\ backoff \in BackoffEntries
          /\ backoff.duration \in InitialBackoff..MaxBackoff
          /\ backoff.since \in 0..(BackoffReset + 1)
      BY <2>3 DEF BackoffTypeOK, BackoffEntries
    <3>2. CASE Fail
      <4>1. backoff' = [duration |-> NextDuration(backoff), since |-> 0]
        BY <3>2 DEF Fail, AfterFailure
      <4>2. /\ NextDuration(backoff) >= backoff.duration /\ NextDuration(backoff) \in Nat \ {0}
            /\ ~IsOver(backoff) => NextDuration(backoff) = backoff.duration
        BY <2>1, <2>3, <3>1 DEF NextDuration, NoMoreThan
      <4>3. backoff' # NoBackoff /\ backoff'.since = 0 /\ backoff'.duration = NextDuration(backoff)
        BY <4>1, <4>2 DEF NoBackoff
      <4>4. IsBackedOff(backoff')
        BY <4>2, <4>3 DEF IsBackedOff, IsOver
      <4> QED
        BY <4>2, <4>3, <4>4 DEF IsBackedOff
    <3>3. CASE RemoveStale
      <4>1. CASE backoff.since > BackoffReset
        BY <2>1, <3>1, <3>3, <4>1 DEF RemoveStale, WithoutStale, IsBackedOff, IsOver
      <4>2. CASE ~(backoff.since > BackoffReset)
        BY <3>1, <3>3, <4>2 DEF RemoveStale, WithoutStale, IsBackedOff
      <4> QED
        BY <4>1, <4>2
    <3>4. CASE TimePasses
      <4>1. /\ backoff' = Later(backoff)
            /\ backoff'.duration = backoff.duration
            /\ backoff'.since = NoMoreThan(backoff.since + 1, BackoffReset + 1)
        BY <2>3, <3>1, <3>4 DEF TimePasses, Later, BackoffEntries
      <4>2. backoff' # NoBackoff
        BY <2>1, <3>1, <4>1 DEF NoBackoff
      <4> QED
        BY <2>1, <2>3, <3>1, <4>1, <4>2 DEF IsBackedOff, IsOver, NoMoreThan
    <3> QED
      BY <3>2, <3>3, <3>4 DEF BackoffNext
  <2> QED
    BY <2>2, <2>3
<1> QED
  BY BackoffStaysTyped, <1>1, PTL DEF BackoffSpec, BackoffIsServed
=============================================================================
