------------------------------ MODULE VpaUpdater ------------------------------
(***************************************************************************)
(* The updater of the Vertical Pod Autoscaler for the pods of one          *)
(* controller: the loop of logic/updater.go with the restrictions that     *)
(* limit how many pods it disrupts, next to the cluster that recreates     *)
(* pods and resizes them in place.                                         *)
(*                                                                         *)
(* Pods have stable names, like those of a stateful set.  The flags        *)
(* in-place-skip-disruption-budget and CPUStartupBoost are off.            *)
(***************************************************************************)
EXTENDS Integers, FiniteSets

CONSTANTS
  PodNames,
  Controllers,          \* what the controller may be, see below
  MinReplicas,
  DeferredTimeout, InProgressTimeout,
  MaxRecommendations    \* bound on the changes of the recommendation

(* A controller: its pods, the evictionTolerance of their group, whether   *)
(* the update mode is InPlaceOrRecreate, and whether the pod lister is     *)
(* always up to date for them.                                             *)
ASSUME UpdaterAssumption ==
  /\ IsFiniteSet(PodNames)
  /\ Controllers \subseteq
       [pods : SUBSET PodNames, tolerance : Nat, inPlace : BOOLEAN, fresh : BOOLEAN]
  /\ MinReplicas \in Nat /\ MaxRecommendations \in Nat
  /\ DeferredTimeout \in Nat /\ InProgressTimeout \in Nat

VARIABLES
  controller,           \* the controller of the behaviour
  pods,                 \* the pods as they are in the cluster
  listed,               \* and in the lister
  seen,                 \* the pods that the loop works with
  stats,                \* singleGroupStats of the controller
  phase,                \* "idle", "inPlace" or "evict"
  forInPlace, forEviction,
  attempt,              \* time since lastInPlaceAttemptTimeMap, Never if not in it
  resizing,             \* time since the current resize of a pod was requested
  recommendations

clusterVars == <<pods, listed, resizing, recommendations>>
updaterVars == <<seen, stats, phase, forInPlace, forEviction, attempt>>
vars == <<controller, clusterVars, updaterVars>>

Pods == controller.pods
Tolerance == controller.tolerance
InPlace == controller.inPlace
Fresh == controller.fresh

Configured == Cardinality(Pods)

(* A pod has the resize condition of its status, if any; outdated means    *)
(* that its resources are to be changed.                                   *)
Statuses == {"gone", "pending", "running"}
Resizes == {"none", "deferred", "infeasible", "inProgress"}
Pod(status, resize, outdated) == [status |-> status, resize |-> resize, outdated |-> outdated]

Never == -1
Longest == IF DeferredTimeout > InProgressTimeout THEN DeferredTimeout + 1 ELSE InProgressTimeout + 1
Later(t) == IF t = Never \/ t = Longest THEN t ELSE t + 1

-----------------------------------------------------------------------------
(* The restrictions. *)
(* Mutant of IsPodDisruptable: the pods evicted in this loop do not count. *)
DisruptableByList(s) ==
  \/ s.running - s.initiated > Configured - Tolerance
  \/ Configured = s.running /\ Tolerance = 0 /\ s.initiated = 0

IsPodDisruptable(s) ==
  \/ s.running - (s.evicted + s.initiated) > Configured - Tolerance
  \/ Configured = s.running /\ Tolerance = 0 /\ s.evicted = 0 /\ s.initiated = 0

IsInPlaceUpdating(pod) == pod.resize # "none"

(* CanEvictInPlacingPod enters a pod that it has no time of. *)
Noted(t, pod) == IF IsInPlaceUpdating(pod) /\ t = Never THEN 0 ELSE t

(* Mutant of ResizeFailed: a deferred resize is waited for.                *)
ResizeFailedForGood(pod, t) ==
  pod.resize = "infeasible" \/ (pod.resize = "inProgress" /\ t > InProgressTimeout)

ResizeFailed(pod, t) ==
  \/ pod.resize = "infeasible"
  \/ pod.resize = "deferred" /\ t > DeferredTimeout
  \/ pod.resize = "inProgress" /\ t > InProgressTimeout

CanEvict(pod, s, t) ==
  \/ pod.status = "pending"
  \/ /\ IsPodDisruptable(s)
     /\ IsInPlaceUpdating(pod) => ResizeFailed(pod, Noted(t, pod))

CanInPlaceUpdate(pod, s, t) ==
  IF pod.status = "pending" \/ ~IsPodDisruptable(s) THEN "deferred"
  ELSE IF ~IsInPlaceUpdating(pod) THEN "approved"
  ELSE IF ResizeFailed(pod, Noted(t, pod)) THEN "evict" ELSE "deferred"

-----------------------------------------------------------------------------
NoStats == [running |-> 0, evicted |-> 0, initiated |-> 0]

Init ==
  /\ controller \in Controllers
  /\ pods \in [Pods -> {Pod("running", "none", o) : o \in BOOLEAN}]
  /\ listed = pods /\ seen = pods
  /\ stats = NoStats
  /\ phase = "idle" /\ forInPlace = {} /\ forEviction = {}
  /\ attempt = [p \in Pods |-> Never]
  /\ resizing = [p \in Pods |-> Never]
  /\ recommendations = 0

Current == IF Fresh THEN pods ELSE listed

(* RunOnce up to the pods to update, which are those that the priority     *)
(* calculator accepts (outdated) of those that may be updated.             *)
List ==
  LET live == {p \in Pods : Current[p].status # "gone"}
      s == [NoStats EXCEPT !.running = Cardinality({p \in live : Current[p].status = "running"})]
      outdated == {p \in live : Current[p].outdated}
  IN  /\ phase = "idle"
      /\ Cardinality(live) >= MinReplicas
      /\ seen' = Current
      /\ stats' = s
      /\ attempt' = [p \in Pods |-> IF p \in live THEN Noted(attempt[p], Current[p]) ELSE attempt[p]]
      /\ IF InPlace
         THEN /\ forInPlace' = {p \in outdated : CanInPlaceUpdate(Current[p], s, attempt[p]) # "deferred"}
              /\ forEviction' = {}
              /\ phase' = "inPlace"
         ELSE /\ forEviction' = {p \in outdated : CanEvict(Current[p], s, attempt[p])}
              /\ forInPlace' = {}
              /\ phase' = "evict"
      /\ UNCHANGED clusterVars

(* InPlaceUpdate: the patch fails for a pod that is not there any more,    *)
(* and may fail in any case.                                               *)
Patched(p) ==
  /\ pods[p].status = "running"
  /\ IF pods[p].outdated
     THEN \E r \in Resizes \ {"none"} : pods' = [pods EXCEPT ![p].resize = r]
     ELSE UNCHANGED pods
  /\ resizing' = [resizing EXCEPT ![p] = 0]
  /\ stats' = [stats EXCEPT !.initiated = @ + 1]
  /\ UNCHANGED forEviction

ToEviction(p) ==
  /\ forEviction' = forEviction \union {p}
  /\ UNCHANGED <<pods, resizing, stats>>

UpdateInPlace(p) ==
  /\ phase = "inPlace" /\ p \in forInPlace
  /\ forInPlace' = forInPlace \ {p}
  /\ LET decision == CanInPlaceUpdate(seen[p], stats, attempt[p])
     IN  \/ decision = "deferred" /\ UNCHANGED <<pods, resizing, stats, forEviction>>
         \/ decision = "evict" /\ ToEviction(p)
         \/ decision = "approved" /\ (Patched(p) \/ ToEviction(p))
  /\ UNCHANGED <<listed, recommendations, seen, phase, attempt>>

EndInPlace ==
  /\ phase = "inPlace" /\ forInPlace = {}
  /\ phase' = "evict"
  /\ UNCHANGED <<pods, listed, resizing, recommendations, seen, stats, forInPlace, forEviction, attempt>>

CountEvicted(s, pod) == IF pod.status = "pending" THEN s ELSE [s EXCEPT !.evicted = @ + 1]

(* Evict names the pod: it takes the one of that name that is there. *)
Evict(p) ==
  /\ phase = "evict" /\ p \in forEviction
  /\ CanEvict(seen[p], stats, attempt[p])
  /\ pods[p].status # "gone"
  /\ pods' = [pods EXCEPT ![p] = Pod("gone", "none", FALSE)]
  /\ resizing' = [resizing EXCEPT ![p] = Never]
  /\ stats' = CountEvicted(stats, seen[p])
  /\ forEviction' = forEviction \ {p}
  /\ UNCHANGED <<listed, recommendations, seen, phase, forInPlace, attempt>>

(* It may not be evicted, or the API server refuses. *)
NotEvicted(p) ==
  /\ phase = "evict" /\ p \in forEviction
  /\ forEviction' = forEviction \ {p}
  /\ UNCHANGED <<pods, listed, resizing, recommendations, seen, stats, phase, forInPlace, attempt>>

EndLoop ==
  /\ phase = "evict" /\ forEviction = {}
  /\ phase' = "idle"
  /\ UNCHANGED <<pods, listed, resizing, recommendations, seen, stats, forInPlace, forEviction, attempt>>

-----------------------------------------------------------------------------
(* The cluster: the controller creates pods, which the admission           *)
(* controller gives the recommended resources, and the kubelet resizes.    *)
Change(p, pod) ==
  /\ pods' = [pods EXCEPT ![p] = pod]
  /\ UNCHANGED <<listed, recommendations, updaterVars>>

Create(p) ==
  /\ pods[p].status = "gone"
  /\ Change(p, Pod("pending", "none", FALSE))
  /\ UNCHANGED resizing

Start(p) ==
  /\ pods[p].status = "pending"
  /\ Change(p, [pods[p] EXCEPT !.status = "running"])
  /\ UNCHANGED resizing

Resize(p) ==
  /\ pods[p].resize \in {"deferred", "inProgress"}
  /\ \/ /\ pods[p].resize = "deferred"
        /\ \E r \in {"infeasible", "inProgress"} : Change(p, [pods[p] EXCEPT !.resize = r])
        /\ UNCHANGED resizing
     \/ /\ pods[p].resize = "inProgress"
        /\ Change(p, Pod("running", "none", FALSE))
        /\ resizing' = [resizing EXCEPT ![p] = Never]

NewRecommendation ==
  /\ recommendations < MaxRecommendations
  /\ recommendations' = recommendations + 1
  /\ pods' = [p \in Pods |-> [pods[p] EXCEPT !.outdated = pods[p].status # "gone"]]
  /\ UNCHANGED <<listed, resizing, updaterVars>>

ListerCatchesUp ==
  /\ ~Fresh /\ listed # pods
  /\ listed' = pods
  /\ UNCHANGED <<pods, resizing, recommendations, updaterVars>>

TimePasses ==
  /\ attempt' = [p \in Pods |-> Later(attempt[p])]
  /\ resizing' = [p \in Pods |-> Later(resizing[p])]
  /\ <<attempt, resizing>>' # <<attempt, resizing>>
  /\ UNCHANGED <<pods, listed, recommendations, seen, stats, phase, forInPlace, forEviction>>

Updater ==
  \/ List \/ EndInPlace \/ EndLoop
  \/ \E p \in Pods : UpdateInPlace(p) \/ Evict(p) \/ NotEvicted(p)

Cluster ==
  \/ \E p \in Pods : Create(p) \/ Start(p) \/ Resize(p)
  \/ NewRecommendation \/ ListerCatchesUp \/ TimePasses

Next == (Updater \/ Cluster) /\ UNCHANGED controller

(* The loop runs on a ticker, and its steps end; the controller and the    *)
(* kubelet start pods; the lister catches up; time passes.  An eviction    *)
(* that is granted again and again is not refused for ever.  A resize may  *)
(* stay deferred or in progress for ever.                                  *)
Fair(p) ==
  /\ WF_vars(p \in Pods /\ UpdateInPlace(p) /\ UNCHANGED controller)
  /\ WF_vars(p \in Pods /\ (Evict(p) \/ NotEvicted(p)) /\ UNCHANGED controller)
  /\ SF_vars(p \in Pods /\ Evict(p) /\ UNCHANGED controller)
  /\ WF_vars(p \in Pods /\ (Create(p) \/ Start(p)) /\ UNCHANGED controller)

Fairness ==
  /\ WF_vars((List \/ EndInPlace \/ EndLoop) /\ UNCHANGED controller)
  /\ WF_vars(ListerCatchesUp /\ UNCHANGED controller)
  /\ WF_vars(TimePasses /\ UNCHANGED controller)
  /\ \A p \in PodNames : Fair(p)

Spec == Init /\ [][Next]_vars
FairSpec == Spec /\ Fairness

-----------------------------------------------------------------------------
PodStates == [status : Statuses, resize : Resizes, outdated : BOOLEAN]

UpdaterTypeOK ==
  /\ controller \in Controllers
  /\ pods \in [Pods -> PodStates] /\ listed \in [Pods -> PodStates] /\ seen \in [Pods -> PodStates]
  /\ stats.running \in 0..Configured /\ stats.evicted + stats.initiated \in 0..stats.running
  /\ phase \in {"idle", "inPlace", "evict"}
  /\ forInPlace \subseteq Pods /\ forEviction \subseteq Pods
  /\ \A p \in Pods : attempt[p] \in Never..Longest /\ resizing[p] \in Never..Longest

(* The restriction does not evict too many pods of a replica set: what the *)
(* tolerance does not cover is running, or all but one, whatever started,  *)
(* was resized or was recreated while the loop worked on what it had seen. *)
(* That takes a lister that is up to date: with one that lags, a loop does *)
(* not see that a pod evicted by the loop before is not running yet, and   *)
(* evicts another.                                                         *)
Running == {p \in Pods : pods[p].status = "running"}

RunningKept ==
  Fresh => Cardinality(Running) >= Configured - (IF Tolerance = 0 THEN 1 ELSE Tolerance)

(* The statistics of the group are well formed, and enough pods run. *)
UpdaterInvariant == UpdaterTypeOK /\ RunningKept

(* Not kept: a pod is evicted for a resize that is deferred only when that *)
(* resize has been waited for.  The time of the first attempt is never     *)
(* reset (pods_inplace_restriction.go:213); README, section 4.             *)
FallbackInTime ==
  [][\A p \in Pods :
       Evict(p) /\ seen[p].resize = "deferred" /\ pods[p].resize = "deferred"
         => resizing[p] > DeferredTimeout]_vars

(* Once the recommendation stays, every pod comes to have it, in place or  *)
(* by eviction when its resize is infeasible or does not end.              *)
Outdated == {p \in Pods : pods[p].outdated}

AllUpdated == <>[](Outdated = {})
=============================================================================
