------------------------------- MODULE VpaProofs -------------------------------
(***************************************************************************)
(* Proof about VpaUpdater, for any pods, controllers, tolerances and       *)
(* timeouts: a loop that works on what it has seen, while pods start and   *)
(* are resized, does not evict too many of them.                           *)
(***************************************************************************)
EXTENDS VpaUpdater, FiniteSetTheorems, TLAPS

-----------------------------------------------------------------------------
(* The inductive invariant.                                                *)

UpdaterTypes ==
  /\ controller \in Controllers
  /\ pods \in [Pods -> PodStates] /\ listed \in [Pods -> PodStates] /\ seen \in [Pods -> PodStates]
  /\ stats \in [running : Nat, evicted : Nat, initiated : Nat]
  /\ phase \in {"idle", "inPlace", "evict"}
  /\ forInPlace \in SUBSET Pods /\ forEviction \in SUBSET Pods
  /\ attempt \in [Pods -> Never..Longest] /\ resizing \in [Pods -> Never..Longest]

(* What the loop saw running, and what of it still is or is still to come. *)
SeenRunning == {p \in Pods : seen[p].status = "running"}
StillRunning == Running \cap SeenRunning
Ahead == SeenRunning \cap (forInPlace \cup forEviction)

(* The statistics count what was seen: every pod adds at most once to      *)
(* evicted and initiated, those that are ahead not yet.                    *)
StatsCount ==
  /\ forInPlace \cap forEviction = {}
  /\ \A p \in forInPlace \cup forEviction : seen[p].status # "gone"
  /\ phase # "idle" => stats.running = Cardinality(SeenRunning)
  /\ stats.evicted + stats.initiated + Cardinality(Ahead) <= stats.running
  /\ stats.running <= Configured

Limit == IF Tolerance = 0 THEN 1 ELSE Tolerance

(* A pod that starts during a loop makes up for none that was evicted: it  *)
(* is the pods seen running that are enough by themselves.                 *)
EnoughRun ==
  Fresh =>
    /\ Cardinality(Running) >= Configured - Limit
    /\ phase # "idle" =>
         /\ Cardinality(StillRunning) >= Configured - Limit
         /\ Cardinality(StillRunning) >= stats.running - stats.evicted

UpdaterInv == UpdaterTypes /\ StatsCount /\ EnoughRun

-----------------------------------------------------------------------------
(* Counting pods.                                                          *)

LEMMA ControllerFacts ==
  ASSUME controller \in Controllers
  PROVE  /\ Pods \in SUBSET PodNames /\ IsFiniteSet(Pods)
         /\ Tolerance \in Nat /\ Limit \in Nat
         /\ Fresh \in BOOLEAN /\ InPlace \in BOOLEAN
<1>1. controller \in [pods : SUBSET PodNames, tolerance : Nat, inPlace : BOOLEAN, fresh : BOOLEAN]
  BY UpdaterAssumption
<1>2. Pods \in SUBSET PodNames /\ Tolerance \in Nat
  BY <1>1 DEF Pods, Tolerance
<1>3. Fresh \in BOOLEAN /\ InPlace \in BOOLEAN
  BY <1>1, Zenon DEF Fresh, InPlace
<1>4. IsFiniteSet(Pods)
  BY <1>2, UpdaterAssumption, FS_Subset
<1> QED
  BY <1>2, <1>3, <1>4 DEF Limit

LEMMA PodCount ==
  ASSUME controller \in Controllers, NEW S \in SUBSET Pods
  PROVE  /\ IsFiniteSet(S) /\ Cardinality(S) \in Nat
         /\ Cardinality(S) <= Configured /\ Configured \in Nat
<1>1. IsFiniteSet(Pods)
  BY ControllerFacts
<1>2. IsFiniteSet(S) /\ Cardinality(S) <= Cardinality(Pods)
  BY <1>1, FS_Subset
<1> QED
  BY <1>1, <1>2, FS_CardinalityType DEF Configured

(* More pods are not fewer. *)
LEMMA MorePods ==
  ASSUME controller \in Controllers, NEW S \in SUBSET Pods, NEW T \in SUBSET S
  PROVE  Cardinality(T) <= Cardinality(S)
<1>1. IsFiniteSet(S)
  BY PodCount
<1> QED
  BY <1>1, FS_Subset

LEMMA OneLess ==
  ASSUME controller \in Controllers, NEW S \in SUBSET Pods, NEW p,
         NEW T \in SUBSET Pods, S \ {p} \subseteq T
  PROVE  Cardinality(T) >= Cardinality(S) - 1
<1>1. IsFiniteSet(S) /\ Cardinality(S) \in Nat /\ Cardinality(T) \in Nat
  BY PodCount
<1>2. Cardinality(S \ {p}) = IF p \in S THEN Cardinality(S) - 1 ELSE Cardinality(S)
  BY <1>1, FS_RemoveElement
<1>3. Cardinality(S \ {p}) <= Cardinality(T)
  BY MorePods
<1> QED
  BY <1>1, <1>2, <1>3

LEMMA OneGone ==
  ASSUME controller \in Controllers, NEW S \in SUBSET Pods, NEW p \in S,
         NEW T \in SUBSET S, p \notin T
  PROVE  Cardinality(T) + 1 <= Cardinality(S)
<1>1. IsFiniteSet(S) /\ Cardinality(S) \in Nat /\ Cardinality(T) \in Nat
  BY PodCount
<1>2. Cardinality(S \ {p}) = Cardinality(S) - 1
  BY <1>1, FS_RemoveElement
<1>3. T \in SUBSET (S \ {p}) /\ S \ {p} \in SUBSET Pods
  OBVIOUS
<1>4. Cardinality(T) <= Cardinality(S \ {p})
  BY <1>3, MorePods
<1> QED
  BY <1>1, <1>2, <1>4

LEMMA TimeIsBounded ==
  /\ Longest \in Nat /\ Longest >= 1
  /\ \A t \in Never..Longest : Later(t) \in Never..Longest
  /\ \A t \in Never..Longest, pod \in PodStates : Noted(t, pod) \in Never..Longest
  /\ 0 \in Never..Longest /\ Never \in Never..Longest
<1>1. Longest \in Nat /\ Longest >= 1
  BY UpdaterAssumption DEF Longest
<1> QED
  BY <1>1 DEF Never, Later, Noted

-----------------------------------------------------------------------------
(* What most steps leave alone.                                            *)

(* As long as no pod stops running, enough of them run. *)
LEMMA NonePodStops ==
  ASSUME UpdaterInv, UNCHANGED <<controller, seen>>,
         stats'.running = stats.running, stats'.evicted = stats.evicted,
         Running \subseteq Running', phase' # "idle" => phase # "idle"
  PROVE  EnoughRun'
<1>1. /\ Running \in SUBSET Pods /\ Running' \in SUBSET Pods
      /\ StillRunning \in SUBSET Pods /\ StillRunning' \in SUBSET Pods
      /\ StillRunning \subseteq StillRunning'
      /\ Pods' = Pods
  BY DEF Running, StillRunning, SeenRunning, Pods
<1>2. /\ Cardinality(Running) <= Cardinality(Running')
      /\ Cardinality(StillRunning) <= Cardinality(StillRunning')
  BY <1>1, MorePods DEF UpdaterInv, UpdaterTypes
<1>3. /\ Cardinality(Running) \in Nat /\ Cardinality(Running') \in Nat
      /\ Cardinality(StillRunning) \in Nat /\ Cardinality(StillRunning') \in Nat
      /\ Configured \in Nat
  BY <1>1, PodCount DEF UpdaterInv, UpdaterTypes
<1>4. Limit \in Nat /\ Limit' = Limit /\ Configured' = Configured /\ Fresh' = Fresh
  BY <1>1, ControllerFacts DEF UpdaterInv, UpdaterTypes, Limit, Tolerance, Configured, Fresh
<1>5. stats.running \in Nat /\ stats.evicted \in Nat
  BY DEF UpdaterInv, UpdaterTypes
<1> QED
  BY <1>2, <1>3, <1>4, <1>5 DEF UpdaterInv, EnoughRun

LEMMA StatsUntouched ==
  ASSUME UpdaterInv, UNCHANGED <<controller, seen, stats>>,
         forInPlace' \in SUBSET Pods, forEviction' \in SUBSET Pods,
         forInPlace' \cap forEviction' = {},
         forInPlace' \cup forEviction' \subseteq forInPlace \cup forEviction,
         phase' # "idle" => phase # "idle"
  PROVE  StatsCount'
<1>1. /\ Ahead \in SUBSET Pods /\ Ahead' \in SUBSET Ahead
      /\ Pods' = Pods /\ SeenRunning' = SeenRunning /\ Configured' = Configured
  BY DEF Ahead, SeenRunning, Pods, Configured
<1>2. /\ Cardinality(Ahead') <= Cardinality(Ahead)
      /\ Cardinality(Ahead) \in Nat /\ Cardinality(Ahead') \in Nat
  BY <1>1, MorePods, PodCount DEF UpdaterInv, UpdaterTypes
<1>3. stats.running \in Nat /\ stats.evicted \in Nat /\ stats.initiated \in Nat
  BY DEF UpdaterInv, UpdaterTypes
<1>4. \A p \in (forInPlace \cup forEviction)' : seen'[p].status # "gone"
  BY DEF UpdaterInv, StatsCount
<1> QED
  BY <1>1, <1>2, <1>3, <1>4 DEF UpdaterInv, StatsCount

-----------------------------------------------------------------------------
LEMMA InitIsSafe == Init => UpdaterInv
<1> SUFFICES ASSUME Init PROVE UpdaterInv
  OBVIOUS
<1>1. controller \in Controllers /\ pods \in [Pods -> PodStates]
  <2>1. \A o \in BOOLEAN : Pod("running", "none", o) \in PodStates
    BY DEF Pod, PodStates, Statuses, Resizes
  <2> QED
    BY <2>1 DEF Init
<1>2. UpdaterTypes
  BY <1>1, TimeIsBounded DEF Init, UpdaterTypes, NoStats
<1>3. Running = Pods
  BY DEF Init, Running, Pod
<1>4. Configured \in Nat /\ Cardinality({}) = 0
  BY <1>1, PodCount, FS_EmptySet
<1>5. StatsCount
  <2>1. Ahead = {}
    BY DEF Init, Ahead
  <2> QED
    BY <2>1, <1>4 DEF Init, StatsCount, NoStats
<1>6. EnoughRun
  BY <1>1, <1>3, <1>4, ControllerFacts DEF Init, EnoughRun, Configured
<1> QED
  BY <1>2, <1>5, <1>6 DEF UpdaterInv

(* The loop begins: what it sees running is, if the lister is up to date,  *)
(* what runs.                                                              *)
LEMMA ListStep ==
  ASSUME UpdaterInv, List, UNCHANGED controller
  PROVE  UpdaterInv'
<1> DEFINE live == {p \in Pods : Current[p].status # "gone"}
           s == [NoStats EXCEPT !.running =
                   Cardinality({p \in live : Current[p].status = "running"})]
<1>1. /\ phase = "idle" /\ seen' = Current /\ stats' = s
      /\ phase' \in {"inPlace", "evict"}
      /\ UNCHANGED <<pods, listed, resizing>>
      /\ forInPlace' \in SUBSET live /\ forEviction' \in SUBSET live
      /\ forInPlace' = {} \/ forEviction' = {}
      /\ attempt' = [p \in Pods |-> IF p \in live THEN Noted(attempt[p], Current[p]) ELSE attempt[p]]
  BY DEF List, clusterVars
<1>2. Pods' = Pods /\ Configured' = Configured /\ Fresh' = Fresh /\ Limit' = Limit
  BY DEF Pods, Configured, Fresh, Limit, Tolerance
<1>3. Current \in [Pods -> PodStates]
  BY DEF UpdaterInv, UpdaterTypes, Current
<1>4. SeenRunning' = {p \in live : Current[p].status = "running"} /\ SeenRunning' \in SUBSET Pods
  BY <1>1, <1>2 DEF SeenRunning
<1>5. /\ Cardinality(SeenRunning') \in Nat /\ Cardinality(SeenRunning') <= Configured
      /\ controller \in Controllers
  BY <1>4, PodCount DEF UpdaterInv, UpdaterTypes
<1>6. stats' = [running |-> Cardinality(SeenRunning'), evicted |-> 0, initiated |-> 0]
  BY <1>1, <1>4 DEF NoStats
<1>7. UpdaterTypes'
  <2>1. attempt' \in [Pods -> Never..Longest]
    BY <1>1, <1>3, TimeIsBounded DEF UpdaterInv, UpdaterTypes
  <2>2. stats' \in [running : Nat, evicted : Nat, initiated : Nat]
    BY <1>5, <1>6
  <2>3. seen' \in [Pods' -> PodStates]
    BY <1>1, <1>2, <1>3
  <2> QED
    BY <1>1, <1>2, <2>1, <2>2, <2>3 DEF UpdaterInv, UpdaterTypes
<1>8. StatsCount'
  <2>1. Ahead' \in SUBSET SeenRunning'
    BY DEF Ahead
  <2>2. Cardinality(Ahead') \in Nat /\ Cardinality(Ahead') <= Cardinality(SeenRunning')
    BY <2>1, <1>4, <1>5, MorePods, PodCount
  <2> QED
    BY <1>1, <1>2, <1>5, <1>6, <2>2 DEF StatsCount
<1>9. EnoughRun'
  <2> SUFFICES ASSUME Fresh PROVE
        /\ Cardinality(Running') >= Configured - Limit
        /\ Cardinality(StillRunning') >= Configured - Limit
        /\ Cardinality(StillRunning') >= stats'.running - stats'.evicted
    BY <1>2 DEF EnoughRun
  <2>1. Running' = Running /\ SeenRunning' = Running
    BY <1>1, <1>2, <1>4 DEF Running, Current
  <2>2. StillRunning' = Running
    BY <2>1 DEF StillRunning
  <2>3. Cardinality(Running) >= Configured - Limit
    BY DEF UpdaterInv, EnoughRun
  <2> QED
    BY <1>5, <1>6, <2>1, <2>2, <2>3
<1> QED
  BY <1>7, <1>8, <1>9 DEF UpdaterInv

(* A pod that is resized is counted as initiated, and is no longer ahead. *)
LEMMA PatchedStep ==
  ASSUME UpdaterInv, UNCHANGED <<controller, listed, seen, phase, attempt>>,
         NEW p \in Pods, p \in forInPlace, forInPlace' = forInPlace \ {p},
         seen[p].status # "pending", Patched(p)
  PROVE  UpdaterInv'
<1>1. /\ Pods' = Pods /\ Configured' = Configured /\ SeenRunning' = SeenRunning
      /\ Running \subseteq Running'
      /\ pods' \in [Pods -> PodStates]
  <2>1. \/ pods' = pods
        \/ \E r \in Resizes : pods' = [pods EXCEPT ![p].resize = r]
    BY DEF Patched
  <2>2. pods \in [Pods -> PodStates] /\ Pods' = Pods
    BY DEF UpdaterInv, UpdaterTypes, Pods
  <2>3. CASE pods' = pods
    BY <2>2, <2>3 DEF Configured, SeenRunning, Running
  <2>4. ASSUME NEW r \in Resizes, pods' = [pods EXCEPT ![p].resize = r]
        PROVE  Running \subseteq Running' /\ pods' \in [Pods -> PodStates]
    BY <2>2, <2>4 DEF Running, PodStates
  <2> QED
    BY <2>1, <2>2, <2>3, <2>4 DEF Configured, SeenRunning
<1>2. /\ stats \in [running : Nat, evicted : Nat, initiated : Nat]
      /\ stats' = [stats EXCEPT !.initiated = @ + 1]
      /\ resizing' = [resizing EXCEPT ![p] = 0]
      /\ forEviction' = forEviction
  BY DEF UpdaterInv, UpdaterTypes, Patched
<1>3. /\ stats'.running = stats.running /\ stats'.evicted = stats.evicted
      /\ stats'.initiated = stats.initiated + 1
      /\ stats' \in [running : Nat, evicted : Nat, initiated : Nat]
  BY <1>2
<1>4. UpdaterTypes'
  <2>1. resizing' \in [Pods -> Never..Longest]
    BY <1>2, TimeIsBounded DEF UpdaterInv, UpdaterTypes
  <2> QED
    BY <1>1, <1>2, <1>3, <2>1 DEF UpdaterInv, UpdaterTypes
<1>5. StatsCount'
  <2>1. p \in SeenRunning /\ p \notin forEviction
    <3>1. seen[p] \in PodStates /\ seen[p].status # "gone" /\ p \notin forEviction
      BY DEF UpdaterInv, UpdaterTypes, StatsCount
    <3> QED
      BY <3>1 DEF SeenRunning, PodStates, Statuses
  <2>2. p \in Ahead /\ Ahead \in SUBSET Pods /\ Ahead' \in SUBSET Ahead /\ p \notin Ahead'
    BY <1>1, <1>2, <2>1 DEF Ahead, SeenRunning
  <2>3. Cardinality(Ahead') + 1 <= Cardinality(Ahead)
    BY <2>2, OneGone DEF UpdaterInv, UpdaterTypes
  <2>4. Cardinality(Ahead) \in Nat /\ Cardinality(Ahead') \in Nat
    BY <2>2, PodCount DEF UpdaterInv, UpdaterTypes
  <2>5. /\ forInPlace' \cap forEviction' = {}
        /\ \A q \in forInPlace' \cup forEviction' : seen'[q].status # "gone"
    BY <1>2 DEF UpdaterInv, StatsCount
  <2>6. stats'.evicted + stats'.initiated + Cardinality(Ahead') <= stats'.running
    BY <1>2, <1>3, <2>3, <2>4 DEF UpdaterInv, StatsCount
  <2> QED
    BY <1>1, <1>3, <2>5, <2>6 DEF UpdaterInv, StatsCount
<1>6. EnoughRun'
  BY <1>1, <1>3, NonePodStops
<1> QED
  BY <1>4, <1>5, <1>6 DEF UpdaterInv

LEMMA UpdateInPlaceStep ==
  ASSUME UpdaterInv, NEW p \in Pods, UpdateInPlace(p), UNCHANGED controller
  PROVE  UpdaterInv'
<1> DEFINE decision == CanInPlaceUpdate(seen[p], stats, attempt[p])
<1>1. /\ p \in forInPlace /\ forInPlace' = forInPlace \ {p}
      /\ UNCHANGED <<controller, listed, seen, phase, attempt>>
  BY DEF UpdateInPlace
<1>2. \/ UNCHANGED <<pods, resizing, stats, forEviction>>
      \/ ToEviction(p)
      \/ decision = "approved" /\ Patched(p)
  BY DEF UpdateInPlace
<1>3. CASE decision = "approved" /\ Patched(p)
  <2>1. seen[p].status # "pending"
    BY <1>3 DEF CanInPlaceUpdate
  <2> QED
    BY <1>1, <1>3, <2>1, PatchedStep
<1>4. CASE UNCHANGED <<pods, resizing, stats, forEviction>> \/ ToEviction(p)
  <2>1. /\ UNCHANGED <<pods, resizing, stats>>
        /\ forEviction' \in {forEviction, forEviction \cup {p}}
    BY <1>4 DEF ToEviction
  <2>2. /\ forInPlace' \in SUBSET Pods /\ forEviction' \in SUBSET Pods
        /\ forInPlace' \cap forEviction' = {}
        /\ forInPlace' \cup forEviction' \subseteq forInPlace \cup forEviction
    BY <1>1, <2>1 DEF UpdaterInv, UpdaterTypes, StatsCount
  <2>3. UpdaterTypes'
    BY <1>1, <2>1, <2>2 DEF UpdaterInv, UpdaterTypes, Pods
  <2>4. StatsCount'
    BY <1>1, <2>1, <2>2, StatsUntouched
  <2>5. Running \subseteq Running'
    BY <1>1, <2>1 DEF Running, Pods
  <2> QED
    BY <1>1, <2>1, <2>3, <2>4, <2>5, NonePodStops DEF UpdaterInv
<1> QED
  BY <1>2, <1>3, <1>4

(* The restriction leaves room for one more eviction. *)
LEMMA RoomForOne ==
  ASSUME UpdaterInv, IsPodDisruptable(stats)
  PROVE  stats.running - (stats.evicted + 1) >= Configured - Limit
<1>1. /\ stats.running \in Nat /\ stats.evicted \in Nat /\ stats.initiated \in Nat
      /\ Configured \in Nat /\ Tolerance \in Nat
  BY PodCount, ControllerFacts DEF UpdaterInv, UpdaterTypes
<1> QED
  BY <1>1 DEF IsPodDisruptable, Limit

LEMMA EvictStep ==
  ASSUME UpdaterInv, NEW p \in Pods, Evict(p), UNCHANGED controller
  PROVE  UpdaterInv'
<1>1. /\ phase = "evict" /\ p \in forEviction /\ CanEvict(seen[p], stats, attempt[p])
      /\ pods' = [pods EXCEPT ![p] = Pod("gone", "none", FALSE)]
      /\ resizing' = [resizing EXCEPT ![p] = Never]
      /\ stats' = CountEvicted(stats, seen[p])
      /\ forEviction' = forEviction \ {p}
      /\ UNCHANGED <<controller, listed, seen, phase, forInPlace, attempt>>
  BY DEF Evict
<1>2. /\ Pods' = Pods /\ Configured' = Configured /\ SeenRunning' = SeenRunning
      /\ Limit' = Limit /\ Fresh' = Fresh
  BY <1>1 DEF Pods, Configured, SeenRunning, Limit, Tolerance, Fresh
<1>3. /\ stats \in [running : Nat, evicted : Nat, initiated : Nat]
      /\ pods \in [Pods -> PodStates] /\ seen[p] \in PodStates
      /\ controller \in Controllers
  BY DEF UpdaterInv, UpdaterTypes
<1>4. p \in SeenRunning \/ seen[p].status = "pending"
  <2>1. seen[p].status # "gone"
    BY <1>1 DEF UpdaterInv, StatsCount
  <2> QED
    BY <1>3, <2>1 DEF SeenRunning, PodStates, Statuses
<1>5. /\ stats'.running = stats.running /\ stats'.initiated = stats.initiated
      /\ stats'.evicted = IF seen[p].status = "pending" THEN stats.evicted ELSE stats.evicted + 1
      /\ stats' \in [running : Nat, evicted : Nat, initiated : Nat]
  BY <1>1, <1>3 DEF CountEvicted
<1>6. UpdaterTypes'
  <2>1. pods' \in [Pods -> PodStates]
    BY <1>1, <1>3 DEF Pod, PodStates, Statuses, Resizes
  <2>2. resizing' \in [Pods -> Never..Longest]
    BY <1>1, TimeIsBounded DEF UpdaterInv, UpdaterTypes
  <2>3. forEviction' \in SUBSET Pods
    BY <1>1 DEF UpdaterInv, UpdaterTypes
  <2> QED
    BY <1>1, <1>2, <1>5, <2>1, <2>2, <2>3 DEF UpdaterInv, UpdaterTypes
<1>7. StatsCount'
  <2>1. Ahead \in SUBSET Pods /\ Ahead' \in SUBSET Ahead /\ p \notin Ahead'
    <3>1. p \notin forInPlace
      BY <1>1 DEF UpdaterInv, StatsCount
    <3> QED
      BY <1>1, <1>2, <3>1 DEF Ahead, SeenRunning
  <2>2. /\ Cardinality(Ahead) \in Nat /\ Cardinality(Ahead') \in Nat
        /\ Cardinality(Ahead') <= Cardinality(Ahead)
    BY <1>3, <2>1, PodCount, MorePods
  <2>3. seen[p].status # "pending" => Cardinality(Ahead') + 1 <= Cardinality(Ahead)
    <3> SUFFICES ASSUME seen[p].status # "pending"
                 PROVE  Cardinality(Ahead') + 1 <= Cardinality(Ahead)
      OBVIOUS
    <3>1. p \in Ahead
      BY <1>1, <1>4 DEF Ahead
    <3> QED
      BY <1>3, <2>1, <3>1, OneGone
  <2>4. stats'.evicted + stats'.initiated + Cardinality(Ahead') <= stats'.running
    BY <1>3, <1>5, <2>2, <2>3 DEF UpdaterInv, StatsCount
  <2>5. /\ forInPlace' \cap forEviction' = {}
        /\ \A q \in forInPlace' \cup forEviction' : seen'[q].status # "gone"
    BY <1>1 DEF UpdaterInv, StatsCount
  <2> QED
    BY <1>1, <1>2, <1>5, <2>4, <2>5 DEF UpdaterInv, StatsCount
<1>8. EnoughRun'
  <2> SUFFICES ASSUME Fresh PROVE
        /\ Cardinality(Running') >= Configured - Limit
        /\ Cardinality(StillRunning') >= Configured - Limit
        /\ Cardinality(StillRunning') >= stats'.running - stats'.evicted
    BY <1>2 DEF EnoughRun
  <2>1. /\ Running' \in SUBSET Pods /\ StillRunning \in SUBSET Pods /\ StillRunning' \in SUBSET Pods
        /\ StillRunning' \in SUBSET Running'
        /\ StillRunning \ {p} \subseteq StillRunning'
    BY <1>1, <1>2, <1>3 DEF Running, StillRunning, SeenRunning
  <2>2. /\ Cardinality(StillRunning) \in Nat /\ Cardinality(StillRunning') \in Nat
        /\ Cardinality(Running') \in Nat /\ Configured \in Nat /\ Limit \in Nat
        /\ Cardinality(StillRunning') <= Cardinality(Running')
    BY <1>3, <2>1, PodCount, MorePods, ControllerFacts
  <2>3. /\ Cardinality(StillRunning) >= Configured - Limit
        /\ Cardinality(StillRunning) >= stats.running - stats.evicted
    BY <1>1 DEF UpdaterInv, EnoughRun
  <2>4. CASE seen[p].status = "pending"
    <3>1. p \notin StillRunning
      BY <2>4 DEF StillRunning, SeenRunning
    <3>2. StillRunning \in SUBSET StillRunning'
      BY <2>1, <3>1
    <3>3. Cardinality(StillRunning) <= Cardinality(StillRunning')
      BY <1>3, <2>1, <3>2, MorePods
    <3> QED
      BY <1>3, <1>5, <2>2, <2>3, <2>4, <3>3
  <2>5. CASE seen[p].status # "pending"
    <3>1. Cardinality(StillRunning') >= Cardinality(StillRunning) - 1
      BY <1>3, <2>1, OneLess
    <3>2. IsPodDisruptable(stats)
      BY <1>1, <2>5 DEF CanEvict
    <3>3. stats.running - (stats.evicted + 1) >= Configured - Limit
      BY <3>2, RoomForOne
    <3> QED
      BY <1>3, <1>5, <2>2, <2>3, <2>5, <3>1, <3>3
  <2> QED
    BY <2>4, <2>5
<1> QED
  BY <1>6, <1>7, <1>8 DEF UpdaterInv

(* The other steps of the loop, and those of the cluster, only ever make   *)
(* more pods run.                                                          *)
LEMMA OtherLoopStep ==
  ASSUME UpdaterInv, UNCHANGED controller,
         EndInPlace \/ EndLoop \/ \E p \in Pods : NotEvicted(p)
  PROVE  UpdaterInv'
<1>1. /\ UNCHANGED <<controller, pods, listed, resizing, seen, stats, forInPlace, attempt>>
      /\ forEviction' \in SUBSET forEviction
      /\ phase' \in {"idle", "inPlace", "evict"}
      /\ phase' # "idle" => phase # "idle"
  BY DEF EndInPlace, EndLoop, NotEvicted
<1>2. /\ forInPlace' \in SUBSET Pods /\ forEviction' \in SUBSET Pods
      /\ forInPlace' \cap forEviction' = {}
      /\ forInPlace' \cup forEviction' \subseteq forInPlace \cup forEviction
  BY <1>1 DEF UpdaterInv, UpdaterTypes, StatsCount
<1>3. UpdaterTypes'
  BY <1>1, <1>2 DEF UpdaterInv, UpdaterTypes, Pods
<1>4. StatsCount'
  BY <1>1, <1>2, StatsUntouched
<1>5. Running \subseteq Running'
  BY <1>1 DEF Running, Pods
<1> QED
  BY <1>1, <1>3, <1>4, <1>5, NonePodStops DEF UpdaterInv

LEMMA ClusterStep ==
  ASSUME UpdaterInv, Cluster, UNCHANGED controller
  PROVE  UpdaterInv'
<1>1. /\ UNCHANGED <<controller, seen, stats, phase, forInPlace, forEviction>>
      /\ Pods' = Pods
  BY DEF Cluster, Create, Start, Resize, Change, NewRecommendation, ListerCatchesUp, TimePasses,
         updaterVars, Pods
<1>2. /\ pods \in [Pods -> PodStates] /\ listed \in [Pods -> PodStates]
      /\ attempt \in [Pods -> Never..Longest] /\ resizing \in [Pods -> Never..Longest]
  BY DEF UpdaterInv, UpdaterTypes
<1>3. /\ pods' \in [Pods -> PodStates] /\ listed' \in [Pods -> PodStates]
      /\ attempt' \in [Pods -> Never..Longest] /\ resizing' \in [Pods -> Never..Longest]
      /\ Running \subseteq Running'
  <2>1. ASSUME NEW p \in Pods, Create(p)
        PROVE  <1>3!:
    BY <1>1, <1>2, <2>1 DEF Create, Change, updaterVars, Pod, PodStates, Statuses, Resizes, Running
  <2>2. ASSUME NEW p \in Pods, Start(p)
        PROVE  <1>3!:
    BY <1>1, <1>2, <2>2 DEF Start, Change, updaterVars, PodStates, Statuses, Resizes, Running
  <2>3. ASSUME NEW p \in Pods, Resize(p)
        PROVE  <1>3!:
    <3>1. /\ UNCHANGED <<listed, attempt>>
          /\ \/ /\ \E r \in Resizes : pods' = [pods EXCEPT ![p] = [pods[p] EXCEPT !.resize = r]]
                /\ resizing' = resizing
             \/ /\ pods' = [pods EXCEPT ![p] = Pod("running", "none", FALSE)]
                /\ resizing' = [resizing EXCEPT ![p] = Never]
      BY <2>3 DEF Resize, Change, updaterVars, Resizes
    <3>2. ASSUME NEW r \in Resizes, pods' = [pods EXCEPT ![p] = [pods[p] EXCEPT !.resize = r]]
          PROVE  pods' \in [Pods -> PodStates] /\ Running \subseteq Running'
      BY <1>1, <1>2, <3>2 DEF PodStates, Running
    <3>3. ASSUME pods' = [pods EXCEPT ![p] = Pod("running", "none", FALSE)]
          PROVE  pods' \in [Pods -> PodStates] /\ Running \subseteq Running'
      BY <1>1, <1>2, <3>3 DEF Pod, PodStates, Statuses, Resizes, Running
    <3>4. resizing' = [resizing EXCEPT ![p] = Never] => resizing' \in [Pods -> Never..Longest]
      BY <1>2, TimeIsBounded
    <3> QED
      BY <1>2, <3>1, <3>2, <3>3, <3>4
  <2>4. CASE NewRecommendation
    BY <1>1, <1>2, <2>4 DEF NewRecommendation, updaterVars, PodStates, Running
  <2>5. CASE ListerCatchesUp
    BY <1>1, <1>2, <2>5 DEF ListerCatchesUp, updaterVars, Running
  <2>6. CASE TimePasses
    BY <1>1, <1>2, <2>6, TimeIsBounded DEF TimePasses, Running
  <2> QED
    BY <2>1, <2>2, <2>3, <2>4, <2>5, <2>6 DEF Cluster
<1>4. UpdaterTypes'
  BY <1>1, <1>3 DEF UpdaterInv, UpdaterTypes
<1>5. StatsCount'
  <2>1. /\ forInPlace' \in SUBSET Pods /\ forEviction' \in SUBSET Pods
        /\ forInPlace' \cap forEviction' = {}
    BY <1>1 DEF UpdaterInv, UpdaterTypes, StatsCount
  <2> QED
    BY <1>1, <2>1, StatsUntouched
<1> QED
  BY <1>1, <1>3, <1>4, <1>5, NonePodStops DEF UpdaterInv

-----------------------------------------------------------------------------
LEMMA InvHolds == Spec => []UpdaterInv
<1>1. UpdaterInv /\ [Next]_vars => UpdaterInv'
  <2> SUFFICES ASSUME UpdaterInv, [Next]_vars PROVE UpdaterInv'
    OBVIOUS
  <2>1. CASE Updater /\ UNCHANGED controller
    BY <2>1, ListStep, UpdateInPlaceStep, EvictStep, OtherLoopStep DEF Updater
  <2>2. CASE Cluster /\ UNCHANGED controller
    BY <2>2, ClusterStep
  <2>3. CASE UNCHANGED vars
    BY <2>3 DEF vars, clusterVars, updaterVars, UpdaterInv, UpdaterTypes, StatsCount, EnoughRun,
                Pods, Configured, Fresh, Limit, Tolerance, Running, StillRunning, SeenRunning, Ahead
  <2> QED
    BY <2>1, <2>2, <2>3 DEF Next
<1> QED
  BY InitIsSafe, <1>1, PTL DEF Spec

(* With a lister that is up to date, the updater never leaves fewer pods   *)
(* running than the tolerance allows (all but one if it allows none),      *)
(* whatever starts, is resized or is recreated while a loop works on what  *)
(* it saw; and the statistics of the group always count pods.              *)
THEOREM EnoughPodsKeepRunning == Spec => []UpdaterInvariant
<1>1. UpdaterInv => UpdaterInvariant
  <2> SUFFICES ASSUME UpdaterInv PROVE UpdaterInvariant
    OBVIOUS
  <2>1. /\ stats.running \in Nat /\ stats.evicted \in Nat /\ stats.initiated \in Nat
        /\ Cardinality(Ahead) \in Nat /\ Configured \in Nat
    <3>1. Ahead \in SUBSET Pods
      BY DEF Ahead, SeenRunning
    <3> QED
      BY <3>1, PodCount DEF UpdaterInv, UpdaterTypes
  <2>2. /\ stats.running \in 0..Configured
        /\ stats.evicted + stats.initiated \in 0..stats.running
    BY <2>1 DEF UpdaterInv, StatsCount
  <2>3. UpdaterTypeOK
    BY <2>2 DEF UpdaterInv, UpdaterTypes, UpdaterTypeOK
  <2> QED
    BY <2>3 DEF UpdaterInv, EnoughRun, Limit, RunningKept, UpdaterInvariant
<1> QED
  BY InvHolds, <1>1, PTL
=============================================================================
