------------------------------- MODULE Budgets -------------------------------
(***************************************************************************)
(* ScaleDownBudgetProcessor: CropNodes as the algorithm the code has, over *)
(* every pair of candidate lists.  The lists grow one node at a time, as   *)
(* planner.NodesToDelete fills them, and are cropped at some point.        *)
(***************************************************************************)
EXTENDS BudgetContract, SequencesExt

CONSTANT MaxInProgress   \* bound on each of the two in-progress counts

ASSUME BudgetsAssumption == MaxInProgress \in Nat

VARIABLES
  empty, drain,          \* candidate lists, sequences of nodes
  emptyInProgress,       \* number of empty deletions in progress
  drainInProgress,       \* number of drains in progress
  target,                \* [Groups -> Nat], what TargetSize returns
  registered,            \* [Groups -> Nat], number of nodes
                         \* getAllRegisteredNodesForNodeGroup returns
  targetUnknown,         \* groups whose TargetSize call fails
  cropped                \* the result: <<>>, or <<[empty, drain views]>>

vars == <<empty, drain, emptyInProgress, drainInProgress, target, registered,
          targetUnknown, cropped>>

ScaledNodes == ToSet(empty) \cup ToSet(drain)

-----------------------------------------------------------------------------
(* group and groupBuckets. *)

(* A node joins the view of its group, or is the first of a new one. *)
AddToView(views, n) ==
  IF \E i \in DOMAIN views : views[i].group = GroupOf[n]
    THEN [i \in DOMAIN views |->
            IF views[i].group = GroupOf[n] THEN [views[i] EXCEPT !.nodes = Append(@, n)]
                                           ELSE views[i]]
    ELSE Append(views, [group |-> GroupOf[n], nodes |-> <<n>>, batchSize |-> 0])

(* The views of a list, in the order in which the groups first occur. *)
Grouped(nodes) ==
  LET views[i \in 0..Len(nodes)] == IF i = 0 THEN <<>> ELSE AddToView(views[i - 1], nodes[i])
  IN  views[Len(nodes)]

(* What emptyAtomicMap or drainAtomicMap has of a group: at most one view. *)
Buckets(nodes, g) == {view \in ToSet(Grouped(nodes)) : view.group = g}

-----------------------------------------------------------------------------
(***************************************************************************)
(* The two loops over atomic groups, and below the one over the others:    *)
(* each passes over the views that categorize does not give it.            *)
(***************************************************************************)

Minimum(a, b) == IF a < b THEN a ELSE b

(* BatchSize of a view whose nodes are the first of their group. *)
ViewBatchSize(view) ==
  IF Len(view.nodes) = registered[view.group] THEN registered[view.group]
                                              ELSE target[view.group]

(* All nodes of the group are candidates, and its target size is known. *)
Scalable(g, size) ==
  /\ g \notin targetUnknown
  /\ size \in {target[g], registered[g]}

(* Mutant of SneaksIn: any number of groups may exceed the budgets.        *)
AnyGroupSneaksIn(st, drains) == st.parallelism # 0 /\ (drains > 0 => st.drains # 0)

(* One atomic group may exceed the budgets unless they are used up.        *)
SneaksIn(st, drains) ==
  st.canOverflow /\ st.parallelism # 0 /\ (drains > 0 => st.drains # 0)

(***************************************************************************)
(* One turn of the loop over the groups with empty nodes.  st holds the    *)
(* two budgets, canOverflow, whether the loop was left by a break, and the *)
(* views selected so far.                                                  *)
(***************************************************************************)
TakeEmptyAtomic(st, view) ==
  LET g       == view.group
      buckets == Buckets(drain, g)
      drained == CHOOSE bucket \in buckets : TRUE
      drains  == IF buckets = {} THEN 0 ELSE Len(drained.nodes)
      size    == Len(view.nodes) + drains
      batch   == ViewBatchSize(view)
      fits    == st.parallelism >= size /\ st.drains >= drains
  IN  IF g \notin AtomicGroups THEN st
      ELSE IF st.left \/ ~(fits \/ SneaksIn(st, drains)) THEN [st EXCEPT !.left = TRUE]
      ELSE IF ~Scalable(g, size) THEN st
      ELSE [st EXCEPT
              !.parallelism = @ - size,
              !.drains      = @ - drains,
              !.canOverflow = FALSE,
              !.empty       = Append(@, [view EXCEPT !.batchSize = batch]),
              !.drain       = IF buckets = {} THEN @
                              ELSE Append(@, [drained EXCEPT !.batchSize = batch])]

(* One turn of the loop over the groups that only have nodes to drain.     *)
TakeDrainAtomic(st, view) ==
  LET g    == view.group
      size == Len(view.nodes)
      fits == st.drains >= size
  IN  IF g \notin AtomicGroups \/ Buckets(empty, g) # {} THEN st
      ELSE IF st.left \/ ~(fits \/ (st.canOverflow /\ st.drains # 0))
        THEN [st EXCEPT !.left = TRUE]
      ELSE IF ~Scalable(g, size) THEN st
      ELSE [st EXCEPT
              !.parallelism = @ - size,
              !.drains      = @ - size,
              !.canOverflow = FALSE,
              !.drain       = Append(@, [view EXCEPT !.batchSize = ViewBatchSize(view)])]

TakeEmptyAtomics(start) ==
  LET views == Grouped(empty)
      st[i \in 0..Len(views)] == IF i = 0 THEN start ELSE TakeEmptyAtomic(st[i - 1], views[i])
  IN  st[Len(views)]

TakeDrainAtomics(start) ==
  LET views == Grouped(drain)
      st[i \in 0..Len(views)] == IF i = 0 THEN start ELSE TakeDrainAtomic(st[i - 1], views[i])
  IN  st[Len(views)]

(* Mutant of Fitting: a view is never cut short.                           *)
OnlyWholeViews(budget, view) == IF Len(view.nodes) <= budget THEN Len(view.nodes) ELSE 0

(* How many nodes of a view a budget has room for. *)
Fitting(budget, view) == Minimum(budget, Len(view.nodes))

(***************************************************************************)
(* cropIndividualNodes: the views that fit, the last of them cut short.    *)
(***************************************************************************)
CropView(st, view) ==
  LET taken == Fitting(st.left, view)
  IN  IF view.group \in AtomicGroups \/ st.left < 1 THEN st
      ELSE [left  |-> st.left - taken,
            views |-> Append(st.views, [view EXCEPT !.nodes = SubSeq(@, 1, taken)])]

CropIndividualNodes(views, budget) ==
  LET st[i \in 0..Len(views)] ==
        IF i = 0 THEN [left |-> budget, views |-> <<>>] ELSE CropView(st[i - 1], views[i])
  IN  st[Len(views)]

-----------------------------------------------------------------------------
Cropped ==
  LET start   == [parallelism |-> ParallelismBudget(emptyInProgress, drainInProgress),
                  drains      |-> DrainBudget(drainInProgress),
                  canOverflow |-> TRUE, left |-> FALSE, empty |-> <<>>, drain |-> <<>>]
      first   == TakeEmptyAtomics(start)
      second  == TakeDrainAtomics([first EXCEPT !.left = FALSE,
                                                !.drains = Minimum(first.parallelism, @)])
      empties == CropIndividualNodes(Grouped(empty), second.parallelism)
      drains  == CropIndividualNodes(Grouped(drain), Minimum(empties.left, second.drains))
  IN  [empty |-> second.empty \o empties.views,
       drain |-> second.drain \o drains.views]

NodesIn(views) == UNION {ToSet(views[i].nodes) : i \in DOMAIN views}

-----------------------------------------------------------------------------
(***************************************************************************)
(* A group may have an instance that never registered (its target size is  *)
(* larger than its number of nodes), its instances may not be listed (no   *)
(* node counts as registered), or TargetSize may fail.                     *)
(***************************************************************************)
GroupSize == [g \in Groups |-> Cardinality(NodesOf(g))]

Init ==
  /\ empty = <<>>
  /\ drain = <<>>
  /\ emptyInProgress \in 0..MaxInProgress
  /\ drainInProgress \in 0..MaxInProgress
  /\ \E unregistered, unlisted, unknown \in SUBSET AtomicGroups :
       /\ target = [g \in Groups |-> GroupSize[g] + (IF g \in unregistered THEN 1 ELSE 0)]
       /\ registered = [g \in Groups |-> IF g \in unlisted THEN 0 ELSE GroupSize[g]]
       /\ targetUnknown = unknown
  /\ cropped = <<>>

(* planner.NodesToDelete. *)
AddCandidate(n) ==
  /\ cropped = <<>>
  /\ n \notin ScaledNodes
  /\ \/ empty' = Append(empty, n) /\ UNCHANGED drain
     \/ drain' = Append(drain, n) /\ UNCHANGED empty
  /\ UNCHANGED <<emptyInProgress, drainInProgress, target, registered, targetUnknown, cropped>>

CropNodes ==
  /\ cropped = <<>>
  /\ cropped' = <<Cropped>>
  /\ UNCHANGED <<empty, drain, emptyInProgress, drainInProgress, target, registered,
                 targetUnknown>>

Next == (\E n \in Nodes : AddCandidate(n)) \/ CropNodes

Spec == Init /\ [][Next]_vars

-----------------------------------------------------------------------------
(* Properties                                                              *)

SelectedEmpty == NodesIn(cropped[1].empty)
SelectedDrain == NodesIn(cropped[1].drain)

(***************************************************************************)
(* Every view of an atomic group, of its empty nodes and of its nodes to   *)
(* drain, has the same batch size; the scheduler compares one queue of the *)
(* group with both.                                                        *)
(***************************************************************************)
BatchSizesAgree ==
  \A list \in {cropped[1].empty, cropped[1].drain} : \A i \in DOMAIN list :
    LET view == list[i]
    IN  view.batchSize = IF view.group \in AtomicGroups
                           THEN BatchSizeOf(view.group, SelectedEmpty, SelectedDrain,
                                            target, registered)
                           ELSE 0

(***************************************************************************)
(* What the actuator relies on holds of every selection: atomic groups     *)
(* whole or not at all, at most one of them beyond the limits, nodes that  *)
(* are deleted one by one only within what is left of both limits, and one *)
(* batch size for a group whose nodes come in two views.                   *)
(***************************************************************************)
KeepsContract ==
  cropped # <<>> =>
    /\ WithinBudget(emptyInProgress, drainInProgress, target, registered,
                    SelectedEmpty, SelectedDrain)
    /\ BatchSizesAgree

(***************************************************************************)
(* No budget is wasted and nothing is cropped without need: whatever the   *)
(* selected atomic groups leave of the limits goes to nodes that can be    *)
(* deleted one by one, empty ones first, as far as there are candidates.   *)
(***************************************************************************)
BudgetIsUsedUp ==
  cropped # <<>> =>
    LET left(limit, used) == IF used < limit THEN limit - used ELSE 0
        inProgress == emptyInProgress + drainInProgress
        atomic     == Cardinality(Atomic(SelectedEmpty \cup SelectedDrain))
        empties    == left(MaxScaleDownParallelism, inProgress + atomic)
        drains     == Minimum(
                        left(MaxScaleDownParallelism,
                             inProgress + atomic + Cardinality(Individual(SelectedEmpty))),
                        left(MaxDrainParallelism,
                             drainInProgress + Cardinality(Atomic(SelectedDrain))))
    IN  /\ Cardinality(Individual(SelectedEmpty)) =
             Minimum(empties, Cardinality(Individual(ToSet(empty))))
        /\ Cardinality(Individual(SelectedDrain)) =
             Minimum(drains, Cardinality(Individual(ToSet(drain))))

(***************************************************************************)
(* The batch of every selected atomic group can be completed by the nodes  *)
(* selected with it, so that nothing waits in the scheduler's queue for an *)
(* instance that never became a node - what the comment in CropNodes wants *)
(* ("Waiting for such instances could block scale down indefinitely").     *)
(* Not kept for a group with both empty nodes and nodes to drain: only the *)
(* empty ones are compared with the number of registered nodes.            *)
(***************************************************************************)
BatchIsReachable ==
  cropped # <<>> =>
    \A g \in AtomicSelected(SelectedEmpty \cup SelectedDrain) :
      BatchSizeOf(g, SelectedEmpty, SelectedDrain, target, registered)
        <= Cardinality((SelectedEmpty \cup SelectedDrain) \cap NodesOf(g))

=============================================================================
