-------------------------- MODULE DeltaSnapshotStore --------------------------
(***************************************************************************)
(* The store of a cluster snapshot as delta.go has it, the one in use: a   *)
(* stack of changes with lists that are built when asked for.              *)
(*                                                                         *)
(* A list is what it holds of every node, in order: it should hold a node  *)
(* of the snapshot once, with its pods.  The list of the nodes with        *)
(* required anti-affinity is kept like that of the nodes with affinity.    *)
(***************************************************************************)
EXTENDS Naturals, Sequences, FiniteSetsExt

CONSTANTS
  Nodes, Pods, Absent,
  UsesClaim, HasAffinity,  \* pods
  NotBuilt,                \* nil, of a list or of the count of the claims
  MaxForks                 \* bound on the levels on top of the first

ASSUME StoreAssumption ==
  /\ IsFiniteSet(Nodes)
  /\ \A pods \in SUBSET Pods : pods # Absent
  /\ MaxForks \in Nat

VARIABLES levels, ok

deltaVars == <<levels, ok>>

NodeInfos == SUBSET Pods
NoNodes == [n \in Nodes |-> Absent]

NewLevel ==
  [added |-> NoNodes, modified |-> NoNodes, deleted |-> {},
   list |-> NotBuilt, affinity |-> NotBuilt, claims |-> NotBuilt]

-----------------------------------------------------------------------------
(* Reading a stack of levels. *)
GetNodeInfoLocal(d, n) == IF d.added[n] # Absent THEN d.added[n] ELSE d.modified[n]

GetNodeInfo(ls, n) ==
  LET says == {i \in DOMAIN ls : GetNodeInfoLocal(ls[i], n) # Absent \/ n \in ls[i].deleted}
  IN  IF says = {} THEN Absent ELSE GetNodeInfoLocal(ls[Max(says)], n)

Below(ls) == SubSeq(ls, 1, Len(ls) - 1)

View(ls) == [n \in Nodes |-> GetNodeInfo(ls, n)]

ListOf(m) == [n \in Nodes |-> IF m[n] = Absent THEN <<>> ELSE <<m[n]>>]

(* Mutant of Listed: nodes deleted in the level stay in the list.          *)
ListedWithDeleted(d, baseList) ==
  [n \in Nodes |->
    [i \in DOMAIN baseList[n] |->
       IF d.modified[n] # Absent THEN d.modified[n] ELSE baseList[n][i]]
    \o ListOf(d.added)[n]]

(* buildNodeInfoList *)
Listed(d, baseList) ==
  [n \in Nodes |->
    (IF n \in d.deleted THEN <<>>
     ELSE [i \in DOMAIN baseList[n] |->
             IF d.modified[n] # Absent THEN d.modified[n] ELSE baseList[n][i]])
    \o ListOf(d.added)[n]]

(* getNodeInfoList of every level, from those that are built. *)
NodeInfoLists(ls) ==
  LET lists[i \in 0..Len(ls)] ==
        IF i = 0 THEN ListOf(NoNodes)
        ELSE IF ls[i].list # NotBuilt THEN ls[i].list
        ELSE Listed(ls[i], lists[i - 1])
  IN  lists

(* A level that has its list does not ask the one below for its own. *)
AskedForList(ls) ==
  {i \in DOMAIN ls : \A j \in i..Len(ls) : ls[j].list = NotBuilt}

WithLists(ls) ==
  [i \in DOMAIN ls |->
    IF i \in AskedForList(ls) THEN [ls[i] EXCEPT !.list = NodeInfoLists(ls)[i]] ELSE ls[i]]

(* Counting the nodes of a list with pods of ps, and the pods of ps. *)
NodesWith(list, ps) ==
  {n \in Nodes : \E i \in DOMAIN list[n] : list[n][i] \intersect ps # {}}

UsersIn(list) ==
  (UNION {UNION {list[n][i] : i \in DOMAIN list[n]} : n \in Nodes}) \intersect UsesClaim

-----------------------------------------------------------------------------
(* Changing the topmost level, which gives the levels and whether it       *)
(* worked.                                                                 *)
Result(ls, worked) == [levels |-> ls, ok |-> worked]

WithTop(ls, d) == [ls EXCEPT ![Len(ls)] = d]

ClearPodCaches(d) == [d EXCEPT !.affinity = NotBuilt, !.claims = NotBuilt]

ClearCaches(d) == [ClearPodCaches(d) EXCEPT !.list = NotBuilt]

(* Mutant of Added: a node deleted in the level counts as added.           *)
AddedAnyway(d, n, pods) == [d EXCEPT !.added[n] = pods, !.deleted = @ \ {n}]

Added(d, n, pods) ==
  IF n \in d.deleted
  THEN [d EXCEPT !.deleted = @ \ {n}, !.modified[n] = pods]
  ELSE [d EXCEPT !.added[n] = pods]

(* Mutant of Cached: the caches of a new node's pods are kept.             *)
CachedAnyway(d, n, pods) ==
  IF d.list = NotBuilt THEN d ELSE [d EXCEPT !.list[n] = Append(@, pods)]

(* The caches of a level to which a node is added. *)
Cached(d, n, pods) ==
  LET e == IF d.list = NotBuilt THEN d ELSE [d EXCEPT !.list[n] = Append(@, pods)]
  IN  IF pods = {} THEN e ELSE ClearPodCaches(e)

AddNodeInfo(ls, n, pods) ==
  IF GetNodeInfo(ls, n) # Absent THEN Result(ls, FALSE)
  ELSE Result(WithTop(ls, Cached(Added(ls[Len(ls)], n, pods), n, pods)), TRUE)

(* Mutant of RemoveFromLevel: a node modified in the level is seen again   *)
(* as it was below instead of being deleted.                               *)
RemoveModification(ls, n) ==
  LET d == ls[Len(ls)]
      inBase == GetNodeInfo(Below(ls), n) # Absent
  IN  IF n \in d.deleted \/ (~inBase /\ d.added[n] = Absent) THEN Result(ls, FALSE)
      ELSE Result(WithTop(ls, ClearCaches(
             [d EXCEPT !.added[n] = Absent, !.modified[n] = Absent,
                       !.deleted = IF inBase /\ d.modified[n] = Absent THEN @ \union {n} ELSE @])),
             TRUE)

RemoveFromLevel(ls, n) ==
  LET d == ls[Len(ls)]
      undone == [d EXCEPT !.added[n] = Absent, !.modified[n] = Absent]
      inBase == GetNodeInfo(Below(ls), n) # Absent
  IN  IF n \in d.deleted THEN Result(WithTop(ls, undone), FALSE)
      ELSE IF ~inBase /\ d.added[n] = Absent THEN Result(WithTop(ls, undone), FALSE)
      ELSE Result(WithTop(ls, ClearCaches(
             [undone EXCEPT !.deleted = IF inBase THEN @ \union {n} ELSE @])), TRUE)

(* nodeInfoToModify: a node of a level below is copied into this one. *)
NodeInfoToModify(ls, n) ==
  LET d == ls[Len(ls)]
      base == GetNodeInfo(Below(ls), n)
  IN  IF GetNodeInfoLocal(d, n) # Absent THEN Result(ls, TRUE)
      ELSE IF n \in d.deleted \/ base = Absent THEN Result(ls, FALSE)
      ELSE Result(WithTop(ls, ClearCaches([d EXCEPT !.modified[n] = base])), TRUE)

WithPods(d, n, pods) ==
  IF d.added[n] # Absent THEN [d EXCEPT !.added[n] = pods] ELSE [d EXCEPT !.modified[n] = pods]

ChangePods(ls, n, pods) == WithTop(ls, ClearCaches(WithPods(ls[Len(ls)], n, pods)))

AddPodInfo(ls, p, n) ==
  LET r == NodeInfoToModify(ls, n)
  IN  IF ~r.ok THEN r
      ELSE Result(ChangePods(r.levels, n, GetNodeInfo(r.levels, n) \union {p}), TRUE)

RemovePod(ls, p, n) ==
  LET r == NodeInfoToModify(ls, n)
  IN  IF ~r.ok THEN r
      ELSE IF p \notin GetNodeInfo(r.levels, n) THEN Result(r.levels, FALSE)
      ELSE Result(ChangePods(r.levels, n, GetNodeInfo(r.levels, n) \ {p}), TRUE)

-----------------------------------------------------------------------------
(* commit applies the changes of the topmost level one by one to the rest. *)
Present(m) == {n \in Nodes : m[n] # Absent}

(* The next one of a Go map, in whatever order. *)
AnyOf(S) == CHOOSE n \in S : TRUE

CommitDeleted(d, r) ==
  LET after[S \in SUBSET d.deleted] ==
        IF S = {} THEN r
        ELSE LET n == AnyOf(S)
                 rest == after[S \ {n}]
             IN  IF rest.ok THEN RemoveFromLevel(rest.levels, n) ELSE rest
  IN  after[d.deleted]

ReplaceNode(r, n, pods) ==
  LET removed == RemoveFromLevel(r.levels, n)
  IN  IF removed.ok THEN AddNodeInfo(removed.levels, n, pods) ELSE removed

CommitModified(d, r) ==
  LET after[S \in SUBSET Present(d.modified)] ==
        IF S = {} THEN r
        ELSE LET n == AnyOf(S)
                 rest == after[S \ {n}]
             IN  IF rest.ok THEN ReplaceNode(rest, n, d.modified[n]) ELSE rest
  IN  after[Present(d.modified)]

CommitAdded(d, r) ==
  LET after[S \in SUBSET Present(d.added)] ==
        IF S = {} THEN r
        ELSE LET n == AnyOf(S)
                 rest == after[S \ {n}]
             IN  IF rest.ok THEN AddNodeInfo(rest.levels, n, d.added[n]) ELSE rest
  IN  after[Present(d.added)]

(* If it fails the rest keeps what was applied. *)
Committed(ls) ==
  LET d == ls[Len(ls)]
      r == CommitAdded(d, CommitModified(d, CommitDeleted(d, Result(Below(ls), TRUE))))
  IN  IF r.ok THEN r ELSE Result(Append(r.levels, d), FALSE)

-----------------------------------------------------------------------------
Top == levels[Len(levels)]

Return(r) == levels' = r.levels /\ ok' = r.ok

(* The callers place a pod that is on no node. *)
Placed(m) == UNION {m[n] : n \in Present(m)}

Init == levels = <<NewLevel>> /\ ok = TRUE

StoreNodeInfo(n, pods) ==
  /\ pods \intersect Placed(View(levels)) = {}
  /\ Return(AddNodeInfo(levels, n, pods))

RemoveNodeInfo(n) == Return(RemoveFromLevel(levels, n))

StorePodInfo(p, n) ==
  /\ p \notin Placed(View(levels))
  /\ Return(AddPodInfo(levels, p, n))

RemovePodInfo(p, n) == Return(RemovePod(levels, p, n))

Fork ==
  /\ Len(levels) <= MaxForks
  /\ levels' = Append(levels, NewLevel)
  /\ UNCHANGED ok

Revert ==
  /\ levels' = IF Len(levels) = 1 THEN levels ELSE Below(levels)
  /\ UNCHANGED ok

Commit ==
  IF Len(levels) = 1 THEN UNCHANGED levels /\ ok' = TRUE ELSE Return(Committed(levels))

Clear == levels' = <<NewLevel>> /\ UNCHANGED ok

(* The readers change only what is built. *)
List == levels' = WithLists(levels) /\ UNCHANGED ok

HavePodsWithAffinityList ==
  /\ Top.affinity = NotBuilt
  /\ LET ls == WithLists(levels)
         d == ls[Len(ls)]
     IN  levels' = WithTop(ls, [d EXCEPT !.affinity = NodesWith(d.list, HasAffinity)])
  /\ UNCHANGED ok

IsPVCUsedByPods ==
  /\ Top.claims = NotBuilt
  /\ LET ls == WithLists(levels)
         d == ls[Len(ls)]
     IN  levels' = WithTop(ls, [d EXCEPT !.claims = UsersIn(d.list)])
  /\ UNCHANGED ok

Next ==
  \/ \E n \in Nodes, pods \in NodeInfos : StoreNodeInfo(n, pods)
  \/ \E n \in Nodes : RemoveNodeInfo(n)
  \/ \E n \in Nodes, p \in Pods : StorePodInfo(p, n) \/ RemovePodInfo(p, n)
  \/ Fork \/ Revert \/ Commit \/ Clear
  \/ List \/ HavePodsWithAffinityList \/ IsPVCUsedByPods

Spec == Init /\ [][Next]_deltaVars

-----------------------------------------------------------------------------
Lists == [Nodes -> Seq(NodeInfos)]
NodeMaps == [Nodes -> NodeInfos \union {Absent}]

DeltaTypeOK ==
  /\ Len(levels) \in 1..(MaxForks + 1)
  /\ \A i \in DOMAIN levels :
       /\ levels[i].added \in NodeMaps /\ levels[i].modified \in NodeMaps
       /\ levels[i].deleted \subseteq Nodes
       /\ levels[i].list = NotBuilt \/ levels[i].list \in Lists
       /\ levels[i].affinity = NotBuilt \/ levels[i].affinity \subseteq Nodes
       /\ levels[i].claims = NotBuilt \/ levels[i].claims \subseteq Pods
  /\ ok \in BOOLEAN

(* A level holds a node as added only when the levels below do not have    *)
(* it, as modified or deleted only when they do, and never as two of them. *)
(* It is why the steps of a commit cannot fail half way.                   *)
LevelsFit ==
  \A i \in DOMAIN levels : \A n \in Nodes :
    LET d == levels[i]
        below == GetNodeInfo(SubSeq(levels, 1, i - 1), n)
    IN  /\ d.added[n] # Absent => below = Absent
        /\ d.modified[n] # Absent \/ n \in d.deleted => below # Absent /\ d.added[n] = Absent
        /\ d.modified[n] # Absent => n \notin d.deleted

(* The levels keep their shape, and contradict neither themselves nor the  *)
(* levels below them.                                                      *)
LevelsConsistent == DeltaTypeOK /\ LevelsFit

(* What was built at any level is what that level would build now: no      *)
(* change of a level, and none made while it was under a fork that was     *)
(* committed into it or reverted, leaves a stale list.                     *)
CachesFresh ==
  \A i \in DOMAIN levels :
    LET d == levels[i]
        list == ListOf(View(SubSeq(levels, 1, i)))
    IN  /\ d.list # NotBuilt => d.list = list
        /\ d.affinity # NotBuilt => d.affinity = NodesWith(list, HasAffinity)
        /\ d.claims # NotBuilt => d.claims = UsersIn(list)

(* What the reference implementation keeps of the levels ls.               *)
CopyOf(ls) ==
  LET m == View(ls) IN [nodeInfoMap |-> m, pvcPods |-> Placed(m) \intersect UsesClaim]

Basic == INSTANCE BasicSnapshotStore WITH
           data <- [i \in DOMAIN levels |-> CopyOf(SubSeq(levels, 1, i))]

(* The store in use answers like the reference implementation: it has the  *)
(* same nodes, pods and claims at every level, and the same operations     *)
(* fail; commit never does.                                                *)
StoreImplementsBasic == Basic!Spec
=============================================================================
