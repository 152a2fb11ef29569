-------------------------- MODULE ScaleUpBalancing ---------------------------
(***************************************************************************)
(* BalanceScaleUpBetweenGroups of the BalancingNodeGroupSetProcessor: how  *)
(* new nodes are spread over similar node groups.  One step is one turn of *)
(* the loop, which moves two indexes over a list it partly sorts.          *)
(*                                                                         *)
(* The list holds the groups; the sizes of its ScaleUpInfos are functions  *)
(* of the group.  Indexes begin with one.  Sizes, limits and the number of *)
(* new nodes are arbitrary, and a group may be larger than its limit, as   *)
(* somebody may have lowered the limit.                                    *)
(***************************************************************************)
EXTENDS Integers, Sequences, FiniteSets

CONSTANTS
  Groups,
  SizeBound,     \* bound on sizes and limits
  NodesBound     \* bound on the new nodes asked for

ASSUME BalancingAssumption == IsFiniteSet(Groups) /\ SizeBound \in Nat /\ NodesBound \in Nat

VARIABLES
  currentSize,   \* ScaleUpInfo.CurrentSize, the target sizes
  maxSize,       \* ScaleUpInfo.MaxSize
  newSize,       \* ScaleUpInfo.NewSize
  scaleUpInfos,  \* the groups that are considered, in their order
  newNodes,      \* nodes that are not allocated yet
  startIndex,
  currentIndex

vars == <<currentSize, maxSize, newSize, scaleUpInfos, newNodes, startIndex, currentIndex>>

-----------------------------------------------------------------------------
(* The nodes that the limits leave room for, by group and number.          *)
FreePlaces(size) ==
  {place \in Groups \X (1..SizeBound) :
     size[place[1]] < place[2] /\ place[2] <= maxSize[place[1]]}

(* totalCapacity, the sum of what the groups below their limit lack. *)
TotalCapacity == Cardinality(FreePlaces(currentSize))

(* What is asked for is capped to the total capacity. *)
Capped(nodes) == nodes <= TotalCapacity

(* Groups at their limit are ignored, those above it are not. *)
Considered == {g \in Groups : currentSize[g] # maxSize[g]}

(* Mutant of Sorted: the list is left as it is.                            *)
NotSorted(list) == TRUE

(* sort.Slice, which is not stable. *)
Sorted(list) ==
  \A i, j \in 1..Len(list) : i < j => currentSize[list[i]] <= currentSize[list[j]]

Init ==
  /\ currentSize \in [Groups -> 0..SizeBound]
  /\ maxSize \in [Groups -> 0..SizeBound]
  /\ newSize = currentSize
  /\ newNodes \in 0..NodesBound
  /\ Capped(newNodes)
  /\ scaleUpInfos \in [1..Cardinality(Considered) -> Considered]
  /\ \A i, j \in DOMAIN scaleUpInfos : scaleUpInfos[i] = scaleUpInfos[j] => i = j
  /\ \A g \in Considered : \E i \in DOMAIN scaleUpInfos : scaleUpInfos[i] = g
  /\ Sorted(scaleUpInfos)
  /\ startIndex = 1
  /\ currentIndex = 1

-----------------------------------------------------------------------------
(* Mutant of HasCurrent: the loop turns once too often.                    *)
HasCurrentAnyway == newNodes >= 0 /\ currentIndex \in 1..Len(scaleUpInfos)

(* currentInfo.  Beyond the list, the program would panic. *)
HasCurrent == newNodes > 0 /\ currentIndex \in 1..Len(scaleUpInfos)

Current == scaleUpInfos[currentIndex]

Full(g) == newSize[g] >= maxSize[g]

(* Mutant of NextIndex: a group as large as the next one is passed, too.   *)
NextIndexAnyway(size, list, start) ==
  IF currentIndex < Len(list) /\ size[list[currentIndex]] >= size[list[currentIndex + 1]]
    THEN currentIndex + 1
    ELSE start

(* currentInfo points to the place in the list, so after a swap it is the  *)
(* group that has come there.                                              *)
NextIndex(size, list, start) ==
  IF currentIndex < Len(list) /\ size[list[currentIndex]] > size[list[currentIndex + 1]]
    THEN currentIndex + 1
    ELSE start

(* Add a node to the group on currentIndex. *)
AddNode ==
  /\ HasCurrent
  /\ ~Full(Current)
  /\ newSize' = [newSize EXCEPT ![Current] = @ + 1]
  /\ newNodes' = newNodes - 1
  /\ currentIndex' = NextIndex(newSize', scaleUpInfos, startIndex)
  /\ UNCHANGED <<currentSize, maxSize, scaleUpInfos, startIndex>>

(* Mutant of SwappedWithFirst: the full group stays where it is.           *)
NotSwapped == scaleUpInfos

SwappedWithFirst ==
  [scaleUpInfos EXCEPT ![startIndex] = scaleUpInfos[currentIndex],
                       ![currentIndex] = scaleUpInfos[startIndex]]

(* The group on currentIndex is full: move it out of the rest of the list. *)
RemoveFullGroup ==
  /\ HasCurrent
  /\ Full(Current)
  /\ scaleUpInfos' = SwappedWithFirst
  /\ startIndex' = startIndex + 1
  /\ currentIndex' = NextIndex(newSize, scaleUpInfos', startIndex')
  /\ UNCHANGED <<currentSize, maxSize, newSize, newNodes>>

Next == AddNode \/ RemoveFullGroup

(* The loop runs until no nodes are left. *)
Spec == Init /\ [][Next]_vars /\ WF_vars(Next)

-----------------------------------------------------------------------------
BalancingTypeOK ==
  /\ currentSize \in [Groups -> Nat]
  /\ maxSize \in [Groups -> Nat]
  /\ newSize \in [Groups -> Nat]
  /\ scaleUpInfos \in Seq(Groups)
  /\ newNodes \in Nat
  /\ startIndex \in 1..Len(scaleUpInfos) + 1
  /\ currentIndex \in 1..Len(scaleUpInfos) + 1

Size(i) == newSize[scaleUpInfos[i]]

(* Loop invariant 3 of the comment and its remark that groups are not all  *)
(* removed while nodes are left: the index never leaves the list, the      *)
(* program does not panic.                                                 *)
IndexInRange == newNodes > 0 => startIndex <= currentIndex /\ currentIndex <= Len(scaleUpInfos)

(* The loop invariants 3 to 6 of the comment, of the new sizes, with the   *)
(* strict inequality that its remark on the swap relies on: the groups     *)
(* before currentIndex have one node more, those after it are sorted.      *)
LoopInvariants ==
  /\ IndexInRange
  /\ \A i, j \in currentIndex..Len(scaleUpInfos) : i < j => Size(i) <= Size(j)
  /\ \A i \in startIndex..(currentIndex - 1) :
       currentIndex <= Len(scaleUpInfos) => Size(i) = Size(currentIndex) + 1

(* The purpose of it all: at any time, no group was given a                *)
(* node that would have fit a group smaller than that by two.              *)
Balanced ==
  \A g, h \in Groups :
    newSize[g] > currentSize[g] /\ newSize[h] < maxSize[h] => newSize[g] <= newSize[h] + 1

(* All nodes are allocated in the end, so the loop terminates, and what    *)
(* was allocated stays within the capacity.                                *)
AllAllocated == <>[](newNodes = 0)

(* Not kept: loop invariant 2 of the comment, for the groups that had room *)
(* at first: those from startIndex on have room.  A group that a node has  *)
(* just filled stays there until currentIndex comes to it again.           *)
RestHasRoom ==
  newNodes > 0 =>
    \A i \in startIndex..Len(scaleUpInfos) :
      LET g == scaleUpInfos[i] IN currentSize[g] < maxSize[g] => newSize[g] < maxSize[g]
=============================================================================
