----------------------------- MODULE PartsProofs -----------------------------
(***************************************************************************)
(* Parts that keep to themselves, for any values of their constants.       *)
(* Balancing: the nodes of a scale-up are spread evenly; the loop          *)
(* invariants of the comment, corrected where the code needs more, are     *)
(* inductive.  Reports: the result of a node deletion is in the status of  *)
(* one loop, and of one only.  Claims: in a forked snapshot the resource   *)
(* claims are reserved for the pods that are placed, at every level.       *)
(***************************************************************************)
EXTENDS MCParts, FiniteSetTheorems,
        NaturalsInduction, WellFoundedInduction, TLAPS

(* The parts of the invariant, for a list L of N groups, the sizes of all  *)
(* groups, the sizes z of the places of the list, and its two indexes.     *)
Sizes(N, L, size) == [i \in 1..N |-> size[L[i]]]

(* The list holds each group once, and all groups that may be given nodes. *)
Once(N, L) == \A i, j \in 1..N : L[i] = L[j] => i = j
Rest(N, L, size) ==
  \A g \in Groups : (\E i \in 1..N : L[i] = g) \/ (size[g] = currentSize[g] /\ size[g] = maxSize[g])

(* Loop invariant 1: the groups moved to the front are full. *)
FrontFull(L, s, size) == \A i \in 1..(s - 1) : size[L[i]] >= maxSize[L[i]]

(* Loop invariants 4 to 6: see LoopInvariants. *)
PartlySorted(N, z, s, c) ==
  /\ \A i, j \in c..N : i < j => z[i] <= z[j]
  /\ \A i \in s..(c - 1) : c <= N => z[i] = z[c] + 1

(* What was given a node is at most one above all groups that remain. *)
Low(N, L, s, z) ==
  \A i \in 1..N, j \in s..N : z[i] > currentSize[L[i]] => z[i] <= z[j] + 1

SizesTypeOK == /\ newSize \in [Groups -> Nat]
               /\ currentSize \in [Groups -> Nat]
               /\ maxSize \in [Groups -> Nat]

ListInv(N, L, s, c) ==
  /\ s \in 1..(N + 1)
  /\ c \in s..(N + 1)
  /\ Once(N, L)
  /\ Rest(N, L, newSize)
  /\ FrontFull(L, s, newSize)
  /\ PartlySorted(N, Sizes(N, L, newSize), s, c)
  /\ Low(N, L, s, Sizes(N, L, newSize))

BalancingInv ==
  /\ SizesTypeOK
  /\ scaleUpInfos \in Seq(Groups)
  /\ newNodes \in Nat
  /\ ListInv(Len(scaleUpInfos), scaleUpInfos, startIndex, currentIndex)

-----------------------------------------------------------------------------
LEMMA InitInv == Init => BalancingInv
<1> SUFFICES ASSUME Init PROVE BalancingInv
  OBVIOUS
<1> USE BalancingAssumption
<1>1. /\ currentSize \in [Groups -> Nat] /\ maxSize \in [Groups -> Nat]
      /\ newSize = currentSize /\ newNodes \in Nat
      /\ startIndex = 1 /\ currentIndex = 1
  BY DEF Init
<1>2. IsFiniteSet(Considered) /\ Considered \subseteq Groups
  BY FS_Subset DEF Considered
<1>3. Cardinality(Considered) \in Nat
  BY <1>2, FS_CardinalityType
<1>4. /\ scaleUpInfos \in Seq(Groups)
      /\ scaleUpInfos \in [1..Len(scaleUpInfos) -> Considered]
      /\ Len(scaleUpInfos) \in Nat
      /\ DOMAIN scaleUpInfos = 1..Len(scaleUpInfos)
  BY <1>2, <1>3 DEF Init
<1> DEFINE N == Len(scaleUpInfos)
<1>5. SizesTypeOK
  BY <1>1 DEF SizesTypeOK
<1>6. Once(N, scaleUpInfos) /\ Rest(N, scaleUpInfos, newSize)
  BY <1>1, <1>4 DEF Init, Once, Rest, Considered
<1>7. PartlySorted(N, Sizes(N, scaleUpInfos, newSize), 1, 1)
  BY <1>1, <1>4 DEF Init, Sorted, PartlySorted, Sizes
<1>8. Low(N, scaleUpInfos, 1, Sizes(N, scaleUpInfos, newSize))
  BY <1>1, <1>4 DEF Low, Sizes
<1>9. FrontFull(scaleUpInfos, 1, newSize)
  BY DEF FrontFull
<1> QED
  BY <1>1, <1>4, <1>5, <1>6, <1>7, <1>8, <1>9 DEF BalancingInv, ListInv

(* What the two steps do to the sizes z of the places of the list, from    *)
(* place s on, of which c is the current one and d the next: y are the     *)
(* sizes after the step.                                                   *)
Step(N, s, c, z, y) ==
  /\ N \in Nat /\ s \in 1..N /\ c \in s..N
  /\ z \in [1..N -> Int] /\ y \in [1..N -> Int]
  /\ PartlySorted(N, z, s, c)

Grow(N, s, c, d, z, y) ==
  /\ Step(N, s, c, z, y)
  /\ y[c] = z[c] + 1
  /\ \A i \in (1..N) \ {c} : y[i] = z[i]
  /\ d = IF c < N /\ y[c] > y[c + 1] THEN c + 1 ELSE s

Swap(N, s, c, d, z, y) ==
  /\ Step(N, s, c, z, y)
  /\ y[s] = z[c] /\ y[c] = z[s]
  /\ \A i \in (1..N) \ {s, c} : y[i] = z[i]
  /\ d = IF c < N /\ y[c] > y[c + 1] THEN c + 1 ELSE s + 1

LEMMA StepFacts ==
  ASSUME NEW N, NEW s, NEW c, NEW z, NEW y, Step(N, s, c, z, y)
  PROVE  /\ N \in Nat /\ s \in Nat /\ c \in Nat /\ 1 <= s /\ s <= c /\ c <= N
         /\ \A i \in 1..N : z[i] \in Int /\ y[i] \in Int
         /\ \A j \in (c + 1)..N : z[c] <= z[j]
         /\ \A i \in s..(c - 1) : z[i] = z[c] + 1
BY DEF Step, PartlySorted

(* Sorted from the next place on is what the choice of d is about. *)
LEMMA SortedAfter ==
  ASSUME NEW N, NEW s, NEW c, NEW z, NEW y, Step(N, s, c, z, y),
         \A i \in (c + 1)..N : y[i] = z[i],
         ~(c < N /\ y[c] > y[c + 1])
  PROVE  \A j \in (c + 1)..N : y[c] <= y[j]
<1> SUFFICES ASSUME NEW j \in (c + 1)..N PROVE y[c] <= y[j]
  OBVIOUS
<1>1. /\ N \in Nat /\ c \in Nat /\ 1 <= c /\ c < N /\ j \in Nat /\ c + 1 <= j /\ j <= N
      /\ \A i \in 1..N : z[i] \in Int /\ y[i] \in Int
  BY StepFacts
<1>2. y[c + 1] = z[c + 1] /\ y[j] = z[j]
  BY <1>1
<1>3. z[c + 1] <= z[j]
  <2>1. CASE j = c + 1
    BY <2>1, <1>1
  <2>2. CASE j # c + 1
    BY <2>2, <1>1 DEF Step, PartlySorted
  <2> QED
    BY <2>1, <2>2
<1>4. y[c] <= y[c + 1] /\ y[c] \in Int /\ y[j] \in Int /\ y[c + 1] \in Int
  BY <1>1
<1> QED
  BY <1>2, <1>3, <1>4

LEMMA GrowKeepsOrder ==
  ASSUME NEW N, NEW s, NEW c, NEW d, NEW z, NEW y, Grow(N, s, c, d, z, y)
  PROVE  PartlySorted(N, y, s, d)
<1>1. /\ N \in Nat /\ s \in Nat /\ c \in Nat /\ 1 <= s /\ s <= c /\ c <= N
      /\ \A i \in 1..N : z[i] \in Int /\ y[i] \in Int
      /\ \A j \in (c + 1)..N : z[c] <= z[j]
      /\ \A i \in s..(c - 1) : z[i] = z[c] + 1
  BY StepFacts DEF Grow
<1>2. /\ \A i \in (c + 1)..N : y[i] = z[i]
      /\ \A i \in s..c : y[i] = z[c] + 1
  BY <1>1 DEF Grow
<1>3. \A i, j \in (c + 1)..N : i < j => y[i] <= y[j]
  BY <1>1, <1>2 DEF Grow, Step, PartlySorted
<1>4. CASE c < N /\ y[c] > y[c + 1]
  <2>1. d = c + 1 /\ y[d] = z[d] /\ z[c] <= z[d] /\ z[c] + 1 > z[d] /\ z[d] \in Int /\ z[c] \in Int
    BY <1>1, <1>2, <1>4 DEF Grow
  <2>2. z[c] = z[d]
    BY <2>1
  <2> QED
    BY <2>1, <2>2, <1>1, <1>2, <1>3 DEF PartlySorted
<1>5. CASE ~(c < N /\ y[c] > y[c + 1])
  <2>1. d = s
    BY <1>5 DEF Grow
  <2>2. \A j \in (c + 1)..N : y[c] <= y[j]
    BY <1>2, <1>5, SortedAfter DEF Grow
  <2>3. ASSUME NEW i \in s..N, NEW j \in s..N, i < j PROVE y[i] <= y[j]
    <3>1. CASE j <= c
      <4>1. y[i] = y[j] /\ y[i] \in Int
        BY <3>1, <2>3, <1>1, <1>2
      <4> QED
        BY <4>1
    <3>2. CASE i <= c /\ c < j
      <4>1. y[i] = y[c] /\ y[c] <= y[j]
        BY <3>2, <1>1, <1>2, <2>2
      <4> QED
        BY <4>1
    <3>3. CASE c < i
      BY <3>3, <2>3, <1>1, <1>3
    <3> QED
      BY <3>1, <3>2, <3>3, <1>1, <2>3
  <2> QED
    BY <2>1, <2>3, <1>1 DEF PartlySorted
<1> QED
  BY <1>4, <1>5

LEMMA SwapKeepsOrder ==
  ASSUME NEW N, NEW s, NEW c, NEW d, NEW z, NEW y, Swap(N, s, c, d, z, y)
  PROVE  PartlySorted(N, y, s + 1, d)
<1>1. /\ N \in Nat /\ s \in Nat /\ c \in Nat /\ 1 <= s /\ s <= c /\ c <= N
      /\ \A i \in 1..N : z[i] \in Int /\ y[i] \in Int
      /\ \A j \in (c + 1)..N : z[c] <= z[j]
      /\ \A i \in s..(c - 1) : z[i] = z[c] + 1
  BY StepFacts DEF Swap
<1>2. \A i \in (c + 1)..N : y[i] = z[i]
  BY <1>1 DEF Swap
<1>3. \A i, j \in (c + 1)..N : i < j => y[i] <= y[j]
  BY <1>1, <1>2 DEF Swap, Step, PartlySorted
<1>4. \A i \in (s + 1)..c : y[i] = z[c] + 1
  BY <1>1 DEF Swap
<1>5. CASE c < N /\ y[c] > y[c + 1]
  <2>1. d = c + 1 /\ c + 1 \in 1..N /\ c \in 1..N /\ y[d] = z[d] /\ z[c] <= z[d]
    BY <1>1, <1>2, <1>5 DEF Swap
  <2>2. s < c /\ y[c] = z[c] + 1
    <3>1. s # c
      <4> SUFFICES ASSUME s = c PROVE FALSE
        OBVIOUS
      <4>1. y[c] = z[c] /\ y[c + 1] = z[c + 1] /\ y[c] > y[c + 1]
        BY <1>5, <2>1 DEF Swap
      <4> QED
        BY <4>1, <2>1, <1>1
    <3> QED
      BY <3>1, <1>1, <1>4
  <2>3. z[c] = y[d]
    BY <2>1, <2>2, <1>1, <1>5
  <2> QED
    BY <2>1, <2>3, <1>1, <1>3, <1>4 DEF PartlySorted
<1>6. CASE ~(c < N /\ y[c] > y[c + 1])
  <2>1. d = s + 1
    BY <1>6 DEF Swap
  <2>2. \A j \in (c + 1)..N : y[c] <= y[j]
    BY <1>2, <1>6, SortedAfter DEF Swap
  <2>3. ASSUME NEW i \in (s + 1)..N, NEW j \in (s + 1)..N, i < j PROVE y[i] <= y[j]
    <3>1. CASE j <= c
      <4>1. y[i] = y[j] /\ y[i] \in Int
        BY <3>1, <2>3, <1>1, <1>4
      <4> QED
        BY <4>1
    <3>2. CASE i <= c /\ c < j
      <4>1. y[i] = y[c] /\ y[c] <= y[j]
        BY <3>2, <1>1, <1>4, <2>2
      <4> QED
        BY <4>1
    <3>3. CASE c < i
      BY <3>3, <2>3, <1>1, <1>3
    <3> QED
      BY <3>1, <3>2, <3>3, <1>1, <2>3
  <2> QED
    BY <2>1, <2>3, <1>1 DEF PartlySorted
<1> QED
  BY <1>5, <1>6

LEMMA AddNodeInv == BalancingInv /\ AddNode => BalancingInv'
<1> SUFFICES ASSUME BalancingInv, AddNode PROVE BalancingInv'
  OBVIOUS
<1> DEFINE L == scaleUpInfos
           N == Len(L)
           c == currentIndex
           s == startIndex
           g == L[c]
           z == Sizes(N, L, newSize)
           y == Sizes(N, L, newSize')
<1>1. /\ SizesTypeOK /\ L \in Seq(Groups) /\ newNodes \in Nat
      /\ s \in 1..(N + 1) /\ c \in s..(N + 1)
      /\ Once(N, L) /\ Rest(N, L, newSize) /\ FrontFull(L, s, newSize)
      /\ PartlySorted(N, z, s, c) /\ Low(N, L, s, z)
  BY DEF BalancingInv, ListInv
<1>2. L \in [1..N -> Groups] /\ N \in Nat
  BY <1>1
<1>3. /\ newNodes > 0 /\ c \in 1..N
      /\ currentSize' = currentSize /\ maxSize' = maxSize
      /\ L' = L /\ startIndex' = s
      /\ newSize' = [newSize EXCEPT ![g] = newSize[g] + 1]
      /\ newNodes' = newNodes - 1
      /\ currentIndex' = IF c < N /\ newSize'[g] > newSize'[L[c + 1]] THEN c + 1 ELSE s
  BY DEF AddNode, HasCurrent, Current, NextIndex
<1> HIDE DEF L, N
<1>4. s \in 1..N /\ c \in s..N /\ g \in Groups /\ newSize[g] \in Nat
  BY <1>1, <1>2, <1>3 DEF SizesTypeOK
<1>5. newSize' \in [Groups -> Nat]
  <2>1. newSize \in [Groups -> Nat]
    BY <1>1 DEF SizesTypeOK
  <2>2. newSize' = [newSize EXCEPT ![g] = newSize[g] + 1]
    BY <1>3
  <2>3. newSize[g] + 1 \in Nat
    BY <1>4
  <2> HIDE DEF g
  <2> QED
    BY <2>1, <2>2, <2>3
<1>6. \A h \in Groups : newSize'[h] = IF h = g THEN newSize[g] + 1 ELSE newSize[h]
  BY <1>1, <1>3 DEF SizesTypeOK
<1>7. \A i \in 1..N : L[i] \in Groups /\ (L[i] = g <=> i = c)
  BY <1>1, <1>2, <1>3 DEF Once
<1>8. /\ z \in [1..N -> Int] /\ y \in [1..N -> Int]
      /\ \A i \in 1..N : z[i] = newSize[L[i]] /\ y[i] = newSize'[L[i]]
  BY <1>1, <1>5, <1>7 DEF Sizes, SizesTypeOK
<1> HIDE DEF z, y
<1>9. y[c] = z[c] + 1 /\ \A i \in (1..N) \ {c} : y[i] = z[i]
  BY <1>3, <1>6, <1>7, <1>8
<1>10. currentIndex' = IF c < N /\ y[c] > y[c + 1] THEN c + 1 ELSE s
  <2>1. c < N => c + 1 \in 1..N
    BY <1>2, <1>3
  <2> QED
    BY <1>3, <1>8, <2>1
<1>11. currentIndex' \in s..(N + 1) /\ currentIndex' \in 1..(N + 1)
  BY <1>2, <1>4, <1>10
<1>12. PartlySorted(N, y, s, currentIndex')
  <2>1. Step(N, s, c, z, y)
    BY <1>1, <1>2, <1>4, <1>8 DEF Step
  <2>2. Grow(N, s, c, currentIndex', z, y)
    BY <2>1, <1>9, <1>10 DEF Grow
  <2> QED
    BY <2>2, GrowKeepsOrder
<1>13. Low(N, L, s, y)
  <2>1. \A j \in s..N : z[c] <= z[j]
    <3>1. Step(N, s, c, z, y)
      BY <1>1, <1>2, <1>4, <1>8 DEF Step
    <3>2. /\ \A i \in 1..N : z[i] \in Int
          /\ \A j \in (c + 1)..N : z[c] <= z[j]
          /\ \A i \in s..(c - 1) : z[i] = z[c] + 1
      BY <3>1, StepFacts
    <3>3. \A j \in s..N : j \in s..(c - 1) \/ j = c \/ j \in (c + 1)..N
      BY <1>2, <1>4
    <3>4. z[c] \in Int
      BY <1>3, <3>2
    <3> QED
      BY <3>2, <3>3, <3>4
  <2>2. \A i \in 1..N : z[i] \in Int /\ y[i] \in Int /\ z[i] <= y[i]
    BY <1>8, <1>9
  <2>3. ASSUME NEW i \in 1..N, NEW j \in s..N, y[i] > currentSize[L[i]]
        PROVE  y[i] <= y[j] + 1
    <3>1. j \in 1..N
      BY <1>2, <1>4
    <3>2. CASE i = c
      BY <2>1, <2>2, <3>1, <3>2, <1>9
    <3>3. CASE i # c
      <4>1. y[i] = z[i] /\ z[i] <= z[j] + 1
        BY <3>3, <2>3, <1>1, <1>9 DEF Low
      <4> QED
        BY <4>1, <2>2, <3>1
    <3> QED
      BY <3>2, <3>3
  <2> QED
    BY <2>3 DEF Low
<1>14. Rest(N, L, newSize')
  BY <1>1, <1>3, <1>6, <1>7 DEF Rest
<1>15. FrontFull(L, s, newSize')
  <2>1. \A i \in 1..(s - 1) : i \in 1..N /\ i # c
    BY <1>2, <1>4
  <2>2. \A i \in 1..(s - 1) : newSize'[L[i]] = newSize[L[i]]
    BY <2>1, <1>6, <1>7
  <2> QED
    BY <2>2, <1>1 DEF FrontFull
<1>16. SizesTypeOK' /\ newNodes' \in Nat
  BY <1>1, <1>3, <1>5 DEF SizesTypeOK
<1>17. ListInv(N, L, startIndex, currentIndex)'
  <2>1. L' = L /\ N' = N
    BY <1>3 DEF N
  <2>2. /\ Once(N, L)'
        /\ Rest(N, L, newSize)'
        /\ FrontFull(L, startIndex, newSize)'
    <3>1. Once(N, L)'
      BY <2>1, <1>1 DEF Once
    <3>2. Rest(N, L, newSize)'
      BY <2>1, <1>3, <1>14 DEF Rest
    <3>3. FrontFull(L, startIndex, newSize)'
      BY <2>1, <1>3, <1>15 DEF FrontFull
    <3> QED
      BY <3>1, <3>2, <3>3
  <2>3. Sizes(N, L, newSize)' = y
    BY <2>1 DEF Sizes, y
  <2>4. /\ PartlySorted(N, Sizes(N, L, newSize), startIndex, currentIndex)'
        /\ Low(N, L, startIndex, Sizes(N, L, newSize))'
    BY <2>1, <2>3, <1>3, <1>12, <1>13 DEF PartlySorted, Low
  <2> QED
    <3>1. startIndex' \in 1..(N' + 1) /\ currentIndex' \in startIndex'..(N' + 1)
      BY <2>1, <1>1, <1>3, <1>11
    <3> QED
      BY <3>1, <2>2, <2>4 DEF ListInv
<1> QED
  BY <1>1, <1>3, <1>16, <1>17 DEF BalancingInv, L, N

LEMMA RemoveFullGroupInv == BalancingInv /\ RemoveFullGroup => BalancingInv'
<1> SUFFICES ASSUME BalancingInv, RemoveFullGroup PROVE BalancingInv'
  OBVIOUS
<1> DEFINE L == scaleUpInfos
           M == scaleUpInfos'
           N == Len(L)
           c == currentIndex
           s == startIndex
           z == Sizes(N, L, newSize)
           y == Sizes(N, M, newSize)
<1>1. /\ SizesTypeOK /\ L \in Seq(Groups) /\ newNodes \in Nat
      /\ s \in 1..(N + 1) /\ c \in s..(N + 1)
      /\ Once(N, L) /\ Rest(N, L, newSize) /\ FrontFull(L, s, newSize)
      /\ PartlySorted(N, z, s, c) /\ Low(N, L, s, z)
  BY DEF BalancingInv, ListInv
<1>2. L \in [1..N -> Groups] /\ N \in Nat
  BY <1>1
<1>3. /\ c \in 1..N
      /\ currentSize' = currentSize /\ maxSize' = maxSize /\ newSize' = newSize
      /\ newNodes' = newNodes
      /\ newSize[L[c]] >= maxSize[L[c]]
      /\ M = [L EXCEPT ![s] = L[c], ![c] = L[s]]
      /\ startIndex' = s + 1
      /\ currentIndex' = IF c < Len(M) /\ newSize[M[c]] > newSize[M[c + 1]] THEN c + 1 ELSE s + 1
  BY DEF RemoveFullGroup, HasCurrent, Current, NextIndex, SwappedWithFirst, Full
<1>4. s \in 1..N /\ c \in s..N
  BY <1>1, <1>2, <1>3
<1>5. M \in Seq(Groups) /\ Len(M) = N
  BY <1>1, <1>2, <1>3, <1>4
<1> HIDE DEF L, N
<1>6. /\ M \in [1..N -> Groups]
      /\ M[s] = L[c] /\ M[c] = L[s]
      /\ \A i \in (1..N) \ {s, c} : M[i] = L[i]
  BY <1>2, <1>3, <1>4
<1> HIDE DEF M
<1>7. /\ z \in [1..N -> Int] /\ y \in [1..N -> Int]
      /\ \A i \in 1..N : z[i] = newSize[L[i]] /\ y[i] = newSize[M[i]]
  <2>1. \A i \in 1..N : L[i] \in Groups /\ M[i] \in Groups
    BY <1>2, <1>6
  <2>2. \A i \in 1..N : newSize[L[i]] \in Int /\ newSize[M[i]] \in Int
    BY <2>1, <1>1 DEF SizesTypeOK
  <2> QED
    BY <2>2 DEF Sizes
<1> HIDE DEF z, y
<1>8. y[s] = z[c] /\ y[c] = z[s] /\ \A i \in (1..N) \ {s, c} : y[i] = z[i]
  BY <1>4, <1>6, <1>7
<1>9. currentIndex' = IF c < N /\ y[c] > y[c + 1] THEN c + 1 ELSE s + 1
  <2>1. c < N => c + 1 \in 1..N
    BY <1>2, <1>3
  <2> QED
    BY <1>3, <1>5, <1>7, <2>1
<1>10. /\ currentIndex' \in (s + 1)..(N + 1) /\ currentIndex' \in 1..(N + 1)
       /\ s + 1 \in 1..(N + 1)
  BY <1>2, <1>4, <1>9
<1>11. PartlySorted(N, y, s + 1, currentIndex')
  <2>1. Step(N, s, c, z, y)
    BY <1>1, <1>2, <1>4, <1>7 DEF Step
  <2>2. Swap(N, s, c, currentIndex', z, y)
    BY <2>1, <1>8, <1>9 DEF Swap
  <2> QED
    BY <2>2, SwapKeepsOrder
<1>12. Low(N, M, s + 1, y)
  <2>1. \A i \in 1..N : \E k \in 1..N : M[i] = L[k] /\ y[i] = z[k]
    BY <1>4, <1>6, <1>8
  <2>2. \A j \in (s + 1)..N : \E k \in s..N : y[j] = z[k]
    <3>1. \A j \in (s + 1)..N : j \in 1..N /\ j \in s..N /\ j # s
      BY <1>4
    <3>2. s \in s..N
      BY <1>4
    <3> QED
      BY <3>1, <3>2, <1>8
  <2> QED
    BY <2>1, <2>2, <1>1 DEF Low
<1>13. Once(N, M)
  BY <1>1, <1>4, <1>6 DEF Once
<1>14. Rest(N, M, newSize)
  <2>1. \A i \in 1..N : \E k \in 1..N : M[k] = L[i]
    BY <1>4, <1>6
  <2> QED
    BY <2>1, <1>1 DEF Rest
<1>15. FrontFull(M, s + 1, newSize)
  <2>1. \A i \in 1..(s + 1 - 1) : i = s \/ (i \in 1..(s - 1) /\ i \in (1..N) \ {s, c})
    BY <1>2, <1>4
  <2> QED
    BY <2>1, <1>1, <1>3, <1>6 DEF FrontFull
<1>16. ListInv(N, L, startIndex, currentIndex)'
  <2>1. L' = M /\ N' = N
    BY <1>5 DEF L, M, N
  <2>2. /\ Once(N, L)'
        /\ Rest(N, L, newSize)'
        /\ FrontFull(L, startIndex, newSize)'
    <3>1. Once(N, L)'
      BY <2>1, <1>13 DEF Once
    <3>2. Rest(N, L, newSize)'
      BY <2>1, <1>3, <1>14 DEF Rest
    <3>3. FrontFull(L, startIndex, newSize)'
      BY <2>1, <1>3, <1>15 DEF FrontFull
    <3> QED
      BY <3>1, <3>2, <3>3
  <2>3. Sizes(N, L, newSize)' = y
    BY <2>1, <1>3 DEF Sizes, y
  <2>4. /\ PartlySorted(N, Sizes(N, L, newSize), startIndex, currentIndex)'
        /\ Low(N, L, startIndex, Sizes(N, L, newSize))'
    BY <2>1, <2>3, <1>3, <1>11, <1>12 DEF PartlySorted, Low
  <2> QED
    BY <2>1, <2>2, <2>4, <1>3, <1>10 DEF ListInv
<1> QED
  BY <1>1, <1>3, <1>5, <1>16 DEF BalancingInv, SizesTypeOK, L, M, N

LEMMA BalancingStep ==
  ASSUME BalancingInv, [Next]_vars PROVE BalancingInv'
<1>1. CASE AddNode
  BY <1>1, AddNodeInv
<1>2. CASE RemoveFullGroup
  BY <1>2, RemoveFullGroupInv
<1>3. CASE UNCHANGED vars
  <2> DEFINE N == Len(scaleUpInfos)
             L == scaleUpInfos
  <2>1. /\ newSize' = newSize /\ currentSize' = currentSize /\ maxSize' = maxSize
        /\ L' = L /\ newNodes' = newNodes /\ startIndex' = startIndex /\ currentIndex' = currentIndex
    BY <1>3 DEF vars
  <2>2. N' = N /\ Sizes(N, L, newSize)' = Sizes(N, L, newSize)
    BY <2>1 DEF Sizes
  <2>3. SizesTypeOK' /\ L' \in Seq(Groups) /\ newNodes' \in Nat
    BY <2>1 DEF BalancingInv, SizesTypeOK
  <2> HIDE DEF L, N
  <2>4. ListInv(N, L, startIndex, currentIndex)
    BY DEF BalancingInv, L, N
  <2>5. Rest(N, L, newSize)' /\ Once(N, L)' /\ FrontFull(L, startIndex, newSize)'
    BY <2>1, <2>2, <2>4 DEF ListInv, Rest, Once, FrontFull
  <2>6. PartlySorted(N, Sizes(N, L, newSize), startIndex, currentIndex)'
    BY <2>1, <2>2, <2>4 DEF ListInv, PartlySorted
  <2>7. Low(N, L, startIndex, Sizes(N, L, newSize))'
    BY <2>1, <2>2, <2>4 DEF ListInv, Low
  <2>8. ListInv(N, L, startIndex, currentIndex)'
    BY <2>1, <2>2, <2>4, <2>5, <2>6, <2>7 DEF ListInv
  <2> QED
    BY <2>3, <2>8 DEF BalancingInv, L, N
<1> QED
  BY <1>1, <1>2, <1>3 DEF Next

LEMMA BalancingInvariant == Spec => []BalancingInv
BY InitInv, BalancingStep, PTL DEF Spec

-----------------------------------------------------------------------------
(* Sizes and indexes keep their types in BalanceScaleUpBetweenGroups.      *)
THEOREM BalancingTypeCorrect == Spec => []BalancingTypeOK
<1>1. BalancingInv => BalancingTypeOK
  BY DEF BalancingInv, ListInv, SizesTypeOK, BalancingTypeOK
<1> QED
  BY <1>1, BalancingInvariant, PTL

-----------------------------------------------------------------------------
(* What is left to be allocated fits what the limits leave, and the list   *)
(* ends for both indexes at once.                                          *)
RoomInv ==
  /\ maxSize \in [Groups -> 0..SizeBound]
  /\ newNodes <= Cardinality(FreePlaces(newSize))
  /\ currentIndex > Len(scaleUpInfos) => startIndex > Len(scaleUpInfos)

LEMMA PlacesAreFinite ==
  ASSUME NEW size PROVE IsFiniteSet(FreePlaces(size)) /\ Cardinality(FreePlaces(size)) \in Nat
<1>1. IsFiniteSet(Groups \X (1..SizeBound))
  <2>1. IsFiniteSet(1..SizeBound)
    BY BalancingAssumption, FS_Interval
  <2> QED
    BY <2>1, BalancingAssumption, FS_Product
<1>2. IsFiniteSet(FreePlaces(size))
  BY <1>1, FS_Subset DEF FreePlaces
<1> QED
  BY <1>2, FS_CardinalityType

(* A node takes one of the places. *)
LEMMA AddNodeTakesAPlace ==
  ASSUME BalancingInv, RoomInv, AddNode PROVE RoomInv'
<1> DEFINE g == Current
           place == <<g, newSize[g] + 1>>
           L == scaleUpInfos
           N == Len(L)
<1>1. /\ newSize \in [Groups -> Nat] /\ maxSize \in [Groups -> 0..SizeBound] /\ L \in Seq(Groups)
      /\ N \in Nat /\ newNodes \in Nat /\ SizeBound \in Nat
      /\ startIndex \in 1..(N + 1) /\ currentIndex \in startIndex..(N + 1)
  BY BalancingAssumption DEF BalancingInv, SizesTypeOK, ListInv, RoomInv
<1>2. currentIndex \in 1..N /\ g \in Groups /\ newSize[g] < maxSize[g]
  BY <1>1 DEF AddNode, HasCurrent, Full, Current
<1>3. /\ newSize' = [newSize EXCEPT ![g] = newSize[g] + 1] /\ newNodes' = newNodes - 1
      /\ maxSize' = maxSize /\ scaleUpInfos' = L /\ startIndex' = startIndex
      /\ (currentIndex' = currentIndex + 1 /\ currentIndex < N) \/ currentIndex' = startIndex
  BY DEF AddNode, NextIndex
<1> HIDE DEF g, L, N
<1>4. \A h \in Groups : newSize'[h] = IF h = g THEN newSize[g] + 1 ELSE newSize[h]
  BY <1>1, <1>3
<1>5. newSize[g] \in Nat /\ maxSize[g] \in 0..SizeBound /\ newSize[g] + 1 \in 1..SizeBound
  BY <1>1, <1>2
<1>6. place \in FreePlaces(newSize)
  BY <1>2, <1>5 DEF FreePlaces
<1>7. FreePlaces(newSize)' = FreePlaces(newSize) \ {place}
  <2>1. ASSUME NEW h \in Groups, NEW n \in 1..SizeBound
        PROVE  newSize'[h] < n /\ n <= maxSize[h] <=>
                 newSize[h] < n /\ n <= maxSize[h] /\ <<h, n>> # place
    <3>1. newSize[h] \in Nat /\ n \in Nat
      BY <1>1
    <3>2. CASE h = g
      BY <1>4, <1>5, <3>1, <3>2
    <3>3. CASE h # g
      BY <1>4, <3>1, <3>3
    <3> QED
      BY <3>2, <3>3
  <2> HIDE DEF place
  <2> QED
    BY <1>3, <2>1 DEF FreePlaces
<1> HIDE DEF place
<1>8. Cardinality(FreePlaces(newSize)') = Cardinality(FreePlaces(newSize)) - 1
  BY <1>6, <1>7, PlacesAreFinite, FS_RemoveElement
<1>9. currentIndex' <= N
  BY <1>1, <1>2, <1>3
<1>10. newNodes' <= Cardinality(FreePlaces(newSize)')
  BY <1>1, <1>3, <1>8, PlacesAreFinite DEF RoomInv
<1> QED
  BY <1>1, <1>3, <1>9, <1>10 DEF RoomInv, L, N

LEMMA RemoveFullGroupTakesNoPlace ==
  ASSUME BalancingInv, RoomInv, RemoveFullGroup PROVE RoomInv'
<1> DEFINE L == scaleUpInfos
           N == Len(L)
<1>1. /\ L \in Seq(Groups) /\ N \in Nat
      /\ startIndex \in 1..(N + 1) /\ currentIndex \in startIndex..(N + 1)
  BY DEF BalancingInv, ListInv
<1>2. currentIndex \in 1..N
  BY DEF RemoveFullGroup, HasCurrent
<1>3. /\ newSize' = newSize /\ newNodes' = newNodes /\ maxSize' = maxSize
      /\ scaleUpInfos' = SwappedWithFirst /\ startIndex' = startIndex + 1
      /\ (currentIndex' = currentIndex + 1 /\ currentIndex < Len(scaleUpInfos')) \/ currentIndex' = startIndex'
  BY DEF RemoveFullGroup, NextIndex
<1>4. Len(scaleUpInfos') = N
  BY <1>1, <1>2, <1>3 DEF SwappedWithFirst
<1>5. FreePlaces(newSize)' = FreePlaces(newSize)
  BY <1>3 DEF FreePlaces
<1>6. currentIndex' > N => startIndex' > N
  BY <1>1, <1>2, <1>3, <1>4
<1> QED
  BY <1>3, <1>4, <1>5, <1>6 DEF RoomInv

(* Initially as many nodes are asked for as there are places, at most. *)
LEMMA RoomInvariant == Spec => []RoomInv
<1>1. Init => RoomInv
  <2> SUFFICES ASSUME Init PROVE RoomInv
    OBVIOUS
  <2>1. newNodes <= Cardinality(FreePlaces(newSize)) /\ maxSize \in [Groups -> 0..SizeBound]
    BY DEF Init, Capped, TotalCapacity
  <2>2. Len(scaleUpInfos) \in Nat
    BY InitInv DEF BalancingInv
  <2> QED
    BY <2>1, <2>2 DEF Init, RoomInv
<1>2. BalancingInv /\ RoomInv /\ [Next]_vars => RoomInv'
  <2>1. ASSUME RoomInv, UNCHANGED vars PROVE RoomInv'
    BY <2>1 DEF RoomInv, FreePlaces, vars
  <2> QED
    BY <2>1, AddNodeTakesAPlace, RemoveFullGroupTakesNoPlace DEF Next
<1> QED
  BY <1>1, <1>2, BalancingInvariant, PTL DEF Spec

(* Where the list ends, no group has room. *)
LEMMA IndexesStayInRange ==
  ASSUME BalancingInv, RoomInv PROVE IndexInRange
<1> DEFINE N == Len(scaleUpInfos)
<1>1. /\ N \in Nat /\ newNodes \in Nat
      /\ startIndex \in 1..(N + 1) /\ currentIndex \in startIndex..(N + 1)
      /\ newSize \in [Groups -> Nat] /\ maxSize \in [Groups -> Nat]
      /\ Rest(N, scaleUpInfos, newSize) /\ FrontFull(scaleUpInfos, startIndex, newSize)
  BY DEF BalancingInv, ListInv, SizesTypeOK
<1>2. ASSUME currentIndex > N PROVE newNodes = 0
  <2>1. startIndex = N + 1
    BY <1>1, <1>2 DEF RoomInv
  <2>2. \A i \in 1..N : newSize[scaleUpInfos[i]] >= maxSize[scaleUpInfos[i]]
    BY <1>1, <2>1 DEF FrontFull
  <2>3. \A g \in Groups : newSize[g] >= maxSize[g]
    <3> SUFFICES ASSUME NEW g \in Groups PROVE newSize[g] >= maxSize[g]
      OBVIOUS
    <3>1. newSize[g] \in Nat
      BY <1>1
    <3> QED
      BY <1>1, <2>2, <3>1 DEF Rest
  <2>4. FreePlaces(newSize) = {}
    <3>1. ASSUME NEW g \in Groups, NEW n \in 1..SizeBound PROVE ~(newSize[g] < n /\ n <= maxSize[g])
      <4>1. newSize[g] \in Nat /\ maxSize[g] \in Nat /\ newSize[g] >= maxSize[g] /\ n \in Int
        BY <1>1, <2>3, BalancingAssumption
      <4> QED
        BY <4>1
    <3> QED
      BY <3>1 DEF FreePlaces
  <2> QED
    BY <1>1, <2>4, FS_EmptySet DEF RoomInv
<1> HIDE DEF N
<1>3. newNodes > 0 => startIndex <= currentIndex /\ currentIndex <= N
  BY <1>1, <1>2
<1> QED
  BY <1>3 DEF IndexInRange, N

(* The loop is as its comment claims: the indexes stay in the list while   *)
(* nodes are left, so that the program does not panic, and in the list are *)
(* the groups that got their node in this round, then the others by size.  *)
THEOREM LoopInvariantsHold == Spec => []LoopInvariants
<1>1. BalancingInv /\ RoomInv => LoopInvariants
  <2> SUFFICES ASSUME BalancingInv, RoomInv PROVE LoopInvariants
    OBVIOUS
  <2> DEFINE N == Len(scaleUpInfos)
             z == Sizes(N, scaleUpInfos, newSize)
  <2>1. N \in Nat /\ startIndex \in 1..(N + 1) /\ currentIndex \in startIndex..(N + 1)
    BY DEF BalancingInv, ListInv
  <2>2. \A i \in 1..N : z[i] = Size(i)
    BY DEF Sizes, Size
  <2>3. PartlySorted(N, z, startIndex, currentIndex)
    BY DEF BalancingInv, ListInv
  <2> HIDE DEF z, N
  <2>4. \A i, j \in currentIndex..N : i < j => Size(i) <= Size(j)
    BY <2>1, <2>2, <2>3 DEF PartlySorted
  <2>5. \A i \in startIndex..(currentIndex - 1) : currentIndex <= N => Size(i) = Size(currentIndex) + 1
    BY <2>1, <2>2, <2>3 DEF PartlySorted
  <2> QED
    BY <2>4, <2>5, IndexesStayInRange DEF LoopInvariants, N
<1> QED
  BY <1>1, BalancingInvariant, RoomInvariant, PTL

(* BalanceScaleUpBetweenGroups spreads the nodes evenly.  A group that has *)
(* room is not in the front of the list, so it bounds all that have grown. *)
THEOREM SpreadEvenly == Spec => []Balanced
<1>1. BalancingInv => Balanced
  <2> SUFFICES ASSUME BalancingInv,
                      NEW g \in Groups, NEW h \in Groups,
                      newSize[g] > currentSize[g], newSize[h] < maxSize[h]
               PROVE  newSize[g] <= newSize[h] + 1
    BY DEF Balanced
  <2> DEFINE L == scaleUpInfos
             N == Len(L)
             z == Sizes(N, L, newSize)
  <2>1. /\ newSize \in [Groups -> Nat] /\ currentSize \in [Groups -> Nat] /\ maxSize \in [Groups -> Nat]
        /\ N \in Nat /\ startIndex \in 1..(N + 1)
        /\ Rest(N, L, newSize) /\ FrontFull(L, startIndex, newSize) /\ Low(N, L, startIndex, z)
        /\ \A i \in 1..N : z[i] = newSize[L[i]]
    BY DEF BalancingInv, ListInv, SizesTypeOK, Sizes
  <2> HIDE DEF L, N, z
  <2>2. PICK i \in 1..N : L[i] = g
    BY <2>1 DEF Rest
  <2>3. PICK j \in 1..N : L[j] = h
    BY <2>1 DEF Rest
  <2>4. ~(j \in 1..(startIndex - 1))
    BY <2>1, <2>3 DEF FrontFull
  <2>5. j \in startIndex..N
    BY <2>1, <2>4
  <2> QED
    BY <2>1, <2>2, <2>3, <2>5 DEF Low
<1> QED
  BY <1>1, BalancingInvariant, PTL

(* The turns that the loop can still take: one for each node that is left, *)
(* and one for each group that is not yet moved to the front.              *)
TurnsLeft == newNodes + (Len(scaleUpInfos) + 1 - startIndex)

LEMMA TurnTaken ==
  ASSUME BalancingInv, RoomInv, Next
  PROVE  TurnsLeft' < TurnsLeft
<1> DEFINE N == Len(scaleUpInfos)
<1>1. /\ N \in Nat /\ newNodes \in Nat /\ startIndex \in 1..(N + 1)
      /\ DOMAIN scaleUpInfos = 1..N /\ scaleUpInfos \in Seq(Groups)
  BY DEF BalancingInv, ListInv
<1>2. CASE AddNode
  BY <1>1, <1>2 DEF AddNode, TurnsLeft
<1>3. CASE RemoveFullGroup
  <2>1. Len(scaleUpInfos') = N
    BY <1>1, <1>3 DEF RemoveFullGroup, SwappedWithFirst, HasCurrent
  <2> QED
    BY <1>1, <1>3, <2>1 DEF RemoveFullGroup, TurnsLeft
<1> QED
  BY <1>2, <1>3 DEF Next

(* The loop cannot turn for ever, although a turn may move an index back   *)
(* or give out no node, and it cannot stop while nodes are left: a turn    *)
(* lowers a number, and a turn is possible until all nodes are given out.  *)
THEOREM LoopEnds ==
  Spec => /\ [](TurnsLeft \in Nat /\ (newNodes > 0 => HasCurrent))
          /\ [][TurnsLeft' < TurnsLeft]_vars
<1>1. BalancingInv /\ RoomInv => TurnsLeft \in Nat /\ (newNodes > 0 => HasCurrent)
  <2> SUFFICES ASSUME BalancingInv, RoomInv
               PROVE  TurnsLeft \in Nat /\ (newNodes > 0 => HasCurrent)
    OBVIOUS
  <2>1. /\ Len(scaleUpInfos) \in Nat /\ newNodes \in Nat
        /\ startIndex \in 1..(Len(scaleUpInfos) + 1)
        /\ currentIndex \in startIndex..(Len(scaleUpInfos) + 1)
    BY DEF BalancingInv, ListInv
  <2>2. newNodes > 0 => currentIndex <= Len(scaleUpInfos)
    BY IndexesStayInRange DEF IndexInRange
  <2> QED
    BY <2>1, <2>2 DEF TurnsLeft, HasCurrent
<1>2. BalancingInv /\ RoomInv /\ [Next]_vars => [TurnsLeft' < TurnsLeft]_vars
  BY TurnTaken
<1> QED
  BY <1>1, <1>2, BalancingInvariant, RoomInvariant, PTL DEF Spec

-----------------------------------------------------------------------------
(* The backoff of a group; what it promises is in ClusterStateProofs.      *)
LEMMA BackoffKeepsType ==
  ASSUME BackoffTypeOK, [BackoffNext]_backoff PROVE BackoffTypeOK'
<1>1. CASE Fail
  <2>1. NextDuration(backoff) \in InitialBackoff..MaxBackoff
    BY BackoffAssumption DEF BackoffTypeOK, BackoffEntries, NoBackoff, NextDuration, NoMoreThan
  <2> QED
    BY <1>1, <2>1, BackoffAssumption DEF Fail, AfterFailure, BackoffTypeOK, BackoffEntries
<1>2. CASE RemoveStale
  BY <1>2 DEF RemoveStale, WithoutStale, BackoffTypeOK
<1>3. CASE TimePasses
  BY <1>3, BackoffAssumption
  DEF TimePasses, Later, BackoffTypeOK, BackoffEntries, NoBackoff, NoMoreThan
<1>4. CASE UNCHANGED backoff
  BY <1>4 DEF BackoffTypeOK
<1> QED
  BY <1>1, <1>2, <1>3, <1>4 DEF BackoffNext

-----------------------------------------------------------------------------
(* A result of a deletion is reported exactly once.                        *)

(* A set of numbers that is not empty has a least one. *)
LEMMA LeastIndex ==
  ASSUME NEW T \in SUBSET Nat, T # {}
  PROVE  Min(T) \in T /\ \A y \in T : Min(T) <= y
<1> DEFINE R == {ss \in Nat \X Nat : ss[1] < ss[2]}
<1>1. IsWellFoundedOn(R, Nat)
  BY NatLessThanWellFounded DEF OpToRel
<1>2. \A x \in Nat, y \in Nat : y < x => <<y, x>> \in R
  OBVIOUS
<1> HIDE DEF R
<1>3. PICK x \in T : \A y \in T : ~ (<<y, x>> \in R)
  BY <1>1, WFMin
<1>4. ASSUME NEW y \in T PROVE x <= y
  <2>1. x \in Nat /\ y \in Nat
    OBVIOUS
  <2>2. ~(y < x)
    BY <1>2, <1>3, <2>1
  <2> QED
    BY <2>1, <2>2
<1> QED
  BY <1>3, <1>4 DEF Min

LEMMA ResultFields ==
  ASSUME results \in Seq(Results), NEW i \in DOMAIN results
  PROVE  results[i].id \in Nat /\ results[i].id >= 1 /\ results[i].added \in Nat
<1>1. results[i] \in Results
  OBVIOUS
<1> QED
  BY <1>1, ReportsAssumption DEF Results

(* The results are in the order of time, and the clock is past them. *)
ResultsInv ==
  /\ results \in Seq(Results)
  /\ now \in Nat /\ asOf \in 0..now /\ ended \in 0..MaxResults
  /\ loop \in {"idle", "read"}
  /\ reported \subseteq 1..ended
  /\ \A i, j \in DOMAIN results : i < j => results[i].added <= results[j].added
  /\ \A i \in DOMAIN results : results[i].id <= ended /\ results[i].added <= now

(* No result waits that was reported, but for those that are about to be   *)
(* cleared; and those were reported, unless there is a later one of their  *)
(* node.                                                                   *)
UnreportedInv ==
  /\ loop = "idle" => \A i \in DOMAIN results : results[i].id \notin reported
  /\ loop = "read" =>
       \A i \in DOMAIN results :
         /\ results[i].id \in reported => results[i].added <= asOf
         /\ results[i].added <= asOf => results[i].id \in reported \/ LaterOfSameNode(i)

ReportsInv == ResultsInv /\ UnreportedInv

LEMMA InitReports == ReportsInit => ReportsInv
BY ReportsAssumption DEF ReportsInit, ReportsInv, ResultsInv, UnreportedInv, NoTime

LEMMA EndDeletionReports ==
  ASSUME ~SameTime, ReportsInv, NEW n \in Nodes, EndDeletion(n)
  PROVE  ReportsInv' /\ \A i \in DOMAIN results : results[i].id \in Waiting'
<1> DEFINE N == Len(results)
           r == [id |-> ended + 1, node |-> n, added |-> now + 1]
<1>1. /\ results \in Seq(Results) /\ now \in Nat /\ asOf \in 0..now /\ ended \in Nat
      /\ ended + 1 <= MaxResults /\ MaxResults \in Nat /\ reported \subseteq 1..ended
      /\ N \in Nat /\ DOMAIN results = 1..N
  BY ReportsAssumption DEF ReportsInv, ResultsInv, EndDeletion
<1>2. /\ results' = Append(results, r) /\ now' = now + 1 /\ ended' = ended + 1
      /\ UNCHANGED <<loop, asOf, reported>>
  BY <1>1 DEF EndDeletion, ClockReturns, Registered
<1>3. r \in Results
  BY <1>1 DEF Results
<1>4. /\ results' \in Seq(Results) /\ DOMAIN results' = 1..(N + 1)
      /\ \A i \in 1..N : results'[i] = results[i]
      /\ results'[N + 1] = r
  BY <1>1, <1>2, <1>3
<1>5. r.id = ended + 1 /\ r.added = now + 1
  OBVIOUS
<1> HIDE DEF r, N
<1>6. \A i \in 1..N : results[i].added \in Nat /\ results[i].id \in Nat
  BY <1>1, ResultFields
<1>7. \A i \in 1..N : results[i].id <= ended /\ results[i].added <= now
  BY <1>1 DEF ReportsInv, ResultsInv
<1>8. ResultsInv'
  <2>1. \A i \in 1..(N + 1) : results'[i].id <= ended + 1 /\ results'[i].added <= now + 1
    BY <1>1, <1>4, <1>5, <1>6, <1>7
  <2>2. ASSUME NEW i \in 1..(N + 1), NEW j \in 1..(N + 1), i < j
        PROVE  results'[i].added <= results'[j].added
    <3>1. CASE j = N + 1
      BY <1>1, <1>4, <1>5, <1>6, <1>7, <2>2, <3>1
    <3>2. CASE j \in 1..N
      BY <1>1, <1>4, <2>2, <3>2 DEF ReportsInv, ResultsInv
    <3> QED
      BY <1>1, <3>1, <3>2
  <2> QED
    BY <1>1, <1>2, <1>4, <2>1, <2>2 DEF ReportsInv, ResultsInv
<1>9. ASSUME NEW i \in 1..N, LaterOfSameNode(i) PROVE LaterOfSameNode(i)'
  BY <1>1, <1>4, <1>9 DEF LaterOfSameNode
<1>10. UnreportedInv'
  <2>1. results'[N + 1].id \notin reported /\ ~(results'[N + 1].added <= asOf)
    BY <1>1, <1>4, <1>5
  <2>2. ASSUME NEW i \in 1..(N + 1)
        PROVE  /\ loop = "idle" => results'[i].id \notin reported
               /\ loop = "read" =>
                   /\ results'[i].id \in reported => results'[i].added <= asOf
                   /\ results'[i].added <= asOf => results'[i].id \in reported \/ LaterOfSameNode(i)'
    <3>1. CASE i = N + 1
      BY <2>1, <3>1
    <3>2. CASE i \in 1..N
      BY <1>1, <1>4, <1>9, <3>2 DEF ReportsInv, UnreportedInv
    <3> QED
      BY <1>1, <3>1, <3>2
  <2> QED
    BY <1>2, <1>4, <2>2 DEF UnreportedInv
<1>11. \A i \in 1..N : results[i].id \in Waiting'
  BY <1>1, <1>4 DEF Waiting
<1> QED
  BY <1>1, <1>8, <1>10, <1>11 DEF ReportsInv

LEMMA DeletionResultsReports == ReportsInv /\ DeletionResults => ReportsInv'
<1> SUFFICES ASSUME ReportsInv, DeletionResults PROVE ReportsInv'
  OBVIOUS
<1> DEFINE N == Len(results)
<1>1. /\ results \in Seq(Results) /\ now \in Nat /\ ended \in Nat
      /\ reported \subseteq 1..ended /\ N \in Nat /\ DOMAIN results = 1..N
  BY ReportsAssumption DEF ReportsInv, ResultsInv
<1>2. \A i \in 1..N : results[i].added \in Nat /\ results[i].id \in Nat /\ results[i].id >= 1
  BY <1>1, ResultFields
<1>3. \A i \in 1..N : results[i].id <= ended /\ results[i].added <= now
  BY <1>1 DEF ReportsInv, ResultsInv
<1>4. PICK t \in 1..(now + 1) :
        ReadUpTo(t) /\ asOf' = t /\ now' = IF t > now THEN t ELSE now
  BY DEF DeletionResults
<1>5. /\ reported' = reported \union {results[i].id : i \in InMap}
      /\ loop' = "read" /\ results' = results /\ ended' = ended
  BY DEF DeletionResults
<1>6. \A i \in 1..N : results[i].added <= t
  <2>1. CASE N = 0
    BY <2>1
  <2>2. CASE N > 0
    <3>1. t = results[N].added
      BY <1>1, <1>4, <2>2 DEF ReadUpTo, Last
    <3> QED
      BY <1>1, <1>2, <2>2, <3>1 DEF ReportsInv, ResultsInv
  <2> QED
    BY <1>1, <2>1, <2>2
<1>7. ASSUME NEW i \in 1..N PROVE results[i].id \in reported' \/ LaterOfSameNode(i)
  BY <1>1, <1>5 DEF InMap, LaterOfSameNode
<1>8. InMap \subseteq 1..N
  BY <1>1 DEF InMap
<1>9. ResultsInv'
  <2>1. reported' \subseteq 1..ended
    <3>1. \A i \in InMap : results[i].id \in 1..ended
      BY <1>1, <1>2, <1>3, <1>8
    <3> QED
      BY <1>1, <1>5, <3>1
  <2>2. now' \in Nat /\ asOf' \in 0..now' /\ \A i \in 1..N : results[i].added <= now'
    BY <1>1, <1>2, <1>3, <1>4
  <2> QED
    BY <1>1, <1>5, <2>1, <2>2 DEF ReportsInv, ResultsInv
<1>10. UnreportedInv'
  BY <1>1, <1>4, <1>5, <1>6, <1>7 DEF UnreportedInv, LaterOfSameNode
<1> QED
  BY <1>9, <1>10 DEF ReportsInv

(* DropNotNewerThan drops what is not newer than the reading, all of it    *)
(* and nothing else, because of the order.                                 *)
LEMMA ClearReports ==
  ASSUME ReportsInv, ClearResultsNotNewerThan
  PROVE  /\ ReportsInv'
         /\ \A i \in DOMAIN results :
              results[i].id \in Waiting' \union reported \/ LaterOfSameNode(i)
<1> DEFINE N == Len(results)
           keep == {i \in 1..N : ~NotNewer(results[i], asOf)}
<1>1. /\ results \in Seq(Results) /\ now \in Nat /\ asOf \in 0..now /\ ended \in Nat
      /\ reported \subseteq 1..ended /\ N \in Nat /\ DOMAIN results = 1..N
  BY ReportsAssumption DEF ReportsInv, ResultsInv
<1>2. /\ loop = "read" /\ loop' = "idle"
      /\ UNCHANGED <<now, asOf, ended, reported>>
      /\ results' = IF keep = {} THEN << >> ELSE SubSeq(results, Min(keep), N)
  BY <1>1 DEF ClearResultsNotNewerThan
<1>3. \A i \in 1..N : results[i].added \in Nat
  BY <1>1, ResultFields
<1>4. \A i \in 1..N : i \in keep <=> results[i].added > asOf
  BY <1>1, <1>3 DEF NotNewer
<1>5. \A i \in 1..N : i \notin keep => results[i].id \in reported \/ LaterOfSameNode(i)
  BY <1>1, <1>2, <1>3, <1>4 DEF ReportsInv, UnreportedInv
<1>6. \A i \in keep : results[i].id \notin reported
  BY <1>1, <1>2, <1>3, <1>4 DEF ReportsInv, UnreportedInv
<1>7. keep \subseteq 1..N
  OBVIOUS
<1>8. CASE keep = {}
  <2>1. results' \in Seq(Results) /\ DOMAIN results' = {}
    BY <1>2, <1>8
  <2>2. ResultsInv'
    BY <1>1, <1>2, <2>1 DEF ReportsInv, ResultsInv
  <2>3. UnreportedInv'
    BY <1>2, <2>1 DEF UnreportedInv
  <2> QED
    BY <1>1, <1>5, <1>8, <2>2, <2>3 DEF ReportsInv
<1>9. CASE keep # {}
  <2> DEFINE m == Min(keep)
  <2>1. m \in keep /\ \A i \in keep : m <= i
    <3>1. keep \in SUBSET Nat
      BY <1>1, <1>7
    <3> HIDE DEF keep
    <3> QED
      BY <1>9, <3>1, LeastIndex
  <2> HIDE DEF m, keep
  <2>2. m \in 1..N
    BY <1>7, <2>1
  <2>3. results' = SubSeq(results, m, N)
    BY <1>2, <1>9 DEF m
  <2> HIDE DEF N
  <2>4. /\ results' \in Seq(Results)
        /\ DOMAIN results' = 1..(N - m + 1)
        /\ \A i \in 1..(N - m + 1) : results'[i] = results[m + i - 1]
    BY <1>1, <2>2, <2>3 DEF N
  <2>5. \A i \in 1..N : m <= i => i \in keep
    <3>1. \A i, j \in 1..N : i < j => results[i].added <= results[j].added
      BY <1>1 DEF ReportsInv, ResultsInv
    <3> QED
      BY <1>1, <1>3, <1>4, <2>1, <2>2, <3>1
  <2>6. \A i \in 1..(N - m + 1) : m + i - 1 \in 1..N /\ m <= m + i - 1
    BY <1>1, <2>2
  <2>7. ResultsInv'
    <3>1. ASSUME NEW i \in 1..(N - m + 1), NEW j \in 1..(N - m + 1), i < j
          PROVE  results'[i].added <= results'[j].added
      <4>1. m + i - 1 \in 1..N /\ m + j - 1 \in 1..N /\ m + i - 1 < m + j - 1
        BY <1>1, <2>2, <2>6, <3>1
      <4>2. results[m + i - 1].added <= results[m + j - 1].added
        BY <1>1, <4>1 DEF ReportsInv, ResultsInv
      <4> QED
        BY <2>4, <4>2
    <3>2. \A i \in 1..(N - m + 1) : results'[i].id <= ended /\ results'[i].added <= now
      BY <1>1, <2>4, <2>6 DEF ReportsInv, ResultsInv
    <3> QED
      BY <1>1, <1>2, <2>4, <3>1, <3>2 DEF ReportsInv, ResultsInv
  <2>8. UnreportedInv'
    BY <1>2, <1>6, <2>4, <2>5, <2>6 DEF UnreportedInv
  <2>9. ASSUME NEW i \in 1..N
        PROVE  results[i].id \in Waiting' \union reported \/ LaterOfSameNode(i)
    <3>1. CASE i \notin keep
      BY <1>5, <3>1
    <3>2. CASE i \in keep
      <4>1. i - m + 1 \in 1..(N - m + 1) /\ m + (i - m + 1) - 1 = i
        BY <1>1, <2>1, <2>2, <3>2
      <4>2. results'[i - m + 1] = results[i]
        BY <2>4, <4>1
      <4> QED
        BY <2>4, <4>1, <4>2 DEF Waiting
    <3> QED
      BY <3>1, <3>2
  <2> QED
    BY <1>1, <2>7, <2>8, <2>9 DEF ReportsInv
<1> QED
  BY <1>8, <1>9

(* What ReportedExactlyOnce says of a step. *)
KeptOrReported ==
  /\ \A i \in DOMAIN results :
       results[i].id \in Waiting' \union reported \/ LaterOfSameNode(i)
  /\ loop = "idle" /\ loop' = "read" => Waiting \intersect reported = {}

LEMMA ReportsStep ==
  ASSUME ~SameTime, ReportsInv, [ReportsNext]_reportVars
  PROVE  ReportsInv' /\ [KeptOrReported]_reportVars
<1>1. loop = "idle" => Waiting \intersect reported = {}
  BY DEF ReportsInv, UnreportedInv, Waiting
<1>2. ASSUME NEW n \in Nodes, EndDeletion(n) PROVE ReportsInv' /\ KeptOrReported
  BY <1>1, <1>2, EndDeletionReports DEF KeptOrReported, EndDeletion
<1>3. CASE DeletionResults
  <2>1. ReportsInv'
    BY <1>3, DeletionResultsReports
  <2>2. \A i \in DOMAIN results : results[i].id \in Waiting'
    BY <1>3 DEF DeletionResults, Waiting
  <2> QED
    BY <1>1, <2>1, <2>2 DEF KeptOrReported
<1>4. CASE ClearResultsNotNewerThan
  BY <1>1, <1>4, ClearReports DEF KeptOrReported
<1>5. CASE UNCHANGED reportVars
  BY <1>5 DEF reportVars, ReportsInv, ResultsInv, UnreportedInv, LaterOfSameNode
<1> QED
  BY <1>2, <1>3, <1>4, <1>5 DEF ReportsNext

(* The results of node deletions that goroutines append to the expiring    *)
(* list while the main loop reads it and clears it, in two calls, reach    *)
(* the status of exactly one loop, if the clock never returns a time       *)
(* twice.  The invariant is ReportsInv.                                    *)
THEOREM NoResultIsLost ==
  ASSUME ~SameTime
  PROVE  ReportsSpec => [](ReportsTypeOK) /\ ReportedExactlyOnce
<1>1. ReportsInit => ReportsInv
  BY InitReports
<1>2. ReportsInv /\ [ReportsNext]_reportVars => ReportsInv' /\ [KeptOrReported]_reportVars
  BY ReportsStep
<1>3. ReportsInv => ReportsTypeOK
  BY DEF ReportsInv, ResultsInv, ReportsTypeOK
<1> QED
  BY <1>1, <1>2, <1>3, PTL DEF ReportsSpec, ReportedExactlyOnce, KeptOrReported

-----------------------------------------------------------------------------
(* The claims of a snapshot are reserved for the pods that are placed.     *)

(* A set of numbers up to n that is not empty has a greatest one. *)
LEMMA GreatestIndex ==
  ASSUME NEW n \in Nat, NEW T \in SUBSET (1..n), T # {}
  PROVE  Max(T) \in T /\ \A y \in T : y <= Max(T)
<1> DEFINE U == {n - x : x \in T}
<1>1. U \in SUBSET Nat /\ U # {}
  <2>1. \A x \in T : n - x \in Nat
    OBVIOUS
  <2>2. PICK x : x \in T
    OBVIOUS
  <2>3. n - x \in U
    BY <2>2
  <2> QED
    BY <2>1, <2>3
<1>2. Min(U) \in U /\ \A y \in U : Min(U) <= y
  <2> HIDE DEF U
  <2> QED
    BY <1>1, LeastIndex
<1>3. PICK x \in T : Min(U) = n - x
  BY <1>2
<1>4. ASSUME NEW y \in T PROVE y <= x
  <2>1. n - x <= n - y
    BY <1>2, <1>3
  <2>2. x \in 1..n /\ y \in 1..n
    OBVIOUS
  <2> QED
    BY <2>1, <2>2
<1> QED
  BY <1>4 DEF Max

Entries == Objects \union {Untouched, Deleted}
ClaimPatches == Seq([Claims -> Entries])

LEMMA EntriesDiffer ==
  /\ Untouched \notin Objects /\ Deleted \notin Objects /\ Absent \notin Objects
  /\ Untouched # Deleted /\ Objects \subseteq Nat /\ InformerObject \in Objects
  /\ Copies \subseteq Objects /\ InformerObject \notin Copies
BY DraAssumption DEF Objects, Copies, InformerObject

(* What the topmost patch says counts. *)
LEMMA EffectiveOfTop ==
  ASSUME NEW ps \in ClaimPatches, NEW c \in Claims, Len(ps) > 0, ps[Len(ps)][c] # Untouched
  PROVE  Effective(ps, c) = IF ps[Len(ps)][c] = Deleted THEN Absent ELSE ps[Len(ps)][c]
<1> DEFINE n == Len(ps)
           says == {i \in 1..n : ps[i][c] # Untouched}
<1>1. n \in Nat /\ DOMAIN ps = 1..n
  BY DEF ClaimPatches
<1>2. n \in says /\ says # {} /\ says \in SUBSET (1..n)
  BY <1>1
<1> HIDE DEF says
<1>3. Max(says) \in says /\ \A y \in says : y <= Max(says)
  BY <1>1, <1>2, GreatestIndex
<1>4. Max(says) = n
  BY <1>1, <1>2, <1>3 DEF says
<1> QED
  BY <1>1, <1>2, <1>4 DEF Effective, says

(* Otherwise what is below it counts. *)
LEMMA EffectiveBelow ==
  ASSUME NEW ps \in ClaimPatches, NEW c \in Claims, Len(ps) > 0, ps[Len(ps)][c] = Untouched
  PROVE  Effective(ps, c) = Effective(SubSeq(ps, 1, Len(ps) - 1), c)
<1> DEFINE n == Len(ps)
           qs == SubSeq(ps, 1, n - 1)
           says(rs) == {i \in DOMAIN rs : rs[i][c] # Untouched}
<1>1. n \in Nat \ {0} /\ DOMAIN ps = 1..n
  BY DEF ClaimPatches
<1>2. DOMAIN qs = 1..(n - 1) /\ \A i \in 1..(n - 1) : qs[i] = ps[i]
  BY <1>1 DEF ClaimPatches
<1>3. \A i \in says(ps) : i \in 1..(n - 1)
  BY <1>1
<1>4. says(qs) = says(ps)
  BY <1>1, <1>2, <1>3
<1>5. CASE says(ps) = {}
  BY <1>4, <1>5 DEF Effective
<1>6. CASE says(ps) # {}
  <2>1. says(ps) \in SUBSET (1..n)
    BY <1>1
  <2> DEFINE m == Max(says(ps))
  <2>2. m \in says(ps)
    BY <1>1, <1>6, <2>1, GreatestIndex
  <2>3. qs[m] = ps[m]
    BY <1>2, <1>3, <2>2
  <2>4. Effective(ps, c) = IF ps[m][c] = Deleted THEN Absent ELSE ps[m][c]
    BY <1>6 DEF Effective
  <2>5. Effective(qs, c) = IF qs[m][c] = Deleted THEN Absent ELSE qs[m][c]
    BY <1>4, <1>6 DEF Effective
  <2> HIDE DEF m, qs
  <2>6. Effective(ps, c) = Effective(qs, c)
    BY <2>3, <2>4, <2>5
  <2> QED
    BY <2>6 DEF qs
<1> QED
  BY <1>5, <1>6

(* What counts is an object that some patch refers to. *)
LEMMA EffectiveIsReferred ==
  ASSUME NEW ps \in ClaimPatches, NEW c \in Claims, Effective(ps, c) # Absent
  PROVE  Effective(ps, c) \in Objects /\ Refers(ps, c, Effective(ps, c))
<1> DEFINE n == Len(ps)
           says == {i \in 1..n : ps[i][c] # Untouched}
<1>1. n \in Nat /\ DOMAIN ps = 1..n /\ \A i \in 1..n : ps[i][c] \in Entries
  BY DEF ClaimPatches
<1>2. says # {} /\ ps[Max(says)][c] # Deleted /\ Effective(ps, c) = ps[Max(says)][c]
  BY <1>1 DEF Effective
<1>3. says \in SUBSET (1..n)
  OBVIOUS
<1> HIDE DEF says
<1>4. Max(says) \in says
  BY <1>1, <1>2, <1>3, GreatestIndex
<1>5. Max(says) \in 1..n /\ ps[Max(says)][c] # Untouched
  BY <1>4 DEF says
<1> QED
  BY <1>1, <1>2, <1>5 DEF Refers, Entries

(* It depends on what the patches say of the claim only. *)
LEMMA SameEffective ==
  ASSUME NEW ps \in ClaimPatches, NEW qs \in ClaimPatches, NEW c \in Claims,
         Len(ps) = Len(qs), \A i \in 1..Len(ps) : ps[i][c] = qs[i][c]
  PROVE  Effective(ps, c) = Effective(qs, c)
<1> DEFINE n == Len(ps)
           says(rs) == {i \in DOMAIN rs : rs[i][c] # Untouched}
<1>1. n \in Nat /\ DOMAIN ps = 1..n /\ DOMAIN qs = 1..n
  BY DEF ClaimPatches
<1>2. says(ps) = says(qs)
  BY <1>1
<1>3. CASE says(ps) = {}
  BY <1>2, <1>3 DEF Effective
<1>4. CASE says(ps) # {}
  <2>1. says(ps) \in SUBSET (1..n)
    BY <1>1
  <2> DEFINE m == Max(says(ps))
  <2>2. m \in says(ps)
    BY <1>1, <1>4, <2>1, GreatestIndex
  <2>3. qs[m][c] = ps[m][c]
    BY <1>1, <2>2
  <2>4. Effective(ps, c) = IF ps[m][c] = Deleted THEN Absent ELSE ps[m][c]
    BY <1>4 DEF Effective
  <2>5. Effective(qs, c) = IF qs[m][c] = Deleted THEN Absent ELSE qs[m][c]
    BY <1>2, <1>4 DEF Effective
  <2> QED
    BY <2>3, <2>4, <2>5
<1> QED
  BY <1>3, <1>4

LEMMA SamePrefix ==
  ASSUME NEW ps \in ClaimPatches, NEW qs \in ClaimPatches, NEW i \in Nat,
         i <= Len(ps), i <= Len(qs), \A j \in 1..i : ps[j] = qs[j]
  PROVE  /\ SubSeq(ps, 1, i) = SubSeq(qs, 1, i) /\ SubSeq(ps, 1, i) \in ClaimPatches
         /\ Len(SubSeq(ps, 1, i)) = i /\ \A j \in 1..i : SubSeq(ps, 1, i)[j] = ps[j]
<1> DEFINE s == SubSeq(ps, 1, i)
           t == SubSeq(qs, 1, i)
<1>1. s \in ClaimPatches /\ Len(s) = i /\ \A j \in 1..i : s[j] = ps[j]
  BY DEF ClaimPatches
<1>2. t \in ClaimPatches /\ Len(t) = i /\ \A j \in 1..i : t[j] = qs[j]
  BY DEF ClaimPatches
<1> HIDE DEF s, t
<1>3. s = t
  BY <1>1, <1>2 DEF ClaimPatches
<1> QED
  BY <1>1, <1>3 DEF s, t

-----------------------------------------------------------------------------
DraShape ==
  /\ patches \in ClaimPatches /\ Len(patches) \in 1..(MaxForks + 1)
  /\ heap \in [Claims -> [Objects -> ClaimStates]]
  /\ placed \in Seq(SUBSET Pods) /\ Len(placed) = Len(patches)
  /\ unmatched \in Seq(SUBSET Pods) /\ Len(unmatched) = Len(patches)
  /\ ~panicked

(* Patches share no object: that is why those of the topmost one may be    *)
(* changed in place.  Those of the informer are in the first.              *)
OwnObjects ==
  \A i \in DOMAIN patches, c \in Claims :
    /\ patches[i][c] \in Objects =>
         \A j \in DOMAIN patches : j # i => patches[j][c] # patches[i][c]
    /\ i > 1 => patches[i][c] # InformerObject

DraInv == DraShape /\ OwnObjects /\ ReservedByPlaced

(* A claim that was made for a pod is not referenced by another. *)
OwnedAreOwn == \A p, q \in Pods, c \in Claims : <<p, c>> \in Owned /\ c \in Refs[q] => q = p

LEMMA ShapeFacts ==
  ASSUME DraShape
  PROVE  /\ Level \in Nat /\ Level >= 1 /\ DOMAIN patches = 1..Level
         /\ DOMAIN placed = 1..Level /\ DOMAIN unmatched = 1..Level
         /\ MaxForks \in Nat /\ Level <= MaxForks + 1
         /\ \A i \in 1..Level : /\ patches[i] \in [Claims -> Entries]
                                /\ placed[i] \in SUBSET Pods /\ unmatched[i] \in SUBSET Pods
                                /\ Below(i) \in ClaimPatches
         /\ Below(Level) = patches
         /\ \A p \in Pods : Refs[p] \subseteq Claims
<1>1. /\ patches \in Seq([Claims -> Entries])
      /\ placed \in Seq(SUBSET Pods) /\ unmatched \in Seq(SUBSET Pods)
      /\ Level \in 1..(MaxForks + 1) /\ MaxForks \in Nat
      /\ Len(placed) = Level /\ Len(unmatched) = Level
  BY DraAssumption DEF DraShape, ClaimPatches, Level
<1>2. Level \in Nat /\ Level >= 1 /\ Level <= MaxForks + 1
  BY <1>1
<1>3. DOMAIN patches = 1..Level /\ DOMAIN placed = 1..Level /\ DOMAIN unmatched = 1..Level
  BY <1>1 DEF Level
<1>4. \A i \in 1..Level : /\ patches[i] \in [Claims -> Entries]
                          /\ placed[i] \in SUBSET Pods /\ unmatched[i] \in SUBSET Pods
  BY <1>1, <1>3
<1>5. \A i \in 1..Level : SubSeq(patches, 1, i) \in Seq([Claims -> Entries])
  BY <1>1, <1>2 DEF Level
<1>6. SubSeq(patches, 1, Level) = patches
  BY <1>1 DEF Level
<1> QED
  BY <1>1, <1>2, <1>3, <1>4, <1>5, <1>6, DraAssumption DEF Below, ClaimPatches

(* There is a copy that no lower patch refers to: there are more of them.  *)
LEMMA FreshObject ==
  ASSUME DraShape, NEW c \in Claims
  PROVE  /\ Fresh(c) \in Copies /\ Fresh(c) # InformerObject
         /\ \A i \in 1..(Level - 1) : patches[i][c] # Fresh(c)
<1> DEFINE n == Level - 1
           used == {patches[i][c] : i \in 1..n}
<1>1. n \in Nat /\ MaxForks \in Nat /\ n <= MaxForks
  BY ShapeFacts
<1> HIDE DEF n
<1>2. IsFiniteSet(1..n) /\ Cardinality(1..n) = n
  BY <1>1, FS_Interval
<1>3. IsFiniteSet(used) /\ Cardinality(used) <= n
  <2> DEFINE f == [i \in 1..n |-> patches[i][c]]
  <2>1. f \in Surjection(1..n, used)
    BY DEF Surjection
  <2> HIDE DEF f, used
  <2> QED
    BY <1>2, <2>1, FS_Surjection
<1>4. IsFiniteSet(Copies) /\ Cardinality(Copies) = MaxForks + 1
  BY <1>1, FS_Interval DEF Copies
<1> HIDE DEF used
<1>5. ~(Copies \subseteq used)
  <2>1. ASSUME Copies \subseteq used PROVE FALSE
    <3>1. Cardinality(Copies) <= Cardinality(used)
      BY <1>3, <2>1, FS_Subset
    <3>2. Cardinality(used) \in Nat
      BY <1>3, FS_CardinalityType
    <3> QED
      BY <1>1, <1>3, <1>4, <3>1, <3>2
  <2> QED
    BY <2>1
<1>6. PICK o \in Copies : o \notin used
  BY <1>5
<1>7. \A i \in 1..(Level - 1) : patches[i][c] # o
  BY <1>6 DEF used, n
<1>8. Fresh(c) \in Copies /\ \A i \in 1..(Level - 1) : patches[i][c] # Fresh(c)
  BY <1>7 DEF Fresh
<1> QED
  BY <1>8, EntriesDiffer

-----------------------------------------------------------------------------
(* What a step leaves alone. *)
Right(o, objects, ps, us, c) ==
  IF o = Absent THEN \A p \in ps \union us : c \notin Refs[p]
  ELSE /\ objects[o].reserved = {p \in Holders(ps, us) : c \in Refs[p]}
       /\ objects[o].reserved # {} => objects[o].allocated

LEMMA AllRight ==
  ReservedByPlaced <=>
    \A i \in DOMAIN patches, c \in Claims : Right(Effective(Below(i), c), heap[c], placed[i], unmatched[i], c)
BY DEF ReservedByPlaced, Right

(* The claim c is at level i what it was. *)
SameClaim(i, c) ==
  /\ Effective(Below(i), c)' = Effective(Below(i), c)
  /\ Effective(Below(i), c) # Absent =>
       heap'[c][Effective(Below(i), c)] = heap[c][Effective(Below(i), c)]

LEMMA SameClaimRight ==
  ASSUME NEW i, NEW c, SameClaim(i, c), NEW ps, NEW us,
         Right(Effective(Below(i), c), heap[c], ps, us, c)
  PROVE  /\ Right(Effective(Below(i), c)', heap'[c], ps, us, c)
         /\ Value(Below(i), heap, c) = Value(SubSeq(patches', 1, i), heap', c)
<1>1. SubSeq(patches', 1, i) = Below(i)'
  BY DEF Below
<1>2. Value(SubSeq(patches', 1, i), heap', c) =
        IF Effective(Below(i), c)' = Absent THEN Absent ELSE heap'[c][Effective(Below(i), c)']
  BY <1>1 DEF Value
<1> QED
  BY <1>2 DEF SameClaim, Right, Value

(* Collecting leaves what is referred to. *)
LEMMA CollectedKeeps ==
  ASSUME NEW ps \in ClaimPatches, NEW h \in [Claims -> [Objects -> ClaimStates]]
  PROVE  /\ Collected(ps, h) \in [Claims -> [Objects -> ClaimStates]]
         /\ \A c \in Claims, o \in Objects :
              o = InformerObject \/ Refers(ps, c, o) => Collected(ps, h)[c][o] = h[c][o]
<1>1. Blank \in ClaimStates
  BY DEF Blank, ClaimStates
<1> QED
  BY <1>1 DEF Collected

(* The claims of D are written, to objects that only the topmost patch may *)
(* refer to, and become the entries of it or are deleted.                  *)
TopChange(D, entry, object, claim) ==
  /\ D \in SUBSET Claims
  /\ entry \in [D -> Objects \union {Deleted}] /\ object \in [D -> Objects]
  /\ claim \in [D -> ClaimStates]
  /\ \A c \in D : object[c] = Fresh(c) \/ object[c] = patches[Level][c]
  /\ \A c \in D : entry[c] = Deleted \/ entry[c] = object[c]
  /\ Becomes(entry, object, claim)

LEMMA TopPatch ==
  ASSUME DraShape, OwnObjects, NEW D, NEW entry, NEW object, NEW claim,
         TopChange(D, entry, object, claim)
  PROVE  /\ patches' \in ClaimPatches /\ Len(patches') = Len(patches)
         /\ \A i \in 1..(Level - 1) : patches'[i] = patches[i]
         /\ \A c \in Claims : patches'[Level][c] = IF c \in D THEN entry[c] ELSE patches[Level][c]
         /\ OwnObjects'
<1>0. /\ D \in SUBSET Claims
      /\ entry \in [D -> Objects \union {Deleted}] /\ object \in [D -> Objects]
      /\ claim \in [D -> ClaimStates] /\ Becomes(entry, object, claim)
  BY DEF TopChange
<1>0a. \A c \in D : object[c] = Fresh(c) \/ object[c] = patches[Level][c]
  BY Zenon DEF TopChange
<1>0b. \A c \in D : entry[c] = Deleted \/ entry[c] = object[c]
  BY Zenon DEF TopChange
<1> USE <1>0
<1> DEFINE top == [c \in Claims |-> IF c \in D THEN entry[c] ELSE patches[Level][c]]
<1>1. /\ Level \in Nat /\ Level >= 1 /\ DOMAIN patches = 1..Level
      /\ \A i \in 1..Level : patches[i] \in [Claims -> Entries]
  BY ShapeFacts
<1>2. top \in [Claims -> Entries]
  BY <1>1 DEF Entries
<1>3. patches' = [patches EXCEPT ![Level] = top]
  BY DEF Becomes
<1>4. /\ patches' \in ClaimPatches /\ Len(patches') = Len(patches) /\ DOMAIN patches' = 1..Level
      /\ \A i \in 1..(Level - 1) : patches'[i] = patches[i]
      /\ patches'[Level] = top
  <2>1. patches \in Seq([Claims -> Entries]) /\ Len(patches) = Level
    BY DEF DraShape, ClaimPatches, Level
  <2> HIDE DEF top
  <2> QED
    BY <1>1, <1>2, <1>3, <2>1 DEF ClaimPatches
<1>5. \A c \in Claims : top[c] = IF c \in D THEN entry[c] ELSE patches[Level][c]
  OBVIOUS
<1> HIDE DEF top
(* An object of the new patch is in no patch below. *)
<1>6. ASSUME NEW c \in Claims, top[c] \in Objects
      PROVE  /\ \A j \in 1..(Level - 1) : patches[j][c] # top[c]
             /\ Level > 1 => top[c] # InformerObject
  <2>1. CASE top[c] = patches[Level][c]
    BY <1>1, <1>6, <2>1 DEF OwnObjects
  <2>2. CASE top[c] = Fresh(c)
    BY <1>1, <2>2, FreshObject
  <2>3. top[c] = patches[Level][c] \/ top[c] = Fresh(c)
    <3>1. Deleted \notin Objects
      BY EntriesDiffer
    <3>2. c \in D => top[c] = object[c]
      BY <1>5, <1>6, <1>0b, <3>1
    <3>3. c \notin D => top[c] = patches[Level][c]
      BY <1>5
    <3> QED
      BY <3>2, <3>3, <1>0a
  <2> QED
    BY <2>1, <2>2, <2>3
<1>7. OwnObjects'
  <2> SUFFICES ASSUME NEW i \in 1..Level, NEW c \in Claims
               PROVE  /\ patches'[i][c] \in Objects =>
                           \A j \in 1..Level : j # i => patches'[j][c] # patches'[i][c]
                      /\ i > 1 => patches'[i][c] # InformerObject
    BY <1>4 DEF OwnObjects
  <2>1. CASE i = Level
    <3>1. patches'[i][c] = top[c]
      BY <1>4, <2>1
    <3>2. \A j \in 1..Level : j # i => j \in 1..(Level - 1) /\ patches'[j][c] = patches[j][c]
      BY <1>1, <1>4, <2>1
    <3>3. InformerObject \in Objects
      BY EntriesDiffer
    <3> QED
      BY <1>6, <2>1, <3>1, <3>2, <3>3
  <2>2. CASE i # Level
    <3>1. i \in 1..(Level - 1)
      BY <1>1, <2>2
    <3>2. patches'[i][c] = patches[i][c]
      BY <1>4, <3>1
    <3>3. ASSUME NEW j \in 1..Level, j # i, patches[i][c] \in Objects
          PROVE  patches'[j][c] # patches[i][c]
      <4>1. CASE j = Level
        BY <1>4, <1>6, <3>1, <3>3, <4>1
      <4>2. CASE j # Level
        <5>1. j \in 1..(Level - 1)
          BY <1>1, <4>2
        <5> QED
          BY <1>1, <1>4, <3>3, <5>1 DEF OwnObjects
      <4> QED
        BY <4>1, <4>2
    <3> QED
      BY <1>1, <3>2, <3>3 DEF OwnObjects
  <2> QED
    BY <2>1, <2>2
<1> QED
  BY <1>4, <1>5, <1>7

TopChanged(D, entry, object, claim) ==
  /\ patches' \in ClaimPatches /\ Len(patches') = Len(patches) /\ OwnObjects'
  /\ heap' \in [Claims -> [Objects -> ClaimStates]]
  /\ \A i \in 1..(Level - 1), c \in Claims : SameClaim(i, c)
  /\ \A c \in Claims : c \notin D => SameClaim(Level, c)
  /\ \A c \in D :
       /\ entry[c] = Deleted => Effective(Below(Level), c)' = Absent
       /\ entry[c] # Deleted => /\ Effective(Below(Level), c)' = object[c]
                               /\ heap'[c][object[c]] = claim[c]
  /\ Level > 1 => \A c \in Claims : heap'[c][InformerObject] = heap[c][InformerObject]

LEMMA TopStep ==
  ASSUME DraShape, OwnObjects, NEW D, NEW entry, NEW object, NEW claim,
         TopChange(D, entry, object, claim)
  PROVE  TopChanged(D, entry, object, claim)
<1>0. /\ D \in SUBSET Claims
      /\ entry \in [D -> Objects \union {Deleted}] /\ object \in [D -> Objects]
      /\ claim \in [D -> ClaimStates] /\ Becomes(entry, object, claim)
  BY DEF TopChange
<1>0a. \A c \in D : object[c] = Fresh(c) \/ object[c] = patches[Level][c]
  BY Zenon DEF TopChange
<1>0b. \A c \in D : entry[c] = Deleted \/ entry[c] = object[c]
  BY Zenon DEF TopChange
<1> USE <1>0
<1> DEFINE h == [c \in Claims |-> IF c \in D THEN [heap[c] EXCEPT ![object[c]] = claim[c]] ELSE heap[c]]
<1>1. /\ Level \in Nat /\ Level >= 1 /\ DOMAIN patches = 1..Level /\ Len(patches) = Level
      /\ \A i \in 1..Level : patches[i] \in [Claims -> Entries] /\ Below(i) \in ClaimPatches
      /\ Below(Level) = patches /\ patches \in ClaimPatches
  BY ShapeFacts DEF Level, DraShape
<1>2. /\ patches' \in ClaimPatches /\ Len(patches') = Level
      /\ \A i \in 1..(Level - 1) : patches'[i] = patches[i]
      /\ \A c \in Claims : patches'[Level][c] = IF c \in D THEN entry[c] ELSE patches[Level][c]
      /\ OwnObjects'
  BY <1>1, TopPatch
<1>3. DOMAIN patches' = 1..Level /\ Level' = Level
  BY <1>1, <1>2 DEF ClaimPatches, Level
<1>4. /\ h \in [Claims -> [Objects -> ClaimStates]]
      /\ \A c \in Claims, o \in Objects : c \notin D \/ o # object[c] => h[c][o] = heap[c][o]
      /\ \A c \in D : h[c][object[c]] = claim[c]
  BY DEF DraShape
<1>5. heap' = Collected(patches', h)
  BY DEF Becomes
<1> HIDE DEF h
<1>6. /\ heap' \in [Claims -> [Objects -> ClaimStates]]
      /\ \A c \in Claims, o \in Objects :
           o = InformerObject \/ Refers(patches', c, o) => heap'[c][o] = h[c][o]
  BY <1>2, <1>4, <1>5, CollectedKeeps
<1>7. \A i \in 1..Level : Below(i)' = SubSeq(patches', 1, i)
  BY DEF Below
<1>8. Below(Level)' = patches'
  BY <1>1, <1>2, <1>3 DEF Below, ClaimPatches
(* An object that counts at a level is referred to by a patch up to it. *)
<1>9. ASSUME NEW i \in 1..Level, NEW c \in Claims, Effective(Below(i), c) # Absent
      PROVE  /\ Effective(Below(i), c) \in Objects
             /\ \E j \in 1..i : patches[j][c] = Effective(Below(i), c)
  <2>1. Below(i) \in ClaimPatches /\ Len(Below(i)) = i /\ \A j \in 1..i : Below(i)[j] = patches[j]
    BY <1>1, SamePrefix DEF Below
  <2>2. DOMAIN Below(i) = 1..i
    BY <1>1, <2>1 DEF ClaimPatches
  <2> QED
    BY <1>9, <2>1, <2>2, EffectiveIsReferred DEF Refers
<1>10. ASSUME NEW i \in 1..(Level - 1), NEW c \in Claims PROVE SameClaim(i, c)
  <2>1. i \in Nat /\ i <= Level /\ i \in 1..Level
    BY <1>1
  <2>2. \A j \in 1..i : patches'[j] = patches[j]
    BY <1>1, <1>2
  <2>3. SubSeq(patches', 1, i) = SubSeq(patches, 1, i)
    BY <1>1, <1>2, <2>1, <2>2, SamePrefix
  <2>4. Effective(Below(i), c)' = Effective(Below(i), c)
    BY <2>3 DEF Below
  <2>5. ASSUME Effective(Below(i), c) # Absent
        PROVE  heap'[c][Effective(Below(i), c)] = heap[c][Effective(Below(i), c)]
    <3> DEFINE o == Effective(Below(i), c)
    <3>1. PICK j \in 1..i : patches[j][c] = o
      BY <1>9, <2>1, <2>5
    <3>2. o \in Objects
      BY <1>9, <2>1, <2>5
    <3> HIDE DEF o
    <3>3. j \in 1..(Level - 1) /\ j \in 1..Level /\ j # Level /\ patches'[j][c] = o
      BY <1>1, <2>2, <3>1
    <3>4. Refers(patches', c, o)
      BY <1>3, <3>3 DEF Refers
    <3>5. ASSUME c \in D PROVE o # object[c]
      <4>1. CASE object[c] = Fresh(c)
        BY <1>1, <3>1, <3>3, <4>1, FreshObject
      <4>2. CASE object[c] = patches[Level][c]
        BY <1>1, <3>1, <3>2, <3>3, <4>2 DEF OwnObjects
      <4> QED
        BY <1>0a, <3>5, <4>1, <4>2
    <3>6. heap'[c][o] = heap[c][o]
      BY <1>4, <1>6, <3>2, <3>4, <3>5
    <3> QED
      BY <3>6 DEF o
  <2> QED
    BY <2>4, <2>5 DEF SameClaim
<1>11. ASSUME NEW c \in Claims, c \notin D PROVE SameClaim(Level, c)
  <2>1. \A j \in 1..Level : patches'[j][c] = patches[j][c]
    <3>1. \A j \in 1..Level : j = Level \/ j \in 1..(Level - 1)
      BY <1>1
    <3> QED
      BY <1>2, <1>11, <3>1
  <2>2. Effective(patches', c) = Effective(patches, c)
    BY <1>1, <1>2, <2>1, SameEffective
  <2>3. ASSUME Effective(patches, c) # Absent
        PROVE  heap'[c][Effective(patches, c)] = heap[c][Effective(patches, c)]
    <3>1. Level \in 1..Level
      BY <1>1
    <3>2. Effective(patches, c) \in Objects /\ \E j \in 1..Level : patches[j][c] = Effective(patches, c)
      BY <1>1, <1>9, <2>3, <3>1
    <3>3. Refers(patches', c, Effective(patches, c))
      BY <1>3, <2>1, <3>2 DEF Refers
    <3> QED
      BY <1>4, <1>6, <1>11, <3>2, <3>3
  <2> QED
    BY <1>1, <1>3, <1>8, <2>2, <2>3 DEF SameClaim
<1>12. ASSUME NEW c \in D
       PROVE  /\ entry[c] = Deleted => Effective(Below(Level), c)' = Absent
              /\ entry[c] # Deleted => /\ Effective(Below(Level), c)' = object[c]
                                      /\ heap'[c][object[c]] = claim[c]
  <2>1. c \in Claims /\ patches'[Level][c] = entry[c] /\ entry[c] # Untouched
    BY <1>2, EntriesDiffer
  <2>2. Effective(patches', c) = IF entry[c] = Deleted THEN Absent ELSE entry[c]
    BY <1>1, <1>2, <2>1, EffectiveOfTop
  <2>3. Level \in DOMAIN patches'
    BY <1>1, <1>3
  <2>4. entry[c] # Deleted => heap'[c][object[c]] = claim[c]
    BY <1>0b, <1>4, <1>6, <2>1, <2>3 DEF Refers
  <2> QED
    BY <1>0b, <1>3, <1>8, <2>2, <2>4
<1>13. ASSUME Level > 1, NEW c \in Claims PROVE heap'[c][InformerObject] = heap[c][InformerObject]
  <2>1. patches[Level][c] # InformerObject /\ Fresh(c) # InformerObject
    BY <1>1, <1>13, FreshObject DEF OwnObjects
  <2>2. c \in D => object[c] # InformerObject
    BY <1>0a, <2>1
  <2> QED
    BY <1>4, <1>6, <2>2, EntriesDiffer
<1> QED
  BY <1>1, <1>2, <1>6, <1>10, <1>11, <1>12, <1>13 DEF TopChanged

-----------------------------------------------------------------------------
(* What a step may do to the levels below: nothing. *)
LevelsKept ==
  /\ \A i \in 1..(Level - 1) : i < Len(patches') =>
       \A c \in Claims : Value(Below(i), heap, c) = Value(SubSeq(patches', 1, i), heap', c)
  /\ Level > 1 => \A c \in Claims : heap'[c][InformerObject] = heap[c][InformerObject]

Users(ps, c) == {p \in ps : c \in Refs[p]}

LEMMA NextIsRight ==
  ASSUME \A i \in DOMAIN patches', c \in Claims :
           Right(Effective(SubSeq(patches', 1, i), c), heap'[c], placed'[i], unmatched'[i], c)
  PROVE  ReservedByPlaced'
BY DEF ReservedByPlaced, Right, Below

(* The pods that hold, and that the store or a reservation knows of, a     *)
(* claim of the topmost level.                                             *)
HoldersOf(c) == Users(Holders(placed[Level], unmatched[Level]), c)
KnownOf(c) == Users(placed[Level] \union unmatched[Level], c)

(* The claims of D are written as they should be with the pods ps, of      *)
(* which the reservations of us are the exceptions; others may stay.       *)
RightChange(D, entry, claim, ps, us) ==
  /\ \A c \in Claims : c \notin D =>
       /\ Users(Holders(ps, us), c) = HoldersOf(c)
       /\ Users(ps \union us, c) = KnownOf(c)
  /\ \A c \in D : entry[c] = Deleted => Users(ps \union us, c) = {}
  /\ \A c \in D : entry[c] # Deleted =>
       /\ claim[c].reserved = Users(Holders(ps, us), c)
       /\ claim[c].reserved # {} => claim[c].allocated

LEMMA TopIsRight ==
  ASSUME DraInv, NEW D, NEW entry, NEW object, NEW claim,
         TopChange(D, entry, object, claim),
         NEW ps \in SUBSET Pods, NEW us \in SUBSET Pods, Place(ps, us), ~panicked',
         RightChange(D, entry, claim, ps, us)
  PROVE  DraInv' /\ LevelsKept
<1>1. /\ DraShape /\ OwnObjects /\ Level \in Nat /\ Level >= 1
      /\ DOMAIN patches = 1..Level /\ Len(patches) = Level /\ Level <= MaxForks + 1
      /\ placed \in Seq(SUBSET Pods) /\ Len(placed) = Level
      /\ unmatched \in Seq(SUBSET Pods) /\ Len(unmatched) = Level
  BY ShapeFacts DEF DraInv, DraShape, Level
<1>2. /\ patches' \in ClaimPatches /\ Len(patches') = Len(patches) /\ OwnObjects'
      /\ heap' \in [Claims -> [Objects -> ClaimStates]]
      /\ \A i \in 1..(Level - 1), c \in Claims : SameClaim(i, c)
      /\ \A c \in Claims : c \notin D => SameClaim(Level, c)
      /\ \A c \in D :
           /\ entry[c] = Deleted => Effective(Below(Level), c)' = Absent
           /\ entry[c] # Deleted => /\ Effective(Below(Level), c)' = object[c]
                                   /\ heap'[c][object[c]] = claim[c]
      /\ Level > 1 => \A c \in Claims : heap'[c][InformerObject] = heap[c][InformerObject]
  BY <1>1, TopStep DEF TopChanged
<1>0. /\ D \in SUBSET Claims
      /\ entry \in [D -> Objects \union {Deleted}] /\ object \in [D -> Objects]
      /\ claim \in [D -> ClaimStates] /\ Becomes(entry, object, claim)
  BY DEF TopChange
<1>0a. \A c \in D : object[c] = Fresh(c) \/ object[c] = patches[Level][c]
  BY Zenon DEF TopChange
<1>0b. \A c \in D : entry[c] = Deleted \/ entry[c] = object[c]
  BY Zenon DEF TopChange
<1> USE <1>0
<1>3. Level' = Level /\ DOMAIN patches' = 1..Level
  BY <1>1, <1>2 DEF Level, ClaimPatches
<1>4. /\ placed' \in Seq(SUBSET Pods) /\ Len(placed') = Level
      /\ unmatched' \in Seq(SUBSET Pods) /\ Len(unmatched') = Level
      /\ \A i \in 1..(Level - 1) : placed'[i] = placed[i] /\ unmatched'[i] = unmatched[i]
      /\ placed'[Level] = ps /\ unmatched'[Level] = us
  BY <1>1 DEF Place
<1>5. DraShape'
  BY <1>1, <1>2, <1>3, <1>4 DEF DraShape, DraInv, Level
<1>6. \A i \in 1..Level, c \in Claims : Right(Effective(Below(i), c), heap[c], placed[i], unmatched[i], c)
  BY <1>1, AllRight DEF DraInv
<1>7. \A i \in 1..(Level - 1) : i \in 1..Level
  BY <1>1
<1>8. ASSUME NEW i \in 1..(Level - 1), NEW c \in Claims
      PROVE  /\ Right(Effective(Below(i), c)', heap'[c], placed'[i], unmatched'[i], c)
             /\ Value(Below(i), heap, c) = Value(SubSeq(patches', 1, i), heap', c)
  BY <1>2, <1>4, <1>6, <1>7, SameClaimRight
<1>9. ASSUME NEW c \in Claims PROVE Right(Effective(Below(Level), c)', heap'[c], ps, us, c)
  <2>1. CASE c \notin D
    <3>1. Right(Effective(Below(Level), c), heap[c], placed[Level], unmatched[Level], c)
      BY <1>1, <1>6
    <3>2. Right(Effective(Below(Level), c), heap[c], ps, us, c)
      <4>1. /\ Users(Holders(ps, us), c) = Users(Holders(placed[Level], unmatched[Level]), c)
            /\ Users(ps \union us, c) = Users(placed[Level] \union unmatched[Level], c)
        BY <2>1 DEF RightChange, HoldersOf, KnownOf
      <4> QED
        BY <3>1, <4>1 DEF Right, Users
    <3>3. SameClaim(Level, c)
      BY <1>2, <2>1
    <3> QED
      BY <1>3, <3>2, <3>3 DEF SameClaim, Right
  <2>2. CASE c \in D /\ entry[c] = Deleted
    <3>1. Users(ps \union us, c) = {} /\ Effective(Below(Level), c)' = Absent
      BY <1>2, <2>2 DEF RightChange
    <3> QED
      BY <3>1 DEF Right, Users
  <2>3. CASE c \in D /\ entry[c] # Deleted
    <3>1. /\ Effective(Below(Level), c)' = object[c] /\ heap'[c][object[c]] = claim[c]
          /\ object[c] # Absent
      BY <1>2, <2>3, EntriesDiffer
    <3>2. /\ claim[c].reserved = Users(Holders(ps, us), c)
          /\ claim[c].reserved # {} => claim[c].allocated
      BY <2>3 DEF RightChange
    <3> QED
      BY <3>1, <3>2 DEF Right, Users
  <2> QED
    BY <2>1, <2>2, <2>3
<1>10. \A i \in 1..Level : i = Level \/ i \in 1..(Level - 1)
  BY <1>1
<1>11. \A i \in 1..Level, c \in Claims : Right(Effective(Below(i), c)', heap'[c], placed'[i], unmatched'[i], c)
  BY <1>3, <1>4, <1>8, <1>9, <1>10
<1>12. ReservedByPlaced'
  BY <1>3, <1>11 DEF ReservedByPlaced, Right
<1> QED
  BY <1>1, <1>2, <1>5, <1>8, <1>12 DEF DraInv, LevelsKept

(* The store may change without the claims if those that hold a claim do   *)
(* not, and no claim is missing.                                           *)
LEMMA StoreIsRight ==
  ASSUME DraInv, UNCHANGED <<patches, heap>>, NEW ps \in SUBSET Pods, NEW us \in SUBSET Pods,
         Place(ps, us), ~panicked',
         Holders(ps, us) = Holders(placed[Level], unmatched[Level]),
         \A c \in Claims : Find(c) = Absent => Users(ps \union us, c) = {}
  PROVE  DraInv' /\ LevelsKept
<1>1. /\ DraShape /\ Level \in Nat /\ Level >= 1 /\ Len(patches) = Level
      /\ DOMAIN patches = 1..Level /\ Below(Level) = patches
      /\ placed \in Seq(SUBSET Pods) /\ Len(placed) = Level
      /\ unmatched \in Seq(SUBSET Pods) /\ Len(unmatched) = Level
  BY ShapeFacts DEF DraInv, DraShape, Level
<1>2. /\ placed' \in Seq(SUBSET Pods) /\ Len(placed') = Level
      /\ unmatched' \in Seq(SUBSET Pods) /\ Len(unmatched') = Level
      /\ \A i \in 1..(Level - 1) : placed'[i] = placed[i] /\ unmatched'[i] = unmatched[i]
      /\ placed'[Level] = ps /\ unmatched'[Level] = us
  BY <1>1 DEF Place
<1>3. DraShape' /\ OwnObjects'
  BY <1>1, <1>2 DEF DraInv, DraShape, OwnObjects
<1>4. \A i \in 1..Level, c \in Claims :
        Right(Effective(Below(i), c), heap[c], placed[i], unmatched[i], c)
  BY <1>1, AllRight DEF DraInv
<1>5. ASSUME NEW c \in Claims PROVE Right(Effective(Below(Level), c), heap[c], ps, us, c)
  <2>1. Right(Effective(Below(Level), c), heap[c], placed[Level], unmatched[Level], c)
    BY <1>1, <1>4
  <2>2. Effective(Below(Level), c) = Find(c)
    BY <1>1 DEF Find
  <2>3. CASE Find(c) = Absent
    BY <2>2, <2>3 DEF Right, Users
  <2>4. CASE Find(c) # Absent
    BY <2>1, <2>2, <2>4 DEF Right
  <2> QED
    BY <2>3, <2>4
<1>6. \A i \in 1..Level : i = Level \/ i \in 1..(Level - 1)
  BY <1>1
<1>7. \A i \in 1..Level, c \in Claims :
        Right(Effective(SubSeq(patches', 1, i), c), heap'[c], placed'[i], unmatched'[i], c)
  BY <1>2, <1>4, <1>5, <1>6 DEF Below
<1>8. ReservedByPlaced'
  BY <1>1, <1>7, NextIsRight
<1>9. LevelsKept
  BY DEF LevelsKept, Below
<1> QED
  BY <1>3, <1>8, <1>9 DEF DraInv

-----------------------------------------------------------------------------
(* What the operations write, and where. *)
LEMMA WritableObject ==
  ASSUME DraShape, NEW c \in Claims
  PROVE  /\ Writable(c) \in Objects
         /\ Writable(c) = Fresh(c) \/ Writable(c) = patches[Level][c]
<1>1. Level \in 1..Level /\ patches[Level][c] \in Entries
  BY ShapeFacts
<1> QED
  BY <1>1, FreshObject, EntriesDiffer DEF Writable, InCurrentPatch, Entries

LEMMA ClaimFacts ==
  ASSUME DraInv, NEW c \in Claims, Find(c) # Absent
  PROVE  /\ ClaimOf(c) \in ClaimStates
         /\ ClaimOf(c).reserved = HoldersOf(c)
         /\ ClaimOf(c).reserved # {} => ClaimOf(c).allocated
<1>1. /\ Level \in DOMAIN patches /\ Below(Level) = patches
      /\ patches \in ClaimPatches /\ heap \in [Claims -> [Objects -> ClaimStates]]
  BY ShapeFacts DEF DraInv, DraShape
<1>2. Right(Find(c), heap[c], placed[Level], unmatched[Level], c)
  BY <1>1, AllRight DEF DraInv, Find
<1>3. Find(c) \in Objects
  BY <1>1, EffectiveIsReferred DEF Find
<1> QED
  BY <1>1, <1>2, <1>3 DEF Right, Users, HoldersOf, ClaimOf

LEMMA NoneOfAbsent ==
  ASSUME DraInv, NEW c \in Claims, Find(c) = Absent
  PROVE  \A p \in placed[Level] \union unmatched[Level] : c \notin Refs[p]
<1>1. Level \in DOMAIN patches /\ Below(Level) = patches
  BY ShapeFacts DEF DraInv
<1>2. Right(Find(c), heap[c], placed[Level], unmatched[Level], c)
  BY <1>1, AllRight DEF DraInv, Find
<1> QED
  BY <1>2 DEF Right

(* SchedulePod, to its end or until the pod should be stored. *)
LEMMA ModifiedIsRight ==
  ASSUME DraInv, NEW p \in Pods, PassesFilters(p), ModifyResourceClaims(p), ~panicked',
         NEW ps \in SUBSET Pods, NEW us \in SUBSET Pods, Place(ps, us),
         \/ ps = placed[Level] \union {p} /\ us = unmatched[Level] \ {p}
         \/ ps = placed[Level] /\ us = unmatched[Level] \union {p}
  PROVE  DraInv' /\ LevelsKept
<1> DEFINE D == Refs[p]
           object == [c \in D |-> Allocated(c)]
           claim == [c \in D |-> Reserved(p, ClaimOf(c))]
<1>1. /\ DraShape /\ D \in SUBSET Claims
      /\ placed[Level] \in SUBSET Pods /\ unmatched[Level] \in SUBSET Pods
  BY ShapeFacts DEF DraInv
<1>2. Becomes(object, object, claim) /\ p \notin placed[Level]
  BY DEF ModifyResourceClaims, PassesFilters
<1>3. ASSUME NEW c \in D
      PROVE  ClaimOf(c) \in ClaimStates /\ ClaimOf(c).reserved = HoldersOf(c)
  BY <1>1, ClaimFacts DEF PassesFilters, Found
<1>4. ASSUME NEW c \in D
      PROVE  /\ object[c] \in Objects
             /\ object[c] = Fresh(c) \/ object[c] = patches[Level][c]
  BY <1>1, FreshObject, WritableObject, EntriesDiffer DEF Allocated
<1>5. Holders(ps, us) = Holders(placed[Level], unmatched[Level]) \union {p}
  BY <1>2 DEF Holders
<1>6. ps \union us = placed[Level] \union unmatched[Level] \union {p}
  OBVIOUS
<1>7. ASSUME NEW c \in D
      PROVE  /\ claim[c] \in ClaimStates /\ claim[c].allocated
             /\ claim[c].reserved = Users(Holders(ps, us), c)
  <2>1. claim[c].reserved = ClaimOf(c).reserved \union {p} /\ claim[c].allocated
    BY DEF Reserved
  <2>2. claim[c] \in ClaimStates
    BY <1>3 DEF Reserved, ClaimStates
  <2>3. Users(Holders(ps, us), c) = HoldersOf(c) \union {p}
    BY <1>5 DEF Users, HoldersOf
  <2> QED
    BY <1>3, <2>1, <2>2, <2>3
<1>8. /\ object \in [D -> Objects] /\ object \in [D -> Objects \union {Deleted}]
      /\ claim \in [D -> ClaimStates]
  BY <1>4, <1>7
<1>9. \A c \in D : object[c] # Deleted
  BY <1>4, EntriesDiffer
<1>10. \A c \in Claims : c \notin D => /\ Users(Holders(ps, us), c) = HoldersOf(c)
                                      /\ Users(ps \union us, c) = KnownOf(c)
  BY <1>5, <1>6 DEF Users, HoldersOf, KnownOf
<1> HIDE DEF D, object, claim
<1>11. TopChange(D, object, object, claim)
  BY <1>1, <1>2, <1>4, <1>8 DEF TopChange
<1>12. RightChange(D, object, claim, ps, us)
  BY <1>7, <1>9, <1>10 DEF RightChange
<1> QED
  BY <1>11, <1>12, TopIsRight

LEMMA SchedulePodIsRight ==
  ASSUME DraInv, NEW p \in Pods, SchedulePod(p) PROVE DraInv' /\ LevelsKept
<1> DEFINE ps == placed[Level] \union {p}
           us == unmatched[Level] \ {p}
<1>1. ps \in SUBSET Pods /\ us \in SUBSET Pods
  BY ShapeFacts DEF DraInv
<1>2. PassesFilters(p) /\ ModifyResourceClaims(p) /\ Place(ps, us) /\ ~panicked'
  BY DEF SchedulePod, PassesFilters
<1> QED
  BY <1>1, <1>2, ModifiedIsRight

(* Reserve writes to claims, which it allocates; they are reserved for the *)
(* same pods as before.                                                    *)
LEMMA SchedulePodFailsIsRight ==
  ASSUME DraInv, NEW p \in Pods, SchedulePodFails(p) PROVE DraInv' /\ LevelsKept
<1> DEFINE pods == placed[Level]
           us == unmatched[Level]
<1>1. /\ DraShape /\ pods \in SUBSET Pods /\ us \in SUBSET Pods /\ Refs[p] \in SUBSET Claims
      /\ us \union {p} \in SUBSET Pods
      /\ placed \in Seq(SUBSET Pods) /\ Len(placed) = Level
      /\ unmatched \in Seq(SUBSET Pods) /\ Len(unmatched) = Level /\ Level \in Nat /\ Level >= 1
  BY ShapeFacts DEF DraInv, DraShape, Level
<1>2. PassesFilters(p) /\ ~panicked'
  BY DEF SchedulePodFails, PassesFilters
<1>3. CASE ModifyResourceClaims(p) /\ Place(pods, us \union {p})
  BY <1>1, <1>2, <1>3, ModifiedIsRight
<1>4. ASSUME NEW D \in SUBSET {c \in Refs[p] : ~ClaimOf(c).allocated},
             Becomes([c \in D |-> Allocated(c)], [c \in D |-> Allocated(c)],
                     [c \in D |-> [ClaimOf(c) EXCEPT !.allocated = TRUE]]),
             UNCHANGED <<placed, unmatched>>
      PROVE  DraInv' /\ LevelsKept
  <2> DEFINE object == [c \in D |-> Allocated(c)]
             claim == [c \in D |-> [ClaimOf(c) EXCEPT !.allocated = TRUE]]
  <2>1. D \in SUBSET Claims /\ Becomes(object, object, claim)
    BY <1>1, <1>4
  <2>2. ASSUME NEW c \in D
        PROVE  ClaimOf(c) \in ClaimStates /\ ClaimOf(c).reserved = HoldersOf(c)
    BY <1>1, <1>2, ClaimFacts DEF PassesFilters, Found
  <2>3. ASSUME NEW c \in D
        PROVE  /\ object[c] \in Objects
               /\ object[c] = Fresh(c) \/ object[c] = patches[Level][c]
    BY <1>1, FreshObject, WritableObject, EntriesDiffer DEF Allocated
  <2>4. ASSUME NEW c \in D
        PROVE  /\ claim[c] \in ClaimStates /\ claim[c].allocated
               /\ claim[c].reserved = Users(Holders(pods, us), c)
    <3>1. ClaimOf(c) \in [reserved : SUBSET Pods, allocated : BOOLEAN]
      BY <2>2 DEF ClaimStates
    <3>2. claim[c].reserved = ClaimOf(c).reserved /\ claim[c].allocated
      BY <3>1
    <3>3. claim[c] \in ClaimStates
      BY <3>1 DEF ClaimStates
    <3> QED
      BY <2>2, <3>2, <3>3 DEF HoldersOf
  <2>5. /\ object \in [D -> Objects] /\ object \in [D -> Objects \union {Deleted}]
        /\ claim \in [D -> ClaimStates]
    BY <2>3, <2>4
  <2>6. \A c \in D : object[c] # Deleted
    BY <2>3, EntriesDiffer
  <2>7. Place(pods, us)
    BY <1>1, <1>4 DEF Place
  <2>8. \A c \in Claims : /\ Users(Holders(pods, us), c) = HoldersOf(c)
                          /\ Users(pods \union us, c) = KnownOf(c)
    BY DEF HoldersOf, KnownOf
  <2> HIDE DEF object, claim, pods, us
  <2>9. TopChange(D, object, object, claim)
    BY <2>1, <2>3, <2>5 DEF TopChange
  <2>10. RightChange(D, object, claim, pods, us)
    BY <2>4, <2>6, <2>8 DEF RightChange
  <2> QED
    BY <1>1, <1>2, <2>7, <2>9, <2>10, TopIsRight
<1> QED
  BY <1>3, <1>4 DEF SchedulePodFails

(* The claims of a pod that is forced into the store are there, and those  *)
(* of a pod that is forced out of it were.                                 *)
LEMMA ForceAddPodIsRight ==
  ASSUME DraInv, NEW p \in Pods, ForceAddPod(p) PROVE DraInv' /\ LevelsKept
<1> DEFINE ps == placed[Level] \union {p}
           us == Flipped(p)
<1>1. placed[Level] \in SUBSET Pods /\ unmatched[Level] \in SUBSET Pods /\ DraShape
  BY ShapeFacts DEF DraInv
<1>2. /\ Place(ps, us) /\ ~panicked' /\ UNCHANGED <<patches, heap>>
      /\ p \notin placed[Level] /\ \A c \in Refs[p] : Find(c) # Absent
  BY DEF ForceAddPod, Found
<1>3. ps \in SUBSET Pods /\ us \in SUBSET Pods
  BY <1>1 DEF Flipped
<1>4. Holders(ps, us) = Holders(placed[Level], unmatched[Level])
  BY <1>2 DEF Holders, Flipped
<1>5. ps \union us = placed[Level] \union unmatched[Level] \union {p}
  BY DEF Flipped
<1>6. ASSUME NEW c \in Claims, Find(c) = Absent PROVE Users(ps \union us, c) = {}
  <2>1. \A q \in placed[Level] \union unmatched[Level] : c \notin Refs[q]
    BY <1>1, <1>6, NoneOfAbsent
  <2> QED
    BY <1>2, <1>5, <1>6, <2>1 DEF Users
<1> HIDE DEF ps, us
<1> QED
  BY <1>2, <1>3, <1>4, <1>6, StoreIsRight

LEMMA ForceRemovePodIsRight ==
  ASSUME DraInv, NEW p \in Pods, ForceRemovePod(p) PROVE DraInv' /\ LevelsKept
<1> DEFINE ps == placed[Level] \ {p}
           us == Flipped(p)
<1>1. placed[Level] \in SUBSET Pods /\ unmatched[Level] \in SUBSET Pods /\ DraShape
  BY ShapeFacts DEF DraInv
<1>2. Place(ps, us) /\ ~panicked' /\ UNCHANGED <<patches, heap>> /\ p \in placed[Level]
  BY DEF ForceRemovePod
<1>3. ps \in SUBSET Pods /\ us \in SUBSET Pods
  BY <1>1 DEF Flipped
<1>4. Holders(ps, us) = Holders(placed[Level], unmatched[Level])
  BY <1>2 DEF Holders, Flipped
<1>5. ps \union us \subseteq placed[Level] \union unmatched[Level]
  BY <1>2 DEF Flipped
<1>6. ASSUME NEW c \in Claims, Find(c) = Absent PROVE Users(ps \union us, c) = {}
  <2>1. \A q \in placed[Level] \union unmatched[Level] : c \notin Refs[q]
    BY <1>1, <1>6, NoneOfAbsent
  <2> QED
    BY <1>5, <2>1 DEF Users
<1> HIDE DEF ps, us
<1> QED
  BY <1>2, <1>3, <1>4, <1>6, StoreIsRight

(* A claim made for the pod has no other user, so that it is not reserved  *)
(* any more when its allocation goes.                                      *)
LEMMA UnschedulePodIsRight ==
  ASSUME DraInv, OwnedAreOwn, NEW p \in Pods, UnschedulePod(p) PROVE DraInv' /\ LevelsKept
<1> DEFINE D == Refs[p]
           object == [c \in D |-> Writable(c)]
           claim == [c \in D |-> Unreserved(p, c, ClaimOf(c))]
           ps == placed[Level] \ {p}
           us == unmatched[Level] \ {p}
<1>1. /\ DraShape /\ D \in SUBSET Claims
      /\ placed[Level] \in SUBSET Pods /\ unmatched[Level] \in SUBSET Pods
  BY ShapeFacts DEF DraInv
<1>2. Becomes(object, object, claim) /\ Place(ps, us) /\ ~panicked'
  BY DEF UnschedulePod
<1>3. ASSUME NEW c \in D
      PROVE  /\ ClaimOf(c) \in ClaimStates
             /\ ClaimOf(c).reserved = HoldersOf(c)
             /\ ClaimOf(c).reserved # {} => ClaimOf(c).allocated
  BY <1>1, ClaimFacts DEF UnschedulePod, Found
<1>4. ASSUME NEW c \in D
      PROVE  /\ object[c] \in Objects
             /\ object[c] = Fresh(c) \/ object[c] = patches[Level][c]
  BY <1>1, WritableObject
<1>10. Holders(ps, us) = Holders(placed[Level], unmatched[Level]) \ {p}
  BY DEF Holders
<1>11. ps \union us = (placed[Level] \union unmatched[Level]) \ {p}
  OBVIOUS
<1>5. ASSUME NEW c \in D
      PROVE  /\ claim[c] \in ClaimStates
             /\ claim[c].reserved = Users(Holders(ps, us), c)
             /\ claim[c].reserved # {} => claim[c].allocated
  <2>1. claim[c].reserved = ClaimOf(c).reserved \ {p}
    BY DEF Unreserved
  <2>2. claim[c].reserved = Users(Holders(ps, us), c)
    BY <1>3, <1>10, <2>1 DEF Users, HoldersOf
  <2>3. claim[c] \in ClaimStates
    BY <1>3 DEF Unreserved, ClaimStates
  <2>4. claim[c].reserved # {} => <<p, c>> \notin Owned
    <3>1. ASSUME NEW q \in Users(Holders(ps, us), c), <<p, c>> \in Owned PROVE FALSE
      <4>1. q \in Pods /\ c \in Refs[q] /\ q # p /\ c \in Claims
        BY <1>1, <3>1 DEF Users, Holders
      <4> QED
        BY <3>1, <4>1 DEF OwnedAreOwn
    <3> QED
      BY <2>2, <3>1
  <2>5. claim[c].reserved # {} => claim[c].allocated
    BY <1>3, <2>1, <2>4 DEF Unreserved
  <2> QED
    BY <2>2, <2>3, <2>5
<1>6. /\ object \in [D -> Objects] /\ object \in [D -> Objects \union {Deleted}]
      /\ claim \in [D -> ClaimStates]
  BY <1>4, <1>5
<1>7. \A c \in D : object[c] # Deleted
  BY <1>4, EntriesDiffer
<1>8. \A c \in Claims : c \notin D => /\ Users(Holders(ps, us), c) = HoldersOf(c)
                                     /\ Users(ps \union us, c) = KnownOf(c)
  BY <1>10, <1>11 DEF Users, HoldersOf, KnownOf
<1>9. ps \in SUBSET Pods /\ us \in SUBSET Pods
  BY <1>1
<1> HIDE DEF D, object, claim, ps, us
<1>14. TopChange(D, object, object, claim)
  BY <1>1, <1>2, <1>4, <1>6 DEF TopChange
<1>15. RightChange(D, object, claim, ps, us)
  BY <1>5, <1>7, <1>8 DEF RightChange
<1> QED
  BY <1>2, <1>9, <1>14, <1>15, TopIsRight

(* Removal finds all claims: those of placed pods are tracked, and no pod  *)
(* takes the claim of another with it.                                     *)
LEMMA RemovalTracks ==
  ASSUME DraInv, OwnedAreOwn, NEW ps \in SUBSET placed[Level], NEW pods \in SetToSeqs(ps)
  PROVE  TracksAll(pods) /\ ToSet(pods) \subseteq placed[Level]
<1>1. /\ Level \in DOMAIN patches /\ Below(Level) = patches /\ placed[Level] \in SUBSET Pods
      /\ \A p \in Pods : Refs[p] \subseteq Claims
  BY ShapeFacts DEF DraInv
<1> DEFINE n == Cardinality(ps)
<1>2. /\ pods \in [1..n -> ps]
      /\ \A i, j \in 1..n : pods[i] = pods[j] => i = j
  BY DEF SetToSeqs, IsInjective
<1> HIDE DEF n
<1>3. ASSUME NEW i \in 1..n PROVE Found(pods[i])
  <2>1. pods[i] \in placed[Level] /\ pods[i] \in Pods
    BY <1>1, <1>2
  <2>2. ASSUME NEW c \in Refs[pods[i]] PROVE Find(c) # Absent
    <3>1. c \in Claims
      BY <1>1, <2>1
    <3>2. Right(Find(c), heap[c], placed[Level], unmatched[Level], c)
      BY <1>1, <3>1, AllRight DEF DraInv, Find
    <3> QED
      BY <2>1, <2>2, <3>2 DEF Right
  <2> QED
    BY <2>2 DEF Found
<1>4. ASSUME NEW i \in 1..n, NEW j \in 1..n, i # j
      PROVE  Refs[pods[i]] \intersect OwnClaims(pods[j]) = {}
  <2>1. pods[i] \in Pods /\ pods[j] \in Pods /\ pods[i] # pods[j]
    BY <1>1, <1>2, <1>4
  <2>2. \A c \in OwnClaims(pods[j]) : c \in Claims /\ <<pods[j], c>> \in Owned
    BY <1>1, <2>1 DEF OwnClaims
  <2> QED
    BY <2>1, <2>2 DEF OwnedAreOwn
<1>5. \A i \in 1..n : \A j \in 1..(i - 1) : j \in 1..n /\ i # j
  <2>1. n \in Nat
    BY <1>1, FS_Subset, FS_CardinalityType, DraAssumption DEF n
  <2>2. ASSUME NEW i \in 1..n, NEW j \in 1..(i - 1) PROVE j \in 1..n /\ i # j
    BY <2>1
  <2> QED
    BY <2>2
<1>6. ToSet(pods) \subseteq ps
  BY <1>2 DEF ToSet
<1> QED
  BY <1>2, <1>3, <1>4, <1>5, <1>6 DEF TracksAll

LEMMA RemoveNodeInfoIsRight ==
  ASSUME DraInv, OwnedAreOwn, NEW pods, TracksAll(pods), ToSet(pods) \subseteq placed[Level],
         RemoveNodeInfo(pods)
  PROVE  DraInv' /\ LevelsKept
<1> DEFINE gone == ToSet(pods)
           D == UNION {Refs[p] : p \in gone}
           removed == UNION {OwnClaims(p) : p \in gone}
           users(c) == {p \in gone : c \in OtherClaims(p)}
           object == [c \in D |-> Writable(c)]
           entry == [c \in D |-> IF c \in removed THEN Deleted ELSE Writable(c)]
           claim == [c \in D |-> [ClaimOf(c) EXCEPT !.reserved = @ \ users(c)]]
           ps == placed[Level] \ gone
           us == unmatched[Level] \ gone
<1>1. /\ DraShape /\ placed[Level] \in SUBSET Pods /\ unmatched[Level] \in SUBSET Pods
      /\ \A p \in Pods : Refs[p] \subseteq Claims
  BY ShapeFacts DEF DraInv
<1>2. gone \subseteq Pods /\ gone \subseteq placed[Level]
  BY <1>1
<1>3. Becomes(entry, object, claim) /\ Place(ps, us) /\ ~panicked'
  BY DEF RemoveNodeInfo, RemovePodOwnedClaims
<1>4. \A p \in gone : \A c \in Refs[p] : Find(c) # Absent
  BY DEF TracksAll, Found, ToSet
<1> HIDE DEF gone
<1>5. D \in SUBSET Claims
  BY <1>1, <1>2
<1>6. \A c \in D : \E p \in gone : c \in Refs[p]
  OBVIOUS
<1>7. ASSUME NEW c \in D
      PROVE  /\ ClaimOf(c) \in ClaimStates
             /\ ClaimOf(c).reserved = HoldersOf(c)
             /\ ClaimOf(c).reserved # {} => ClaimOf(c).allocated
  BY <1>4, <1>5, <1>6, ClaimFacts
<1>8. ASSUME NEW c \in D
      PROVE  /\ object[c] \in Objects
             /\ object[c] = Fresh(c) \/ object[c] = patches[Level][c]
             /\ entry[c] = Deleted \/ entry[c] = object[c]
             /\ entry[c] = Deleted <=> c \in removed
  BY <1>1, <1>5, WritableObject, EntriesDiffer
<1>15. Holders(ps, us) = Holders(placed[Level], unmatched[Level]) \ gone
  BY DEF Holders
<1>16. ps \union us = (placed[Level] \union unmatched[Level]) \ gone
  OBVIOUS
<1>9. ASSUME NEW c \in D, c \in removed PROVE Users(ps \union us, c) = {}
  <2>1. PICK p \in gone : c \in OwnClaims(p)
    BY <1>9
  <2>2. c \in Claims /\ p \in Pods /\ <<p, c>> \in Owned
    BY <1>2, <1>5, <2>1 DEF OwnClaims
  <2>3. \A q \in ps \union us : c \in Refs[q] => q = p
    BY <1>1, <2>2 DEF OwnedAreOwn
  <2> QED
    BY <2>3 DEF Users
<1>10. ASSUME NEW c \in D
       PROVE  /\ claim[c] \in ClaimStates
              /\ c \notin removed => claim[c].reserved = Users(Holders(ps, us), c)
              /\ claim[c].reserved # {} => claim[c].allocated
  <2>1. /\ claim[c].reserved = ClaimOf(c).reserved \ users(c)
        /\ claim[c].allocated = ClaimOf(c).allocated
        /\ claim[c] \in ClaimStates
    BY <1>7 DEF ClaimStates
  <2>2. c \notin removed => users(c) = Users(gone, c)
    BY DEF OtherClaims, Users
  <2>3. HoldersOf(c) \ Users(gone, c) = Users(Holders(ps, us), c)
    BY <1>15 DEF Users, HoldersOf
  <2> QED
    BY <1>7, <2>1, <2>2, <2>3
<1>11. /\ object \in [D -> Objects] /\ entry \in [D -> Objects \union {Deleted}]
       /\ claim \in [D -> ClaimStates]
  BY <1>8, <1>10
<1>12. \A c \in Claims : c \notin D => /\ Users(Holders(ps, us), c) = HoldersOf(c)
                                      /\ Users(ps \union us, c) = KnownOf(c)
  BY <1>15, <1>16 DEF Users, HoldersOf, KnownOf
<1>13. ps \in SUBSET Pods /\ us \in SUBSET Pods
  BY <1>1
<1> HIDE DEF D, object, entry, claim, ps, us, removed, users
<1>14. TopChange(D, entry, object, claim)
  BY <1>3, <1>5, <1>8, <1>11 DEF TopChange
<1>17. RightChange(D, entry, claim, ps, us)
  BY <1>8, <1>9, <1>10, <1>12 DEF RightChange
<1> QED
  BY <1>3, <1>13, <1>14, <1>17, TopIsRight

-----------------------------------------------------------------------------
(* Forks, and the ways back. *)

(* A level whose patches stay, and with them the objects they refer to. *)
LEMMA LevelStays ==
  ASSUME DraShape, patches' \in ClaimPatches, NEW i \in 1..Level, i <= Len(patches'),
         \A j \in 1..i : patches'[j] = patches[j],
         \A c \in Claims, o \in Objects : Refers(patches', c, o) => heap'[c][o] = heap[c][o],
         NEW c \in Claims
  PROVE  SameClaim(i, c)
<1>1. /\ i \in Nat /\ i <= Level /\ Level \in Nat /\ Len(patches) = Level /\ patches \in ClaimPatches
      /\ Below(i) \in ClaimPatches
  BY ShapeFacts DEF DraShape, Level
<1>2. SubSeq(patches', 1, i) = SubSeq(patches, 1, i)
  BY <1>1, SamePrefix
<1>3. Effective(Below(i), c)' = Effective(Below(i), c)
  BY <1>2 DEF Below
<1>4. ASSUME Effective(Below(i), c) # Absent
      PROVE  heap'[c][Effective(Below(i), c)] = heap[c][Effective(Below(i), c)]
  <2> DEFINE o == Effective(Below(i), c)
  <2>1. o \in Objects /\ Refers(Below(i), c, o)
    BY <1>1, <1>4, EffectiveIsReferred
  <2>2. Len(Below(i)) = i /\ \A j \in 1..i : Below(i)[j] = patches[j]
    BY <1>1, SamePrefix DEF Below
  <2>3. DOMAIN Below(i) = 1..i
    BY <1>1, <2>2 DEF ClaimPatches
  <2> HIDE DEF o
  <2>4. PICK j \in 1..i : patches[j][c] = o
    BY <2>1, <2>2, <2>3 DEF Refers
  <2>5. j \in DOMAIN patches' /\ patches'[j][c] = o
    BY <1>1, <2>4 DEF ClaimPatches
  <2>6. heap'[c][o] = heap[c][o]
    BY <2>1, <2>5 DEF Refers
  <2> QED
    BY <2>6 DEF o
<1> QED
  BY <1>3, <1>4 DEF SameClaim

LEMMA ForkIsRight ==
  ASSUME DraInv, Fork PROVE DraInv' /\ LevelsKept
<1> DEFINE none == [c \in Claims |-> Untouched]
<1>1. /\ DraShape /\ Level \in Nat /\ Level >= 1 /\ MaxForks \in Nat /\ Len(patches) = Level
      /\ DOMAIN patches = 1..Level /\ Below(Level) = patches
      /\ patches \in ClaimPatches /\ patches \in Seq([Claims -> Entries])
      /\ placed \in Seq(SUBSET Pods) /\ Len(placed) = Level /\ placed[Level] \in SUBSET Pods
      /\ unmatched \in Seq(SUBSET Pods) /\ Len(unmatched) = Level /\ unmatched[Level] \in SUBSET Pods
  BY ShapeFacts DEF DraInv, DraShape, Level, ClaimPatches
<1>2. none \in [Claims -> Entries] /\ \A c \in Claims : none[c] = Untouched
  BY DEF Entries
<1>3. /\ patches' = Append(patches, none) /\ placed' = Append(placed, placed[Level])
      /\ unmatched' = Append(unmatched, unmatched[Level])
      /\ heap' = heap /\ panicked' = panicked /\ Level <= MaxForks
  BY DEF Fork
<1> HIDE DEF none
<1>4. /\ patches' \in ClaimPatches /\ Len(patches') = Level + 1 /\ DOMAIN patches' = 1..(Level + 1)
      /\ \A i \in 1..Level : patches'[i] = patches[i]
      /\ patches'[Level + 1] = none
  BY <1>1, <1>2, <1>3 DEF ClaimPatches
<1>5. /\ placed' \in Seq(SUBSET Pods) /\ Len(placed') = Level + 1
      /\ \A i \in 1..Level : placed'[i] = placed[i]
      /\ placed'[Level + 1] = placed[Level]
  BY <1>1, <1>3
<1>16. /\ unmatched' \in Seq(SUBSET Pods) /\ Len(unmatched') = Level + 1
       /\ \A i \in 1..Level : unmatched'[i] = unmatched[i]
       /\ unmatched'[Level + 1] = unmatched[Level]
  BY <1>1, <1>3
<1>6. DraShape'
  BY <1>1, <1>3, <1>4, <1>5, <1>16 DEF DraShape
<1>7. OwnObjects'
  <2> SUFFICES ASSUME NEW i \in 1..(Level + 1), NEW c \in Claims
               PROVE  /\ patches'[i][c] \in Objects =>
                           \A j \in 1..(Level + 1) : j # i => patches'[j][c] # patches'[i][c]
                      /\ i > 1 => patches'[i][c] # InformerObject
    BY <1>4 DEF OwnObjects
  <2>1. CASE i = Level + 1
    BY <1>2, <1>4, <2>1, EntriesDiffer
  <2>2. CASE i # Level + 1
    <3>1. i \in 1..Level /\ patches'[i] = patches[i]
      BY <1>1, <1>4, <2>2
    <3>2. ASSUME patches[i][c] \in Objects, NEW j \in 1..(Level + 1), j # i
          PROVE  patches'[j][c] # patches[i][c]
      <4>1. CASE j = Level + 1
        BY <1>2, <1>4, <3>2, <4>1, EntriesDiffer
      <4>2. CASE j # Level + 1
        <5>1. j \in 1..Level /\ patches'[j] = patches[j]
          BY <1>1, <1>4, <4>2
        <5> QED
          BY <1>1, <3>1, <3>2, <5>1 DEF DraInv, OwnObjects
      <4> QED
        BY <4>1, <4>2
    <3>3. i > 1 => patches[i][c] # InformerObject
      BY <1>1, <3>1 DEF DraInv, OwnObjects
    <3> QED
      BY <3>1, <3>2, <3>3
  <2> QED
    BY <2>1, <2>2
<1>8. ASSUME NEW i \in 1..Level, NEW c \in Claims PROVE SameClaim(i, c)
  <2>1. i <= Len(patches') /\ \A j \in 1..i : patches'[j] = patches[j]
    BY <1>1, <1>4
  <2>2. \A d \in Claims, o \in Objects : Refers(patches', d, o) => heap'[d][o] = heap[d][o]
    BY <1>3
  <2> QED
    BY <1>1, <1>4, <2>1, <2>2, LevelStays
<1>9. \A i \in 1..Level, c \in Claims : Right(Effective(Below(i), c), heap[c], placed[i], unmatched[i], c)
  BY <1>1, AllRight DEF DraInv
<1>10. ASSUME NEW i \in 1..Level, NEW c \in Claims
       PROVE  /\ Right(Effective(SubSeq(patches', 1, i), c), heap'[c], placed'[i], unmatched'[i], c)
              /\ Value(Below(i), heap, c) = Value(SubSeq(patches', 1, i), heap', c)
  <2>1. Right(Effective(Below(i), c), heap[c], placed'[i], unmatched'[i], c)
    BY <1>5, <1>9, <1>16
  <2>2. Effective(Below(i), c)' = Effective(SubSeq(patches', 1, i), c)
    BY DEF Below
  <2> QED
    BY <1>8, <2>1, <2>2, SameClaimRight
<1>11. ASSUME NEW c \in Claims
       PROVE  Right(Effective(SubSeq(patches', 1, Level + 1), c), heap'[c], placed'[Level + 1], unmatched'[Level + 1], c)
  <2>1. SubSeq(patches', 1, Level + 1) = patches'
    BY <1>1, <1>4 DEF ClaimPatches
  <2>2. SubSeq(patches', 1, Level) = patches
    <3>1. SubSeq(patches', 1, Level) = SubSeq(patches, 1, Level)
      BY <1>1, <1>4, SamePrefix
    <3> QED
      BY <1>1, <3>1 DEF Below
  <2>3. Effective(patches', c) = Effective(patches, c)
    <3>1. Len(patches') > 0 /\ Len(patches') - 1 = Level /\ patches'[Len(patches')][c] = Untouched
      BY <1>1, <1>2, <1>4
    <3>2. Effective(patches', c) = Effective(SubSeq(patches', 1, Len(patches') - 1), c)
      BY <1>4, <3>1, EffectiveBelow
    <3> QED
      BY <2>2, <3>1, <3>2
  <2>4. Right(Effective(patches, c), heap[c], placed[Level], unmatched[Level], c)
    BY <1>1, <1>9
  <2> QED
    BY <1>3, <1>5, <1>16, <2>1, <2>3, <2>4
<1>12. \A i \in 1..(Level + 1) : i = Level + 1 \/ i \in 1..Level
  BY <1>1
<1>13. \A i \in DOMAIN patches', c \in Claims :
         Right(Effective(SubSeq(patches', 1, i), c), heap'[c], placed'[i], unmatched'[i], c)
  BY <1>4, <1>10, <1>11, <1>12
<1>14. ReservedByPlaced'
  BY <1>13, NextIsRight
<1>15. LevelsKept
  <2>1. \A i \in 1..(Level - 1) : i \in 1..Level
    BY <1>1
  <2> QED
    BY <1>3, <1>10, <2>1 DEF LevelsKept
<1> QED
  BY <1>6, <1>7, <1>14, <1>15 DEF DraInv

LEMMA RevertIsRight ==
  ASSUME DraInv, Revert PROVE DraInv' /\ LevelsKept
<1>1. /\ DraShape /\ Level \in Nat /\ MaxForks \in Nat /\ Len(patches) = Level
      /\ DOMAIN patches = 1..Level /\ patches \in ClaimPatches
      /\ placed \in Seq(SUBSET Pods) /\ Len(placed) = Level /\ Level <= MaxForks + 1
      /\ unmatched \in Seq(SUBSET Pods) /\ Len(unmatched) = Level
      /\ heap \in [Claims -> [Objects -> ClaimStates]]
  BY ShapeFacts DEF DraInv, DraShape, Level
<1> DEFINE n == Level - 1
<1>2. /\ patches' = SubSeq(patches, 1, n) /\ placed' = SubSeq(placed, 1, n)
      /\ unmatched' = SubSeq(unmatched, 1, n)
      /\ heap' = Collected(patches', heap) /\ ~panicked' /\ Level > 1
  BY DEF Revert
<1>3. n \in Nat /\ n >= 1 /\ n < Level /\ n <= MaxForks + 1
  BY <1>1, <1>2
<1>4. n + 1 = Level
  BY <1>1
<1> HIDE DEF n
<1>5. /\ patches' \in ClaimPatches /\ Len(patches') = n /\ DOMAIN patches' = 1..n
      /\ \A i \in 1..n : patches'[i] = patches[i]
  BY <1>1, <1>2, <1>3 DEF ClaimPatches
<1>6. /\ placed' \in Seq(SUBSET Pods) /\ Len(placed') = n
      /\ \A i \in 1..n : placed'[i] = placed[i]
  BY <1>1, <1>2, <1>3
<1>14. /\ unmatched' \in Seq(SUBSET Pods) /\ Len(unmatched') = n
       /\ \A i \in 1..n : unmatched'[i] = unmatched[i]
  BY <1>1, <1>2, <1>3
<1>7. /\ heap' \in [Claims -> [Objects -> ClaimStates]]
      /\ \A c \in Claims, o \in Objects :
           o = InformerObject \/ Refers(patches', c, o) => heap'[c][o] = heap[c][o]
  BY <1>1, <1>2, <1>5, CollectedKeeps
<1>8. DraShape'
  BY <1>2, <1>3, <1>5, <1>6, <1>7, <1>14 DEF DraShape
<1>9. \A i \in 1..n : i \in 1..Level /\ i <= Len(patches')
  BY <1>1, <1>3, <1>5
<1>10. OwnObjects'
  BY <1>1, <1>5, <1>9 DEF DraInv, OwnObjects
<1>11. ASSUME NEW i \in 1..n, NEW c \in Claims
       PROVE  /\ Right(Effective(SubSeq(patches', 1, i), c), heap'[c], placed'[i], unmatched'[i], c)
              /\ Value(Below(i), heap, c) = Value(SubSeq(patches', 1, i), heap', c)
  <2>1. \A j \in 1..i : patches'[j] = patches[j]
    BY <1>3, <1>5
  <2>2. SameClaim(i, c)
    BY <1>1, <1>5, <1>7, <1>9, <2>1, LevelStays
  <2>3. Right(Effective(Below(i), c), heap[c], placed'[i], unmatched'[i], c)
    BY <1>1, <1>6, <1>9, <1>14, AllRight DEF DraInv
  <2>4. Effective(Below(i), c)' = Effective(SubSeq(patches', 1, i), c)
    BY DEF Below
  <2> QED
    BY <2>2, <2>3, <2>4, SameClaimRight
<1>12. ReservedByPlaced'
  BY <1>5, <1>11, NextIsRight
<1>13. LevelsKept
  BY <1>7, <1>11, EntriesDiffer DEF LevelsKept, n
<1> QED
  BY <1>8, <1>10, <1>12, <1>13 DEF DraInv

(* What two patches say is what they say merged. *)
LEMMA MergedSaysTheSame ==
  ASSUME DraShape, Level > 1
  PROVE  /\ MergedPatches \in ClaimPatches /\ Len(MergedPatches) = Level - 1
         /\ \A i \in 1..(Level - 2) : MergedPatches[i] = patches[i]
         /\ \A c \in Claims :
              /\ MergedPatches[Level - 1][c] =
                   IF patches[Level][c] = Untouched THEN patches[Level - 1][c] ELSE patches[Level][c]
              /\ Effective(MergedPatches, c) = Effective(patches, c)
<1> DEFINE n == Level
           merged == Merged(patches[n - 1], patches[n])
           ms == Append(SubSeq(patches, 1, n - 2), merged)
<1>1. /\ n \in Nat /\ Len(patches) = n /\ DOMAIN patches = 1..n /\ patches \in ClaimPatches
      /\ n - 1 \in 1..n /\ n \in 1..n /\ n - 2 \in Nat /\ n - 1 \in Nat /\ n > 1
      /\ \A i \in 1..n : patches[i] \in [Claims -> Entries]
  BY ShapeFacts DEF DraShape, Level
<1>2. /\ merged \in [Claims -> Entries]
      /\ \A c \in Claims :
           merged[c] = IF patches[n][c] = Untouched THEN patches[n - 1][c] ELSE patches[n][c]
  BY <1>1 DEF Merged
<1> HIDE DEF merged, n
<1>3. /\ ms \in ClaimPatches /\ Len(ms) = n - 1 /\ ms[n - 1] = merged
      /\ \A i \in 1..(n - 2) : ms[i] = patches[i]
  BY <1>1, <1>2 DEF ClaimPatches
<1> HIDE DEF ms
<1>4. ASSUME NEW c \in Claims PROVE Effective(ms, c) = Effective(patches, c)
  <2>1. CASE patches[n][c] # Untouched
    <3>1. ms[Len(ms)][c] = patches[n][c] /\ Len(ms) > 0
      BY <1>1, <1>2, <1>3, <2>1
    <3>2. Effective(ms, c) = IF ms[Len(ms)][c] = Deleted THEN Absent ELSE ms[Len(ms)][c]
      BY <1>3, <2>1, <3>1, EffectiveOfTop
    <3>3. Effective(patches, c) = IF patches[n][c] = Deleted THEN Absent ELSE patches[n][c]
      BY <1>1, <2>1, EffectiveOfTop
    <3> QED
      BY <3>1, <3>2, <3>3
  <2>2. CASE patches[n][c] = Untouched
    <3> DEFINE qs == SubSeq(patches, 1, n - 1)
    <3>1. Effective(patches, c) = Effective(qs, c)
      BY <1>1, <2>2, EffectiveBelow
    <3>2. qs \in ClaimPatches /\ Len(qs) = n - 1 /\ \A i \in 1..(n - 1) : qs[i] = patches[i]
      BY <1>1 DEF ClaimPatches
    <3> HIDE DEF qs
    <3>3. \A i \in 1..(n - 1) : i = n - 1 \/ i \in 1..(n - 2)
      BY <1>1
    <3>4. \A i \in 1..Len(ms) : ms[i][c] = qs[i][c]
      BY <1>2, <1>3, <2>2, <3>2, <3>3
    <3>5. Effective(ms, c) = Effective(qs, c)
      BY <1>3, <3>2, <3>4, SameEffective
    <3> QED
      BY <3>1, <3>5
  <2> QED
    BY <2>1, <2>2
<1>5. MergedPatches = ms
  BY DEF MergedPatches, ms, merged, n
<1>6. n = Level
  BY DEF n
<1> QED
  BY <1>2, <1>3, <1>4, <1>5, <1>6

LEMMA CommitIsRight ==
  ASSUME DraInv, Commit PROVE DraInv' /\ LevelsKept
<1>1. /\ DraShape /\ Level \in Nat /\ MaxForks \in Nat /\ Len(patches) = Level
      /\ DOMAIN patches = 1..Level /\ patches \in ClaimPatches
      /\ placed \in Seq(SUBSET Pods) /\ Len(placed) = Level /\ Level <= MaxForks + 1
      /\ heap \in [Claims -> [Objects -> ClaimStates]] /\ Below(Level) = patches
      /\ unmatched \in Seq(SUBSET Pods) /\ Len(unmatched) = Level
      /\ \A i \in 1..Level : placed[i] \in SUBSET Pods /\ unmatched[i] \in SUBSET Pods
  BY ShapeFacts DEF DraInv, DraShape, Level
<1> DEFINE n == Level - 1
<1>2. /\ patches' = MergedPatches
      /\ placed' = Append(SubSeq(placed, 1, Level - 2), placed[Level])
      /\ unmatched' = Append(SubSeq(unmatched, 1, Level - 2), unmatched[Level])
      /\ heap' = Collected(patches', heap) /\ ~panicked' /\ Level > 1
  BY DEF Commit
<1>3. /\ n \in Nat /\ n >= 1 /\ n < Level /\ n <= MaxForks + 1
      /\ n + 1 = Level /\ n - 1 = Level - 2 /\ n = Level - 1
  BY <1>1, <1>2
<1> HIDE DEF n
<1>4. /\ patches' \in ClaimPatches /\ Len(patches') = n
      /\ \A i \in 1..(n - 1) : patches'[i] = patches[i]
      /\ \A c \in Claims :
           /\ patches'[n][c] = IF patches[Level][c] = Untouched THEN patches[n][c] ELSE patches[Level][c]
           /\ Effective(patches', c) = Effective(patches, c)
  BY <1>1, <1>2, <1>3, MergedSaysTheSame
<1>5. DOMAIN patches' = 1..n
  BY <1>4 DEF ClaimPatches
<1>6. /\ placed' \in Seq(SUBSET Pods) /\ Len(placed') = n
      /\ \A i \in 1..(n - 1) : placed'[i] = placed[i]
      /\ placed'[n] = placed[Level]
  <2>1. SubSeq(placed, 1, Level - 2) \in Seq(SUBSET Pods) /\ Len(SubSeq(placed, 1, Level - 2)) = n - 1
    BY <1>1, <1>2, <1>3
  <2> QED
    BY <1>1, <1>2, <1>3, <2>1
<1>16. /\ unmatched' \in Seq(SUBSET Pods) /\ Len(unmatched') = n
       /\ \A i \in 1..(n - 1) : unmatched'[i] = unmatched[i]
       /\ unmatched'[n] = unmatched[Level]
  <2>1. /\ SubSeq(unmatched, 1, Level - 2) \in Seq(SUBSET Pods)
        /\ Len(SubSeq(unmatched, 1, Level - 2)) = n - 1
    BY <1>1, <1>2, <1>3
  <2> QED
    BY <1>1, <1>2, <1>3, <2>1
<1>7. /\ heap' \in [Claims -> [Objects -> ClaimStates]]
      /\ \A c \in Claims, o \in Objects :
           o = InformerObject \/ Refers(patches', c, o) => heap'[c][o] = heap[c][o]
  BY <1>1, <1>2, <1>4, CollectedKeeps
<1>8. DraShape'
  BY <1>2, <1>3, <1>4, <1>6, <1>7, <1>16 DEF DraShape
<1>9. /\ \A i \in 1..n : i = n \/ i \in 1..(n - 1)
      /\ \A i \in 1..(n - 1) : i \in 1..Level /\ i \in 1..n /\ i # n /\ i # Level /\ i <= Len(patches')
      /\ n \in 1..n /\ n \in 1..Level /\ Level \in 1..Level
  BY <1>1, <1>3, <1>4
(* An object of the merged patch is one of either, and in no patch below. *)
<1>10. OwnObjects'
  <2> SUFFICES ASSUME NEW i \in 1..n, NEW c \in Claims
               PROVE  /\ patches'[i][c] \in Objects =>
                           \A j \in 1..n : j # i => patches'[j][c] # patches'[i][c]
                      /\ i > 1 => patches'[i][c] # InformerObject
    BY <1>5 DEF OwnObjects
  <2>1. PICK k \in {n, Level} : patches'[n][c] = patches[k][c]
    BY <1>4
  <2>2. k \in 1..Level /\ k >= n /\ \A j \in 1..(n - 1) : j # k
    BY <1>1, <1>3, <1>9, <2>1
  <2>3. CASE i = n
    <3>1. ASSUME patches[k][c] \in Objects, NEW j \in 1..n, j # n
          PROVE  patches'[j][c] # patches[k][c]
      <4>1. j \in 1..(n - 1)
        BY <1>9, <3>1
      <4>2. patches'[j] = patches[j] /\ j \in 1..Level /\ j # k
        BY <1>4, <1>9, <2>2, <4>1
      <4> QED
        BY <1>1, <2>2, <3>1, <4>2 DEF DraInv, OwnObjects
    <3>2. i > 1 => k > 1
      BY <1>1, <1>3, <2>2, <2>3
    <3>3. i > 1 => patches[k][c] # InformerObject
      BY <1>1, <2>2, <3>2 DEF DraInv, OwnObjects
    <3> QED
      BY <2>1, <2>3, <3>1, <3>3
  <2>4. CASE i # n
    <3>1. i \in 1..(n - 1) /\ i \in 1..Level /\ patches'[i] = patches[i] /\ i # k
      BY <1>4, <1>9, <2>2, <2>4
    <3>2. ASSUME patches[i][c] \in Objects, NEW j \in 1..n, j # i
          PROVE  patches'[j][c] # patches[i][c]
      <4>1. CASE j = n
        BY <1>1, <2>1, <2>2, <3>1, <3>2, <4>1 DEF DraInv, OwnObjects
      <4>2. CASE j # n
        <5>1. patches'[j] = patches[j] /\ j \in 1..Level
          BY <1>4, <1>9, <4>2
        <5> QED
          BY <1>1, <3>1, <3>2, <5>1 DEF DraInv, OwnObjects
      <4> QED
        BY <4>1, <4>2
    <3>3. i > 1 => patches[i][c] # InformerObject
      BY <1>1, <3>1 DEF DraInv, OwnObjects
    <3> QED
      BY <3>1, <3>2, <3>3
  <2> QED
    BY <2>3, <2>4
<1>11. ASSUME NEW i \in 1..(n - 1), NEW c \in Claims
       PROVE  /\ Right(Effective(SubSeq(patches', 1, i), c), heap'[c], placed'[i], unmatched'[i], c)
              /\ Value(Below(i), heap, c) = Value(SubSeq(patches', 1, i), heap', c)
  <2>1. \A j \in 1..i : patches'[j] = patches[j]
    BY <1>3, <1>4
  <2>2. SameClaim(i, c)
    BY <1>1, <1>4, <1>7, <1>9, <2>1, LevelStays
  <2>3. Right(Effective(Below(i), c), heap[c], placed'[i], unmatched'[i], c)
    BY <1>1, <1>6, <1>9, <1>16, AllRight DEF DraInv
  <2>4. Effective(Below(i), c)' = Effective(SubSeq(patches', 1, i), c)
    BY DEF Below
  <2> QED
    BY <2>2, <2>3, <2>4, SameClaimRight
<1>12. ASSUME NEW c \in Claims
       PROVE  Right(Effective(SubSeq(patches', 1, n), c), heap'[c], placed'[n], unmatched'[n], c)
  <2>1. SubSeq(patches', 1, n) = patches'
    BY <1>3, <1>4 DEF ClaimPatches
  <2>2. Right(Effective(patches, c), heap[c], placed[Level], unmatched[Level], c)
    BY <1>1, <1>9, AllRight DEF DraInv
  <2>3. Effective(patches', c) # Absent =>
          heap'[c][Effective(patches', c)] = heap[c][Effective(patches', c)]
    BY <1>4, <1>7, EffectiveIsReferred
  <2> QED
    BY <1>4, <1>6, <1>16, <2>1, <2>2, <2>3 DEF Right
<1>13. \A i \in DOMAIN patches', c \in Claims :
         Right(Effective(SubSeq(patches', 1, i), c), heap'[c], placed'[i], unmatched'[i], c)
  BY <1>5, <1>9, <1>11, <1>12
<1>14. ReservedByPlaced'
  BY <1>13, NextIsRight
<1>15. LevelsKept
  <2>1. \A i \in 1..(Level - 1) : i < Len(patches') => i \in 1..(n - 1)
    BY <1>1, <1>3, <1>4
  <2> QED
    BY <1>7, <1>11, <2>1, EntriesDiffer DEF LevelsKept
<1> QED
  BY <1>8, <1>10, <1>14, <1>15 DEF DraInv

(* Initially what counts is the object of the informer. *)
LEMMA InitIsRight ==
  ASSUME DraInit PROVE DraInv
<1>1. PICK scheduled \in SUBSET Pods, missing \in SUBSET Claims, unused \in SUBSET Claims :
        /\ \A c \in missing \union unused : Users(scheduled, c) = {}
        /\ placed = <<scheduled>> /\ unmatched = <<{}>>
        /\ patches = <<[c \in Claims |-> IF c \in missing THEN Untouched ELSE InformerObject]>>
        /\ heap = [c \in Claims |-> [o \in Objects |->
             IF o = InformerObject THEN [reserved |-> Users(scheduled, c), allocated |-> c \notin unused]
             ELSE Blank]]
  BY DEF DraInit, Users
<1>2. /\ Len(patches) = 1 /\ patches \in ClaimPatches /\ DOMAIN patches = {1}
      /\ \A c \in Claims : patches[1][c] = IF c \in missing THEN Untouched ELSE InformerObject
  BY <1>1, EntriesDiffer DEF ClaimPatches, Entries
<1>3. \A c \in Claims :
        [reserved |-> Users(scheduled, c), allocated |-> c \notin unused] \in ClaimStates
  BY DEF ClaimStates, Users
<1>4. /\ heap \in [Claims -> [Objects -> ClaimStates]]
      /\ \A c \in Claims : /\ heap[c][InformerObject].reserved = Users(scheduled, c)
                           /\ heap[c][InformerObject].allocated = (c \notin unused)
  BY <1>1, <1>3, EntriesDiffer DEF Blank, ClaimStates
<1>5. /\ placed \in Seq(SUBSET Pods) /\ Len(placed) = 1 /\ placed[1] = scheduled
      /\ unmatched \in Seq(SUBSET Pods) /\ Len(unmatched) = 1 /\ unmatched[1] = {}
      /\ Holders(scheduled, {}) = scheduled /\ scheduled \union {} = scheduled
  BY <1>1 DEF Holders
<1>6. DraShape
  BY <1>2, <1>4, <1>5, DraAssumption DEF DraShape, DraInit
<1>7. OwnObjects
  BY <1>2 DEF OwnObjects
<1>8. ASSUME NEW c \in Claims PROVE Right(Effective(Below(1), c), heap[c], placed[1], unmatched[1], c)
  <2>1. Below(1) = patches
    <3>1. Below(Level) = patches
      BY <1>6, ShapeFacts
    <3>2. Level = 1
      BY <1>2 DEF Level
    <3> QED
      BY <3>1, <3>2
  <2>2. CASE c \in missing
    <3>1. Effective(patches, c) = Absent
      <4>1. {i \in DOMAIN patches : patches[i][c] # Untouched} = {}
        BY <1>2, <2>2
      <4> QED
        BY <4>1 DEF Effective
    <3>2. Users(scheduled, c) = {}
      BY <1>1, <2>2
    <3> QED
      BY <1>5, <2>1, <3>1, <3>2 DEF Right, Users
  <2>3. CASE c \notin missing
    <3>1. Effective(patches, c) = InformerObject /\ InformerObject # Absent
      BY <1>2, <2>3, EffectiveOfTop, EntriesDiffer
    <3>2. c \in unused => Users(scheduled, c) = {}
      BY <1>1
    <3> QED
      BY <1>4, <1>5, <2>1, <3>1, <3>2 DEF Right, Users
  <2> QED
    BY <2>2, <2>3
<1>9. ReservedByPlaced
  BY <1>2, <1>8, AllRight
<1> QED
  BY <1>6, <1>7, <1>9 DEF DraInv

LEMMA DraStep ==
  ASSUME DraInv, OwnedAreOwn, DraNext PROVE DraInv' /\ LevelsKept
<1>1. CASE \E p \in Pods : SchedulePod(p) \/ SchedulePodFails(p) \/ UnschedulePod(p)
  BY <1>1, SchedulePodIsRight, SchedulePodFailsIsRight, UnschedulePodIsRight
<1>3. CASE \E p \in Pods : ForceAddPod(p) \/ ForceRemovePod(p)
  BY <1>3, ForceAddPodIsRight, ForceRemovePodIsRight
<1>2. CASE RemoveNode
  <2>1. PICK ps \in SUBSET placed[Level] : \E pods \in SetToSeqs(ps) : RemoveNodeInfo(pods)
    BY <1>2 DEF RemoveNode
  <2>2. PICK pods \in SetToSeqs(ps) : RemoveNodeInfo(pods)
    BY <2>1
  <2>3. TracksAll(pods) /\ ToSet(pods) \subseteq placed[Level]
    BY RemovalTracks
  <2> QED
    BY <2>2, <2>3, RemoveNodeInfoIsRight
<1> QED
  BY <1>1, <1>2, <1>3, ForkIsRight, RevertIsRight, CommitIsRight DEF DraNext

LEMMA DraStays ==
  ASSUME DraInv, UNCHANGED draVars PROVE DraInv'
BY DEF DraInv, DraShape, OwnObjects, ReservedByPlaced, Below, draVars

(* The invariant, with the type that it leaves out. *)
ClaimsInv == DraInv /\ panicked \in BOOLEAN

LEMMA ClaimsInit == DraInit => ClaimsInv
BY InitIsRight DEF DraInit, ClaimsInv

LEMMA ClaimsStep ==
  ASSUME OwnedAreOwn, ClaimsInv, [DraNext]_draVars PROVE ClaimsInv'
<1>1. panicked' \in BOOLEAN
  BY DEF ClaimsInv, DraNext, SchedulePod, SchedulePodFails, UnschedulePod, ForceAddPod, ForceRemovePod,
         RemoveNode, RemoveNodeInfo, Fork, Revert, Commit, draVars
<1> QED
  BY <1>1, DraStep, DraStays DEF ClaimsInv

LEMMA ClaimsTypes ==
  ASSUME ClaimsInv PROVE DraTypeOK
<1>1. /\ DraShape /\ DOMAIN patches = 1..Level /\ DOMAIN placed = 1..Level /\ DOMAIN unmatched = 1..Level
      /\ \A i \in 1..Level : /\ patches[i] \in [Claims -> Entries]
                             /\ placed[i] \in SUBSET Pods /\ unmatched[i] \in SUBSET Pods
  BY ShapeFacts DEF ClaimsInv, DraInv
<1>2. Level \in 1..(MaxForks + 1) /\ Len(placed) = Level /\ Len(unmatched) = Level
  BY <1>1 DEF DraShape, Level
<1>3. heap \in [Claims -> [Objects -> ClaimStates]]
  BY <1>1 DEF DraShape
<1>4. \A i \in DOMAIN patches : patches[i] \in [Claims -> Objects \union {Untouched, Deleted}]
  BY <1>1 DEF Entries
<1> QED
  BY <1>1, <1>2, <1>3, <1>4 DEF ClaimsInv, DraTypeOK

(* At every level of the snapshot, whatever is forked, reverted and        *)
(* committed, a claim is reserved for exactly the pods placed there that   *)
(* reference it.  The exceptions are exactly the pods that ForceAddPod     *)
(* placed and those that a failed SchedulePod, or ForceRemovePod, left     *)
(* with their reservations, until they are scheduled, unscheduled or       *)
(* removed with their node.  It takes that no pod references the claim     *)
(* made for another.                                                       *)
THEOREM ClaimsFollowPods ==
  ASSUME OwnedAreOwn PROVE DraSpec => [](DraTypeOK /\ ReservedByPlaced)
<1>1. ClaimsInv /\ [DraNext]_draVars => ClaimsInv'
  BY ClaimsStep
<1>2. ClaimsInv => DraTypeOK /\ ReservedByPlaced
  BY ClaimsTypes DEF ClaimsInv, DraInv
<1> QED
  BY ClaimsInit, <1>1, <1>2, PTL DEF DraSpec

(* The removal of a node never panics: it finds every claim of the pods    *)
(* that are placed there.  With a pod that references the claim made for   *)
(* another it panics, see NeverPanics.                                     *)
THEOREM ClaimsAreFound ==
  ASSUME OwnedAreOwn PROVE DraSpec => []NeverPanics
<1>1. ClaimsInv /\ [DraNext]_draVars => ClaimsInv'
  BY ClaimsStep
<1>2. ClaimsInv => NeverPanics
  BY DEF ClaimsInv, DraInv, DraShape, NeverPanics
<1> QED
  BY ClaimsInit, <1>1, <1>2, PTL DEF DraSpec

(* No step changes what a level below the topmost says, nor, in a forked   *)
(* snapshot, an object of the informer: Revert goes back to what was.      *)
THEOREM RevertFindsWhatWas ==
  ASSUME OwnedAreOwn PROVE DraSpec => LowerLevelsKept
<1>1. DraInit => DraInv
  BY InitIsRight
<1>2. DraInv /\ [DraNext]_draVars => DraInv'
  BY DraStep, DraStays
<1>3. DraInv /\ [DraNext]_draVars => [LevelsKept]_draVars
  BY DraStep
<1> QED
  BY <1>1, <1>2, <1>3, PTL DEF DraSpec, LowerLevelsKept, LevelsKept

-----------------------------------------------------------------------------
(* The parts side by side, each with its invariant. *)
PartsInv == BalancingInv /\ BackoffTypeOK /\ ReportsInv /\ ClaimsInv

LEMMA PartsStep ==
  ASSUME ~SameTime, OwnedAreOwn, PartsInv, [PartsNext]_partVars
  PROVE  PartsInv'
<1>1. [Next]_vars
  BY DEF PartsNext, partVars
<1>2. [BackoffNext]_backoff
  BY DEF PartsNext, partVars
<1>3. [ReportsNext]_reportVars
  BY DEF PartsNext, partVars
<1>4. [DraNext]_draVars
  BY DEF PartsNext, partVars
<1>5. BalancingInv'
  BY <1>1, BalancingStep DEF PartsInv
<1>6. BackoffTypeOK'
  BY <1>2, BackoffKeepsType DEF PartsInv
<1>7. ReportsInv'
  BY <1>3, ReportsStep DEF PartsInv
<1>8. ClaimsInv'
  BY <1>4, ClaimsStep DEF PartsInv
<1> QED
  BY <1>5, <1>6, <1>7, <1>8 DEF PartsInv

(* Side by side, too, the parts keep the shape of their states: sizes and  *)
(* indexes, durations, results in the order of time, levels of claims.     *)
THEOREM PartsKeepShape ==
  ASSUME ~SameTime, OwnedAreOwn PROVE PartsSpec => []PartsInvariant
<1>1. PartsInit => PartsInv
  BY InitInv, InitReports, ClaimsInit DEF PartsInit, PartsInv, BackoffInit, BackoffTypeOK
<1>2. PartsInv /\ [PartsNext]_partVars => PartsInv'
  BY PartsStep
<1>3. PartsInv => PartsInvariant
  BY ClaimsTypes DEF PartsInv, PartsInvariant, BalancingInv, ListInv, SizesTypeOK, BalancingTypeOK,
                     ReportsInv, ResultsInv, ReportsTypeOK
<1> QED
  BY <1>1, <1>2, <1>3, PTL DEF PartsSpec
=============================================================================
