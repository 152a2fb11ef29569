------------------------- MODULE DeltaProofs -------------------------
(***************************************************************************)
(* The store of changes that is in use answers like the store of copies,   *)
(* and no list it keeps is stale, for any nodes, pods and depth of forks.  *)
(***************************************************************************)
EXTENDS DeltaSnapshotStore, FiniteSetTheorems, SequenceTheorems, NaturalsInduction,
        WellFoundedInduction, TLAPS

(* Induction, about a set of numbers: whatever its complement has a least  *)
(* element of.                                                             *)
LEMMA Induction ==
  ASSUME NEW S, 0 \in S, \A n \in Nat : n \in S => n + 1 \in S
  PROVE  Nat \subseteq S
<1> DEFINE T == Nat \ S
           R == {p \in Nat \X Nat : p[1] < p[2]}
<1>1. SUFFICES ASSUME T # {} PROVE FALSE
  OBVIOUS
<1>2. IsWellFoundedOn(R, Nat)
  BY NatLessThanWellFounded DEF OpToRel
<1>3. \A x \in Nat, y \in Nat : y < x => <<y, x>> \in R
  OBVIOUS
<1> HIDE DEF R
<1>4. PICK x \in T : \A y \in T : <<y, x>> \notin R
  BY <1>1, <1>2, WFMin
<1>5. x # 0 /\ x - 1 \in Nat /\ x - 1 < x
  BY <1>4
<1>6. x - 1 \in S
  BY <1>3, <1>4, <1>5
<1> QED
  BY <1>4, <1>5, <1>6

(* r follows a recursive definition over an interval.                      *)
Solution(r, lo, hi, first, step) ==
  \A k \in lo..hi : r[k] = IF k = lo THEN first ELSE step[<<k, r[k - 1]>>]

(* A recursive definition over an interval has a solution.                 *)
LEMMA Recursion ==
  ASSUME NEW lo \in Int, NEW T, NEW first \in T, NEW step \in [Int \X T -> T], NEW hi \in Int
  PROVE  \E r \in [lo..hi -> T] : Solution(r, lo, hi, first, step)
<1> DEFINE Solves(r, n) == r \in [lo..(lo + n) -> T] /\ Solution(r, lo, lo + n, first, step)
           S == {n \in Nat : \E r : Solves(r, n)}
<1>1. 0 \in S
  <2>1. Solves([k \in lo..(lo + 0) |-> first], 0)
    BY DEF Solution
  <2> QED
    BY <2>1
<1>2. ASSUME NEW n \in Nat, n \in S PROVE n + 1 \in S
  <2>1. PICK r : Solves(r, n)
    BY <1>2
  <2> DEFINE top == lo + (n + 1)
             longer == [k \in lo..top |-> IF k = top THEN step[<<top, r[lo + n]>>] ELSE r[k]]
  <2>2. /\ \A k \in lo..top : k # top => k \in lo..(lo + n)
        /\ top - 1 = lo + n /\ lo + n \in lo..(lo + n) /\ top # lo /\ top \in Int
    OBVIOUS
  <2>3. step[<<top, r[lo + n]>>] \in T
    BY <2>1, <2>2
  <2>4. longer \in [lo..top -> T]
    BY <2>1, <2>2, <2>3
  <2>5. ASSUME NEW k \in lo..top
        PROVE  longer[k] = IF k = lo THEN first ELSE step[<<k, longer[k - 1]>>]
    <3>1. CASE k = top
      BY <2>2, <3>1
    <3>2. CASE k # top
      <4>1. k \in lo..(lo + n) /\ (k # lo => k - 1 \in lo..(lo + n) /\ k - 1 # top)
        BY <2>2, <3>2
      <4>2. longer[k] = r[k] /\ (k # lo => longer[k - 1] = r[k - 1])
        BY <2>2, <3>2, <4>1
      <4> QED
        BY <2>1, <4>1, <4>2 DEF Solution
    <3> QED
      BY <3>1, <3>2
  <2> HIDE DEF longer
  <2>6. Solves(longer, n + 1)
    BY <2>4, <2>5 DEF Solution
  <2> QED
    BY <2>6
<1> HIDE DEF S
<1>3. Nat \subseteq S
  BY <1>1, <1>2, Induction
<1>4. CASE hi < lo
  <2>1. lo..hi = {}
    BY <1>4
  <2>2. [k \in lo..hi |-> first] \in [lo..hi -> T] /\ Solution([k \in lo..hi |-> first], lo, hi, first, step)
    BY <2>1 DEF Solution
  <2> QED
    BY <2>2
<1>5. CASE lo <= hi
  <2> DEFINE n == hi - lo
  <2>1. n \in Nat /\ lo + n = hi
    BY <1>5
  <2>2. PICK r : Solves(r, n)
    BY <1>3, <2>1 DEF S
  <2> HIDE DEF n
  <2> QED
    BY <2>1, <2>2
<1> QED
  BY <1>4, <1>5


-----------------------------------------------------------------------------
(* Levels and stacks of them.                                              *)

LevelSet ==
  [added : NodeMaps, modified : NodeMaps, deleted : SUBSET Nodes,
   list : Lists \cup {NotBuilt}, affinity : (SUBSET Nodes) \cup {NotBuilt},
   claims : (SUBSET Pods) \cup {NotBuilt}]

Stacks == {ls \in Seq(LevelSet) : ls # <<>>}

TopOf(ls) == ls[Len(ls)]

(* The first i levels. *)
Upto(ls, i) == SubSeq(ls, 1, i)

LEMMA StackParts ==
  ASSUME NEW ls \in Stacks
  PROVE  /\ ls \in Seq(LevelSet) /\ Len(ls) \in Nat /\ Len(ls) >= 1 /\ DOMAIN ls = 1..Len(ls)
         /\ \A i \in 1..Len(ls) : ls[i] \in LevelSet
         /\ TopOf(ls) \in LevelSet
         /\ Below(ls) \in Seq(LevelSet) /\ Len(Below(ls)) = Len(ls) - 1
         /\ \A i \in 1..(Len(ls) - 1) : Below(ls)[i] = ls[i]
<1>1. ls \in Seq(LevelSet) /\ Len(ls) \in Nat /\ Len(ls) >= 1 /\ DOMAIN ls = 1..Len(ls)
  BY EmptySeq DEF Stacks
<1>2. TopOf(ls) \in LevelSet /\ \A i \in 1..Len(ls) : ls[i] \in LevelSet
  BY <1>1 DEF TopOf
<1>3. /\ Below(ls) \in Seq(LevelSet) /\ Len(Below(ls)) = Len(ls) - 1
      /\ \A i \in 1..(Len(ls) - 1) : Below(ls)[i] = ls[i]
  BY <1>1 DEF Below
<1> QED
  BY <1>1, <1>2, <1>3

LEMMA UptoParts ==
  ASSUME NEW ls \in Seq(LevelSet), NEW i \in 0..Len(ls)
  PROVE  /\ Upto(ls, i) \in Seq(LevelSet) /\ Len(Upto(ls, i)) = i
         /\ \A j \in 1..i : Upto(ls, i)[j] = ls[j]
         /\ i >= 1 => /\ Upto(ls, i) \in Stacks /\ TopOf(Upto(ls, i)) = ls[i]
                      /\ Below(Upto(ls, i)) = Upto(ls, i - 1)
         /\ \A j \in 0..i : Upto(Upto(ls, i), j) = Upto(ls, j)
<1> DEFINE u == Upto(ls, i)
<1>1. Len(ls) \in Nat /\ i \in Nat /\ i <= Len(ls)
  OBVIOUS
<1>2. u \in Seq(LevelSet) /\ Len(u) = i /\ \A j \in 1..i : u[j] = ls[j]
  BY <1>1 DEF Upto
<1>3. ASSUME NEW j \in 0..i PROVE Upto(u, j) = Upto(ls, j)
  <2>1. j \in Nat /\ j <= i /\ j <= Len(ls)
    BY <1>1
  <2>2. /\ Upto(u, j) \in Seq(LevelSet) /\ Len(Upto(u, j)) = j
        /\ \A k \in 1..j : Upto(u, j)[k] = u[k]
    BY <1>2, <2>1 DEF Upto
  <2>3. /\ Upto(ls, j) \in Seq(LevelSet) /\ Len(Upto(ls, j)) = j
        /\ \A k \in 1..j : Upto(ls, j)[k] = ls[k]
    BY <2>1 DEF Upto
  <2> DEFINE x == Upto(u, j)
             y == Upto(ls, j)
  <2>4. \A k \in 1..j : x[k] = y[k]
    BY <1>2, <2>1, <2>2, <2>3
  <2> HIDE DEF x, y, u
  <2>5. x \in Seq(LevelSet) /\ y \in Seq(LevelSet) /\ Len(x) = Len(y) /\ Len(x) = j
    BY <2>2, <2>3 DEF x, y
  <2>6. x = y
    BY <2>4, <2>5, SeqEqual
  <2> QED
    BY <2>6 DEF x, y, u
<1>4. ASSUME i >= 1
      PROVE  u \in Stacks /\ TopOf(u) = ls[i] /\ Below(u) = Upto(ls, i - 1)
  <2>1. u # <<>>
    BY <1>1, <1>2, <1>4, EmptySeq
  <2>2. u \in Stacks /\ TopOf(u) = ls[i]
    BY <1>1, <1>2, <1>4, <2>1 DEF Stacks, TopOf
  <2>3. Below(u) = Upto(u, i - 1) /\ i - 1 \in 0..i
    BY <1>1, <1>2, <1>4 DEF Below, Upto
  <2> QED
    BY <1>3, <2>2, <2>3
<1> QED
  BY <1>2, <1>3, <1>4 DEF u

(* A stack is the levels below and the one on top. *)
LEMMA UptoOfStack ==
  ASSUME NEW ls \in Stacks
  PROVE  /\ Upto(ls, Len(ls)) = ls /\ Below(ls) = Upto(ls, Len(ls) - 1)
         /\ \A i \in 0..(Len(ls) - 1) : Upto(Below(ls), i) = Upto(ls, i)
<1>1. ls \in Seq(LevelSet) /\ Len(ls) \in Nat /\ Len(ls) >= 1
  BY StackParts
<1> DEFINE u == Upto(ls, Len(ls))
<1>2. u \in Seq(LevelSet) /\ Len(u) = Len(ls) /\ \A j \in 1..Len(ls) : u[j] = ls[j]
  BY <1>1, UptoParts
<1> HIDE DEF u
<1>3. u = ls
  BY <1>1, <1>2, SeqEqual
<1>4. Below(ls) = Upto(ls, Len(ls) - 1)
  BY DEF Below, Upto
<1>5. Len(ls) - 1 \in 0..Len(ls)
  BY <1>1
<1>6. \A j \in 0..(Len(ls) - 1) : Upto(Upto(ls, Len(ls) - 1), j) = Upto(ls, j)
  BY <1>1, <1>5, UptoParts
<1> QED
  BY <1>3, <1>4, <1>6 DEF u

(* Changing the level on top. *)
LEMMA WithTopParts ==
  ASSUME NEW ls \in Stacks, NEW d \in LevelSet
  PROVE  /\ WithTop(ls, d) \in Stacks /\ Len(WithTop(ls, d)) = Len(ls)
         /\ TopOf(WithTop(ls, d)) = d /\ Below(WithTop(ls, d)) = Below(ls)
         /\ \A e \in LevelSet : WithTop(WithTop(ls, d), e) = WithTop(ls, e)
<1> DEFINE ms == WithTop(ls, d)
           n == Len(ls)
<1>1. ls \in Seq(LevelSet) /\ n \in Nat /\ n >= 1 /\ DOMAIN ls = 1..n
  BY StackParts
<1>2. /\ ms \in Seq(LevelSet) /\ Len(ms) = n /\ ms[n] = d
      /\ \A i \in 1..(n - 1) : ms[i] = ls[i]
  <2>1. ms = [ls EXCEPT ![n] = d]
    BY DEF WithTop
  <2>2. n \in 1..n
    BY <1>1
  <2> HIDE DEF ms, n
  <2>3. \A i \in 1..n : ls[i] \in LevelSet
    BY StackParts DEF n
  <2>4. Len(ls) = n
    BY DEF n
  <2>5. /\ ms \in Seq(LevelSet) /\ Len(ms) = Len(ls)
        /\ \A i \in 1..Len(ls) : ms[i] = IF i = n THEN d ELSE ls[i]
    BY <1>1, <2>1, <2>2, <2>4, ExceptSeq
  <2> QED
    BY <1>1, <2>2, <2>4, <2>5
<1>3. ms # <<>>
  BY <1>1, <1>2, EmptySeq
<1>4. ms \in Stacks /\ TopOf(ms) = d
  BY <1>2, <1>3 DEF Stacks, TopOf
<1>5. Below(ms) = Below(ls)
  <2> DEFINE x == Below(ms)
             y == Below(ls)
  <2>1. /\ x \in Seq(LevelSet) /\ Len(x) = n - 1 /\ \A i \in 1..(n - 1) : x[i] = ms[i]
        /\ y \in Seq(LevelSet) /\ Len(y) = n - 1 /\ \A i \in 1..(n - 1) : y[i] = ls[i]
    BY <1>2, <1>4, StackParts
  <2> HIDE DEF x, y, ms
  <2>2. x = y
    BY <1>2, <2>1, SeqEqual
  <2> QED
    BY <2>2 DEF x, y
<1>6. \A e \in LevelSet : WithTop(ms, e) = WithTop(ls, e)
  BY <1>2 DEF WithTop
<1> QED
  BY <1>2, <1>4, <1>5, <1>6

-----------------------------------------------------------------------------
(* What a stack says of the nodes.                                         *)

(* The top level on a map of the nodes. *)
On(d, m) ==
  [n \in Nodes |->
    IF GetNodeInfoLocal(d, n) # Absent \/ n \in d.deleted THEN GetNodeInfoLocal(d, n) ELSE m[n]]

LEMMA LocalIsInfo ==
  ASSUME NEW d \in LevelSet, NEW n \in Nodes
  PROVE  GetNodeInfoLocal(d, n) \in NodeInfos \cup {Absent}
BY DEF NodeMaps, GetNodeInfoLocal, LevelSet

LEMMA OnIsMap ==
  ASSUME NEW d \in LevelSet, NEW m \in NodeMaps
  PROVE  On(d, m) \in NodeMaps
BY LocalIsInfo DEF On, NodeMaps

(* A set of numbers up to n has a largest one. *)
LEMMA LargestNumber ==
  ASSUME NEW n \in Nat, NEW S \in SUBSET (1..n), S # {}
  PROVE  Max(S) \in S /\ \A x \in S : Max(S) >= x
<1> DEFINE T == {y \in Nat : n - y \in S}
           R == {ss \in Nat \X Nat : ss[1] < ss[2]}
<1>1. IsWellFoundedOn(R, Nat)
  BY NatLessThanWellFounded DEF OpToRel
<1>2. \A x \in Nat, y \in Nat : y < x => <<y, x>> \in R
  OBVIOUS
<1>3. T # {} /\ T \in SUBSET Nat
  <2>1. PICK x \in S : TRUE
    OBVIOUS
  <2>2. n - x \in Nat /\ n - (n - x) = x
    OBVIOUS
  <2>3. n - x \in T
    BY <2>1, <2>2
  <2> QED
    BY <2>3
<1> HIDE DEF R, T
<1>4. PICK y \in T : \A z \in T : <<z, y>> \notin R
  BY <1>1, <1>3, WFMin
<1>5. y \in Nat /\ n - y \in S
  BY <1>4 DEF T
<1>6. ASSUME NEW x \in S PROVE n - y >= x
  <2>1. n - x \in Nat /\ n - (n - x) = x
    OBVIOUS
  <2>2. n - x \in T
    BY <2>1 DEF T
  <2>3. ~(n - x < y)
    BY <1>2, <1>4, <1>5, <2>1, <2>2
  <2> QED
    BY <1>5, <2>1, <2>3
<1>7. \E x \in S : \A z \in S : x >= z
  BY <1>5, <1>6
<1> QED
  BY <1>7 DEF Max

LEMMA ViewUnfolds ==
  ASSUME NEW ls \in Stacks
  PROVE  View(ls) = On(TopOf(ls), View(Below(ls)))
<1> DEFINE k == Len(ls)
           bs == Below(ls)
<1>1. /\ k \in Nat /\ k >= 1 /\ DOMAIN ls = 1..k
      /\ bs \in Seq(LevelSet) /\ Len(bs) = k - 1 /\ DOMAIN bs = 1..(k - 1)
      /\ \A i \in 1..(k - 1) : bs[i] = ls[i]
  BY StackParts
<1> HIDE DEF bs, k
<1>2. ASSUME NEW n \in Nodes PROVE View(ls)[n] = On(TopOf(ls), View(bs))[n]
  <2> DEFINE Says(i) == GetNodeInfoLocal(ls[i], n) # Absent \/ n \in ls[i].deleted
             all == {i \in 1..k : Says(i)}
             below == {i \in 1..(k - 1) : Says(i)}
  <2>1. View(ls)[n] = IF all = {} THEN Absent ELSE GetNodeInfoLocal(ls[Max(all)], n)
    BY <1>1 DEF View, GetNodeInfo
  <2>2. View(bs)[n] = IF below = {} THEN Absent ELSE GetNodeInfoLocal(bs[Max(below)], n)
    <3>1. {i \in DOMAIN bs : GetNodeInfoLocal(bs[i], n) # Absent \/ n \in bs[i].deleted} = below
      BY <1>1
    <3> QED
      BY <3>1 DEF View, GetNodeInfo
  <2>3. On(TopOf(ls), View(bs))[n] = IF Says(k) THEN GetNodeInfoLocal(ls[k], n) ELSE View(bs)[n]
    BY DEF On, TopOf, k
  <2>4. CASE Says(k)
    <3>1. k \in all /\ all \in SUBSET (1..k)
      BY <1>1, <2>4
    <3> HIDE DEF all
    <3>2. Max(all) \in all /\ Max(all) >= k
      BY <1>1, <3>1, LargestNumber
    <3>3. Max(all) = k
      <4>1. Max(all) \in 1..k
        BY <3>1, <3>2
      <4> QED
        BY <1>1, <3>2, <4>1
    <3> QED
      BY <2>1, <2>3, <2>4, <3>1, <3>3
  <2>5. CASE ~Says(k)
    <3>1. all = below /\ below \in SUBSET (1..(k - 1)) /\ k - 1 \in Nat
      BY <1>1, <2>5
    <3> HIDE DEF all, below
    <3>2. below # {} => Max(below) \in 1..(k - 1)
      BY <3>1, LargestNumber
    <3>3. below # {} => bs[Max(below)] = ls[Max(below)]
      BY <1>1, <3>2
    <3> QED
      BY <2>1, <2>2, <2>3, <2>5, <3>1, <3>3
  <2> QED
    BY <2>4, <2>5
<1> QED
  BY <1>2 DEF View, On, bs

LEMMA ViewIsMap ==
  ASSUME NEW ls \in Seq(LevelSet)
  PROVE  View(ls) \in NodeMaps /\ View(<<>>) = NoNodes /\ NoNodes \in NodeMaps
<1>1. NoNodes \in NodeMaps
  BY DEF NoNodes, NodeMaps
<1>2. View(<<>>) = NoNodes
  BY DEF View, GetNodeInfo, NoNodes
<1>3. ASSUME NEW n \in Nodes PROVE GetNodeInfo(ls, n) \in NodeInfos \cup {Absent}
  <2> DEFINE says == {i \in DOMAIN ls : GetNodeInfoLocal(ls[i], n) # Absent \/ n \in ls[i].deleted}
  <2>1. Len(ls) \in Nat /\ DOMAIN ls = 1..Len(ls) /\ says \in SUBSET (1..Len(ls))
    OBVIOUS
  <2>2. GetNodeInfo(ls, n) = IF says = {} THEN Absent ELSE GetNodeInfoLocal(ls[Max(says)], n)
    BY DEF GetNodeInfo
  <2> HIDE DEF says
  <2>3. says # {} => Max(says) \in 1..Len(ls)
    BY <2>1, LargestNumber
  <2>4. says # {} => ls[Max(says)] \in LevelSet
    BY <2>1, <2>3
  <2>5. says # {} => GetNodeInfoLocal(ls[Max(says)], n) \in NodeInfos \cup {Absent}
    BY <2>4, LocalIsInfo
  <2> QED
    BY <2>2, <2>5
<1> QED
  BY <1>1, <1>2, <1>3 DEF View, NodeMaps

-----------------------------------------------------------------------------
(* What is right of a level d on top of a map m, and of a stack.           *)

Fits(d, m) ==
  \A n \in Nodes :
    /\ d.added[n] # Absent => m[n] = Absent
    /\ d.modified[n] # Absent \/ n \in d.deleted => m[n] # Absent /\ d.added[n] = Absent
    /\ d.modified[n] # Absent => n \notin d.deleted

Fresh(d, m) ==
  /\ d.list # NotBuilt => d.list = ListOf(m)
  /\ d.affinity # NotBuilt => d.affinity = NodesWith(ListOf(m), HasAffinity)
  /\ d.claims # NotBuilt => d.claims = UsersIn(ListOf(m))

Good(ls) ==
  \A i \in 1..Len(ls) : Fits(ls[i], View(Upto(ls, i - 1))) /\ Fresh(ls[i], View(Upto(ls, i)))

(* A stack is good when the levels below are and the topmost is.           *)
LEMMA GoodUnfolds ==
  ASSUME NEW ls \in Stacks
  PROVE  Good(ls) <=> /\ Good(Below(ls))
                      /\ Fits(TopOf(ls), View(Below(ls)))
                      /\ Fresh(TopOf(ls), View(ls))
<1> DEFINE k == Len(ls)
           bs == Below(ls)
           Part(ms, i) == Fits(ms[i], View(Upto(ms, i - 1))) /\ Fresh(ms[i], View(Upto(ms, i)))
<1>1. /\ k \in Nat /\ k >= 1 /\ Len(bs) = k - 1
      /\ \A i \in 1..(k - 1) : bs[i] = ls[i]
  BY StackParts
<1>2. /\ Upto(ls, k) = ls /\ bs = Upto(ls, k - 1)
      /\ \A i \in 0..(k - 1) : Upto(bs, i) = Upto(ls, i)
  BY UptoOfStack
<1> HIDE DEF bs, k
<1>3. \A i \in 1..(k - 1) : Part(bs, i) <=> Part(ls, i)
  <2> SUFFICES ASSUME NEW i \in 1..(k - 1) PROVE Part(bs, i) <=> Part(ls, i)
    OBVIOUS
  <2>1. i \in 0..(k - 1) /\ i - 1 \in 0..(k - 1)
    BY <1>1
  <2> QED
    BY <1>1, <1>2, <2>1
<1>4. Part(ls, k) <=> Fits(TopOf(ls), View(bs)) /\ Fresh(TopOf(ls), View(ls))
  BY <1>2 DEF TopOf, k
<1>5. 1..k = 1..(k - 1) \cup {k}
  BY <1>1
<1> HIDE DEF Part
<1>6. Good(ls) <=> \A i \in 1..k : Part(ls, i)
  BY DEF Good, Part, k
<1>7. Good(bs) <=> \A i \in 1..(k - 1) : Part(bs, i)
  BY <1>1 DEF Good, Part
<1>8. (\A i \in 1..k : Part(ls, i)) <=> (\A i \in 1..(k - 1) : Part(ls, i)) /\ Part(ls, k)
  BY <1>5
<1> QED
  BY <1>3, <1>4, <1>6, <1>7, <1>8 DEF bs

(* ms is ls with another level on top, and says m of the nodes.            *)
Changed(ls, ms, m) ==
  /\ ms \in Stacks /\ Len(ms) = Len(ls) /\ Below(ms) = Below(ls)
  /\ Good(ms) /\ View(ms) = m

LEMMA TopChanged ==
  ASSUME NEW ls \in Stacks, Good(ls), NEW d \in LevelSet, NEW m,
         Fits(d, View(Below(ls))), On(d, View(Below(ls))) = m, Fresh(d, m)
  PROVE  Changed(ls, WithTop(ls, d), m)
<1> DEFINE ms == WithTop(ls, d)
<1>1. ms \in Stacks /\ Len(ms) = Len(ls) /\ TopOf(ms) = d /\ Below(ms) = Below(ls)
  BY WithTopParts
<1> HIDE DEF ms
<1>2. View(ms) = m
  BY <1>1, ViewUnfolds
<1>3. Good(Below(ls))
  BY GoodUnfolds
<1>4. Good(ms)
  BY <1>1, <1>2, <1>3, GoodUnfolds
<1> QED
  BY <1>1, <1>2, <1>4 DEF Changed, ms

LEMMA TopFacts ==
  ASSUME NEW ls \in Stacks, Good(ls)
  PROVE  /\ TopOf(ls) \in LevelSet /\ View(Below(ls)) \in NodeMaps /\ View(ls) \in NodeMaps
         /\ Fits(TopOf(ls), View(Below(ls))) /\ Fresh(TopOf(ls), View(ls))
         /\ View(ls) = On(TopOf(ls), View(Below(ls)))
         /\ Changed(ls, ls, View(ls))
BY StackParts, GoodUnfolds, ViewUnfolds, ViewIsMap DEF Changed

-----------------------------------------------------------------------------
(* The caches of a level.                                                  *)

LEMMA ListOfMap ==
  ASSUME NEW m \in NodeMaps
  PROVE  /\ ListOf(m) \in Lists
         /\ \A ps : NodesWith(ListOf(m), ps) = {n \in Nodes : m[n] # Absent /\ m[n] \cap ps # {}}
         /\ UsersIn(ListOf(m)) = Placed(m) \cap UsesClaim
<1> DEFINE l == ListOf(m)
<1>1. ASSUME NEW n \in Nodes
      PROVE  /\ l[n] \in Seq(NodeInfos)
             /\ m[n] = Absent => l[n] = <<>> /\ DOMAIN l[n] = {}
             /\ m[n] # Absent => DOMAIN l[n] = {1} /\ l[n][1] = m[n]
  <2>1. l[n] = IF m[n] = Absent THEN <<>> ELSE <<m[n]>>
    BY DEF ListOf
  <2>2. m[n] # Absent => m[n] \in NodeInfos
    BY DEF NodeMaps
  <2>3. CASE m[n] = Absent
    <3>1. l[n] = <<>>
      BY <2>1, <2>3
    <3> QED
      BY <2>3, <3>1
  <2>4. CASE m[n] # Absent
    <3>1. l[n] = <<m[n]>>
      BY <2>1, <2>4
    <3> QED
      BY <2>2, <2>4, <3>1
  <2> QED
    BY <2>3, <2>4
<1>2. l \in Lists
  BY <1>1 DEF Lists, ListOf
<1> HIDE DEF l
<1>3. ASSUME NEW ps
      PROVE  NodesWith(l, ps) = {n \in Nodes : m[n] # Absent /\ m[n] \cap ps # {}}
  <2>1. ASSUME NEW n \in Nodes
        PROVE  (\E i \in DOMAIN l[n] : l[n][i] \cap ps # {}) <=> (m[n] # Absent /\ m[n] \cap ps # {})
    BY <1>1
  <2> QED
    BY <2>1 DEF NodesWith
<1>4. UsersIn(l) = Placed(m) \cap UsesClaim
  <2>1. ASSUME NEW p
        PROVE  p \in UNION {UNION {l[n][i] : i \in DOMAIN l[n]} : n \in Nodes}
               <=> \E n \in Nodes : m[n] # Absent /\ p \in m[n]
    <3>1. ASSUME NEW n \in Nodes
          PROVE  p \in UNION {l[n][i] : i \in DOMAIN l[n]} <=> (m[n] # Absent /\ p \in m[n])
      <4>1. p \in UNION {l[n][i] : i \in DOMAIN l[n]} <=> \E i \in DOMAIN l[n] : p \in l[n][i]
        OBVIOUS
      <4> QED
        BY <1>1, <4>1
    <3>2. p \in UNION {UNION {l[n][i] : i \in DOMAIN l[n]} : n \in Nodes}
          <=> \E n \in Nodes : p \in UNION {l[n][i] : i \in DOMAIN l[n]}
      OBVIOUS
    <3> QED
      BY <3>1, <3>2
  <2>2. ASSUME NEW p
        PROVE  p \in Placed(m) <=> \E n \in Nodes : m[n] # Absent /\ p \in m[n]
    BY DEF Placed, Present
  <2> QED
    BY <2>1, <2>2 DEF UsersIn
<1> QED
  BY <1>2, <1>3, <1>4 DEF l

(* Two levels that say the same. *)
Alike(d, e) == d.added = e.added /\ d.modified = e.modified /\ d.deleted = e.deleted

LEMMA AlikeSaysTheSame ==
  ASSUME NEW d, NEW e, Alike(d, e), NEW m
  PROVE  /\ On(d, m) = On(e, m)
         /\ Fits(d, m) <=> Fits(e, m)
         /\ \A n : GetNodeInfoLocal(d, n) = GetNodeInfoLocal(e, n)
BY DEF Alike, On, Fits, GetNodeInfoLocal

LEMMA Cleared ==
  ASSUME NEW d \in LevelSet, NEW m
  PROVE  /\ ClearCaches(d) \in LevelSet /\ Alike(ClearCaches(d), d) /\ Fresh(ClearCaches(d), m)
         /\ ClearPodCaches(d) \in LevelSet /\ Alike(ClearPodCaches(d), d)
         /\ ClearPodCaches(d).list = d.list
         /\ ClearPodCaches(d).affinity = NotBuilt /\ ClearPodCaches(d).claims = NotBuilt
BY DEF ClearCaches, ClearPodCaches, LevelSet, Alike, Fresh

(* A node is added to the list, and the rest of the caches with it.        *)
LEMMA CachedIsFresh ==
  ASSUME NEW d \in LevelSet, NEW m \in NodeMaps, Fresh(d, m),
         NEW n \in Nodes, m[n] = Absent, NEW pods \in NodeInfos
  PROVE  /\ Cached(d, n, pods) \in LevelSet /\ Alike(Cached(d, n, pods), d)
         /\ Fresh(Cached(d, n, pods), [m EXCEPT ![n] = pods])
<1> DEFINE v == [m EXCEPT ![n] = pods]
           l == [d.list EXCEPT ![n] = Append(@, pods)]
           e == IF d.list = NotBuilt THEN d ELSE [d EXCEPT !.list = l]
<1>1. pods # Absent /\ v \in NodeMaps /\ v[n] = pods /\ \A x \in Nodes : x # n => v[x] = m[x]
  BY StoreAssumption DEF NodeMaps, NodeInfos
<1>2. Cached(d, n, pods) = IF pods = {} THEN e ELSE ClearPodCaches(e)
  BY DEF Cached
<1> HIDE DEF v
<1>3. d.list # NotBuilt => l \in Lists /\ l = ListOf(v)
  <2> SUFFICES ASSUME d.list # NotBuilt PROVE l \in Lists /\ l = ListOf(v)
    OBVIOUS
  <2>1. d.list = ListOf(m)
    BY DEF Fresh
  <2>2. ListOf(m)[n] = <<>> /\ ListOf(v)[n] = <<pods>> /\ \A x \in Nodes : x # n => ListOf(v)[x] = ListOf(m)[x]
    BY <1>1 DEF ListOf
  <2>3. Append(<<>>, pods) = <<pods>>
    OBVIOUS
  <2>4. l = [x \in Nodes |-> IF x = n THEN <<pods>> ELSE ListOf(m)[x]]
    <3>1. l = [ListOf(m) EXCEPT ![n] = Append(ListOf(m)[n], pods)]
      BY <2>1
    <3>2. ListOf(m) = [x \in Nodes |-> ListOf(m)[x]]
      BY DEF ListOf
    <3> QED
      BY <2>2, <2>3, <3>1, <3>2
  <2>5. ListOf(v) = [x \in Nodes |-> ListOf(v)[x]]
    BY DEF ListOf
  <2>6. l = ListOf(v)
    BY <2>2, <2>4, <2>5
  <2> QED
    BY <1>1, <2>6, ListOfMap
<1> HIDE DEF l
<1>4. e \in LevelSet /\ Alike(e, d) /\ e.affinity = d.affinity /\ e.claims = d.claims
      /\ (e.list # NotBuilt => e.list = ListOf(v))
  BY <1>3 DEF LevelSet, Alike
<1> HIDE DEF e
<1>5. CASE pods = {}
  <2>1. Cached(d, n, pods) = e
    BY <1>2, <1>5
  <2>2. ASSUME NEW ps PROVE NodesWith(ListOf(v), ps) = NodesWith(ListOf(m), ps)
    <3>1. ASSUME NEW x \in Nodes
          PROVE  (v[x] # Absent /\ v[x] \cap ps # {}) <=> (m[x] # Absent /\ m[x] \cap ps # {})
      <4>1. CASE x = n
        <5>1. v[x] = {} /\ m[x] = Absent
          BY <1>1, <1>5, <4>1
        <5> QED
          BY <5>1
      <4>2. CASE x # n
        BY <1>1, <4>2
      <4> QED
        BY <4>1, <4>2
    <3>2. NodesWith(ListOf(v), ps) = {x \in Nodes : v[x] # Absent /\ v[x] \cap ps # {}}
      BY <1>1, ListOfMap
    <3>3. NodesWith(ListOf(m), ps) = {x \in Nodes : m[x] # Absent /\ m[x] \cap ps # {}}
      BY ListOfMap
    <3> QED
      BY <3>1, <3>2, <3>3
  <2>3. Placed(v) = Placed(m)
    BY <1>1, <1>5 DEF Placed, Present
  <2>4. UsersIn(ListOf(v)) = UsersIn(ListOf(m))
    BY <1>1, <2>3, ListOfMap
  <2> QED
    BY <1>4, <2>1, <2>2, <2>4 DEF Fresh, v
<1>6. CASE pods # {}
  <2>1. Cached(d, n, pods) = ClearPodCaches(e)
    BY <1>2, <1>6
  <2>2. ClearPodCaches(e) \in LevelSet /\ Alike(ClearPodCaches(e), e)
        /\ ClearPodCaches(e).list = e.list
        /\ ClearPodCaches(e).affinity = NotBuilt /\ ClearPodCaches(e).claims = NotBuilt
    BY <1>4, Cleared
  <2> QED
    BY <1>4, <2>1, <2>2 DEF Fresh, Alike, v
<1> QED
  BY <1>5, <1>6

-----------------------------------------------------------------------------
(* What the changes of the topmost level do to what a stack says.          *)

Does(ls, r, m) == r.ok = TRUE /\ Changed(ls, r.levels, m)

Refuses(ls, r) == r.ok = FALSE /\ Changed(ls, r.levels, View(ls))

LEMMA AddedSays ==
  ASSUME NEW d \in LevelSet, NEW m \in NodeMaps, Fits(d, m),
         NEW n \in Nodes, On(d, m)[n] = Absent, NEW pods \in NodeInfos
  PROVE  /\ Added(d, n, pods) \in LevelSet /\ Fits(Added(d, n, pods), m)
         /\ On(Added(d, n, pods), m) = [On(d, m) EXCEPT ![n] = pods]
         /\ \A v : Fresh(Added(d, n, pods), v) <=> Fresh(d, v)
<1> DEFINE e == Added(d, n, pods)
           back == [d.modified EXCEPT ![n] = pods]
           new == [d.added EXCEPT ![n] = pods]
           rest == d.deleted \ {n}
<1>1. pods # Absent /\ d.added \in NodeMaps /\ d.modified \in NodeMaps /\ d.deleted \subseteq Nodes
  BY StoreAssumption DEF NodeInfos, LevelSet
<1>2. /\ back \in NodeMaps /\ back[n] = pods /\ \A x \in Nodes : x # n => back[x] = d.modified[x]
      /\ new \in NodeMaps /\ new[n] = pods /\ \A x \in Nodes : x # n => new[x] = d.added[x]
      /\ rest \subseteq Nodes /\ n \notin rest /\ \A x \in Nodes : x # n => (x \in rest <=> x \in d.deleted)
  BY <1>1 DEF NodeMaps
<1>3. e = IF n \in d.deleted THEN [d EXCEPT !.deleted = rest, !.modified = back]
          ELSE [d EXCEPT !.added = new]
  BY DEF Added
<1>4. d.added[n] = Absent /\ d.modified[n] = Absent /\ (n \notin d.deleted => m[n] = Absent)
  BY DEF On, GetNodeInfoLocal, Fits
<1> HIDE DEF e, back, new, rest
<1>5. /\ e \in LevelSet
      /\ n \in d.deleted => e.deleted = rest /\ e.modified = back /\ e.added = d.added
      /\ n \notin d.deleted => e.deleted = d.deleted /\ e.modified = d.modified /\ e.added = new
      /\ e.list = d.list /\ e.affinity = d.affinity /\ e.claims = d.claims
  BY <1>2, <1>3 DEF LevelSet
<1>6. Fits(e, m)
  BY <1>1, <1>2, <1>4, <1>5 DEF Fits
<1>7. ASSUME NEW x \in Nodes PROVE On(e, m)[x] = [On(d, m) EXCEPT ![n] = pods][x]
  BY <1>1, <1>2, <1>4, <1>5 DEF On, GetNodeInfoLocal
<1>8. On(e, m) = [On(d, m) EXCEPT ![n] = pods]
  BY <1>7 DEF On
<1>9. \A v : Fresh(e, v) <=> Fresh(d, v)
  BY <1>5 DEF Fresh
<1> QED
  BY <1>5, <1>6, <1>8, <1>9 DEF e

LEMMA AddingANode ==
  ASSUME NEW ls \in Stacks, Good(ls), NEW n \in Nodes, NEW pods \in NodeInfos
  PROVE  /\ View(ls)[n] # Absent => Refuses(ls, AddNodeInfo(ls, n, pods))
         /\ View(ls)[n] = Absent => Does(ls, AddNodeInfo(ls, n, pods), [View(ls) EXCEPT ![n] = pods])
<1> DEFINE d == TopOf(ls)
           m == View(Below(ls))
           v == View(ls)
           w == [v EXCEPT ![n] = pods]
           e == Added(d, n, pods)
           c == Cached(e, n, pods)
<1>1. /\ d \in LevelSet /\ m \in NodeMaps /\ v \in NodeMaps
      /\ Fits(d, m) /\ Fresh(d, v) /\ v = On(d, m) /\ Changed(ls, ls, v)
  BY TopFacts
<1>2. /\ v[n] # Absent => AddNodeInfo(ls, n, pods) = Result(ls, FALSE)
      /\ v[n] = Absent => AddNodeInfo(ls, n, pods) = Result(WithTop(ls, c), TRUE)
  BY DEF AddNodeInfo, TopOf, View
<1>3. ASSUME v[n] = Absent PROVE Changed(ls, WithTop(ls, c), w)
  <2> HIDE DEF d, m, v
  <2>1. e \in LevelSet /\ Fits(e, m) /\ On(e, m) = w /\ Fresh(e, v)
    BY <1>1, <1>3, AddedSays
  <2> HIDE DEF e
  <2>2. c \in LevelSet /\ Alike(c, e) /\ Fresh(c, w)
    BY <1>1, <1>3, <2>1, CachedIsFresh
  <2> HIDE DEF c, w
  <2>3. Fits(c, m) /\ On(c, m) = w
    BY <2>1, <2>2, AlikeSaysTheSame
  <2> QED
    BY <2>2, <2>3, TopChanged DEF m
<1> HIDE DEF w, c
<1> QED
  BY <1>1, <1>2, <1>3 DEF Refuses, Does, Result, w, v

LEMMA RemovingANode ==
  ASSUME NEW ls \in Stacks, Good(ls), NEW n \in Nodes
  PROVE  /\ View(ls)[n] = Absent => Refuses(ls, RemoveFromLevel(ls, n))
         /\ View(ls)[n] # Absent => Does(ls, RemoveFromLevel(ls, n), [View(ls) EXCEPT ![n] = Absent])
<1> DEFINE d == TopOf(ls)
           m == View(Below(ls))
           v == View(ls)
           w == [v EXCEPT ![n] = Absent]
           old == [d.modified EXCEPT ![n] = Absent]
           new == [d.added EXCEPT ![n] = Absent]
           del == IF m[n] # Absent THEN d.deleted \cup {n} ELSE d.deleted
           undone == [d EXCEPT !.added = new, !.modified = old]
           gone == [undone EXCEPT !.deleted = del]
<1>1. /\ d \in LevelSet /\ m \in NodeMaps /\ v \in NodeMaps
      /\ Fits(d, m) /\ Fresh(d, v) /\ v = On(d, m)
  BY TopFacts
<1>2. RemoveFromLevel(ls, n) =
        IF n \in d.deleted \/ (m[n] = Absent /\ d.added[n] = Absent)
        THEN Result(WithTop(ls, undone), FALSE)
        ELSE Result(WithTop(ls, ClearCaches(gone)), TRUE)
  <2> DEFINE u == [d EXCEPT !.added[n] = Absent, !.modified[n] = Absent]
             inBase == GetNodeInfo(Below(ls), n) # Absent
  <2>1. RemoveFromLevel(ls, n) =
          IF n \in d.deleted THEN Result(WithTop(ls, u), FALSE)
          ELSE IF ~inBase /\ d.added[n] = Absent THEN Result(WithTop(ls, u), FALSE)
          ELSE Result(WithTop(ls, ClearCaches(
                 [u EXCEPT !.deleted = IF inBase THEN @ \union {n} ELSE @])), TRUE)
    BY DEF RemoveFromLevel, TopOf
  <2>2. u = undone
    BY <1>1 DEF LevelSet
  <2>3. u.deleted = d.deleted
    BY <1>1 DEF LevelSet
  <2>4. inBase <=> m[n] # Absent
    BY DEF View
  <2> HIDE DEF u, undone, inBase, d, m
  <2>5. [u EXCEPT !.deleted = IF inBase THEN @ \union {n} ELSE @] = gone
    BY <2>2, <2>3, <2>4
  <2> QED
    BY <2>1, <2>2, <2>4, <2>5
<1>3. m = View(Below(ls)) /\ v = View(ls)
  OBVIOUS
<1> HIDE DEF d, m, v
<1>4. d.added \in NodeMaps /\ d.modified \in NodeMaps /\ d.deleted \subseteq Nodes
  BY <1>1 DEF LevelSet
<1>5. /\ old \in NodeMaps /\ old[n] = Absent /\ \A x \in Nodes : x # n => old[x] = d.modified[x]
      /\ new \in NodeMaps /\ new[n] = Absent /\ \A x \in Nodes : x # n => new[x] = d.added[x]
      /\ del \subseteq Nodes /\ (n \in del <=> n \in d.deleted \/ m[n] # Absent)
      /\ \A x \in Nodes : x # n => (x \in del <=> x \in d.deleted)
  BY <1>4 DEF NodeMaps
<1> HIDE DEF old, new, del
<1>6. /\ undone \in LevelSet /\ undone.added = new /\ undone.modified = old /\ undone.deleted = d.deleted
      /\ undone.list = d.list /\ undone.affinity = d.affinity /\ undone.claims = d.claims
      /\ gone \in LevelSet /\ gone.added = new /\ gone.modified = old /\ gone.deleted = del
  BY <1>1, <1>5 DEF LevelSet
<1> HIDE DEF undone, gone
<1>7. v[n] = IF d.added[n] # Absent THEN d.added[n]
             ELSE IF d.modified[n] # Absent \/ n \in d.deleted THEN d.modified[n] ELSE m[n]
  BY <1>1 DEF On, GetNodeInfoLocal
<1>8. v[n] = Absent <=> n \in d.deleted \/ (m[n] = Absent /\ d.added[n] = Absent)
  BY <1>1, <1>7 DEF Fits
<1>9. ASSUME v[n] = Absent PROVE Refuses(ls, RemoveFromLevel(ls, n))
  <2>1. d.added[n] = Absent /\ d.modified[n] = Absent
    BY <1>1, <1>8, <1>9 DEF Fits
  <2>2. Fits(undone, m)
    BY <1>1, <1>5, <1>6, <2>1 DEF Fits
  <2>3. \A x \in Nodes : On(undone, m)[x] = On(d, m)[x]
    BY <1>5, <1>6, <2>1 DEF On, GetNodeInfoLocal
  <2>4. On(undone, m) = v
    BY <1>1, <2>3 DEF On
  <2>5. Fresh(undone, v)
    BY <1>1, <1>6 DEF Fresh
  <2>6. Changed(ls, WithTop(ls, undone), v)
    BY <1>3, <1>6, <2>2, <2>4, <2>5, TopChanged
  <2> QED
    BY <1>2, <1>3, <1>8, <1>9, <2>6 DEF Refuses, Result
<1>10. ASSUME v[n] # Absent PROVE Does(ls, RemoveFromLevel(ls, n), w)
  <2>1. n \notin d.deleted
    BY <1>8, <1>10
  <2>2. Fits(gone, m)
    BY <1>1, <1>5, <1>6 DEF Fits
  <2>3. \A x \in Nodes : On(gone, m)[x] = IF x = n THEN Absent ELSE On(d, m)[x]
    BY <1>5, <1>6, <2>1 DEF On, GetNodeInfoLocal
  <2>4. On(gone, m) = w
    BY <1>1, <2>3 DEF On
  <2> DEFINE c == ClearCaches(gone)
  <2>5. c \in LevelSet /\ Alike(c, gone) /\ Fresh(c, w)
    BY <1>6, Cleared
  <2> HIDE DEF c, w
  <2>6. Fits(c, m) /\ On(c, m) = w
    BY <2>2, <2>4, <2>5, AlikeSaysTheSame
  <2>7. Changed(ls, WithTop(ls, c), w)
    BY <1>3, <2>5, <2>6, TopChanged
  <2> QED
    BY <1>2, <1>8, <1>10, <2>7 DEF Does, Result, c
<1> QED
  BY <1>3, <1>9, <1>10

(* A node is copied into the topmost level, for its pods to be changed.    *)
LEMMA CopyingANode ==
  ASSUME NEW ls \in Stacks, Good(ls), NEW n \in Nodes
  PROVE  /\ View(ls)[n] = Absent => NodeInfoToModify(ls, n) = Result(ls, FALSE)
         /\ View(ls)[n] # Absent =>
              /\ Does(ls, NodeInfoToModify(ls, n), View(ls))
              /\ GetNodeInfoLocal(TopOf(NodeInfoToModify(ls, n).levels), n) # Absent
<1> DEFINE d == TopOf(ls)
           m == View(Below(ls))
           v == View(ls)
           copy == [d.modified EXCEPT ![n] = m[n]]
           e == [d EXCEPT !.modified = copy]
           c == ClearCaches(e)
<1>1. /\ d \in LevelSet /\ m \in NodeMaps /\ v \in NodeMaps
      /\ Fits(d, m) /\ Fresh(d, v) /\ v = On(d, m) /\ Changed(ls, ls, v)
  BY TopFacts
<1>2. NodeInfoToModify(ls, n) =
        IF GetNodeInfoLocal(d, n) # Absent THEN Result(ls, TRUE)
        ELSE IF n \in d.deleted \/ m[n] = Absent THEN Result(ls, FALSE)
        ELSE Result(WithTop(ls, c), TRUE)
  BY DEF NodeInfoToModify, TopOf, View
<1>3. m = View(Below(ls)) /\ v = View(ls) /\ d = TopOf(ls)
  OBVIOUS
<1>4. v[n] = IF GetNodeInfoLocal(d, n) # Absent \/ n \in d.deleted THEN GetNodeInfoLocal(d, n) ELSE m[n]
  BY <1>1 DEF On
<1> HIDE DEF d, m, v
<1>5. CASE v[n] = Absent
  BY <1>2, <1>3, <1>4, <1>5
<1>6. CASE v[n] # Absent /\ GetNodeInfoLocal(d, n) # Absent
  BY <1>1, <1>2, <1>3, <1>6 DEF Does, Result
<1>7. CASE v[n] # Absent /\ GetNodeInfoLocal(d, n) = Absent
  <2>1. n \notin d.deleted /\ m[n] # Absent /\ d.added[n] = Absent /\ d.modified[n] = Absent
    BY <1>4, <1>7 DEF GetNodeInfoLocal
  <2>2. copy \in NodeMaps /\ copy[n] = m[n] /\ \A x \in Nodes : x # n => copy[x] = d.modified[x]
    BY <1>1 DEF NodeMaps, LevelSet
  <2> HIDE DEF copy
  <2>3. e \in LevelSet /\ e.added = d.added /\ e.modified = copy /\ e.deleted = d.deleted
    BY <1>1, <2>2 DEF LevelSet
  <2> HIDE DEF e
  <2>4. Fits(e, m)
    BY <1>1, <2>1, <2>2, <2>3 DEF Fits
  <2>5. \A x \in Nodes : On(e, m)[x] = On(d, m)[x]
    BY <2>1, <2>2, <2>3 DEF On, GetNodeInfoLocal
  <2>6. On(e, m) = v
    BY <1>1, <2>5 DEF On
  <2>7. c \in LevelSet /\ Alike(c, e) /\ Fresh(c, v)
    BY <2>3, Cleared
  <2> HIDE DEF c
  <2>8. Fits(c, m) /\ On(c, m) = v
    BY <2>4, <2>6, <2>7, AlikeSaysTheSame
  <2>9. Changed(ls, WithTop(ls, c), v)
    BY <1>3, <2>7, <2>8, TopChanged
  <2>10. GetNodeInfoLocal(c, n) = GetNodeInfoLocal(e, n) /\ GetNodeInfoLocal(e, n) # Absent
    BY <2>1, <2>2, <2>3, <2>7, AlikeSaysTheSame DEF GetNodeInfoLocal
  <2>11. TopOf(WithTop(ls, c)) = c
    BY <2>7, WithTopParts
  <2>12. NodeInfoToModify(ls, n) = Result(WithTop(ls, c), TRUE)
    BY <1>2, <1>7, <2>1
  <2> QED
    BY <1>3, <1>7, <2>9, <2>10, <2>11, <2>12 DEF Does, Result
<1> QED
  BY <1>5, <1>6, <1>7

LEMMA ChangingPods ==
  ASSUME NEW ls \in Stacks, Good(ls), NEW n \in Nodes, NEW pods \in NodeInfos,
         GetNodeInfoLocal(TopOf(ls), n) # Absent
  PROVE  Changed(ls, ChangePods(ls, n, pods), [View(ls) EXCEPT ![n] = pods])
<1> DEFINE d == TopOf(ls)
           m == View(Below(ls))
           v == View(ls)
           w == [v EXCEPT ![n] = pods]
           e == WithPods(d, n, pods)
           c == ClearCaches(e)
           mod == [d.modified EXCEPT ![n] = pods]
           add == [d.added EXCEPT ![n] = pods]
<1>1. /\ d \in LevelSet /\ m \in NodeMaps /\ v \in NodeMaps
      /\ Fits(d, m) /\ v = On(d, m)
  BY TopFacts
<1>2. ChangePods(ls, n, pods) = WithTop(ls, c)
  BY DEF ChangePods, TopOf
<1>3. m = View(Below(ls)) /\ v = View(ls) /\ GetNodeInfoLocal(d, n) # Absent
  OBVIOUS
<1> HIDE DEF d, m, v
<1>4. pods # Absent /\ d.added \in NodeMaps /\ d.modified \in NodeMaps /\ d.deleted \subseteq Nodes
  BY <1>1, StoreAssumption DEF NodeInfos, LevelSet
<1>5. /\ mod \in NodeMaps /\ mod[n] = pods /\ \A x \in Nodes : x # n => mod[x] = d.modified[x]
      /\ add \in NodeMaps /\ add[n] = pods /\ \A x \in Nodes : x # n => add[x] = d.added[x]
  BY <1>4 DEF NodeMaps
<1>6. e = IF d.added[n] # Absent THEN [d EXCEPT !.added = add] ELSE [d EXCEPT !.modified = mod]
  BY DEF WithPods
<1> HIDE DEF e, mod, add
<1>7. /\ e \in LevelSet /\ e.deleted = d.deleted
      /\ d.added[n] # Absent => e.added = add /\ e.modified = d.modified
      /\ d.added[n] = Absent => e.added = d.added /\ e.modified = mod
  BY <1>1, <1>5, <1>6 DEF LevelSet
<1>8. d.added[n] # Absent \/ d.modified[n] # Absent
  BY <1>3 DEF GetNodeInfoLocal
<1>9. Fits(e, m)
  BY <1>1, <1>4, <1>5, <1>7, <1>8 DEF Fits
<1>10. \A x \in Nodes : On(e, m)[x] = IF x = n THEN pods ELSE On(d, m)[x]
  BY <1>4, <1>5, <1>7, <1>8 DEF On, GetNodeInfoLocal
<1>11. On(e, m) = w
  BY <1>1, <1>10 DEF On
<1>12. c \in LevelSet /\ Alike(c, e) /\ Fresh(c, w)
  BY <1>7, Cleared
<1> HIDE DEF c, w
<1>13. Fits(c, m) /\ On(c, m) = w
  BY <1>9, <1>11, <1>12, AlikeSaysTheSame
<1>14. Changed(ls, WithTop(ls, c), w)
  BY <1>3, <1>12, <1>13, TopChanged
<1> QED
  BY <1>2, <1>14 DEF w, v

LEMMA ChangedTwice ==
  ASSUME NEW ls, NEW ms, NEW ks, NEW v, NEW w, Changed(ls, ms, v), Changed(ms, ks, w)
  PROVE  Changed(ls, ks, w)
BY DEF Changed

LEMMA PlacingAPod ==
  ASSUME NEW ls \in Stacks, Good(ls), NEW n \in Nodes, NEW p \in Pods
  PROVE  /\ View(ls)[n] = Absent => Refuses(ls, AddPodInfo(ls, p, n))
         /\ View(ls)[n] # Absent =>
              Does(ls, AddPodInfo(ls, p, n), [View(ls) EXCEPT ![n] = View(ls)[n] \cup {p}])
<1> DEFINE v == View(ls)
           r == NodeInfoToModify(ls, n)
           ms == r.levels
           pods == v[n] \cup {p}
<1>1. v \in NodeMaps /\ Changed(ls, ls, v)
  BY TopFacts
<1>2. AddPodInfo(ls, p, n) =
        IF ~r.ok THEN r ELSE Result(ChangePods(ms, n, GetNodeInfo(ms, n) \cup {p}), TRUE)
  BY DEF AddPodInfo
<1>3. ASSUME v[n] = Absent PROVE Refuses(ls, AddPodInfo(ls, p, n))
  <2>1. r = Result(ls, FALSE)
    BY <1>3, CopyingANode
  <2> QED
    BY <1>1, <1>2, <2>1 DEF Refuses, Result
<1>4. ASSUME v[n] # Absent PROVE Does(ls, AddPodInfo(ls, p, n), [v EXCEPT ![n] = pods])
  <2>1. r.ok = TRUE /\ Changed(ls, ms, v) /\ GetNodeInfoLocal(TopOf(ms), n) # Absent
    BY <1>4, CopyingANode DEF Does
  <2> HIDE DEF r, ms
  <2>2. ms \in Stacks /\ Good(ms) /\ View(ms) = v
    BY <2>1 DEF Changed
  <2>3. GetNodeInfo(ms, n) = v[n]
    BY <2>2 DEF View
  <2>4. pods \in NodeInfos
    BY <1>1, <1>4 DEF NodeMaps, NodeInfos
  <2> HIDE DEF v, pods
  <2>5. Changed(ms, ChangePods(ms, n, pods), [View(ms) EXCEPT ![n] = pods])
    BY <2>1, <2>2, <2>4, ChangingPods
  <2>6. Changed(ls, ChangePods(ms, n, pods), [v EXCEPT ![n] = pods])
    BY <2>1, <2>2, <2>5, ChangedTwice
  <2>7. AddPodInfo(ls, p, n) = Result(ChangePods(ms, n, pods), TRUE)
    BY <1>2, <2>1, <2>3 DEF pods
  <2> QED
    BY <2>6, <2>7 DEF Does, Result
<1> QED
  BY <1>3, <1>4

LEMMA UnplacingAPod ==
  ASSUME NEW ls \in Stacks, Good(ls), NEW n \in Nodes, NEW p \in Pods
  PROVE  /\ View(ls)[n] = Absent \/ p \notin View(ls)[n] => Refuses(ls, RemovePod(ls, p, n))
         /\ View(ls)[n] # Absent /\ p \in View(ls)[n] =>
              Does(ls, RemovePod(ls, p, n), [View(ls) EXCEPT ![n] = View(ls)[n] \ {p}])
<1> DEFINE v == View(ls)
           r == NodeInfoToModify(ls, n)
           ms == r.levels
           pods == v[n] \ {p}
<1>1. v \in NodeMaps /\ Changed(ls, ls, v)
  BY TopFacts
<1>2. RemovePod(ls, p, n) =
        IF ~r.ok THEN r
        ELSE IF p \notin GetNodeInfo(ms, n) THEN Result(ms, FALSE)
        ELSE Result(ChangePods(ms, n, GetNodeInfo(ms, n) \ {p}), TRUE)
  BY DEF RemovePod
<1>3. ASSUME v[n] = Absent PROVE Refuses(ls, RemovePod(ls, p, n))
  <2>1. r = Result(ls, FALSE)
    BY <1>3, CopyingANode
  <2> QED
    BY <1>1, <1>2, <2>1 DEF Refuses, Result
<1>4. ASSUME v[n] # Absent
      PROVE  /\ r.ok = TRUE /\ Changed(ls, ms, v) /\ GetNodeInfoLocal(TopOf(ms), n) # Absent
             /\ ms \in Stacks /\ Good(ms) /\ View(ms) = v /\ GetNodeInfo(ms, n) = v[n]
  <2>1. r.ok = TRUE /\ Changed(ls, ms, v) /\ GetNodeInfoLocal(TopOf(ms), n) # Absent
    BY <1>4, CopyingANode DEF Does
  <2>2. ms \in Stacks /\ Good(ms) /\ View(ms) = v
    BY <2>1 DEF Changed
  <2> HIDE DEF r, ms
  <2>3. GetNodeInfo(ms, n) = v[n]
    BY <2>2 DEF View
  <2> QED
    BY <2>1, <2>2, <2>3
<1> HIDE DEF r, ms
<1>5. ASSUME v[n] # Absent, p \notin v[n] PROVE Refuses(ls, RemovePod(ls, p, n))
  <2>1. RemovePod(ls, p, n) = Result(ms, FALSE)
    BY <1>2, <1>4, <1>5
  <2>2. Changed(ls, ms, View(ls))
    BY <1>4, <1>5
  <2> QED
    BY <2>1, <2>2 DEF Refuses, Result
<1>6. ASSUME v[n] # Absent, p \in v[n] PROVE Does(ls, RemovePod(ls, p, n), [v EXCEPT ![n] = pods])
  <2>1. pods \in NodeInfos
    BY <1>1, <1>6 DEF NodeMaps, NodeInfos
  <2>2. RemovePod(ls, p, n) = Result(ChangePods(ms, n, pods), TRUE)
    BY <1>2, <1>4, <1>6
  <2> HIDE DEF v, pods
  <2>3. Changed(ms, ChangePods(ms, n, pods), [View(ms) EXCEPT ![n] = pods])
    BY <1>4, <1>6, <2>1, ChangingPods
  <2>4. Changed(ls, ChangePods(ms, n, pods), [v EXCEPT ![n] = pods])
    BY <1>4, <1>6, <2>3, ChangedTwice
  <2> QED
    BY <2>2, <2>4 DEF Does, Result
<1> QED
  BY <1>3, <1>5, <1>6

-----------------------------------------------------------------------------
(* The lists that are built.                                               *)

(* A list is built from that of the level below.                           *)
LEMMA ListedOn ==
  ASSUME NEW d \in LevelSet, NEW m \in NodeMaps, Fits(d, m)
  PROVE  Listed(d, ListOf(m)) = ListOf(On(d, m))
<1> DEFINE base(n) == [i \in DOMAIN ListOf(m)[n] |->
                         IF d.modified[n] # Absent THEN d.modified[n] ELSE ListOf(m)[n][i]]
<1>1. ASSUME NEW n \in Nodes PROVE Listed(d, ListOf(m))[n] = ListOf(On(d, m))[n]
  <2>1. Listed(d, ListOf(m))[n] = (IF n \in d.deleted THEN <<>> ELSE base(n)) \o ListOf(d.added)[n]
    BY DEF Listed
  <2>2. /\ d.added[n] # Absent => m[n] = Absent /\ d.modified[n] = Absent /\ n \notin d.deleted
        /\ d.modified[n] # Absent => m[n] # Absent /\ n \notin d.deleted
    BY DEF Fits
  <2>3. /\ ListOf(d.added)[n] = IF d.added[n] = Absent THEN <<>> ELSE <<d.added[n]>>
        /\ ListOf(m)[n] = IF m[n] = Absent THEN <<>> ELSE <<m[n]>>
    BY DEF ListOf
  <2>4. base(n) = IF m[n] = Absent THEN <<>>
                  ELSE <<IF d.modified[n] # Absent THEN d.modified[n] ELSE m[n]>>
    <3>1. CASE m[n] = Absent
      <4>1. base(n) = [i \in DOMAIN <<>> |-> IF d.modified[n] # Absent THEN d.modified[n] ELSE <<>>[i]]
        BY <2>3, <3>1
      <4> QED
        BY <3>1, <4>1
    <3>2. CASE m[n] # Absent
      <4> DEFINE x == m[n]
                 y == IF d.modified[n] # Absent THEN d.modified[n] ELSE x
      <4>1. base(n) = [i \in DOMAIN <<x>> |-> IF d.modified[n] # Absent THEN d.modified[n] ELSE <<x>>[i]]
        BY <2>3, <3>2
      <4>2. base(n) = [i \in {1} |-> y]
        BY <4>1
      <4>3. <<y>> = [i \in {1} |-> y]
        OBVIOUS
      <4> QED
        BY <3>2, <4>2, <4>3
    <3> QED
      BY <3>1, <3>2
  <2>5. On(d, m)[n] = IF d.added[n] # Absent THEN d.added[n]
                      ELSE IF d.modified[n] # Absent \/ n \in d.deleted THEN d.modified[n] ELSE m[n]
    BY DEF On, GetNodeInfoLocal
  <2>6. ListOf(On(d, m))[n] = IF On(d, m)[n] = Absent THEN <<>> ELSE <<On(d, m)[n]>>
    BY DEF ListOf
  <2> DEFINE a == IF n \in d.deleted THEN <<>> ELSE base(n)
             b == ListOf(d.added)[n]
  <2>7. /\ a = <<>> \/ \E x : a = <<x>>
        /\ b = <<>> \/ \E x : b = <<x>>
        /\ a = <<>> \/ b = <<>>
    BY <2>2, <2>3, <2>4
  <2>8. \A x : <<>> \o <<x>> = <<x>> /\ <<x>> \o <<>> = <<x>> /\ <<>> \o <<>> = <<>>
    OBVIOUS
  <2>9. a \o b = IF a = <<>> THEN b ELSE a
    BY <2>7, <2>8
  <2> HIDE DEF base
  <2> QED
    BY <2>1, <2>2, <2>3, <2>4, <2>5, <2>6, <2>9
<1> QED
  BY <1>1 DEF Listed, ListOf

(* The lists of the levels are those of what the levels say.               *)
LEMMA ListsOfLevels ==
  ASSUME NEW ls \in Stacks, Good(ls)
  PROVE  \A i \in 1..Len(ls) : NodeInfoLists(ls)[i] = ListOf(View(Upto(ls, i)))
<1> DEFINE k == Len(ls)
           from(f) == [i \in 0..k |-> IF i = 0 THEN ListOf(NoNodes)
                                      ELSE IF ls[i].list # NotBuilt THEN ls[i].list
                                      ELSE Listed(ls[i], f[i - 1])]
           g == [i \in 0..k |-> ListOf(View(Upto(ls, i)))]
           h == CHOOSE f : f = from(f)
<1>1. ls \in Seq(LevelSet) /\ k \in Nat /\ k >= 1 /\ \A i \in 1..k : ls[i] \in LevelSet
  BY StackParts
<1>2. NodeInfoLists(ls) = h
  BY DEF NodeInfoLists
<1>3. g[0] = ListOf(NoNodes)
  <2>1. Upto(ls, 0) = <<>>
    <3>1. Upto(ls, 0) \in Seq(LevelSet) /\ Len(Upto(ls, 0)) = 0
      BY <1>1, UptoParts
    <3> HIDE DEF k
    <3> QED
      BY <3>1, EmptySeq
  <2>2. View(<<>>) = NoNodes
    BY <1>1, ViewIsMap
  <2> QED
    BY <1>1, <2>1, <2>2
<1>4. ASSUME NEW i \in 1..k
      PROVE  g[i] = IF ls[i].list # NotBuilt THEN ls[i].list ELSE Listed(ls[i], g[i - 1])
  <2> DEFINE u == Upto(ls, i)
             b == Upto(ls, i - 1)
  <2>1. i \in 0..k /\ i - 1 \in 0..k /\ i >= 1
    BY <1>1
  <2>2. u \in Stacks /\ TopOf(u) = ls[i] /\ Below(u) = b /\ b \in Seq(LevelSet)
    BY <1>1, <2>1, UptoParts
  <2>3. View(u) = On(ls[i], View(b))
    BY <2>2, ViewUnfolds
  <2>4. Fits(ls[i], View(b)) /\ Fresh(ls[i], View(u))
    BY DEF Good
  <2>5. View(b) \in NodeMaps
    BY <2>2, ViewIsMap
  <2>6. g[i] = ListOf(View(u)) /\ g[i - 1] = ListOf(View(b))
    BY <2>1
  <2> HIDE DEF g, u, b
  <2>7. Listed(ls[i], g[i - 1]) = g[i]
    BY <1>1, <2>3, <2>4, <2>5, <2>6, ListedOn
  <2> QED
    BY <2>4, <2>6, <2>7 DEF Fresh
<1>5. g = from(g)
  <2> SUFFICES ASSUME NEW i \in 0..k PROVE g[i] = from(g)[i]
    OBVIOUS
  <2>1. i = 0 \/ i \in 1..k
    BY <1>1
  <2> HIDE DEF g
  <2> QED
    BY <1>3, <1>4, <2>1
<1>6. h = from(h)
  <2> HIDE DEF g, from
  <2> QED
    BY <1>5
<1> HIDE DEF h
<1>7. /\ h[0] = ListOf(NoNodes)
      /\ \A i \in 1..k : h[i] = IF ls[i].list # NotBuilt THEN ls[i].list ELSE Listed(ls[i], h[i - 1])
  <2>1. \A i \in 0..k : h[i] = from(h)[i]
    BY <1>6
  <2>2. 0 \in 0..k /\ \A i \in 1..k : i \in 0..k /\ i # 0
    BY <1>1
  <2> QED
    BY <2>1, <2>2
<1> HIDE DEF from, g
<1> DEFINE S == {i \in Nat : i <= k => h[i] = g[i]}
<1>8. 0 \in S
  BY <1>3, <1>7
<1>9. ASSUME NEW i \in Nat, i \in S PROVE i + 1 \in S
  <2>1. SUFFICES ASSUME i + 1 <= k PROVE h[i + 1] = g[i + 1]
    OBVIOUS
  <2>2. i + 1 \in 1..k /\ (i + 1) - 1 = i /\ h[i] = g[i]
    BY <1>1, <1>9, <2>1
  <2> QED
    BY <1>4, <1>7, <2>2
<1> HIDE DEF S
<1>10. Nat \subseteq S
  BY <1>8, <1>9, Induction
<1>11. \A i \in 1..k : h[i] = g[i]
  BY <1>1, <1>10 DEF S
<1>12. \A i \in 1..k : g[i] = ListOf(View(Upto(ls, i)))
  BY <1>1 DEF g
<1> QED
  BY <1>2, <1>11, <1>12

(* Two stacks that say the same at every level. *)
SameLevels(ls, ms) ==
  /\ ms \in Stacks /\ Len(ms) = Len(ls)
  /\ \A i \in 1..Len(ls) : Alike(ls[i], ms[i])

LEMMA SameLevelsSaySame ==
  ASSUME NEW ls \in Stacks, NEW ms, SameLevels(ls, ms)
  PROVE  \A i \in 0..Len(ls) : View(Upto(ms, i)) = View(Upto(ls, i))
<1> DEFINE k == Len(ls)
           S == {i \in Nat : i <= k => View(Upto(ms, i)) = View(Upto(ls, i))}
<1>1. /\ ls \in Seq(LevelSet) /\ k \in Nat /\ ms \in Seq(LevelSet) /\ Len(ms) = k
      /\ \A i \in 1..k : Alike(ls[i], ms[i])
  BY StackParts DEF SameLevels
<1> HIDE DEF k
<1>2. 0 \in S
  <2>1. /\ Upto(ls, 0) \in Seq(LevelSet) /\ Len(Upto(ls, 0)) = 0
        /\ Upto(ms, 0) \in Seq(LevelSet) /\ Len(Upto(ms, 0)) = 0
    BY <1>1, UptoParts DEF k
  <2>2. Upto(ls, 0) = <<>> /\ Upto(ms, 0) = <<>>
    BY <2>1, EmptySeq
  <2> QED
    BY <2>2
<1>3. ASSUME NEW i \in Nat, i \in S PROVE i + 1 \in S
  <2>1. SUFFICES ASSUME i + 1 <= k PROVE View(Upto(ms, i + 1)) = View(Upto(ls, i + 1))
    OBVIOUS
  <2> DEFINE j == i + 1
  <2>2. j \in 1..k /\ j \in 0..Len(ls) /\ j \in 0..Len(ms) /\ j - 1 = i /\ j >= 1
    BY <1>1, <2>1 DEF k
  <2> HIDE DEF j
  <2>3. /\ Upto(ls, j) \in Stacks /\ TopOf(Upto(ls, j)) = ls[j] /\ Below(Upto(ls, j)) = Upto(ls, i)
        /\ Upto(ms, j) \in Stacks /\ TopOf(Upto(ms, j)) = ms[j] /\ Below(Upto(ms, j)) = Upto(ms, i)
    BY <1>1, <2>2, UptoParts
  <2>4. /\ View(Upto(ls, j)) = On(ls[j], View(Upto(ls, i)))
        /\ View(Upto(ms, j)) = On(ms[j], View(Upto(ms, i)))
    BY <2>3, ViewUnfolds
  <2>5. View(Upto(ms, i)) = View(Upto(ls, i))
    BY <1>1, <1>3, <2>1
  <2>6. Alike(ls[j], ms[j])
    BY <1>1, <2>2
  <2> QED
    BY <2>4, <2>5, <2>6, AlikeSaysTheSame DEF j
<1> HIDE DEF S
<1>4. Nat \subseteq S
  BY <1>2, <1>3, Induction
<1> QED
  BY <1>1, <1>4 DEF S, k

(* Building the lists of the levels changes nothing else.                  *)
LEMMA BuildingLists ==
  ASSUME NEW ls \in Stacks, Good(ls)
  PROVE  /\ SameLevels(ls, WithLists(ls)) /\ Good(WithLists(ls))
         /\ TopOf(WithLists(ls)).list = ListOf(View(ls))
<1> DEFINE k == Len(ls)
           ms == WithLists(ls)
           asked == AskedForList(ls)
           l(i) == ListOf(View(Upto(ls, i)))
           d(i) == IF i \in asked THEN [ls[i] EXCEPT !.list = l(i)] ELSE ls[i]
<1>1. /\ ls \in Seq(LevelSet) /\ k \in Nat /\ k >= 1 /\ DOMAIN ls = 1..k
      /\ \A i \in 1..k : ls[i] \in LevelSet
  BY StackParts
<1>2. ms = [i \in 1..k |-> d(i)]
  <2>1. ms = [i \in 1..k |-> IF i \in asked THEN [ls[i] EXCEPT !.list = NodeInfoLists(ls)[i]] ELSE ls[i]]
    BY <1>1 DEF WithLists
  <2>2. \A i \in 1..k : NodeInfoLists(ls)[i] = l(i)
    BY ListsOfLevels
  <2> HIDE DEF asked, k
  <2> QED
    BY <2>1, <2>2
<1>3. ASSUME NEW i \in 1..k
      PROVE  /\ d(i) \in LevelSet /\ Alike(ls[i], d(i))
             /\ Fits(d(i), View(Upto(ls, i - 1))) /\ Fresh(d(i), View(Upto(ls, i)))
  <2>1. i \in 0..Len(ls)
    BY <1>1
  <2>2. Upto(ls, i) \in Seq(LevelSet)
    BY <1>1, <2>1, UptoParts
  <2>3. View(Upto(ls, i)) \in NodeMaps
    BY <2>2, ViewIsMap
  <2>4. l(i) \in Lists
    BY <2>3, ListOfMap
  <2>5. Fits(ls[i], View(Upto(ls, i - 1))) /\ Fresh(ls[i], View(Upto(ls, i)))
    BY DEF Good
  <2> DEFINE e == d(i)
  <2>6. ls[i] \in LevelSet
    BY <1>1
  <2>7. /\ e \in LevelSet /\ Alike(ls[i], e)
        /\ e.affinity = ls[i].affinity /\ e.claims = ls[i].claims
        /\ e.list = ls[i].list \/ e.list = l(i)
    <3> DEFINE li == l(i)
    <3>1. li \in Lists /\ e = IF i \in asked THEN [ls[i] EXCEPT !.list = li] ELSE ls[i]
      BY <2>4
    <3> HIDE DEF li, asked, e
    <3> QED
      BY <2>6, <3>1 DEF LevelSet, Alike, li
  <2> HIDE DEF e
  <2>8. Fits(e, View(Upto(ls, i - 1)))
    BY <2>5, <2>7, AlikeSaysTheSame
  <2>9. Fresh(e, View(Upto(ls, i)))
    BY <2>5, <2>7 DEF Fresh
  <2> QED
    BY <2>7, <2>8, <2>9 DEF e
<1> HIDE DEF d
<1>4. ms \in Seq(LevelSet) /\ Len(ms) = k /\ \A i \in 1..k : ms[i] = d(i)
  BY <1>1, <1>2, <1>3
<1> HIDE DEF ms
<1>5. ms \in Stacks
  <2>1. Len(<<>>) = 0
    OBVIOUS
  <2> QED
    BY <1>1, <1>4, <2>1 DEF Stacks
<1>6. SameLevels(ls, ms)
  BY <1>3, <1>4, <1>5 DEF SameLevels
<1>7. \A i \in 0..k : View(Upto(ms, i)) = View(Upto(ls, i))
  BY <1>6, SameLevelsSaySame
<1>8. Good(ms)
  <2> SUFFICES ASSUME NEW i \in 1..k
               PROVE  Fits(ms[i], View(Upto(ms, i - 1))) /\ Fresh(ms[i], View(Upto(ms, i)))
    BY <1>4 DEF Good
  <2>1. i \in 0..k /\ i - 1 \in 0..k
    BY <1>1
  <2> HIDE DEF k
  <2> QED
    BY <1>3, <1>4, <1>7, <2>1
<1>9. TopOf(ms).list = ListOf(View(ls))
  <2>1. TopOf(ms) = d(k) /\ Upto(ls, k) = ls /\ k \in 1..k /\ ls[k] \in LevelSet
    BY <1>1, <1>4, UptoOfStack DEF TopOf
  <2>2. CASE ls[k].list = NotBuilt
    <3>1. k \in asked
      <4>0. \A x \in Nat : \A j \in x..x : j = x
        OBVIOUS
      <4>1. \A j \in k..k : j = k
        BY <1>1, <4>0
      <4> QED
        BY <1>1, <2>1, <2>2, <4>1 DEF AskedForList
    <3>2. d(k) = [ls[k] EXCEPT !.list = l(k)]
      BY <3>1 DEF d
    <3> HIDE DEF k
    <3> QED
      BY <2>1, <3>2 DEF LevelSet
  <2>3. CASE ls[k].list # NotBuilt
    <3>1. k \notin asked
      <4>1. k \in k..k
        BY <1>1
      <4> QED
        BY <1>1, <2>3, <4>1 DEF AskedForList
    <3>2. d(k) = ls[k]
      BY <3>1 DEF d
    <3>3. Fresh(ls[k], View(Upto(ls, k)))
      BY <2>1 DEF Good
    <3> QED
      BY <2>1, <2>3, <3>2, <3>3 DEF Fresh
  <2> QED
    BY <2>2, <2>3
<1> QED
  BY <1>6, <1>8, <1>9 DEF ms

-----------------------------------------------------------------------------
(* Commit.                                                                 *)

(* r follows a recursive definition over the subsets of D.                 *)
SetSolution(f, D, first, step) ==
  \A S \in SUBSET D : f[S] = IF S = {} THEN first ELSE step[<<S, f[S \ {AnyOf(S)}]>>]

LEMMA AnyOfSet ==
  ASSUME NEW S, S # {}
  PROVE  AnyOf(S) \in S
BY DEF AnyOf

LEMMA SmallerSet ==
  ASSUME NEW D, IsFiniteSet(D), NEW S \in SUBSET D
  PROVE  /\ Cardinality(S) \in 0..Cardinality(D) /\ Cardinality(D) \in Nat
         /\ Cardinality(S) = 0 => S = {}
         /\ S # {} => /\ S \ {AnyOf(S)} \in SUBSET D
                      /\ Cardinality(S \ {AnyOf(S)}) = Cardinality(S) - 1
<1>1. IsFiniteSet(S) /\ Cardinality(S) <= Cardinality(D)
  BY FS_Subset
<1>2. Cardinality(S) \in Nat /\ Cardinality(D) \in Nat
  BY <1>1, FS_CardinalityType
<1>3. Cardinality(S) = 0 => S = {}
  BY <1>1, FS_EmptySet
<1>4. ASSUME S # {} PROVE Cardinality(S \ {AnyOf(S)}) = Cardinality(S) - 1
  <2>1. AnyOf(S) \in S
    BY <1>4, AnyOfSet
  <2> QED
    BY <1>1, <2>1, FS_RemoveElement
<1> QED
  BY <1>1, <1>2, <1>3, <1>4

(* What holds of the empty set and of a set whenever it holds of the set   *)
(* without the next element holds of the subsets of a finite set.          *)
LEMMA SetInduction ==
  ASSUME NEW D, IsFiniteSet(D), NEW Q, {} \in Q,
         \A S \in SUBSET D : S # {} /\ S \ {AnyOf(S)} \in Q => S \in Q
  PROVE  SUBSET D \subseteq Q
<1> DEFINE T == {k \in Nat : \A S \in SUBSET D : Cardinality(S) = k => S \in Q}
<1>1. 0 \in T
  BY SmallerSet
<1>2. ASSUME NEW k \in Nat, k \in T PROVE k + 1 \in T
  <2>1. SUFFICES ASSUME NEW S \in SUBSET D, Cardinality(S) = k + 1 PROVE S \in Q
    OBVIOUS
  <2>2. CASE S = {}
    BY <2>2
  <2>3. CASE S # {}
    <3> DEFINE R == S \ {AnyOf(S)}
    <3>1. R \in SUBSET D /\ Cardinality(R) = Cardinality(S) - 1
      BY <2>3, SmallerSet
    <3>2. Cardinality(R) = k
      BY <2>1, <3>1
    <3>3. R \in Q
      BY <1>2, <3>1, <3>2
    <3> QED
      BY <2>3, <3>3
  <2> QED
    BY <2>2, <2>3
<1> HIDE DEF T
<1>3. Nat \subseteq T
  BY <1>1, <1>2, Induction
<1>4. \A S \in SUBSET D : Cardinality(S) \in Nat
  <2> SUFFICES ASSUME NEW S \in SUBSET D PROVE Cardinality(S) \in Nat
    OBVIOUS
  <2>1. Cardinality(S) \in 0..Cardinality(D)
    BY SmallerSet
  <2> QED
    BY <2>1
<1> QED
  BY <1>3, <1>4 DEF T

(* A recursive definition over the subsets of a finite set has a solution. *)
LEMMA SetRecursion ==
  ASSUME NEW D, IsFiniteSet(D), NEW T, NEW first \in T, NEW step \in [(SUBSET D) \X T -> T]
  PROVE  \E f \in [SUBSET D -> T] : SetSolution(f, D, first, step)
<1> DEFINE F == [SUBSET D -> T]
           base == [S \in SUBSET D |-> first]
           more(h) == [S \in SUBSET D |-> IF S = {} THEN first ELSE step[<<S, h[S \ {AnyOf(S)}]>>]]
           up == [p \in Int \X F |-> more(p[2])]
           n == Cardinality(D)
<1>1. base \in F
  OBVIOUS
<1>2. \A S \in SUBSET D : S \ {AnyOf(S)} \in SUBSET D
  OBVIOUS
<1>3. \A h \in F : more(h) \in F
  BY <1>2
<1>4. \A h \in F, S \in SUBSET D :
         more(h)[S] = IF S = {} THEN first ELSE step[<<S, h[S \ {AnyOf(S)}]>>]
  OBVIOUS
<1>5. \A S \in SUBSET D : base[S] = first
  OBVIOUS
<1> HIDE DEF base, F, more
<1>6. up \in [Int \X F -> F] /\ \A k \in Int, h \in F : up[<<k, h>>] = more(h)
  BY <1>3
<1>7. 0 \in Int /\ n \in Nat /\ n \in Int /\ 0 \in 0..n
  BY FS_CardinalityType
<1> HIDE DEF n, up
<1>8. PICK r \in [0..n -> F] : Solution(r, 0, n, base, up)
  BY <1>1, <1>6, <1>7, Recursion
<1>9. \A k \in 0..n : r[k] = IF k = 0 THEN base ELSE up[<<k, r[k - 1]>>]
  BY <1>8 DEF Solution
<1>10. r[0] = base
  BY <1>7, <1>9
<1>11. ASSUME NEW k \in 0..n, k # 0 PROVE r[k - 1] \in F /\ r[k] = more(r[k - 1])
  <2>1. r[k - 1] \in F /\ k \in Int
    BY <1>7, <1>11
  <2>2. r[k] = up[<<k, r[k - 1]>>]
    BY <1>9, <1>11
  <2> QED
    BY <1>6, <2>1, <2>2
<1> DEFINE f == [S \in SUBSET D |-> r[Cardinality(S)][S]]
<1>12. ASSUME NEW S \in SUBSET D
      PROVE  /\ f[S] = IF S = {} THEN first ELSE step[<<S, f[S \ {AnyOf(S)}]>>]
             /\ f[S] \in T
  <2>1. Cardinality(S) \in 0..n
    BY SmallerSet DEF n
  <2>2. r[Cardinality(S)] \in F
    BY <2>1
  <2>3. f[S] \in T
    BY <2>2 DEF F
  <2>4. CASE S = {}
    <3>1. Cardinality(S) = 0
      BY <2>4, FS_EmptySet
    <3> QED
      BY <1>5, <1>10, <2>3, <2>4, <3>1
  <2>5. CASE S # {}
    <3> DEFINE R == S \ {AnyOf(S)}
               c == Cardinality(S)
    <3>0. /\ Cardinality(S) = 0 => S = {}
          /\ S # {} => /\ S \ {AnyOf(S)} \in SUBSET D
                       /\ Cardinality(S \ {AnyOf(S)}) = Cardinality(S) - 1
      BY SmallerSet
    <3>1. R \in SUBSET D /\ Cardinality(R) = c - 1 /\ (c = 0 => S = {})
      BY <2>5, <3>0
    <3>2. c # 0
      BY <2>5, <3>1
    <3>3. r[c - 1] \in F /\ r[c] = more(r[c - 1])
      BY <1>11, <2>1, <3>2
    <3>4. f[S] = r[c][S] /\ f[R] = r[c - 1][R]
      BY <3>1
    <3>5. more(r[c - 1])[S] = step[<<S, r[c - 1][R]>>]
      BY <1>4, <2>5, <3>3
    <3> QED
      BY <2>3, <2>5, <3>3, <3>4, <3>5
  <2> QED
    BY <2>4, <2>5
<1>13. f \in [SUBSET D -> T]
  BY <1>12
<1> HIDE DEF f
<1>14. SetSolution(f, D, first, step)
  BY <1>12 DEF SetSolution
<1> QED
  BY <1>13, <1>14

(* The results that leave the stack good. *)
Results == {r \in [levels : Stacks, ok : BOOLEAN] : Good(r.levels)}

LEMMA ResultParts ==
  ASSUME NEW r \in Results
  PROVE  r.levels \in Stacks /\ Good(r.levels) /\ r.ok \in BOOLEAN
BY DEF Results

LEMMA OutcomeIsResult ==
  ASSUME NEW ls, NEW ms, NEW worked \in BOOLEAN, NEW m, Changed(ls, ms, m)
  PROVE  Result(ms, worked) \in Results
BY DEF Results, Result, Changed

(* What changes a node gives a result. *)
LEMMA RemovalIsResult ==
  ASSUME NEW ls \in Stacks, Good(ls), NEW n \in Nodes
  PROVE  RemoveFromLevel(ls, n) \in Results
<1> DEFINE r == RemoveFromLevel(ls, n)
<1>1. \E m : Changed(ls, r.levels, m) /\ r.ok \in BOOLEAN
  BY RemovingANode DEF Does, Refuses
<1>2. r = Result(r.levels, r.ok)
  BY DEF RemoveFromLevel, Result
<1> HIDE DEF r
<1>3. Result(r.levels, r.ok) \in Results
  BY <1>1, OutcomeIsResult
<1> QED
  BY <1>2, <1>3 DEF r

LEMMA AdditionIsResult ==
  ASSUME NEW ls \in Stacks, Good(ls), NEW n \in Nodes, NEW pods \in NodeInfos
  PROVE  AddNodeInfo(ls, n, pods) \in Results
<1> DEFINE r == AddNodeInfo(ls, n, pods)
<1>1. \E m : Changed(ls, r.levels, m) /\ r.ok \in BOOLEAN
  BY AddingANode DEF Does, Refuses
<1>2. r = Result(r.levels, r.ok)
  BY DEF AddNodeInfo, Result
<1> HIDE DEF r
<1>3. Result(r.levels, r.ok) \in Results
  BY <1>1, OutcomeIsResult
<1> QED
  BY <1>2, <1>3 DEF r

LEMMA ReplacementIsResult ==
  ASSUME NEW a \in Results, NEW n \in Nodes, NEW pods \in NodeInfos
  PROVE  ReplaceNode(a, n, pods) \in Results
<1> DEFINE removed == RemoveFromLevel(a.levels, n)
<1>1. removed \in Results
  BY ResultParts, RemovalIsResult
<1>2. ReplaceNode(a, n, pods) = IF removed.ok THEN AddNodeInfo(removed.levels, n, pods) ELSE removed
  BY DEF ReplaceNode
<1> HIDE DEF removed
<1>3. AddNodeInfo(removed.levels, n, pods) \in Results
  BY <1>1, ResultParts, AdditionIsResult
<1> QED
  BY <1>1, <1>2, <1>3

(* The changes are applied to the nodes of S: the stack bs says m of them, *)
(* and v of the others as before.                                          *)
Applied(bs, S, m, r) ==
  Does(bs, r, [n \in Nodes |-> IF n \in S THEN m[n] ELSE View(bs)[n]])

LEMMA NothingApplied ==
  ASSUME NEW r \in Results, r.ok = TRUE, NEW m
  PROVE  Applied(r.levels, {}, m, r)
<1>1. [n \in Nodes |-> IF n \in {} THEN m[n] ELSE View(r.levels)[n]] = View(r.levels)
  BY DEF View
<1> QED
  BY <1>1, ResultParts, TopFacts DEF Applied, Does

LEMMA OneMoreApplied ==
  ASSUME NEW bs \in Stacks, NEW S, NEW n \in S, n \in Nodes, NEW m, NEW r, NEW s,
         Applied(bs, S \ {n}, m, r),
         \A ks \in Stacks : Good(ks) /\ View(ks)[n] = View(bs)[n] /\ ks = r.levels
                            => Does(ks, s, [View(ks) EXCEPT ![n] = m[n]])
  PROVE  Applied(bs, S, m, s)
<1> DEFINE v == [x \in Nodes |-> IF x \in S \ {n} THEN m[x] ELSE View(bs)[x]]
           w == [x \in Nodes |-> IF x \in S THEN m[x] ELSE View(bs)[x]]
           ks == r.levels
<1>1. Changed(bs, ks, v)
  BY DEF Applied, Does
<1>2. ks \in Stacks /\ Good(ks) /\ View(ks) = v /\ v[n] = View(bs)[n]
  BY <1>1 DEF Changed
<1>3. Does(ks, s, [View(ks) EXCEPT ![n] = m[n]])
  BY <1>2
<1>4. [v EXCEPT ![n] = m[n]] = w
  OBVIOUS
<1> HIDE DEF v, w, ks
<1>5. s.ok = TRUE /\ Changed(ks, s.levels, w)
  BY <1>2, <1>3, <1>4 DEF Does
<1>6. Changed(bs, s.levels, w)
  BY <1>1, <1>5, ChangedTwice
<1> QED
  BY <1>5, <1>6 DEF Applied, Does, w

(* The three loops of commit. *)
LEMMA DeletedIsApplied ==
  ASSUME NEW r \in Results, r.ok = TRUE, NEW d \in LevelSet,
         \A n \in d.deleted : View(r.levels)[n] # Absent
  PROVE  CommitDeleted(d, r) \in Results /\ Applied(r.levels, d.deleted, NoNodes, CommitDeleted(d, r))
<1> DEFINE D == d.deleted
           m == NoNodes
           bs == r.levels
           one(S, a) == IF a.ok THEN RemoveFromLevel(a.levels, AnyOf(S)) ELSE a
           all(f) == [S \in SUBSET D |-> IF S = {} THEN r ELSE one(S, f[S \ {AnyOf(S)}])]
           step == [p \in (SUBSET D) \X Results |-> IF p[1] = {} THEN r ELSE one(p[1], p[2])]
           h == CHOOSE f : f = all(f)
<1>1. CommitDeleted(d, r) = h[D]
  BY DEF CommitDeleted
<1>2. D \subseteq Nodes /\ IsFiniteSet(D)
  BY FS_Subset, StoreAssumption DEF LevelSet, Present
<1>3. Applied(bs, {}, m, r) /\ bs \in Stacks /\ Good(bs)
  BY NothingApplied, ResultParts
<1> HIDE DEF D, m
<1>4. ASSUME NEW S \in SUBSET D, S # {}, NEW a \in Results PROVE one(S, a) \in Results
  <2>1. AnyOf(S) \in Nodes /\ AnyOf(S) \in D
    BY <1>2, <1>4, AnyOfSet
  <2> QED
    BY <2>1, ResultParts, RemovalIsResult
<1>5. step \in [(SUBSET D) \X Results -> Results]
  BY <1>4
<1>6. \A S \in SUBSET D, a \in Results : S # {} => step[<<S, a>>] = one(S, a)
  OBVIOUS
<1> HIDE DEF step
<1>7. PICK g \in [SUBSET D -> Results] : SetSolution(g, D, r, step)
  BY <1>2, <1>5, SetRecursion
<1>8. g = all(g)
  <2>1. \A S \in SUBSET D : g[S] = IF S = {} THEN r ELSE step[<<S, g[S \ {AnyOf(S)}]>>]
    BY <1>7 DEF SetSolution
  <2>2. \A S \in SUBSET D : S \ {AnyOf(S)} \in SUBSET D
    OBVIOUS
  <2>3. \A S \in SUBSET D : S # {} => step[<<S, g[S \ {AnyOf(S)}]>>] = one(S, g[S \ {AnyOf(S)}])
    BY <1>6, <1>7, <2>2
  <2> HIDE DEF one
  <2> QED
    BY <1>7, <2>1, <2>3
<1> HIDE DEF all
<1>9. h = all(h)
  BY <1>8
<1> HIDE DEF h
<1>10. \A S \in SUBSET D : h[S] = IF S = {} THEN r ELSE one(S, h[S \ {AnyOf(S)}])
  BY <1>9 DEF all
<1> DEFINE Q == {S \in SUBSET D : h[S] \in Results /\ Applied(bs, S, m, h[S])}
<1>11. {} \in Q
  BY <1>3, <1>10
<1>12. ASSUME NEW S \in SUBSET D, S # {}, S \ {AnyOf(S)} \in Q PROVE S \in Q
  <2> DEFINE n == AnyOf(S)
             a == h[S \ {n}]
  <2>1. n \in S /\ n \in Nodes /\ n \in D
    BY <1>2, <1>12, AnyOfSet
  <2>2. a \in Results /\ Applied(bs, S \ {n}, m, a)
    BY <1>12
  <2>3. a.ok = TRUE
    BY <2>2 DEF Applied, Does
  <2>4. h[S] = one(S, a)
    BY <1>10, <1>12
  <2>5. h[S] = RemoveFromLevel(a.levels, n)
    BY <2>3, <2>4
  <2>6. h[S] \in Results
    BY <1>4, <1>12, <2>2, <2>4
  <2> HIDE DEF n, a
  <2>7. View(bs)[n] # Absent /\ m[n] = Absent
    BY <2>1 DEF D, m, NoNodes
  <2>8. ASSUME NEW ks \in Stacks, Good(ks), View(ks)[n] = View(bs)[n], ks = a.levels
        PROVE  Does(ks, h[S], [View(ks) EXCEPT ![n] = m[n]])
    BY <2>1, <2>5, <2>7, <2>8, RemovingANode
  <2>9. Applied(bs, S, m, h[S])
    BY <1>3, <2>1, <2>2, <2>8, OneMoreApplied
  <2> QED
    BY <2>6, <2>9
<1> HIDE DEF Q
<1>13. SUBSET D \subseteq Q
  BY <1>2, <1>11, <1>12, SetInduction
<1>14. h[D] \in Results /\ Applied(bs, D, m, h[D])
  BY <1>13 DEF Q
<1> QED
  BY <1>1, <1>14 DEF D, m

LEMMA ModifiedIsApplied ==
  ASSUME NEW r \in Results, r.ok = TRUE, NEW d \in LevelSet,
         \A n \in Present(d.modified) : View(r.levels)[n] # Absent
  PROVE  CommitModified(d, r) \in Results /\ Applied(r.levels, Present(d.modified), d.modified, CommitModified(d, r))
<1> DEFINE D == Present(d.modified)
           m == d.modified
           bs == r.levels
           one(S, a) == IF a.ok THEN ReplaceNode(a, AnyOf(S), m[AnyOf(S)]) ELSE a
           all(f) == [S \in SUBSET D |-> IF S = {} THEN r ELSE one(S, f[S \ {AnyOf(S)}])]
           step == [p \in (SUBSET D) \X Results |-> IF p[1] = {} THEN r ELSE one(p[1], p[2])]
           h == CHOOSE f : f = all(f)
<1>1. CommitModified(d, r) = h[D]
  BY DEF CommitModified
<1>2. D \subseteq Nodes /\ IsFiniteSet(D)
  BY FS_Subset, StoreAssumption DEF LevelSet, Present
<1>3. Applied(bs, {}, m, r) /\ bs \in Stacks /\ Good(bs)
  BY NothingApplied, ResultParts
<1>0. \A n \in D : m[n] \in NodeInfos /\ m[n] # Absent
  BY DEF LevelSet, NodeMaps, Present
<1> HIDE DEF D, m
<1>4. ASSUME NEW S \in SUBSET D, S # {}, NEW a \in Results PROVE one(S, a) \in Results
  <2>1. AnyOf(S) \in Nodes /\ AnyOf(S) \in D
    BY <1>2, <1>4, AnyOfSet
  <2> QED
    BY <1>0, <2>1, ReplacementIsResult
<1>5. step \in [(SUBSET D) \X Results -> Results]
  BY <1>4
<1>6. \A S \in SUBSET D, a \in Results : S # {} => step[<<S, a>>] = one(S, a)
  OBVIOUS
<1> HIDE DEF step
<1>7. PICK g \in [SUBSET D -> Results] : SetSolution(g, D, r, step)
  BY <1>2, <1>5, SetRecursion
<1>8. g = all(g)
  <2>1. \A S \in SUBSET D : g[S] = IF S = {} THEN r ELSE step[<<S, g[S \ {AnyOf(S)}]>>]
    BY <1>7 DEF SetSolution
  <2>2. \A S \in SUBSET D : S \ {AnyOf(S)} \in SUBSET D
    OBVIOUS
  <2>3. \A S \in SUBSET D : S # {} => step[<<S, g[S \ {AnyOf(S)}]>>] = one(S, g[S \ {AnyOf(S)}])
    BY <1>6, <1>7, <2>2
  <2> HIDE DEF one
  <2> QED
    BY <1>7, <2>1, <2>3
<1> HIDE DEF all
<1>9. h = all(h)
  BY <1>8
<1> HIDE DEF h
<1>10. \A S \in SUBSET D : h[S] = IF S = {} THEN r ELSE one(S, h[S \ {AnyOf(S)}])
  BY <1>9 DEF all
<1> DEFINE Q == {S \in SUBSET D : h[S] \in Results /\ Applied(bs, S, m, h[S])}
<1>11. {} \in Q
  BY <1>3, <1>10
<1>12. ASSUME NEW S \in SUBSET D, S # {}, S \ {AnyOf(S)} \in Q PROVE S \in Q
  <2> DEFINE n == AnyOf(S)
             a == h[S \ {n}]
  <2>1. n \in S /\ n \in Nodes /\ n \in D
    BY <1>2, <1>12, AnyOfSet
  <2>2. a \in Results /\ Applied(bs, S \ {n}, m, a)
    BY <1>12
  <2>3. a.ok = TRUE
    BY <2>2 DEF Applied, Does
  <2>4. h[S] = one(S, a)
    BY <1>10, <1>12
  <2>5. h[S] = ReplaceNode(a, n, m[n])
    BY <2>3, <2>4
  <2>6. h[S] \in Results
    BY <1>4, <1>12, <2>2, <2>4
  <2> HIDE DEF n, a
  <2>7. View(bs)[n] # Absent /\ m[n] \in NodeInfos
    BY <1>0, <2>1 DEF D
  <2>8. ASSUME NEW ks \in Stacks, Good(ks), View(ks)[n] = View(bs)[n], ks = a.levels
        PROVE  Does(ks, h[S], [View(ks) EXCEPT ![n] = m[n]])
    <3> DEFINE removed == RemoveFromLevel(ks, n)
               v == View(ks)
               w == [v EXCEPT ![n] = Absent]
    <3>1. Does(ks, removed, w)
      BY <2>1, <2>7, <2>8, RemovingANode
    <3> HIDE DEF removed
    <3>2. /\ removed.ok = TRUE /\ removed.levels \in Stacks /\ Good(removed.levels)
          /\ View(removed.levels) = w /\ Changed(ks, removed.levels, w)
      BY <3>1 DEF Does, Changed
    <3>3. h[S] = AddNodeInfo(removed.levels, n, m[n])
      BY <2>5, <2>8, <3>2 DEF ReplaceNode, removed
    <3>4. w[n] = Absent /\ [w EXCEPT ![n] = m[n]] = [v EXCEPT ![n] = m[n]]
      BY <2>1 DEF View
    <3> HIDE DEF v, w
    <3>5. Does(removed.levels, h[S], [w EXCEPT ![n] = m[n]])
      BY <2>1, <2>7, <3>2, <3>3, <3>4, AddingANode
    <3>6. h[S].ok = TRUE /\ Changed(removed.levels, h[S].levels, [v EXCEPT ![n] = m[n]])
      BY <3>4, <3>5 DEF Does
    <3>7. Changed(ks, h[S].levels, [v EXCEPT ![n] = m[n]])
      BY <3>2, <3>6, ChangedTwice
    <3> QED
      BY <3>6, <3>7 DEF Does, v
  <2>9. Applied(bs, S, m, h[S])
    BY <1>3, <2>1, <2>2, <2>8, OneMoreApplied
  <2> QED
    BY <2>6, <2>9
<1> HIDE DEF Q
<1>13. SUBSET D \subseteq Q
  BY <1>2, <1>11, <1>12, SetInduction
<1>14. h[D] \in Results /\ Applied(bs, D, m, h[D])
  BY <1>13 DEF Q
<1> QED
  BY <1>1, <1>14 DEF D, m

LEMMA AddedIsApplied ==
  ASSUME NEW r \in Results, r.ok = TRUE, NEW d \in LevelSet,
         \A n \in Present(d.added) : View(r.levels)[n] = Absent
  PROVE  CommitAdded(d, r) \in Results /\ Applied(r.levels, Present(d.added), d.added, CommitAdded(d, r))
<1> DEFINE D == Present(d.added)
           m == d.added
           bs == r.levels
           one(S, a) == IF a.ok THEN AddNodeInfo(a.levels, AnyOf(S), m[AnyOf(S)]) ELSE a
           all(f) == [S \in SUBSET D |-> IF S = {} THEN r ELSE one(S, f[S \ {AnyOf(S)}])]
           step == [p \in (SUBSET D) \X Results |-> IF p[1] = {} THEN r ELSE one(p[1], p[2])]
           h == CHOOSE f : f = all(f)
<1>1. CommitAdded(d, r) = h[D]
  BY DEF CommitAdded
<1>2. D \subseteq Nodes /\ IsFiniteSet(D)
  BY FS_Subset, StoreAssumption DEF LevelSet, Present
<1>3. Applied(bs, {}, m, r) /\ bs \in Stacks /\ Good(bs)
  BY NothingApplied, ResultParts
<1>0. \A n \in D : m[n] \in NodeInfos /\ m[n] # Absent
  BY DEF LevelSet, NodeMaps, Present
<1> HIDE DEF D, m
<1>4. ASSUME NEW S \in SUBSET D, S # {}, NEW a \in Results PROVE one(S, a) \in Results
  <2>1. AnyOf(S) \in Nodes /\ AnyOf(S) \in D
    BY <1>2, <1>4, AnyOfSet
  <2> QED
    BY <1>0, <2>1, ResultParts, AdditionIsResult
<1>5. step \in [(SUBSET D) \X Results -> Results]
  BY <1>4
<1>6. \A S \in SUBSET D, a \in Results : S # {} => step[<<S, a>>] = one(S, a)
  OBVIOUS
<1> HIDE DEF step
<1>7. PICK g \in [SUBSET D -> Results] : SetSolution(g, D, r, step)
  BY <1>2, <1>5, SetRecursion
<1>8. g = all(g)
  <2>1. \A S \in SUBSET D : g[S] = IF S = {} THEN r ELSE step[<<S, g[S \ {AnyOf(S)}]>>]
    BY <1>7 DEF SetSolution
  <2>2. \A S \in SUBSET D : S \ {AnyOf(S)} \in SUBSET D
    OBVIOUS
  <2>3. \A S \in SUBSET D : S # {} => step[<<S, g[S \ {AnyOf(S)}]>>] = one(S, g[S \ {AnyOf(S)}])
    BY <1>6, <1>7, <2>2
  <2> HIDE DEF one
  <2> QED
    BY <1>7, <2>1, <2>3
<1> HIDE DEF all
<1>9. h = all(h)
  BY <1>8
<1> HIDE DEF h
<1>10. \A S \in SUBSET D : h[S] = IF S = {} THEN r ELSE one(S, h[S \ {AnyOf(S)}])
  BY <1>9 DEF all
<1> DEFINE Q == {S \in SUBSET D : h[S] \in Results /\ Applied(bs, S, m, h[S])}
<1>11. {} \in Q
  BY <1>3, <1>10
<1>12. ASSUME NEW S \in SUBSET D, S # {}, S \ {AnyOf(S)} \in Q PROVE S \in Q
  <2> DEFINE n == AnyOf(S)
             a == h[S \ {n}]
  <2>1. n \in S /\ n \in Nodes /\ n \in D
    BY <1>2, <1>12, AnyOfSet
  <2>2. a \in Results /\ Applied(bs, S \ {n}, m, a)
    BY <1>12
  <2>3. a.ok = TRUE
    BY <2>2 DEF Applied, Does
  <2>4. h[S] = one(S, a)
    BY <1>10, <1>12
  <2>5. h[S] = AddNodeInfo(a.levels, n, m[n])
    BY <2>3, <2>4
  <2>6. h[S] \in Results
    BY <1>4, <1>12, <2>2, <2>4
  <2> HIDE DEF n, a
  <2>7. View(bs)[n] = Absent /\ m[n] \in NodeInfos
    BY <1>0, <2>1 DEF D
  <2>8. ASSUME NEW ks \in Stacks, Good(ks), View(ks)[n] = View(bs)[n], ks = a.levels
        PROVE  Does(ks, h[S], [View(ks) EXCEPT ![n] = m[n]])
    BY <2>1, <2>5, <2>7, <2>8, AddingANode
  <2>9. Applied(bs, S, m, h[S])
    BY <1>3, <2>1, <2>2, <2>8, OneMoreApplied
  <2> QED
    BY <2>6, <2>9
<1> HIDE DEF Q
<1>13. SUBSET D \subseteq Q
  BY <1>2, <1>11, <1>12, SetInduction
<1>14. h[D] \in Results /\ Applied(bs, D, m, h[D])
  BY <1>13 DEF Q
<1> QED
  BY <1>1, <1>14 DEF D, m

(* A commit works, and leaves a stack with one level less that says the    *)
(* same.                                                                   *)
LEMMA Committing ==
  ASSUME NEW ls \in Stacks, Good(ls), Len(ls) # 1
  PROVE  Does(Below(ls), Committed(ls), View(ls)) /\ Below(ls) \in Stacks
<1> DEFINE bs == Below(ls)
           d == TopOf(ls)
           b == View(bs)
           r0 == Result(bs, TRUE)
           r1 == CommitDeleted(d, r0)
           r2 == CommitModified(d, r1)
           r3 == CommitAdded(d, r2)
           v1 == [n \in Nodes |-> IF n \in d.deleted THEN NoNodes[n] ELSE b[n]]
           v2 == [n \in Nodes |-> IF n \in Present(d.modified) THEN d.modified[n] ELSE v1[n]]
           v3 == [n \in Nodes |-> IF n \in Present(d.added) THEN d.added[n] ELSE v2[n]]
<1>1. bs \in Stacks /\ Good(bs)
  <2>1. bs \in Seq(LevelSet) /\ Len(bs) = Len(ls) - 1 /\ Len(ls) \in Nat /\ Len(ls) >= 1
    BY StackParts
  <2> HIDE DEF bs
  <2>2. bs # <<>>
    BY <2>1, EmptySeq
  <2> QED
    BY <2>1, <2>2, GoodUnfolds DEF Stacks, bs
<1>2. /\ d \in LevelSet /\ Fits(d, b) /\ b \in NodeMaps /\ View(ls) = On(d, b)
  BY TopFacts
<1>3. Committed(ls) = IF r3.ok THEN r3 ELSE Result(Append(r3.levels, d), FALSE)
  BY DEF Committed, TopOf
<1> HIDE DEF bs, d
<1>4. r0 \in Results /\ r0.ok = TRUE /\ r0.levels = bs
  BY <1>1, TopFacts, OutcomeIsResult DEF Result
<1> HIDE DEF r0
<1>5. \A n \in Nodes : /\ d.added[n] # Absent => b[n] = Absent /\ d.modified[n] = Absent /\ n \notin d.deleted
                       /\ d.modified[n] # Absent => b[n] # Absent /\ n \notin d.deleted
                       /\ n \in d.deleted => b[n] # Absent
  BY <1>2 DEF Fits
<1>6. d.deleted \subseteq Nodes
  BY <1>2 DEF LevelSet
<1>7. \A n \in Nodes : /\ n \in Present(d.modified) <=> d.modified[n] # Absent
                       /\ n \in Present(d.added) <=> d.added[n] # Absent
  BY DEF Present
<1>8. Present(d.modified) \subseteq Nodes /\ Present(d.added) \subseteq Nodes
  BY DEF Present
<1>9. r1 \in Results /\ r1.ok = TRUE /\ Changed(bs, r1.levels, v1) /\ View(r1.levels) = v1
  <2>1. \A n \in d.deleted : View(r0.levels)[n] # Absent
    BY <1>4, <1>5, <1>6
  <2>2. r1 \in Results /\ Applied(r0.levels, d.deleted, NoNodes, r1)
    BY <1>2, <1>4, <2>1, DeletedIsApplied
  <2> HIDE DEF r1
  <2> QED
    BY <1>4, <2>2 DEF Applied, Does, Changed
<1> HIDE DEF r1
<1>10. \A n \in Nodes : v1[n] = IF n \in d.deleted THEN Absent ELSE b[n]
  BY DEF NoNodes
<1> HIDE DEF v1
<1>11. r2 \in Results /\ r2.ok = TRUE /\ Changed(r1.levels, r2.levels, v2) /\ View(r2.levels) = v2
  <2>1. \A n \in Present(d.modified) : View(r1.levels)[n] # Absent
    BY <1>5, <1>7, <1>8, <1>9, <1>10
  <2>2. r2 \in Results /\ Applied(r1.levels, Present(d.modified), d.modified, r2)
    BY <1>2, <1>9, <2>1, ModifiedIsApplied
  <2> HIDE DEF r2
  <2> QED
    BY <1>9, <2>2 DEF Applied, Does, Changed
<1> HIDE DEF r2
<1>12. \A n \in Nodes : v2[n] = IF d.modified[n] # Absent THEN d.modified[n] ELSE v1[n]
  BY <1>7
<1> HIDE DEF v2
<1>13. r3.ok = TRUE /\ Changed(r2.levels, r3.levels, v3)
  <2>1. \A n \in Present(d.added) : View(r2.levels)[n] = Absent
    BY <1>5, <1>7, <1>8, <1>10, <1>11, <1>12
  <2>2. Applied(r2.levels, Present(d.added), d.added, r3)
    BY <1>2, <1>11, <2>1, AddedIsApplied
  <2> HIDE DEF r3
  <2> QED
    BY <1>11, <2>2 DEF Applied, Does, Changed
<1> HIDE DEF r3
<1>14. v3 = View(ls)
  <2>1. \A n \in Nodes : v3[n] = On(d, b)[n]
    BY <1>5, <1>7, <1>10, <1>12 DEF On, GetNodeInfoLocal
  <2> QED
    BY <1>2, <2>1 DEF On
<1> HIDE DEF v3
<1>15. Changed(bs, r3.levels, View(ls))
  BY <1>9, <1>11, <1>13, <1>14, ChangedTwice
<1>16. Committed(ls) = r3
  BY <1>3, <1>13
<1> QED
  BY <1>1, <1>13, <1>15, <1>16 DEF Does, bs

-----------------------------------------------------------------------------
(* The pods that are placed.                                               *)

(* A pod is on one node at most. *)
Apart(m) ==
  \A x, y \in Nodes :
    x # y /\ m[x] # Absent /\ m[y] # Absent => m[x] \cap m[y] = {}

PodsOf(x) == IF x = Absent THEN {} ELSE x

LEMMA PlacedAre ==
  ASSUME NEW m, NEW p
  PROVE  p \in Placed(m) <=> \E n \in Nodes : p \in PodsOf(m[n])
BY DEF Placed, Present, PodsOf

LEMMA PlacedAfter ==
  ASSUME NEW m \in NodeMaps, Apart(m), NEW n \in Nodes, NEW x \in NodeInfos \cup {Absent}
  PROVE  /\ Placed([m EXCEPT ![n] = x]) = (Placed(m) \ PodsOf(m[n])) \cup PodsOf(x)
         /\ PodsOf(x) \cap (Placed(m) \ PodsOf(m[n])) = {} => Apart([m EXCEPT ![n] = x])
<1> DEFINE w == [m EXCEPT ![n] = x]
<1>1. w[n] = x /\ \A y \in Nodes : y # n => w[y] = m[y]
  BY DEF NodeMaps
<1> HIDE DEF w
<1>2. \A y \in Nodes : y # n => \A p \in PodsOf(m[n]) : p \notin PodsOf(m[y])
  BY DEF Apart, PodsOf
<1>3. ASSUME NEW p
      PROVE  p \in Placed(w) <=> (p \in Placed(m) /\ p \notin PodsOf(m[n])) \/ p \in PodsOf(x)
  <2>1. p \in Placed(w) <=> \E y \in Nodes : p \in PodsOf(w[y])
    BY PlacedAre
  <2>2. p \in Placed(m) <=> \E y \in Nodes : p \in PodsOf(m[y])
    BY PlacedAre
  <2> QED
    BY <1>1, <1>2, <2>1, <2>2
<1>4. Placed(w) = (Placed(m) \ PodsOf(m[n])) \cup PodsOf(x)
  BY <1>3
<1>5. ASSUME PodsOf(x) \cap (Placed(m) \ PodsOf(m[n])) = {} PROVE Apart(w)
  <2>1. ASSUME NEW y \in Nodes, y # n, m[y] # Absent, x # Absent PROVE x \cap m[y] = {}
    <3>1. ASSUME NEW p, p \in x, p \in m[y] PROVE FALSE
      <4>1. p \in PodsOf(m[y]) /\ p \in PodsOf(x)
        BY <2>1, <3>1 DEF PodsOf
      <4>2. p \in Placed(m)
        BY <4>1, PlacedAre
      <4>3. p \in PodsOf(m[n])
        BY <1>5, <4>1, <4>2
      <4> QED
        BY <1>2, <2>1, <4>1, <4>3
    <3> QED
      BY <3>1
  <2>2. ASSUME NEW y \in Nodes, NEW z \in Nodes, y # z, w[y] # Absent, w[z] # Absent
        PROVE  w[y] \cap w[z] = {}
    <3>1. CASE y = n
      BY <1>1, <2>1, <2>2, <3>1
    <3>2. CASE z = n
      BY <1>1, <2>1, <2>2, <3>2
    <3>3. CASE y # n /\ z # n
      BY <1>1, <2>2, <3>3 DEF Apart
    <3> QED
      BY <3>1, <3>2, <3>3
  <2> QED
    BY <2>2 DEF Apart
<1> QED
  BY <1>4, <1>5 DEF w

-----------------------------------------------------------------------------
(* A stack as a stack of copies.                                           *)

Copy(m) == [nodeInfoMap |-> m, pvcPods |-> Placed(m) \intersect UsesClaim]

Copies == {Copy(m) : m \in NodeMaps}

Data(ls) == [i \in DOMAIN ls |-> CopyOf(SubSeq(ls, 1, i))]

LEMMA DataParts ==
  ASSUME NEW ls \in Stacks
  PROVE  /\ Data(ls) \in Seq(Copies) /\ Len(Data(ls)) = Len(ls)
         /\ \A i \in 1..Len(ls) : Data(ls)[i] = Copy(View(Upto(ls, i)))
         /\ Data(ls)[Len(ls)] = Copy(View(ls))
<1> DEFINE k == Len(ls)
           u(i) == Upto(ls, i)
<1>1. k \in Nat /\ k >= 1 /\ DOMAIN ls = 1..k /\ Upto(ls, k) = ls /\ ls \in Seq(LevelSet)
  BY StackParts, UptoOfStack
<1>2. \A i \in 1..k : CopyOf(SubSeq(ls, 1, i)) = Copy(View(u(i)))
  BY DEF CopyOf, Copy, Upto
<1>3. ASSUME NEW i \in 1..k PROVE Copy(View(u(i))) \in Copies
  <2>1. i \in 0..k
    BY <1>1
  <2>2. u(i) \in Seq(LevelSet)
    BY <1>1, <2>1, UptoParts
  <2> QED
    BY <2>2, ViewIsMap DEF Copies
<1>4. Data(ls) = [i \in 1..k |-> Copy(View(u(i)))]
  BY <1>1, <1>2 DEF Data
<1> DEFINE c(i) == Copy(View(u(i)))
<1>5. c(k) = Copy(View(ls)) /\ k \in 1..k
  BY <1>1
<1> HIDE DEF k
<1>6. \A i \in 1..k : c(i) \in Copies
  BY <1>3
<1>7. Data(ls) = [i \in 1..k |-> c(i)]
  BY <1>4
<1> HIDE DEF c
<1>8. Data(ls) \in Seq(Copies) /\ Len(Data(ls)) = k /\ \A i \in 1..k : Data(ls)[i] = c(i)
  BY <1>1, <1>6, <1>7
<1> QED
  BY <1>5, <1>8 DEF c, k

(* Sequences of copies are equal when their parts are. *)
LEMMA SameData ==
  ASSUME NEW ls \in Stacks, NEW s \in Seq(Copies), Len(s) = Len(ls),
         \A i \in 1..Len(ls) : s[i] = Copy(View(Upto(ls, i)))
  PROVE  Data(ls) = s
<1>1. /\ Data(ls) \in Seq(Copies) /\ Len(Data(ls)) = Len(ls)
      /\ \A i \in 1..Len(ls) : Data(ls)[i] = Copy(View(Upto(ls, i)))
  BY DataParts
<1> DEFINE t == Data(ls)
<1> HIDE DEF t
<1>2. t \in Seq(Copies) /\ Len(t) = Len(s) /\ \A i \in 1..Len(t) : t[i] = s[i]
  BY <1>1 DEF t
<1>3. t = s
  BY <1>2, SeqEqual
<1> QED
  BY <1>3 DEF t

(* What is right of a stack at any level. *)
Fine(ls) ==
  /\ ls \in Stacks /\ Good(ls)
  /\ \A i \in 1..Len(ls) : Apart(View(Upto(ls, i)))

LEMMA FineTop ==
  ASSUME NEW ls, Fine(ls)
  PROVE  ls \in Stacks /\ Good(ls) /\ View(ls) \in NodeMaps /\ Apart(View(ls))
<1>1. ls \in Stacks /\ Good(ls) /\ View(ls) \in NodeMaps
  BY TopFacts DEF Fine
<1>2. Upto(ls, Len(ls)) = ls /\ Len(ls) \in 1..Len(ls)
  BY <1>1, UptoOfStack, StackParts
<1> QED
  BY <1>1, <1>2 DEF Fine

LEMMA SameStaysFine ==
  ASSUME NEW ls, Fine(ls), NEW ms, SameLevels(ls, ms), Good(ms)
  PROVE  Fine(ms) /\ Data(ms) = Data(ls)
<1>1. ls \in Stacks /\ ms \in Stacks /\ Len(ms) = Len(ls) /\ Len(ls) \in Nat
  BY StackParts DEF Fine, SameLevels
<1>2. \A i \in 1..Len(ls) : View(Upto(ms, i)) = View(Upto(ls, i))
  <2>1. \A i \in 0..Len(ls) : View(Upto(ms, i)) = View(Upto(ls, i))
    BY <1>1, SameLevelsSaySame
  <2> QED
    BY <1>1, <2>1
<1>3. Fine(ms)
  BY <1>1, <1>2 DEF Fine
<1>4. /\ Data(ls) \in Seq(Copies) /\ Len(Data(ls)) = Len(ms)
      /\ \A i \in 1..Len(ms) : Data(ls)[i] = Copy(View(Upto(ms, i)))
  BY <1>1, <1>2, DataParts
<1>5. Data(ms) = Data(ls)
  BY <1>1, <1>4, SameData
<1> QED
  BY <1>3, <1>5

(* What the levels below the top of another stack say. *)
LEMMA ChangedLevels ==
  ASSUME NEW ls \in Stacks, NEW ms, NEW m, Changed(ls, ms, m)
  PROVE  /\ ms \in Stacks /\ Len(ms) = Len(ls)
         /\ \A i \in 1..(Len(ls) - 1) : View(Upto(ms, i)) = View(Upto(ls, i))
         /\ View(Upto(ms, Len(ls))) = m
<1>1. ms \in Stacks /\ Len(ms) = Len(ls) /\ Below(ms) = Below(ls) /\ View(ms) = m /\ Len(ls) \in Nat
  BY StackParts DEF Changed
<1>2. /\ \A i \in 0..(Len(ls) - 1) : Upto(Below(ls), i) = Upto(ls, i)
      /\ \A i \in 0..(Len(ls) - 1) : Upto(Below(ms), i) = Upto(ms, i)
      /\ Upto(ms, Len(ms)) = ms
  BY <1>1, UptoOfStack
<1>3. \A i \in 1..(Len(ls) - 1) : i \in 0..(Len(ls) - 1)
  BY <1>1
<1> QED
  BY <1>1, <1>2, <1>3

LEMMA ChangedStaysFine ==
  ASSUME NEW ls, Fine(ls), NEW ms, NEW m \in NodeMaps, Changed(ls, ms, m), Apart(m)
  PROVE  /\ Fine(ms) /\ Len(ms) = Len(ls)
         /\ Data(ms) = [Data(ls) EXCEPT ![Len(ls)] = Copy(m)]
<1> DEFINE k == Len(ls)
           s == [Data(ls) EXCEPT ![k] = Copy(m)]
<1>1. ls \in Stacks /\ ms \in Stacks /\ Len(ms) = k /\ k \in Nat /\ k >= 1 /\ Good(ms)
  BY StackParts DEF Fine, Changed
<1>2. /\ \A i \in 1..(k - 1) : View(Upto(ms, i)) = View(Upto(ls, i))
      /\ View(Upto(ms, k)) = m
  BY <1>1, ChangedLevels
<1>3. \A i \in 1..k : i = k \/ i \in 1..(k - 1)
  BY <1>1
<1>4. Fine(ms)
  BY <1>1, <1>2, <1>3 DEF Fine
<1>5. /\ Data(ls) \in Seq(Copies) /\ Len(Data(ls)) = k
      /\ \A i \in 1..k : Data(ls)[i] = Copy(View(Upto(ls, i)))
  BY <1>1, DataParts
<1>6. Copy(m) \in Copies /\ k \in 1..k
  BY <1>1 DEF Copies
<1> HIDE DEF k
<1>7. s \in Seq(Copies) /\ Len(s) = k /\ \A i \in 1..k : s[i] = IF i = k THEN Copy(m) ELSE Data(ls)[i]
  BY <1>5, <1>6, ExceptSeq
<1> HIDE DEF s
<1>8. \A i \in 1..k : s[i] = Copy(View(Upto(ms, i)))
  BY <1>2, <1>3, <1>5, <1>7
<1>9. Data(ms) = s
  BY <1>1, <1>7, <1>8, SameData
<1> QED
  BY <1>1, <1>4, <1>9 DEF s, k

(* A new level says what the levels below it do. *)
LEMMA NewLevelSays ==
  ASSUME NEW m \in NodeMaps
  PROVE  /\ NewLevel \in LevelSet /\ Fits(NewLevel, m) /\ On(NewLevel, m) = m
         /\ \A v : Fresh(NewLevel, v)
<1>1. NoNodes \in NodeMaps /\ \A n \in Nodes : NoNodes[n] = Absent
  BY ViewIsMap DEF NoNodes, NodeMaps
<1>2. /\ NewLevel \in LevelSet /\ NewLevel.added = NoNodes /\ NewLevel.modified = NoNodes
      /\ NewLevel.deleted = {} /\ NewLevel.list = NotBuilt
      /\ NewLevel.affinity = NotBuilt /\ NewLevel.claims = NotBuilt
  BY <1>1 DEF NewLevel, LevelSet
<1> DEFINE d == NewLevel
<1> HIDE DEF d
<1>3. Fits(d, m) /\ \A v : Fresh(d, v)
  BY <1>1, <1>2 DEF Fits, Fresh, d
<1>4. \A n \in Nodes : On(d, m)[n] = m[n]
  BY <1>1, <1>2 DEF On, GetNodeInfoLocal, d
<1>5. On(d, m) = m
  BY <1>4 DEF On, NodeMaps
<1> QED
  BY <1>2, <1>3, <1>5 DEF d

LEMMA FirstLevel ==
  /\ Fine(<<NewLevel>>)
  /\ Data(<<NewLevel>>) = <<[nodeInfoMap |-> NoNodes, pvcPods |-> {}]>>
<1> DEFINE d == NewLevel
           ls == <<d>>
<1>1. NoNodes \in NodeMaps /\ View(<<>>) = NoNodes
  <2>1. <<>> \in Seq(LevelSet)
    OBVIOUS
  <2> QED
    BY <2>1, ViewIsMap
<1>2. d \in LevelSet /\ Fits(d, NoNodes) /\ On(d, NoNodes) = NoNodes /\ \A v : Fresh(d, v)
  BY <1>1, NewLevelSays
<1> HIDE DEF d
<1>3. ls \in Seq(LevelSet) /\ Len(ls) = 1 /\ ls # <<>> /\ ls[1] = d
  BY <1>2
<1> HIDE DEF ls
<1>4. ls \in Stacks /\ TopOf(ls) = d
  BY <1>3 DEF Stacks, TopOf
<1>5. Below(ls) = <<>>
  <2>1. Below(ls) \in Seq(LevelSet) /\ Len(Below(ls)) = 0
    BY <1>3, <1>4, StackParts
  <2> QED
    BY <2>1, EmptySeq
<1>6. View(ls) = NoNodes
  BY <1>1, <1>2, <1>4, <1>5, ViewUnfolds
<1>7. Good(ls)
  <2>1. Good(<<>>)
    BY DEF Good
  <2> QED
    BY <1>1, <1>2, <1>4, <1>5, <2>1, GoodUnfolds
<1>8. \A n \in Nodes : NoNodes[n] = Absent
  BY DEF NoNodes
<1>9. Apart(NoNodes) /\ Placed(NoNodes) = {}
  BY <1>8 DEF Apart, Placed, Present
<1>10. Upto(ls, 1) = ls
  BY <1>3, <1>4, UptoOfStack
<1>11. Fine(ls)
  BY <1>3, <1>4, <1>6, <1>7, <1>9, <1>10 DEF Fine
<1> DEFINE c == [nodeInfoMap |-> NoNodes, pvcPods |-> {}]
<1>12. Copy(NoNodes) = c /\ c \in Copies
  BY <1>1, <1>9 DEF Copy, Copies
<1> HIDE DEF c
<1>13. <<c>> \in Seq(Copies) /\ Len(<<c>>) = 1 /\ \A i \in 1..1 : <<c>>[i] = c
  BY <1>12
<1>14. \A i \in 1..1 : <<c>>[i] = Copy(View(Upto(ls, i)))
  <2>1. \A i \in 1..1 : i = 1
    OBVIOUS
  <2> QED
    BY <1>6, <1>10, <1>12, <1>13, <2>1
<1>15. Data(ls) = <<c>>
  BY <1>3, <1>4, <1>13, <1>14, SameData
<1> QED
  BY <1>11, <1>15 DEF ls, d, c

LEMMA Forking ==
  ASSUME NEW ls, Fine(ls)
  PROVE  /\ Fine(Append(ls, NewLevel)) /\ Len(Append(ls, NewLevel)) = Len(ls) + 1
         /\ Data(Append(ls, NewLevel)) = Append(Data(ls), Data(ls)[Len(ls)])
<1> DEFINE d == NewLevel
           k == Len(ls)
           ms == Append(ls, d)
<1>1. /\ ls \in Stacks /\ ls \in Seq(LevelSet) /\ k \in Nat /\ k >= 1 /\ Good(ls)
      /\ View(ls) \in NodeMaps /\ Apart(View(ls)) /\ Upto(ls, k) = ls
  BY FineTop, StackParts, UptoOfStack
<1>2. d \in LevelSet /\ Fits(d, View(ls)) /\ On(d, View(ls)) = View(ls) /\ Fresh(d, View(ls))
  BY <1>1, NewLevelSays
<1> HIDE DEF d
<1>3. /\ ms \in Seq(LevelSet) /\ Len(ms) = k + 1 /\ ms[k + 1] = d
      /\ \A i \in 1..k : ms[i] = ls[i]
  BY <1>1, <1>2
<1> HIDE DEF ms, k
<1>4. ms \in Stacks /\ TopOf(ms) = d
  <2>1. Len(<<>>) = 0
    OBVIOUS
  <2> QED
    BY <1>1, <1>3, <2>1 DEF Stacks, TopOf
<1>5. Below(ms) = ls
  <2> DEFINE b == Below(ms)
  <2>0. b \in Seq(LevelSet) /\ Len(b) = Len(ms) - 1 /\ \A i \in 1..(Len(ms) - 1) : b[i] = ms[i]
    BY <1>4, StackParts
  <2>1. b \in Seq(LevelSet) /\ Len(b) = k /\ \A i \in 1..k : b[i] = ms[i]
    <3>1. Len(ms) - 1 = k
      BY <1>1, <1>3
    <3> QED
      BY <2>0, <3>1
  <2> HIDE DEF b
  <2>2. \A i \in 1..Len(b) : b[i] = ls[i]
    BY <1>3, <2>1
  <2>3. Len(b) = Len(ls)
    BY <2>1 DEF k
  <2>4. b = ls
    BY <1>1, <2>1, <2>2, <2>3, SeqEqual
  <2> QED
    BY <2>4 DEF b
<1>6. View(ms) = View(ls)
  BY <1>2, <1>4, <1>5, ViewUnfolds
<1>7. Good(ms)
  BY <1>1, <1>2, <1>4, <1>5, <1>6, GoodUnfolds
<1>8. (\A i \in 1..k : Upto(ms, i) = Upto(ls, i)) /\ Upto(ms, k + 1) = ms
  <2>1. /\ Upto(ms, Len(ms)) = ms
        /\ \A i \in 0..(Len(ms) - 1) : Upto(Below(ms), i) = Upto(ms, i)
    BY <1>4, UptoOfStack
  <2>2. \A i \in 1..k : i \in 0..(Len(ms) - 1)
    BY <1>1, <1>3
  <2> QED
    BY <1>3, <1>5, <2>1, <2>2
<1>9. \A i \in 1..(k + 1) : i = k + 1 \/ i \in 1..k
  BY <1>1
<1>10. \A i \in 1..k : Apart(View(Upto(ls, i)))
  BY DEF Fine, k
<1>11. Fine(ms)
  BY <1>1, <1>3, <1>4, <1>6, <1>7, <1>8, <1>9, <1>10 DEF Fine
<1> DEFINE t == Data(ls)
           s == Append(t, t[k])
<1>12. /\ t \in Seq(Copies) /\ Len(t) = k /\ t[k] = Copy(View(ls))
       /\ \A i \in 1..k : t[i] = Copy(View(Upto(ls, i)))
  BY <1>1, DataParts DEF k
<1>13. t[k] \in Copies
  BY <1>1, <1>12 DEF Copies
<1> HIDE DEF t
<1>14. s \in Seq(Copies) /\ Len(s) = k + 1 /\ s[k + 1] = t[k] /\ \A i \in 1..k : s[i] = t[i]
  BY <1>1, <1>12, <1>13
<1> HIDE DEF s
<1>15. \A i \in 1..(k + 1) : s[i] = Copy(View(Upto(ms, i)))
  BY <1>6, <1>8, <1>9, <1>12, <1>14
<1>16. Data(ms) = s
  BY <1>3, <1>4, <1>14, <1>15, SameData
<1> QED
  BY <1>3, <1>11, <1>16 DEF ms, k, s, t, d

LEMMA Reverting ==
  ASSUME NEW ls, Fine(ls), Len(ls) # 1
  PROVE  /\ Fine(Below(ls)) /\ Len(Below(ls)) = Len(ls) - 1
         /\ Data(Below(ls)) = SubSeq(Data(ls), 1, Len(ls) - 1)
<1> DEFINE bs == Below(ls)
           k == Len(ls)
           t == Data(ls)
           s == SubSeq(t, 1, k - 1)
<1>1. /\ ls \in Stacks /\ Good(ls) /\ k \in Nat /\ k >= 1 /\ k # 1
      /\ bs \in Seq(LevelSet) /\ Len(bs) = k - 1
  BY FineTop, StackParts
<1>2. \A i \in 0..(k - 1) : Upto(bs, i) = Upto(ls, i)
  BY <1>1, UptoOfStack
<1>3. Good(bs)
  BY <1>1, GoodUnfolds
<1>4. \A i \in 1..(k - 1) : i \in 0..(k - 1) /\ i \in 1..k
  BY <1>1
<1>5. \A i \in 1..k : Apart(View(Upto(ls, i)))
  BY DEF Fine
<1>6. /\ t \in Seq(Copies) /\ Len(t) = k
      /\ \A i \in 1..k : t[i] = Copy(View(Upto(ls, i)))
  BY <1>1, DataParts
<1> HIDE DEF bs, k, t
<1>7. bs \in Stacks
  <2>1. Len(<<>>) = 0
    OBVIOUS
  <2> QED
    BY <1>1, <2>1 DEF Stacks
<1>8. Fine(bs)
  BY <1>1, <1>2, <1>3, <1>4, <1>5, <1>7 DEF Fine
<1>9. s \in Seq(Copies) /\ Len(s) = k - 1 /\ \A i \in 1..(k - 1) : s[i] = t[i]
  BY <1>1, <1>6
<1> HIDE DEF s
<1>10. \A i \in 1..(k - 1) : s[i] = Copy(View(Upto(bs, i)))
  BY <1>2, <1>4, <1>6, <1>9
<1>11. Data(bs) = s
  BY <1>1, <1>7, <1>9, <1>10, SameData
<1> QED
  BY <1>1, <1>8, <1>11 DEF bs, s, k, t

LEMMA CommittingStaysFine ==
  ASSUME NEW ls, Fine(ls), Len(ls) # 1
  PROVE  /\ Committed(ls).ok = TRUE /\ Fine(Committed(ls).levels)
         /\ Len(Committed(ls).levels) = Len(ls) - 1
         /\ Data(Committed(ls).levels) =
              Append(SubSeq(Data(ls), 1, Len(ls) - 2), Data(ls)[Len(ls)])
<1> DEFINE bs == Below(ls)
           k == Len(ls)
           ms == Committed(ls).levels
           t == Data(ls)
           c == Copy(View(ls))
           b == Data(bs)
           s == Append(SubSeq(t, 1, k - 2), t[k])
<1>1. /\ ls \in Stacks /\ Good(ls) /\ k \in Nat /\ k >= 1 /\ k # 1
      /\ View(ls) \in NodeMaps /\ Apart(View(ls))
  BY FineTop, StackParts
<1>2. Committed(ls).ok = TRUE /\ Changed(bs, ms, View(ls))
  BY <1>1, Committing DEF Does
<1>3. Fine(bs) /\ Len(bs) = k - 1 /\ b = SubSeq(t, 1, k - 1)
  BY Reverting
<1>4. t \in Seq(Copies) /\ Len(t) = k /\ t[k] = c
  BY <1>1, DataParts
<1> HIDE DEF ms, bs
<1>5. Fine(ms) /\ Len(ms) = k - 1 /\ Data(ms) = [b EXCEPT ![k - 1] = c]
  <2> DEFINE v == View(ls)
  <2>1. v \in NodeMaps /\ Apart(v) /\ Changed(bs, ms, v)
    BY <1>1, <1>2
  <2> HIDE DEF v, k, t, b
  <2>2. Fine(ms) /\ Len(ms) = Len(bs) /\ Data(ms) = [Data(bs) EXCEPT ![Len(bs)] = Copy(v)]
    BY <1>3, <2>1, ChangedStaysFine
  <2> QED
    BY <1>3, <2>2 DEF v, b
<1>6. c \in Copies
  BY <1>1 DEF Copies
<1> HIDE DEF k, t, c, b
<1>7. b \in Seq(Copies) /\ Len(b) = k - 1 /\ \A i \in 1..(k - 1) : b[i] = t[i]
  BY <1>1, <1>3, <1>4
<1> DEFINE e == [b EXCEPT ![k - 1] = c]
           j == k - 1
<1>8. j \in 1..j /\ j \in Nat
  BY <1>1
<1>9. Len(b) = j
  BY <1>7
<1> HIDE DEF j
<1>10. e \in Seq(Copies) /\ Len(e) = j /\ \A i \in 1..j : e[i] = IF i = j THEN c ELSE b[i]
  <2>1. e = [b EXCEPT ![j] = c]
    BY DEF j
  <2> HIDE DEF e
  <2> QED
    BY <1>6, <1>7, <1>8, <1>9, <2>1, ExceptSeq
<1> HIDE DEF e
<1>11. /\ s \in Seq(Copies) /\ Len(s) = k - 1 /\ s[k - 1] = c
       /\ \A i \in 1..(k - 2) : s[i] = t[i]
  BY <1>1, <1>4, <1>6
<1> HIDE DEF s
<1>12. \A i \in 1..Len(e) : e[i] = s[i]
  <2>1. \A i \in 1..j : i = j \/ (i \in 1..(k - 2) /\ i \in 1..(k - 1))
    BY <1>1 DEF j
  <2> QED
    BY <1>7, <1>10, <1>11, <2>1 DEF j
<1>13. Len(e) = Len(s)
  BY <1>10, <1>11 DEF j
<1>14. e = s
  BY <1>10, <1>11, <1>12, <1>13, SeqEqual
<1> QED
  BY <1>2, <1>5, <1>14 DEF e, s, ms, k, t

-----------------------------------------------------------------------------
(* The steps of the store.                                                 *)

StoreInv ==
  /\ Fine(levels) /\ Len(levels) <= MaxForks + 1
  /\ ok \in BOOLEAN

DataNow == Data(levels)

(* A step keeps the invariant and does what the store of copies does, or   *)
(* nothing.                                                                *)
StepIsRight == StoreInv' /\ [Basic!Next]_(Basic!basicVars)

LEMMA DataIsMapped == 
  /\ DataNow = [i \in DOMAIN levels |-> CopyOf(SubSeq(levels, 1, i))]
  /\ Basic!basicVars = <<DataNow, ok>>
BY DEF DataNow, Data, Basic!basicVars

(* What the topmost copy says. *)
LEMMA TopCopy ==
  ASSUME StoreInv
  PROVE  /\ Len(DataNow) = Len(levels) /\ DataNow \in Seq(Copies)
         /\ DataNow[Len(levels)] = Copy(View(levels))
         /\ Basic!Top = Len(levels) /\ Basic!Infos = View(levels)
         /\ DataNow[Basic!Top].pvcPods = Placed(View(levels)) \cap UsesClaim
<1>1. /\ Len(DataNow) = Len(levels) /\ DataNow \in Seq(Copies)
      /\ DataNow[Len(levels)] = Copy(View(levels))
  BY FineTop, DataParts DEF StoreInv, DataNow
<1>2. Basic!Top = Len(DataNow)
  BY DataIsMapped DEF Basic!Top
<1>3. Basic!Infos = DataNow[Basic!Top].nodeInfoMap
  BY DataIsMapped DEF Basic!Infos
<1> QED
  BY <1>1, <1>2, <1>3 DEF Copy

(* An operation that refuses. *)
LEMMA RefusedStep ==
  ASSUME StoreInv, NEW r, Refuses(levels, r), Return(r)
  PROVE  StoreInv' /\ DataNow' = DataNow /\ ok' = FALSE
<1> DEFINE v == View(levels)
<1>1. v \in NodeMaps /\ Apart(v) /\ Fine(levels) /\ levels \in Stacks
  BY FineTop DEF StoreInv
<1>2. levels' = r.levels /\ ok' = FALSE /\ Changed(levels, r.levels, v)
  BY DEF Refuses, Return
<1>3. DataNow \in Seq(Copies) /\ Len(DataNow) = Len(levels) /\ DataNow[Len(levels)] = Copy(v)
  BY TopCopy
<1> DEFINE ms == r.levels
<1> HIDE DEF v, ms
<1>4. /\ Fine(ms) /\ Len(ms) = Len(levels)
      /\ Data(ms) = [Data(levels) EXCEPT ![Len(levels)] = Copy(v)]
  BY <1>1, <1>2, ChangedStaysFine DEF ms
<1>5. [DataNow EXCEPT ![Len(levels)] = DataNow[Len(levels)]] = DataNow
  BY <1>3
<1>6. DataNow' = DataNow
  BY <1>2, <1>3, <1>4, <1>5 DEF DataNow, ms
<1>7. StoreInv'
  BY <1>2, <1>4 DEF StoreInv, ms
<1> QED
  BY <1>2, <1>6, <1>7

(* An operation that works. *)
LEMMA DoneStep ==
  ASSUME StoreInv, NEW m \in NodeMaps, Apart(m), NEW r, Does(levels, r, m), Return(r)
  PROVE  StoreInv' /\ DataNow' = [DataNow EXCEPT ![Basic!Top] = Copy(m)] /\ ok' = TRUE
<1> DEFINE ms == r.levels
<1>1. Fine(levels)
  BY DEF StoreInv
<1>2. levels' = ms /\ ok' = TRUE /\ Changed(levels, ms, m)
  BY DEF Does, Return
<1> HIDE DEF ms
<1>3. /\ Fine(ms) /\ Len(ms) = Len(levels)
      /\ Data(ms) = [Data(levels) EXCEPT ![Len(levels)] = Copy(m)]
  BY <1>1, <1>2, ChangedStaysFine
<1>4. StoreInv'
  BY <1>2, <1>3 DEF StoreInv
<1>5. Basic!Top = Len(levels)
  BY TopCopy
<1> QED
  BY <1>2, <1>3, <1>4, <1>5 DEF DataNow

LEMMA StoreNodeInfoStep ==
  ASSUME StoreInv, NEW n \in Nodes, NEW pods \in NodeInfos, StoreNodeInfo(n, pods)
  PROVE  StoreInv' /\ Basic!StoreNodeInfo(n, pods)
<1> DEFINE v == View(levels)
           w == [v EXCEPT ![n] = pods]
           r == AddNodeInfo(levels, n, pods)
<1>1. levels \in Stacks /\ Good(levels) /\ v \in NodeMaps /\ Apart(v)
  BY FineTop DEF StoreInv
<1>2. pods \cap Placed(v) = {} /\ Return(r)
  BY DEF StoreNodeInfo
<1>3. pods # Absent /\ PodsOf(pods) = pods
  BY StoreAssumption DEF NodeInfos, PodsOf
<1>4. /\ v[n] # Absent => Refuses(levels, r)
      /\ v[n] = Absent => Does(levels, r, w)
  BY <1>1, AddingANode
<1>5. Basic!Infos = v /\ DataNow[Basic!Top].pvcPods = Placed(v) \cap UsesClaim
  BY TopCopy
<1>6. Basic!Placed(v) = Placed(v)
  BY DEF Basic!Placed, Placed, Present
<1> HIDE DEF r, v
<1>7. CASE v[n] # Absent
  <2>1. StoreInv' /\ DataNow' = DataNow /\ ok' = FALSE
    BY <1>2, <1>4, <1>7, RefusedStep
  <2>2. Basic!Fails
    BY <2>1, DataIsMapped DEF Basic!Fails, DataNow, Data
  <2> QED
    BY <1>2, <1>5, <1>6, <1>7, <2>1, <2>2 DEF Basic!StoreNodeInfo
<1>8. CASE v[n] = Absent
  <2>1. w \in NodeMaps
    BY <1>1 DEF NodeMaps
  <2>2. PodsOf(v[n]) = {}
    BY <1>8 DEF PodsOf
  <2>3. Placed(w) = Placed(v) \cup pods /\ Apart(w)
    <3>1. /\ Placed(w) = (Placed(v) \ PodsOf(v[n])) \cup PodsOf(pods)
          /\ PodsOf(pods) \cap (Placed(v) \ PodsOf(v[n])) = {} => Apart(w)
      BY <1>1, PlacedAfter
    <3> HIDE DEF w
    <3> QED
      BY <1>2, <1>3, <2>2, <3>1
  <2> HIDE DEF w
  <2>4. StoreInv' /\ DataNow' = [DataNow EXCEPT ![Basic!Top] = Copy(w)] /\ ok' = TRUE
    BY <1>2, <1>4, <1>8, <2>1, <2>3, DoneStep
  <2>5. Copy(w) = [nodeInfoMap |-> w, pvcPods |-> (Placed(v) \cap UsesClaim) \cup (pods \cap UsesClaim)]
    BY <2>3 DEF Copy
  <2>6. Basic!Becomes([Basic!Infos EXCEPT ![n] = pods],
                      DataNow[Basic!Top].pvcPods \union (pods \intersect UsesClaim))
    BY <1>5, <2>4, <2>5, DataIsMapped DEF Basic!Becomes, w, DataNow, Data
  <2> QED
    BY <1>2, <1>5, <1>6, <1>8, <2>4, <2>6, DataIsMapped DEF Basic!StoreNodeInfo, Basic!Works, DataNow, Data
<1> QED
  BY <1>7, <1>8

(* Ingredients that the other steps share. *)
LEMMA CopyStep ==
  ASSUME StoreInv, NEW m \in NodeMaps, Apart(m), NEW users, NEW r,
         Does(levels, r, m), Return(r), users = Placed(m) \cap UsesClaim
  PROVE  StoreInv' /\ Basic!Becomes(m, users) /\ Basic!Works
<1>1. StoreInv' /\ DataNow' = [DataNow EXCEPT ![Basic!Top] = Copy(m)] /\ ok' = TRUE
  BY DoneStep
<1>2. Copy(m) = [nodeInfoMap |-> m, pvcPods |-> users]
  BY DEF Copy
<1> QED
  BY <1>1, <1>2, DataIsMapped DEF Basic!Becomes, Basic!Works, DataNow, Data

LEMMA FailStep ==
  ASSUME StoreInv, NEW r, Refuses(levels, r), Return(r)
  PROVE  StoreInv' /\ Basic!Fails
<1>1. StoreInv' /\ DataNow' = DataNow /\ ok' = FALSE
  BY RefusedStep
<1> QED
  BY <1>1 DEF Basic!Fails, DataNow, Data

LEMMA BasicSees ==
  ASSUME StoreInv
  PROVE  /\ levels \in Stacks /\ Good(levels) /\ View(levels) \in NodeMaps /\ Apart(View(levels))
         /\ Basic!Infos = View(levels) /\ Basic!Placed(View(levels)) = Placed(View(levels))
         /\ [i \in DOMAIN levels |-> CopyOf(SubSeq(levels, 1, i))][Basic!Top].pvcPods
              = Placed(View(levels)) \cap UsesClaim
<1>1. levels \in Stacks /\ Good(levels) /\ View(levels) \in NodeMaps /\ Apart(View(levels))
  BY FineTop DEF StoreInv
<1>2. Basic!Infos = View(levels) /\ DataNow[Basic!Top].pvcPods = Placed(View(levels)) \cap UsesClaim
  BY TopCopy
<1>3. Basic!Placed(View(levels)) = Placed(View(levels))
  BY DEF Basic!Placed, Placed, Present
<1> QED
  BY <1>1, <1>2, <1>3 DEF DataNow, Data

LEMMA RemoveNodeInfoStep ==
  ASSUME StoreInv, NEW n \in Nodes, RemoveNodeInfo(n)
  PROVE  StoreInv' /\ Basic!RemoveNodeInfo(n)
<1> DEFINE v == View(levels)
           w == [v EXCEPT ![n] = Absent]
           r == RemoveFromLevel(levels, n)
<1>1. levels \in Stacks /\ Good(levels) /\ v \in NodeMaps /\ Apart(v) /\ Basic!Infos = v
  BY BasicSees
<1>2. [i \in DOMAIN levels |-> CopyOf(SubSeq(levels, 1, i))][Basic!Top].pvcPods = Placed(v) \cap UsesClaim
  BY BasicSees
<1>3. Return(r)
  BY DEF RemoveNodeInfo
<1>4. /\ v[n] = Absent => Refuses(levels, r)
      /\ v[n] # Absent => Does(levels, r, w)
  BY <1>1, RemovingANode
<1> HIDE DEF r, v
<1>5. CASE v[n] = Absent
  <2>1. StoreInv' /\ Basic!Fails
    BY <1>3, <1>4, <1>5, FailStep
  <2> QED
    BY <1>1, <1>5, <2>1 DEF Basic!RemoveNodeInfo
<1>6. CASE v[n] # Absent
  <2> DEFINE users == (Placed(v) \cap UsesClaim) \ v[n]
  <2>1. w \in NodeMaps
    BY <1>1 DEF NodeMaps
  <2>2. PodsOf(v[n]) = v[n] /\ PodsOf(Absent) = {}
    BY <1>6 DEF PodsOf
  <2>3. Placed(w) = Placed(v) \ v[n] /\ Apart(w)
    <3>1. /\ Placed(w) = (Placed(v) \ PodsOf(v[n])) \cup PodsOf(Absent)
          /\ PodsOf(Absent) \cap (Placed(v) \ PodsOf(v[n])) = {} => Apart(w)
      BY <1>1, PlacedAfter
    <3> HIDE DEF w
    <3> QED
      BY <2>2, <3>1
  <2> HIDE DEF w
  <2>4. users = Placed(w) \cap UsesClaim
    BY <2>3
  <2> HIDE DEF users
  <2>5. StoreInv' /\ Basic!Becomes(w, users) /\ Basic!Works
    BY <1>3, <1>4, <1>6, <2>1, <2>3, <2>4, CopyStep
  <2> QED
    BY <1>1, <1>2, <1>6, <2>5 DEF Basic!RemoveNodeInfo, w, users
<1> QED
  BY <1>5, <1>6

LEMMA StorePodInfoStep ==
  ASSUME StoreInv, NEW n \in Nodes, NEW p \in Pods, StorePodInfo(p, n)
  PROVE  StoreInv' /\ Basic!StorePodInfo(p, n)
<1> DEFINE v == View(levels)
           pods == v[n] \cup {p}
           w == [v EXCEPT ![n] = pods]
           r == AddPodInfo(levels, p, n)
<1>1. levels \in Stacks /\ Good(levels) /\ v \in NodeMaps /\ Apart(v)
      /\ Basic!Infos = v /\ Basic!Placed(v) = Placed(v)
  BY BasicSees
<1>2. [i \in DOMAIN levels |-> CopyOf(SubSeq(levels, 1, i))][Basic!Top].pvcPods = Placed(v) \cap UsesClaim
  BY BasicSees
<1>3. Return(r) /\ p \notin Placed(v)
  BY DEF StorePodInfo
<1>4. /\ v[n] = Absent => Refuses(levels, r)
      /\ v[n] # Absent => Does(levels, r, w)
  BY <1>1, PlacingAPod
<1> HIDE DEF r, v
<1>5. CASE v[n] = Absent
  <2>1. StoreInv' /\ Basic!Fails
    BY <1>3, <1>4, <1>5, FailStep
  <2> QED
    BY <1>1, <1>3, <1>5, <2>1 DEF Basic!StorePodInfo
<1>6. CASE v[n] # Absent
  <2> DEFINE users == (Placed(v) \cap UsesClaim) \cup ({p} \cap UsesClaim)
  <2>1. pods \in NodeInfos /\ w \in NodeMaps
    BY <1>1, <1>6 DEF NodeMaps, NodeInfos
  <2>2. PodsOf(v[n]) = v[n] /\ PodsOf(pods) = pods
    BY <1>6, <2>1, StoreAssumption DEF PodsOf, NodeInfos
  <2>3. \A q \in v[n] : q \in Placed(v)
    BY <1>6 DEF Placed, Present
  <2>4. Placed(w) = Placed(v) \cup {p} /\ Apart(w)
    <3> HIDE DEF pods
    <3>1. /\ Placed(w) = (Placed(v) \ PodsOf(v[n])) \cup PodsOf(pods)
          /\ PodsOf(pods) \cap (Placed(v) \ PodsOf(v[n])) = {} => Apart(w)
      BY <1>1, <2>1, PlacedAfter
    <3> HIDE DEF w
    <3> QED
      BY <1>3, <2>2, <2>3, <3>1 DEF pods
  <2>5. w = [v EXCEPT ![n] = @ \cup {p}]
    OBVIOUS
  <2> HIDE DEF w
  <2>6. users = Placed(w) \cap UsesClaim
    BY <2>4
  <2> HIDE DEF users
  <2>7. StoreInv' /\ Basic!Becomes(w, users) /\ Basic!Works
    BY <1>3, <1>4, <1>6, <2>1, <2>4, <2>6, CopyStep
  <2> QED
    BY <1>1, <1>2, <1>3, <1>6, <2>5, <2>7 DEF Basic!StorePodInfo, users
<1> QED
  BY <1>5, <1>6

LEMMA RemovePodInfoStep ==
  ASSUME StoreInv, NEW n \in Nodes, NEW p \in Pods, RemovePodInfo(p, n)
  PROVE  StoreInv' /\ Basic!RemovePodInfo(p, n)
<1> DEFINE v == View(levels)
           pods == v[n] \ {p}
           w == [v EXCEPT ![n] = pods]
           r == RemovePod(levels, p, n)
<1>1. levels \in Stacks /\ Good(levels) /\ v \in NodeMaps /\ Apart(v) /\ Basic!Infos = v
  BY BasicSees
<1>2. [i \in DOMAIN levels |-> CopyOf(SubSeq(levels, 1, i))][Basic!Top].pvcPods = Placed(v) \cap UsesClaim
  BY BasicSees
<1>3. Return(r)
  BY DEF RemovePodInfo
<1>4. /\ v[n] = Absent \/ p \notin v[n] => Refuses(levels, r)
      /\ v[n] # Absent /\ p \in v[n] => Does(levels, r, w)
  BY <1>1, UnplacingAPod
<1> HIDE DEF r, v
<1>5. CASE v[n] = Absent \/ p \notin v[n]
  <2>1. StoreInv' /\ Basic!Fails
    BY <1>3, <1>4, <1>5, FailStep
  <2> QED
    BY <1>1, <1>5, <2>1 DEF Basic!RemovePodInfo
<1>6. CASE v[n] # Absent /\ p \in v[n]
  <2> DEFINE users == (Placed(v) \cap UsesClaim) \ {p}
  <2>1. pods \in NodeInfos /\ w \in NodeMaps
    BY <1>1, <1>6 DEF NodeMaps, NodeInfos
  <2>2. PodsOf(v[n]) = v[n] /\ PodsOf(pods) = pods
    BY <1>6, <2>1, StoreAssumption DEF PodsOf, NodeInfos
  <2>3. \A q \in v[n] : q \in Placed(v)
    BY <1>6 DEF Placed, Present
  <2>4. Placed(w) = Placed(v) \ {p} /\ Apart(w)
    <3> HIDE DEF pods
    <3>1. /\ Placed(w) = (Placed(v) \ PodsOf(v[n])) \cup PodsOf(pods)
          /\ PodsOf(pods) \cap (Placed(v) \ PodsOf(v[n])) = {} => Apart(w)
      BY <1>1, <2>1, PlacedAfter
    <3> HIDE DEF w
    <3> QED
      BY <1>6, <2>2, <2>3, <3>1 DEF pods
  <2>5. w = [v EXCEPT ![n] = @ \ {p}]
    OBVIOUS
  <2> HIDE DEF w
  <2>6. users = Placed(w) \cap UsesClaim
    BY <2>4
  <2> HIDE DEF users
  <2>7. StoreInv' /\ Basic!Becomes(w, users) /\ Basic!Works
    BY <1>3, <1>4, <1>6, <2>1, <2>4, <2>6, CopyStep
  <2> QED
    BY <1>1, <1>2, <1>6, <2>5, <2>7 DEF Basic!RemovePodInfo, users
<1> QED
  BY <1>5, <1>6

LEMMA ForkStep ==
  ASSUME StoreInv, Fork
  PROVE  StoreInv' /\ Basic!Fork
<1>1. Fine(levels) /\ Len(levels) <= MaxForks /\ levels' = Append(levels, NewLevel) /\ ok' = ok
  BY DEF StoreInv, Fork
<1>2. Len(levels) \in Nat /\ MaxForks \in Nat
  BY FineTop, StackParts, StoreAssumption DEF StoreInv
<1>3. /\ Fine(levels') /\ Len(levels') = Len(levels) + 1
      /\ DataNow' = Append(DataNow, DataNow[Len(levels)])
  BY <1>1, Forking DEF DataNow
<1>4. StoreInv'
  BY <1>1, <1>2, <1>3 DEF StoreInv
<1>5. Basic!Top = Len(levels)
  BY TopCopy
<1> QED
  BY <1>1, <1>3, <1>4, <1>5 DEF Basic!Fork, DataNow, Data

LEMMA RevertStep ==
  ASSUME StoreInv, Revert
  PROVE  StoreInv' /\ Basic!Revert
<1>1. Fine(levels) /\ ok' = ok /\ levels' = IF Len(levels) = 1 THEN levels ELSE Below(levels)
  BY DEF StoreInv, Revert
<1>2. Len(levels) \in Nat /\ MaxForks \in Nat /\ Basic!Top = Len(levels)
  BY FineTop, StackParts, TopCopy, StoreAssumption DEF StoreInv
<1>3. CASE Len(levels) = 1
  <2>1. levels' = levels
    BY <1>1, <1>3
  <2>2. StoreInv'
    BY <1>1, <2>1 DEF StoreInv
  <2>3. DataNow' = DataNow
    BY <2>1 DEF DataNow
  <2> QED
    BY <1>1, <1>2, <1>3, <2>2, <2>3 DEF Basic!Revert, DataNow, Data
<1>4. CASE Len(levels) # 1
  <2>1. /\ Fine(levels') /\ Len(levels') = Len(levels) - 1
        /\ DataNow' = SubSeq(DataNow, 1, Len(levels) - 1)
    BY <1>1, <1>4, Reverting DEF DataNow
  <2>2. StoreInv'
    BY <1>1, <1>2, <2>1 DEF StoreInv
  <2> QED
    BY <1>1, <1>2, <1>4, <2>1, <2>2 DEF Basic!Revert, DataNow, Data
<1> QED
  BY <1>3, <1>4

LEMMA CommitStep ==
  ASSUME StoreInv, Commit
  PROVE  StoreInv' /\ Basic!Commit
<1>1. Fine(levels)
  BY DEF StoreInv
<1>2. Len(levels) \in Nat /\ MaxForks \in Nat /\ Basic!Top = Len(levels)
  BY FineTop, StackParts, TopCopy, StoreAssumption DEF StoreInv
<1>3. CASE Len(levels) = 1
  <2>1. levels' = levels /\ ok' = TRUE
    BY <1>3 DEF Commit
  <2>2. StoreInv'
    BY <1>1, <2>1 DEF StoreInv
  <2>3. DataNow' = DataNow
    BY <2>1 DEF DataNow
  <2> QED
    BY <1>2, <1>3, <2>1, <2>2, <2>3 DEF Basic!Commit, Basic!Works, DataNow, Data
<1>4. CASE Len(levels) # 1
  <2>1. levels' = Committed(levels).levels /\ ok' = Committed(levels).ok
    BY <1>4 DEF Commit, Return
  <2>2. /\ ok' = TRUE /\ Fine(levels') /\ Len(levels') = Len(levels) - 1
        /\ DataNow' = Append(SubSeq(DataNow, 1, Len(levels) - 2), DataNow[Len(levels)])
    BY <1>1, <1>4, <2>1, CommittingStaysFine DEF DataNow
  <2>3. StoreInv'
    BY <1>2, <2>2 DEF StoreInv
  <2> QED
    BY <1>2, <1>4, <2>2, <2>3 DEF Basic!Commit, Basic!Works, DataNow, Data
<1> QED
  BY <1>3, <1>4

LEMMA ClearStep ==
  ASSUME StoreInv, Clear
  PROVE  StoreInv' /\ Basic!Clear
<1>1. levels' = <<NewLevel>> /\ ok' = ok
  BY DEF Clear
<1>2. Fine(levels') /\ DataNow' = <<[nodeInfoMap |-> NoNodes, pvcPods |-> {}]>> /\ Len(levels') = 1
  BY <1>1, FirstLevel DEF DataNow
<1>3. StoreInv'
  BY <1>1, <1>2, StoreAssumption DEF StoreInv
<1> QED
  BY <1>1, <1>2, <1>3 DEF Basic!Clear, Basic!Empty, NoNodes, DataNow, Data

-----------------------------------------------------------------------------
(* The readers.                                                            *)

LEMMA ListStep ==
  ASSUME StoreInv, List
  PROVE  StoreInv' /\ DataNow' = DataNow /\ ok' = ok
<1>1. Fine(levels) /\ levels' = WithLists(levels) /\ ok' = ok
  BY DEF StoreInv, List
<1>2. SameLevels(levels, WithLists(levels)) /\ Good(WithLists(levels))
  BY <1>1, FineTop, BuildingLists
<1>3. Fine(levels') /\ Data(levels') = Data(levels) /\ Len(levels') = Len(levels)
  BY <1>1, <1>2, SameStaysFine DEF SameLevels
<1> QED
  BY <1>1, <1>3 DEF StoreInv, DataNow

(* Another cache is built from the list. *)
LEMMA ReaderStep ==
  ASSUME StoreInv, NEW e \in LevelSet,
         Alike(TopOf(WithLists(levels)), e), Fresh(e, View(levels)),
         levels' = WithTop(WithLists(levels), e), ok' = ok
  PROVE  StoreInv' /\ DataNow' = DataNow /\ ok' = ok
<1> DEFINE ls == WithLists(levels)
           v == View(ls)
           m == View(Below(ls))
           ms == WithTop(ls, e)
<1>1. Fine(levels) /\ levels \in Stacks
  BY FineTop DEF StoreInv
<1>2. SameLevels(levels, ls) /\ Good(ls) /\ Len(ls) = Len(levels)
  BY <1>1, FineTop, BuildingLists DEF SameLevels
<1>3. Fine(ls) /\ Data(ls) = Data(levels)
  BY <1>1, <1>2, SameStaysFine
<1>4. v = View(levels)
  <2>1. /\ Upto(levels, Len(levels)) = levels /\ Upto(ls, Len(ls)) = ls
        /\ Len(levels) \in 0..Len(levels)
    BY <1>1, <1>3, FineTop, UptoOfStack, StackParts
  <2>2. \A i \in 0..Len(levels) : View(Upto(ls, i)) = View(Upto(levels, i))
    BY <1>1, <1>2, SameLevelsSaySame
  <2> QED
    BY <1>2, <2>1, <2>2
<1> HIDE DEF ls
<1>5. ls \in Stacks /\ Good(ls) /\ v \in NodeMaps /\ Apart(v)
  BY <1>3, FineTop
<1>6. Fits(TopOf(ls), m) /\ v = On(TopOf(ls), m)
  BY <1>5, TopFacts
<1>7. Alike(TopOf(ls), e) /\ Fresh(e, v)
  BY <1>4 DEF ls
<1> HIDE DEF v, m
<1>8. Fits(e, m) /\ On(e, m) = v
  BY <1>6, <1>7, AlikeSaysTheSame
<1>9. Changed(ls, ms, v)
  BY <1>5, <1>7, <1>8, TopChanged DEF m
<1> HIDE DEF ms
<1>10. Fine(ms) /\ Len(ms) = Len(ls) /\ Data(ms) = [Data(ls) EXCEPT ![Len(ls)] = Copy(v)]
  BY <1>3, <1>5, <1>9, ChangedStaysFine
<1>11. Data(ls) \in Seq(Copies) /\ Len(Data(ls)) = Len(ls) /\ Data(ls)[Len(ls)] = Copy(v)
  BY <1>5, DataParts DEF v
<1>12. [Data(ls) EXCEPT ![Len(ls)] = Data(ls)[Len(ls)]] = Data(ls)
  BY <1>11
<1>13. Data(ms) = Data(levels)
  BY <1>3, <1>10, <1>11, <1>12
<1>14. levels' = ms
  BY DEF ms, ls
<1> QED
  BY <1>2, <1>10, <1>13, <1>14 DEF StoreInv, DataNow

LEMMA HavePodsWithAffinityListStep ==
  ASSUME StoreInv, HavePodsWithAffinityList
  PROVE  StoreInv' /\ DataNow' = DataNow /\ ok' = ok
<1> DEFINE ls == WithLists(levels)
           d == TopOf(ls)
           v == View(levels)
           some == NodesWith(d.list, HasAffinity)
           e == [d EXCEPT !.affinity = some]
<1>1. levels' = WithTop(ls, e) /\ ok' = ok
  BY DEF HavePodsWithAffinityList, TopOf
<1>2. levels \in Stacks /\ Good(levels) /\ v \in NodeMaps
  BY FineTop DEF StoreInv
<1>3. SameLevels(levels, ls) /\ Good(ls) /\ d.list = ListOf(v)
  BY <1>2, BuildingLists
<1>4. d \in LevelSet /\ ls \in Stacks
  BY <1>3, StackParts DEF SameLevels
<1>5. View(ls) = v
  <2>1. /\ Upto(levels, Len(levels)) = levels /\ Upto(ls, Len(ls)) = ls
        /\ Len(levels) \in 0..Len(levels) /\ Len(ls) = Len(levels)
    BY <1>2, <1>3, <1>4, UptoOfStack, StackParts DEF SameLevels
  <2>2. \A i \in 0..Len(levels) : View(Upto(ls, i)) = View(Upto(levels, i))
    BY <1>2, <1>3, SameLevelsSaySame
  <2> QED
    BY <2>1, <2>2
<1>6. Fresh(d, v)
  BY <1>3, <1>4, <1>5, TopFacts
<1>7. some = NodesWith(ListOf(v), HasAffinity) /\ some \in SUBSET Nodes
  BY <1>3 DEF NodesWith
<1> HIDE DEF some, d, v, ls
<1>8. /\ e \in LevelSet /\ Alike(d, e) /\ e.affinity = some
      /\ e.list = d.list /\ e.claims = d.claims
  BY <1>4, <1>7 DEF LevelSet, Alike
<1> HIDE DEF e
<1>9. Fresh(e, v)
  BY <1>6, <1>7, <1>8 DEF Fresh
<1> QED
  BY <1>1, <1>8, <1>9, ReaderStep DEF ls, d, v

LEMMA IsPVCUsedByPodsStep ==
  ASSUME StoreInv, IsPVCUsedByPods
  PROVE  StoreInv' /\ DataNow' = DataNow /\ ok' = ok
<1> DEFINE ls == WithLists(levels)
           d == TopOf(ls)
           v == View(levels)
           some == UsersIn(d.list)
           e == [d EXCEPT !.claims = some]
<1>1. levels' = WithTop(ls, e) /\ ok' = ok
  BY DEF IsPVCUsedByPods, TopOf
<1>2. levels \in Stacks /\ Good(levels) /\ v \in NodeMaps
  BY FineTop DEF StoreInv
<1>3. SameLevels(levels, ls) /\ Good(ls) /\ d.list = ListOf(v)
  BY <1>2, BuildingLists
<1>4. d \in LevelSet /\ ls \in Stacks
  BY <1>3, StackParts DEF SameLevels
<1>5. View(ls) = v
  <2>1. /\ Upto(levels, Len(levels)) = levels /\ Upto(ls, Len(ls)) = ls
        /\ Len(levels) \in 0..Len(levels) /\ Len(ls) = Len(levels)
    BY <1>2, <1>3, <1>4, UptoOfStack, StackParts DEF SameLevels
  <2>2. \A i \in 0..Len(levels) : View(Upto(ls, i)) = View(Upto(levels, i))
    BY <1>2, <1>3, SameLevelsSaySame
  <2> QED
    BY <2>1, <2>2
<1>6. Fresh(d, v)
  BY <1>3, <1>4, <1>5, TopFacts
<1>7. some = UsersIn(ListOf(v)) /\ some \in SUBSET Pods
  <2>1. some = UsersIn(ListOf(v))
    BY <1>3
  <2>2. UsersIn(ListOf(v)) = Placed(v) \cap UsesClaim
    BY <1>2, ListOfMap
  <2> HIDE DEF v
  <2>3. Placed(v) \in SUBSET Pods
    <3>1. \A n \in Present(v) : v[n] \in SUBSET Pods
      BY <1>2 DEF Present, NodeMaps, NodeInfos
    <3> QED
      BY <3>1 DEF Placed
  <2> QED
    BY <2>1, <2>2, <2>3
<1> HIDE DEF some, d, v, ls
<1>8. /\ e \in LevelSet /\ Alike(d, e) /\ e.claims = some
      /\ e.list = d.list /\ e.affinity = d.affinity
  BY <1>4, <1>7 DEF LevelSet, Alike
<1> HIDE DEF e
<1>9. Fresh(e, v)
  BY <1>6, <1>7, <1>8 DEF Fresh
<1> QED
  BY <1>1, <1>8, <1>9, ReaderStep DEF ls, d, v

-----------------------------------------------------------------------------
(* The results.                                                            *)

LEMMA InitRight ==
  ASSUME Init
  PROVE  StoreInv /\ Basic!Init
<1>1. levels = <<NewLevel>> /\ ok = TRUE
  BY DEF Init
<1>2. Fine(levels) /\ DataNow = <<[nodeInfoMap |-> NoNodes, pvcPods |-> {}]>> /\ Len(levels) = 1
  BY <1>1, FirstLevel DEF DataNow
<1>3. StoreInv
  BY <1>1, <1>2, StoreAssumption DEF StoreInv
<1> QED
  BY <1>1, <1>2, <1>3 DEF Basic!Init, Basic!Empty, NoNodes, DataNow, Data

LEMMA NextRight ==
  ASSUME StoreInv, [Next]_deltaVars
  PROVE  StepIsRight
<1>1. ASSUME StoreInv', DataNow' = DataNow, ok' = ok PROVE StepIsRight
  BY <1>1 DEF StepIsRight, Basic!basicVars, DataNow, Data
<1>2. ASSUME StoreInv', Basic!Next PROVE StepIsRight
  BY <1>2 DEF StepIsRight
<1>3. ASSUME NEW n \in Nodes, NEW pods \in NodeInfos, StoreNodeInfo(n, pods) PROVE StepIsRight
  <2>1. StoreInv' /\ Basic!StoreNodeInfo(n, pods)
    BY <1>3, StoreNodeInfoStep
  <2>2. pods \in Basic!NodeInfos
    BY DEF NodeInfos, Basic!NodeInfos
  <2>3. Basic!Next
    BY <2>1, <2>2 DEF Basic!Next
  <2> QED
    BY <1>2, <2>1, <2>3
<1>4. ASSUME NEW n \in Nodes, RemoveNodeInfo(n) PROVE StepIsRight
  <2>1. StoreInv' /\ Basic!RemoveNodeInfo(n)
    BY <1>4, RemoveNodeInfoStep
  <2>2. Basic!Next
    BY <2>1 DEF Basic!Next
  <2> QED
    BY <1>2, <2>1, <2>2
<1>5. ASSUME NEW n \in Nodes, NEW p \in Pods, StorePodInfo(p, n) PROVE StepIsRight
  <2>1. StoreInv' /\ Basic!StorePodInfo(p, n)
    BY <1>5, StorePodInfoStep
  <2>2. Basic!Next
    BY <2>1 DEF Basic!Next
  <2> QED
    BY <1>2, <2>1, <2>2
<1>6. ASSUME NEW n \in Nodes, NEW p \in Pods, RemovePodInfo(p, n) PROVE StepIsRight
  <2>1. StoreInv' /\ Basic!RemovePodInfo(p, n)
    BY <1>6, RemovePodInfoStep
  <2>2. Basic!Next
    BY <2>1 DEF Basic!Next
  <2> QED
    BY <1>2, <2>1, <2>2
<1>7. CASE Fork
  <2>1. StoreInv' /\ Basic!Fork
    BY <1>7, ForkStep
  <2>2. Basic!Next
    BY <2>1 DEF Basic!Next
  <2> QED
    BY <1>2, <2>1, <2>2
<1>8. CASE Revert
  <2>1. StoreInv' /\ Basic!Revert
    BY <1>8, RevertStep
  <2>2. Basic!Next
    BY <2>1 DEF Basic!Next
  <2> QED
    BY <1>2, <2>1, <2>2
<1>9. CASE Commit
  <2>1. StoreInv' /\ Basic!Commit
    BY <1>9, CommitStep
  <2>2. Basic!Next
    BY <2>1 DEF Basic!Next
  <2> QED
    BY <1>2, <2>1, <2>2
<1>10. CASE Clear
  <2>1. StoreInv' /\ Basic!Clear
    BY <1>10, ClearStep
  <2>2. Basic!Next
    BY <2>1 DEF Basic!Next
  <2> QED
    BY <1>2, <2>1, <2>2
<1>11. CASE List
  BY <1>1, <1>11, ListStep
<1>12. CASE HavePodsWithAffinityList
  BY <1>1, <1>12, HavePodsWithAffinityListStep
<1>13. CASE IsPVCUsedByPods
  BY <1>1, <1>13, IsPVCUsedByPodsStep
<1>14. CASE UNCHANGED deltaVars
  <2>1. levels' = levels /\ ok' = ok
    BY <1>14 DEF deltaVars
  <2>2. StoreInv' /\ DataNow' = DataNow
    BY <2>1 DEF StoreInv, DataNow
  <2> QED
    BY <1>1, <2>1, <2>2
<1> QED
  BY <1>3, <1>4, <1>5, <1>6, <1>7, <1>8, <1>9, <1>10, <1>11, <1>12, <1>13, <1>14 DEF Next

LEMMA StoreInvariant ==
  Spec => []StoreInv
<1>1. Init => StoreInv
  BY InitRight
<1>2. StoreInv /\ [Next]_deltaVars => StoreInv'
  BY NextRight DEF StepIsRight
<1> QED
  BY <1>1, <1>2, PTL DEF Spec

(* No list, nor what is read off it, that a level of the store keeps is    *)
(* stale, whatever was forked, committed or reverted since it was built.   *)
THEOREM NoCacheIsStale ==
  Spec => []CachesFresh
<1>1. StoreInv => CachesFresh
  <2> SUFFICES ASSUME StoreInv, NEW i \in DOMAIN levels
               PROVE  Fresh(levels[i], View(SubSeq(levels, 1, i)))
    BY DEF CachesFresh, Fresh
  <2>1. i \in 1..Len(levels)
    BY FineTop, StackParts DEF StoreInv
  <2> QED
    BY <2>1 DEF StoreInv, Fine, Good, Upto
<1> QED
  BY <1>1, StoreInvariant, PTL

(* The levels of the store keep their types, and contradict neither        *)
(* themselves nor the levels below them.                                   *)
THEOREM LevelsAreConsistent ==
  Spec => []LevelsConsistent
<1>1. ASSUME StoreInv PROVE DeltaTypeOK
  <2>1. /\ levels \in Stacks /\ DOMAIN levels = 1..Len(levels)
        /\ Len(levels) \in Nat /\ Len(levels) >= 1
        /\ \A i \in 1..Len(levels) : levels[i] \in LevelSet
    BY <1>1, FineTop, StackParts DEF StoreInv
  <2>2. Len(levels) \in 1..(MaxForks + 1) /\ ok \in BOOLEAN
    BY <1>1, <2>1, StoreAssumption DEF StoreInv
  <2>3. \A d \in LevelSet :
          /\ d.added \in NodeMaps /\ d.modified \in NodeMaps /\ d.deleted \subseteq Nodes
          /\ d.list = NotBuilt \/ d.list \in Lists
          /\ d.affinity = NotBuilt \/ d.affinity \subseteq Nodes
          /\ d.claims = NotBuilt \/ d.claims \subseteq Pods
    BY DEF LevelSet
  <2> QED
    BY <2>1, <2>2, <2>3 DEF DeltaTypeOK
<1>2. ASSUME StoreInv PROVE LevelsFit
  <2>1. ASSUME NEW i \in DOMAIN levels PROVE Fits(levels[i], View(SubSeq(levels, 1, i - 1)))
    <3>1. i \in 1..Len(levels)
      BY <1>2, FineTop, StackParts DEF StoreInv
    <3> QED
      BY <1>2, <3>1 DEF StoreInv, Fine, Good, Upto
  <2> QED
    BY <2>1 DEF LevelsFit, Fits, View
<1>3. StoreInv => LevelsConsistent
  BY <1>1, <1>2 DEF LevelsConsistent
<1> QED
  BY <1>3, StoreInvariant, PTL

(* The store of changes implements the store of copies: every operation    *)
(* fails or works as it does there and leaves the same nodes, pods and     *)
(* claims at every level, and a commit always works.                       *)
THEOREM StoreAnswersLikeCopies ==
  Spec => StoreImplementsBasic
<1>1. Init => Basic!Init
  BY InitRight
<1>2. StoreInv /\ [Next]_deltaVars => [Basic!Next]_(Basic!basicVars)
  BY NextRight DEF StepIsRight
<1> QED
  BY <1>1, <1>2, StoreInvariant, PTL DEF Spec, StoreImplementsBasic, Basic!Spec
=============================================================================
