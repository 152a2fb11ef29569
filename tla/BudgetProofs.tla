----------------------------- MODULE BudgetProofs ----------------------------
(***************************************************************************)
(* What CropNodes promises, for any nodes, groups, limits, candidates and  *)
(* deletions in progress.                                                  *)
(***************************************************************************)
EXTENDS Budgets, FiniteSetTheorems, SequenceTheorems, NaturalsInduction, WellFoundedInduction, TLAPS

-----------------------------------------------------------------------------
(* Induction, about a set of numbers: whatever its complement has a least  *)
(* element of.                                                             *)
LEMMA Induction ==
  ASSUME NEW S, 0 \in S, \A n \in Nat : n \in S => n + 1 \in S
  PROVE  Nat \subseteq S
<1> DEFINE T == Nat \ S
           R == {p \in Nat \X Nat : p[1] < p[2]}
<1>1. SUFFICES ASSUME T # {} PROVE FALSE
  OBVIOUS
<1>2. IsWellFoundedOn(R, Nat)
  BY NatLessThanWellFounded DEF OpToRel
<1>3. \A x \in Nat, y \in Nat : y < x => <<y, x>> \in R
  OBVIOUS
<1> HIDE DEF R
<1>4. PICK x \in T : \A y \in T : <<y, x>> \notin R
  BY <1>1, <1>2, WFMin
<1>5. x # 0 /\ x - 1 \in Nat /\ x - 1 < x
  BY <1>4
<1>6. x - 1 \in S
  BY <1>3, <1>4, <1>5
<1> QED
  BY <1>4, <1>5, <1>6

(* r follows a recursive definition over an interval.                      *)
Solution(r, lo, hi, first, step) ==
  \A k \in lo..hi : r[k] = IF k = lo THEN first ELSE step[<<k, r[k - 1]>>]

(* A recursive definition over an interval has a solution.                 *)
LEMMA Recursion ==
  ASSUME NEW lo \in Int, NEW T, NEW first \in T, NEW step \in [Int \X T -> T], NEW hi \in Int
  PROVE  \E r \in [lo..hi -> T] : Solution(r, lo, hi, first, step)
<1> DEFINE Solves(r, n) == r \in [lo..(lo + n) -> T] /\ Solution(r, lo, lo + n, first, step)
           S == {n \in Nat : \E r : Solves(r, n)}
<1>1. 0 \in S
  <2>1. Solves([k \in lo..(lo + 0) |-> first], 0)
    BY DEF Solution
  <2> QED
    BY <2>1
<1>2. ASSUME NEW n \in Nat, n \in S PROVE n + 1 \in S
  <2>1. PICK r : Solves(r, n)
    BY <1>2
  <2> DEFINE top == lo + (n + 1)
             longer == [k \in lo..top |-> IF k = top THEN step[<<top, r[lo + n]>>] ELSE r[k]]
  <2>2. /\ \A k \in lo..top : k # top => k \in lo..(lo + n)
        /\ top - 1 = lo + n /\ lo + n \in lo..(lo + n) /\ top # lo /\ top \in Int
    OBVIOUS
  <2>3. step[<<top, r[lo + n]>>] \in T
    BY <2>1, <2>2
  <2>4. longer \in [lo..top -> T]
    BY <2>1, <2>2, <2>3
  <2>5. ASSUME NEW k \in lo..top
        PROVE  longer[k] = IF k = lo THEN first ELSE step[<<k, longer[k - 1]>>]
    <3>1. CASE k = top
      BY <2>2, <3>1
    <3>2. CASE k # top
      <4>1. k \in lo..(lo + n) /\ (k # lo => k - 1 \in lo..(lo + n) /\ k - 1 # top)
        BY <2>2, <3>2
      <4>2. longer[k] = r[k] /\ (k # lo => longer[k - 1] = r[k - 1])
        BY <2>2, <3>2, <4>1
      <4> QED
        BY <2>1, <4>1, <4>2 DEF Solution
    <3> QED
      BY <3>1, <3>2
  <2> HIDE DEF longer
  <2>6. Solves(longer, n + 1)
    BY <2>4, <2>5 DEF Solution
  <2> QED
    BY <2>6
<1> HIDE DEF S
<1>3. Nat \subseteq S
  BY <1>1, <1>2, Induction
<1>4. CASE hi < lo
  <2>1. lo..hi = {}
    BY <1>4
  <2>2. [k \in lo..hi |-> first] \in [lo..hi -> T] /\ Solution([k \in lo..hi |-> first], lo, hi, first, step)
    BY <2>1 DEF Solution
  <2> QED
    BY <2>2
<1>5. CASE lo <= hi
  <2> DEFINE n == hi - lo
  <2>1. n \in Nat /\ lo + n = hi
    BY <1>5
  <2>2. PICK r : Solves(r, n)
    BY <1>3, <2>1 DEF S
  <2> HIDE DEF n
  <2> QED
    BY <2>1, <2>2
<1> QED
  BY <1>4, <1>5

-----------------------------------------------------------------------------
(* Lists without repetition.                                               *)
OneToOne(s) == \A i, j \in 1..Len(s) : s[i] = s[j] => i = j

Lists == {s \in Seq(Nodes) : OneToOne(s)}

(* Such a list is as long as the set of its elements is large.             *)
LEMMA LengthOfList ==
  ASSUME NEW S, NEW s \in Seq(S), OneToOne(s)
  PROVE  IsFiniteSet(ToSet(s)) /\ Cardinality(ToSet(s)) = Len(s)
<1> DEFINE n == Len(s)
<1>1. n \in Nat /\ s \in [1..n -> S]
  OBVIOUS
<1>2. ToSet(s) = {s[i] : i \in 1..n}
  BY DEF ToSet
<1>3. IsFiniteSet(1..n) /\ Cardinality(1..n) = n
  BY <1>1, FS_Interval
<1>4. s \in Bijection(1..n, ToSet(s))
  BY <1>1, <1>2 DEF OneToOne, Bijection, Injection, Surjection, IsInjective
<1>5. ExistsBijection(1..n, ToSet(s))
  BY <1>4 DEF ExistsBijection
<1> HIDE DEF n
<1>6. Cardinality(ToSet(s)) = Cardinality(1..n) /\ IsFiniteSet(ToSet(s))
  BY <1>3, <1>5, FS_Bijection
<1> QED
  BY <1>3, <1>6 DEF n

(* Appending.                                                              *)
LEMMA Appended ==
  ASSUME NEW S, NEW s \in Seq(S), NEW x \in S
  PROVE  /\ Append(s, x) \in Seq(S) /\ Len(Append(s, x)) = Len(s) + 1
         /\ \A i \in 1..Len(s) : Append(s, x)[i] = s[i]
         /\ Append(s, x)[Len(s) + 1] = x
         /\ ToSet(Append(s, x)) = ToSet(s) \cup {x}
         /\ OneToOne(s) /\ x \notin ToSet(s) => OneToOne(Append(s, x))
<1> DEFINE t == Append(s, x)
<1>1. /\ t \in Seq(S) /\ Len(t) = Len(s) + 1 /\ Len(s) \in Nat
      /\ \A i \in 1..Len(s) : t[i] = s[i]
      /\ t[Len(s) + 1] = x
  OBVIOUS
<1>2. ToSet(t) = {t[i] : i \in 1..(Len(s) + 1)} /\ ToSet(s) = {s[i] : i \in 1..Len(s)}
  BY <1>1 DEF ToSet
<1> HIDE DEF t
<1>3. ToSet(t) = ToSet(s) \cup {x}
  BY <1>1, <1>2
<1>4. ASSUME OneToOne(s), x \notin ToSet(s) PROVE OneToOne(t)
  BY <1>1, <1>2, <1>4 DEF OneToOne
<1> QED
  BY <1>1, <1>3, <1>4 DEF t

(* The nodes of some views are those of the last and those of the others.  *)
LEMMA NodesInAppended ==
  ASSUME NEW S, NEW views \in Seq(S), NEW view \in S
  PROVE  NodesIn(Append(views, view)) = NodesIn(views) \cup ToSet(view.nodes)
<1> DEFINE more == Append(views, view)
           n == Len(views)
<1>1. /\ n \in Nat /\ DOMAIN more = 1..(n + 1) /\ DOMAIN views = 1..n
      /\ \A i \in 1..n : more[i] = views[i]
      /\ more[n + 1] = view
  BY Appended
<1> HIDE DEF more, n
<1>2. NodesIn(more) = NodesIn(views) \cup ToSet(view.nodes)
  BY <1>1 DEF NodesIn
<1> QED
  BY <1>2 DEF more

-----------------------------------------------------------------------------
NodeViews == [group : Groups, nodes : Seq(Nodes), batchSize : Int]

(* A view has all nodes of its group that are in S, in some order.         *)
HasAll(view, S) ==
  /\ view \in NodeViews
  /\ OneToOne(view.nodes)
  /\ ToSet(view.nodes) = {n \in S : GroupOf[n] = view.group}
  /\ ToSet(view.nodes) # {}
  /\ view.batchSize = 0

(* One view for each group that has nodes in S. *)
IsGrouping(views, S) ==
  /\ views \in Seq(NodeViews)
  /\ \A i, j \in 1..Len(views) : views[i].group = views[j].group => i = j
  /\ \A i \in 1..Len(views) : HasAll(views[i], S)
  /\ \A n \in S : \E i \in 1..Len(views) : views[i].group = GroupOf[n]

(* One more node keeps this up.                                            *)
LEMMA NodeIsAdded ==
  ASSUME NEW S \in SUBSET Nodes, NEW views, IsGrouping(views, S), NEW n \in Nodes, n \notin S
  PROVE  IsGrouping(AddToView(views, n), S \cup {n})
<1> DEFINE more == AddToView(views, n)
           g == GroupOf[n]
           new == [group |-> g, nodes |-> <<n>>, batchSize |-> 0]
           grown(v) == [v EXCEPT !.nodes = Append(@, n)]
<1> g \in Groups
  BY NodeGroupsAssumption
<1>1. ASSUME NEW v, HasAll(v, S), v.group = g
      PROVE  HasAll(grown(v), S \cup {n}) /\ grown(v).group = g
  <2>1. /\ v \in NodeViews /\ v.nodes \in Seq(Nodes) /\ OneToOne(v.nodes)
        /\ ToSet(v.nodes) = {m \in S : GroupOf[m] = g} /\ v.batchSize = 0 /\ v.group = g
    BY <1>1 DEF HasAll, NodeViews
  <2> DEFINE more2 == Append(v.nodes, n)
  <2>2. /\ more2 \in Seq(Nodes) /\ OneToOne(more2)
        /\ ToSet(more2) = {m \in S \cup {n} : GroupOf[m] = g} /\ ToSet(more2) # {}
    <3>1. n \notin ToSet(v.nodes)
      BY <2>1
    <3>2. more2 \in Seq(Nodes) /\ OneToOne(more2) /\ ToSet(more2) = ToSet(v.nodes) \cup {n}
      BY <2>1, <3>1, Appended
    <3> HIDE DEF more2
    <3> QED
      BY <2>1, <3>2
  <2>3. grown(v) \in NodeViews /\ grown(v).nodes = more2 /\ grown(v).group = g /\ grown(v).batchSize = 0
    BY <2>1, <2>2 DEF NodeViews
  <2> QED
    BY <2>2, <2>3 DEF HasAll
<1>2. ASSUME NEW v, HasAll(v, S), v.group # g PROVE HasAll(v, S \cup {n})
  BY <1>2 DEF HasAll
<1>3. /\ views \in Seq(NodeViews) /\ Len(views) \in Nat /\ DOMAIN views = 1..Len(views)
      /\ \A i \in 1..Len(views) : HasAll(views[i], S)
      /\ \A i, j \in 1..Len(views) : views[i].group = views[j].group => i = j
      /\ \A m \in S : \E i \in 1..Len(views) : views[i].group = GroupOf[m]
  BY DEF IsGrouping
<1>4. CASE \E i \in DOMAIN views : views[i].group = g
  <2> DEFINE next(i) == IF views[i].group = g THEN grown(views[i]) ELSE views[i]
  <2>1. more = [i \in 1..Len(views) |-> next(i)]
    BY <1>3, <1>4 DEF AddToView
  <2>2. \A i \in 1..Len(views) : HasAll(next(i), S \cup {n}) /\ next(i).group = views[i].group
    BY <1>1, <1>2, <1>3
  <2> HIDE DEF more, next
  <2>3. more \in Seq(NodeViews) /\ Len(more) = Len(views)
    <3>1. \A i \in 1..Len(views) : next(i) \in NodeViews
      BY <2>2 DEF HasAll
    <3> QED
      BY <1>3, <2>1, <3>1, IsASeq
  <2>4. \A i \in 1..Len(more) : HasAll(more[i], S \cup {n}) /\ more[i].group = views[i].group
    BY <2>1, <2>2, <2>3
  <2>5. \A m \in S \cup {n} : \E i \in 1..Len(more) : more[i].group = GroupOf[m]
    BY <1>3, <1>4, <2>3, <2>4
  <2>6. IsGrouping(more, S \cup {n})
    BY <1>3, <2>3, <2>4, <2>5 DEF IsGrouping
  <2> QED
    BY <2>6 DEF more
<1>5. CASE ~\E i \in DOMAIN views : views[i].group = g
  <2>1. more = Append(views, new)
    BY <1>5 DEF AddToView
  <2>2. new \in NodeViews /\ new.group = g /\ new.nodes = <<n>> /\ new.batchSize = 0
    BY DEF NodeViews
  <2>3. \A m \in S : GroupOf[m] # g
    BY <1>3, <1>5
  <2>4. HasAll(new, S \cup {n})
    <3>1. ToSet(<<n>>) = {n} /\ OneToOne(<<n>>)
      BY DEF ToSet, OneToOne
    <3> HIDE DEF new
    <3> QED
      BY <2>2, <2>3, <3>1 DEF HasAll
  <2> HIDE DEF more, new
  <2>5. /\ more \in Seq(NodeViews) /\ Len(more) = Len(views) + 1
        /\ \A i \in 1..Len(views) : more[i] = views[i]
        /\ more[Len(views) + 1] = new
    BY <1>3, <2>1, <2>2, Appended
  <2>6. \A i \in 1..Len(views) : HasAll(more[i], S \cup {n}) /\ more[i].group # g
    BY <1>2, <1>3, <1>5, <2>5
  <2>7. \A i \in 1..Len(more) : i \in 1..Len(views) \/ i = Len(views) + 1
    BY <1>3, <2>5
  <2>8. \A i \in 1..Len(more) : HasAll(more[i], S \cup {n})
    BY <2>4, <2>5, <2>6, <2>7
  <2>9. \A i, j \in 1..Len(more) : more[i].group = more[j].group => i = j
    BY <1>3, <2>2, <2>5, <2>6, <2>7
  <2>10. \A m \in S \cup {n} : \E i \in 1..Len(more) : more[i].group = GroupOf[m]
    <3>1. \A i \in 1..Len(views) : i \in 1..Len(more)
      BY <1>3, <2>5
    <3>2. Len(views) + 1 \in 1..Len(more)
      BY <1>3, <2>5
    <3> QED
      BY <1>3, <2>2, <2>5, <3>1, <3>2
  <2>11. IsGrouping(more, S \cup {n})
    BY <2>5, <2>8, <2>9, <2>10 DEF IsGrouping
  <2> QED
    BY <2>11 DEF more
<1> QED
  BY <1>4, <1>5

(* A list by groups. *)
LEMMA GroupedIsGrouping ==
  ASSUME NEW nodes \in Lists
  PROVE  IsGrouping(Grouped(nodes), ToSet(nodes))
<1> DEFINE n == Len(nodes)
           ViewLists == Seq(NodeViews)
           S(i) == {nodes[j] : j \in 1..i}
           step == [p \in Int \X ViewLists |->
                      IF p[1] \in 1..n /\ AddToView(p[2], nodes[p[1]]) \in ViewLists
                        THEN AddToView(p[2], nodes[p[1]]) ELSE p[2]]
           views == CHOOSE views : views = [i \in 0..Len(nodes) |->
                      IF i = 0 THEN <<>> ELSE AddToView(views[i - 1], nodes[i])]
<1>1. Grouped(nodes) = views[Len(nodes)]
  BY DEF Grouped
<1>2. /\ n \in Nat /\ nodes \in Seq(Nodes) /\ n = Len(nodes)
      /\ \A i \in 1..n : nodes[i] \in Nodes
      /\ \A i, j \in 1..n : nodes[i] = nodes[j] => i = j
  BY DEF Lists, OneToOne
<1>3. /\ <<>> \in ViewLists
      /\ step \in [Int \X ViewLists -> ViewLists]
  OBVIOUS
<1>4. \A i \in 1..n, v \in ViewLists :
        AddToView(v, nodes[i]) \in ViewLists => step[<<i, v>>] = AddToView(v, nodes[i])
  OBVIOUS
<1>5. 0 \in Int /\ n \in Int
  BY <1>2
<1> HIDE DEF step, n, ViewLists
<1>6. PICK r \in [0..n -> ViewLists] : Solution(r, 0, n, <<>>, step)
  BY <1>3, <1>5, Recursion
<1>7. /\ r[0] = <<>> /\ 0 \in 0..n
      /\ \A i \in 1..n : r[i] = step[<<i, r[i - 1]>>]
  <2> DEFINE none == <<>>
  <2>1. Solution(r, 0, n, none, step)
    BY <1>6
  <2> HIDE DEF none
  <2>2. \A i \in 0..n : r[i] = IF i = 0 THEN none ELSE step[<<i, r[i - 1]>>]
    BY <2>1 DEF Solution
  <2>3. r[0] = none /\ 0 \in 0..n /\ \A i \in 1..n : i \in 0..n /\ i # 0
    BY <1>2, <2>2
  <2> QED
    BY <2>2, <2>3 DEF none
<1> DEFINE Good == {i \in Nat : i \in 0..n => IsGrouping(r[i], S(i))}
<1>8. 0 \in Good
  <2>1. r[0] = <<>>
    BY <1>7
  <2>2. S(0) = {} /\ Len(<<>>) = 0
    OBVIOUS
  <2>3. IsGrouping(<<>>, {})
    BY DEF IsGrouping
  <2> QED
    BY <2>1, <2>2, <2>3
<1>9. ASSUME NEW i \in Nat, i + 1 \in 0..n, IsGrouping(r[i], S(i))
      PROVE  r[i + 1] = AddToView(r[i], nodes[i + 1]) /\ IsGrouping(r[i + 1], S(i + 1))
  <2> DEFINE k == i + 1
             m == nodes[k]
             more == AddToView(r[i], m)
  <2>1. i \in 0..n /\ k \in 1..n /\ k \in 0..n /\ k # 0 /\ k - 1 = i /\ m \in Nodes
    BY <1>2, <1>9
  <2>2. S(k) = S(i) \cup {m} /\ m \notin S(i) /\ S(i) \in SUBSET Nodes
    BY <1>2, <2>1
  <2>3. IsGrouping(more, S(i) \cup {m})
    <3> HIDE DEF m, S
    <3> QED
      BY <1>9, <2>1, <2>2, NodeIsAdded
  <2>4. r[i] \in ViewLists /\ more \in ViewLists
    BY <1>6, <2>1, <2>3 DEF IsGrouping, ViewLists
  <2> HIDE DEF more
  <2>5. step[<<k, r[i]>>] = more
    BY <1>4, <2>1, <2>4 DEF more
  <2>6. r[k] = step[<<k, r[k - 1]>>]
    <3> HIDE DEF k
    <3> QED
      BY <1>7, <2>1
  <2>7. r[k] = more
    BY <2>1, <2>5, <2>6
  <2> QED
    BY <2>2, <2>3, <2>7 DEF more
<1>10. ASSUME NEW i \in Nat, i \in Good PROVE i + 1 \in Good
  <2> SUFFICES ASSUME i + 1 \in 0..n PROVE IsGrouping(r[i + 1], S(i + 1))
    OBVIOUS
  <2>1. i \in 0..n
    BY <1>2
  <2> HIDE DEF S
  <2> QED
    BY <1>9, <1>10, <2>1
<1> HIDE DEF Good
<1>11. Nat \subseteq Good
  BY <1>8, <1>10, Induction
<1>12. \A i \in 0..n : IsGrouping(r[i], S(i))
  <2> HIDE DEF S
  <2> QED
    BY <1>2, <1>11 DEF Good
<1>13. r = [i \in 0..n |-> IF i = 0 THEN <<>> ELSE AddToView(r[i - 1], nodes[i])]
  <2>1. ASSUME NEW i \in 0..n, i # 0 PROVE r[i] = AddToView(r[i - 1], nodes[i])
    <3> DEFINE j == i - 1
    <3>1. j \in Nat /\ j + 1 = i /\ j \in 0..n
      BY <1>2, <2>1
    <3> HIDE DEF j, S
    <3>2. r[j + 1] = AddToView(r[j], nodes[j + 1])
      BY <1>9, <1>12, <3>1
    <3> QED
      BY <3>1, <3>2 DEF j
  <2> QED
    BY <1>7, <2>1
<1>14. views = [i \in 0..n |-> IF i = 0 THEN <<>> ELSE AddToView(views[i - 1], nodes[i])]
  <2>1. views = CHOOSE v : v = [i \in 0..n |-> IF i = 0 THEN <<>> ELSE AddToView(v[i - 1], nodes[i])]
    BY <1>2
  <2> HIDE DEF views
  <2> QED
    BY <1>13, <2>1
<1> HIDE DEF views
<1>15. \A i \in 0..n : views[i] = IF i = 0 THEN <<>> ELSE AddToView(views[i - 1], nodes[i])
  BY <1>14
<1> DEFINE Same == {i \in Nat : i \in 0..n => views[i] = r[i]}
<1>16. 0 \in Same
  BY <1>7, <1>15
<1>17. ASSUME NEW i \in Nat, i \in Same PROVE i + 1 \in Same
  <2> SUFFICES ASSUME i + 1 \in 0..n PROVE views[i + 1] = r[i + 1]
    OBVIOUS
  <2>1. i \in 0..n /\ i + 1 # 0 /\ (i + 1) - 1 = i
    BY <1>2
  <2>2. views[i + 1] = AddToView(views[i], nodes[i + 1])
    BY <1>15, <2>1
  <2>3. r[i + 1] = AddToView(r[i], nodes[i + 1])
    <3> HIDE DEF S
    <3> QED
      BY <1>9, <1>12, <2>1
  <2> QED
    BY <1>17, <2>1, <2>2, <2>3
<1> HIDE DEF Same
<1>18. n \in Same
  BY <1>2, <1>16, <1>17, Induction
<1>19. n \in 0..n /\ views[n] = r[n]
  BY <1>2, <1>18 DEF Same
<1>20. S(n) = ToSet(nodes)
  BY <1>2 DEF ToSet
<1> HIDE DEF S
<1>21. IsGrouping(views[n], ToSet(nodes))
  BY <1>12, <1>19, <1>20
<1> QED
  BY <1>1, <1>2, <1>21

(* The view of a group, if it has nodes in the list.                       *)
LEMMA BucketOfGroup ==
  ASSUME NEW nodes \in Lists, NEW g
  PROVE  /\ Buckets(nodes, g) = {} <=> {n \in ToSet(nodes) : GroupOf[n] = g} = {}
         /\ Buckets(nodes, g) # {} =>
              LET bucket == CHOOSE b \in Buckets(nodes, g) : TRUE
              IN  HasAll(bucket, ToSet(nodes)) /\ bucket.group = g
<1> DEFINE views == Grouped(nodes)
           S == ToSet(nodes)
<1>1. IsGrouping(views, S)
  BY GroupedIsGrouping
<1>2. Buckets(nodes, g) = {view \in ToSet(views) : view.group = g}
  BY DEF Buckets
<1> HIDE DEF views, S
<1>3. /\ ToSet(views) = {views[i] : i \in 1..Len(views)}
      /\ \A i \in 1..Len(views) : HasAll(views[i], S)
      /\ \A n \in S : \E i \in 1..Len(views) : views[i].group = GroupOf[n]
  <2>1. views \in Seq(NodeViews)
    BY <1>1 DEF IsGrouping
  <2>2. DOMAIN views = 1..Len(views)
    BY <2>1
  <2> QED
    BY <1>1, <2>2 DEF IsGrouping, ToSet
<1>4. \A view \in Buckets(nodes, g) : HasAll(view, S) /\ view.group = g
  BY <1>2, <1>3
<1>5. Buckets(nodes, g) # {} => {n \in S : GroupOf[n] = g} # {}
  <2> SUFFICES ASSUME NEW view \in Buckets(nodes, g) PROVE {n \in S : GroupOf[n] = g} # {}
    OBVIOUS
  <2> QED
    BY <1>4 DEF HasAll
<1>6. {n \in S : GroupOf[n] = g} # {} => Buckets(nodes, g) # {}
  BY <1>2, <1>3
<1> QED
  BY <1>4, <1>5, <1>6 DEF S

-----------------------------------------------------------------------------
(* The nodes of some groups.                                               *)
Of(S, T) == {n \in S : GroupOf[n] \in T}

(* Sets of nodes are finite, and their sizes add up.                       *)
LEMMA Sizes ==
  ASSUME NEW S \in SUBSET Nodes
  PROVE  /\ IsFiniteSet(S) /\ Cardinality(S) \in Nat
         /\ Cardinality(S) = 0 <=> S = {}
         /\ \A T \in SUBSET Nodes : S \cap T = {} =>
              Cardinality(S \cup T) = Cardinality(S) + Cardinality(T)
         /\ \A T \in SUBSET S : Cardinality(T) <= Cardinality(S)
<1>1. IsFiniteSet(S) /\ Cardinality(S) \in Nat
  BY NodeGroupsAssumption, FS_Subset, FS_CardinalityType
<1>2. Cardinality(S) = 0 <=> S = {}
  BY <1>1, FS_EmptySet
<1>3. ASSUME NEW T \in SUBSET Nodes, S \cap T = {}
      PROVE  Cardinality(S \cup T) = Cardinality(S) + Cardinality(T)
  <2>1. IsFiniteSet(T) /\ Cardinality(T) \in Nat
    BY NodeGroupsAssumption, FS_Subset, FS_CardinalityType
  <2>2. Cardinality(S \cup T) = Cardinality(S) + Cardinality(T) - Cardinality(S \cap T)
    BY <1>1, <2>1, FS_Union
  <2>3. Cardinality(S \cap T) = 0
    BY <1>3, FS_EmptySet
  <2> QED
    BY <1>1, <2>1, <2>2, <2>3
<1>4. \A T \in SUBSET S : Cardinality(T) <= Cardinality(S)
  BY <1>1, FS_Subset
<1> QED
  BY <1>1, <1>2, <1>3, <1>4

(* What a view counts. *)
LEMMA ViewCounts ==
  ASSUME NEW S \in SUBSET Nodes, NEW view, HasAll(view, S)
  PROVE  /\ ToSet(view.nodes) = Of(S, {view.group})
         /\ Len(view.nodes) = Cardinality(Of(S, {view.group}))
         /\ Len(view.nodes) \in Nat /\ Len(view.nodes) >= 1
         /\ view.group \in Groups
<1> DEFINE s == view.nodes
<1>1. s \in Seq(Nodes) /\ OneToOne(s) /\ view.group \in Groups /\ ToSet(s) # {}
  BY DEF HasAll, NodeViews
<1>2. ToSet(s) = Of(S, {view.group})
  BY DEF HasAll, Of
<1> HIDE DEF s
<1>3. IsFiniteSet(ToSet(s)) /\ Cardinality(ToSet(s)) = Len(s) /\ Len(s) \in Nat
  BY <1>1, LengthOfList
<1>4. Len(s) # 0
  BY <1>1, <1>3, FS_EmptySet
<1> QED
  BY <1>1, <1>2, <1>3, <1>4 DEF s

-----------------------------------------------------------------------------
CropStates == [left : Int, views : Seq(NodeViews)]

(* A turn of cropIndividualNodes: nothing, or the first nodes of a view.   *)
LEMMA CropTurn ==
  ASSUME NEW st \in CropStates, NEW view \in NodeViews
  PROVE  /\ CropView(st, view) \in CropStates
         /\ OneToOne(view.nodes) => 
              LET taken == Minimum(st.left, Len(view.nodes))
              IN  \/ /\ view.group \in AtomicGroups \/ st.left < 1
                     /\ CropView(st, view) = st
                  \/ /\ view.group \notin AtomicGroups /\ st.left >= 1
                     /\ CropView(st, view).left = st.left - taken
                     /\ \E W \in SUBSET ToSet(view.nodes), v \in NodeViews :
                          /\ Cardinality(W) = taken
                          /\ v.group = view.group /\ v.batchSize = view.batchSize
                          /\ ToSet(v.nodes) = W
                          /\ CropView(st, view).views = Append(st.views, v)
<1> DEFINE s == view.nodes
           taken == Minimum(st.left, Len(s))
           first == SubSeq(s, 1, taken)
           v == [view EXCEPT !.nodes = SubSeq(@, 1, taken)]
<1>1. st.left \in Int /\ st.views \in Seq(NodeViews) /\ s \in Seq(Nodes) /\ Len(s) \in Nat
  BY DEF CropStates, NodeViews
<1>2. CASE view.group \in AtomicGroups \/ st.left < 1
  BY <1>2 DEF CropView
<1>3. CASE view.group \notin AtomicGroups /\ ~(st.left < 1)
  <2>1. st.left >= 1 /\ taken \in 0..Len(s)
    BY <1>1, <1>3 DEF Minimum
  <2> HIDE DEF taken
  <2>2. /\ first \in Seq(Nodes) /\ Len(first) = taken /\ taken \in Nat
        /\ \A i \in 1..taken : first[i] = s[i] /\ i \in 1..Len(s)
    BY <1>1, <2>1
  <2>3. v \in NodeViews /\ v.group = view.group /\ v.batchSize = view.batchSize /\ v.nodes = first
    BY <2>2 DEF NodeViews
  <2>4. CropView(st, view) = [left |-> st.left - taken, views |-> Append(st.views, v)]
    BY <1>3 DEF CropView, Fitting, taken
  <2> HIDE DEF v, first
  <2>5. CropView(st, view) \in CropStates
    BY <1>1, <2>1, <2>3, <2>4, Appended DEF CropStates
  <2>6. ASSUME OneToOne(s)
        PROVE  ToSet(first) \in SUBSET ToSet(s) /\ Cardinality(ToSet(first)) = taken
    <3>1. OneToOne(first)
      BY <2>2, <2>6 DEF OneToOne
    <3>2. ToSet(first) \in SUBSET ToSet(s)
      <4>1. ToSet(first) = {first[i] : i \in 1..taken} /\ ToSet(s) = {s[i] : i \in 1..Len(s)}
        BY <1>1, <2>2 DEF ToSet
      <4> QED
        BY <2>2, <4>1
    <3>3. Cardinality(ToSet(first)) = taken
      BY <2>2, <3>1, LengthOfList
    <3> QED
      BY <3>2, <3>3
  <2>7. st.left - taken = CropView(st, view).left /\ CropView(st, view).views = Append(st.views, v)
    BY <2>4
  <2> QED
    BY <1>3, <2>1, <2>3, <2>5, <2>6, <2>7 DEF taken, s
<1> QED
  BY <1>2, <1>3

(* The function that cropIndividualNodes is made of, view by view.         *)
LEMMA CropUnfolds ==
  ASSUME NEW views \in Seq(NodeViews), NEW budget \in Int
  PROVE  \E st \in [0..Len(views) -> CropStates] :
           /\ st[0] = [left |-> budget, views |-> <<>>]
           /\ \A i \in 1..Len(views) : st[i] = CropView(st[i - 1], views[i])
           /\ CropIndividualNodes(views, budget) = st[Len(views)]
<1> DEFINE n == Len(views)
           first == [left |-> budget, views |-> <<>>]
           step == [p \in Int \X CropStates |->
                      IF p[1] \in 1..n THEN CropView(p[2], views[p[1]]) ELSE p[2]]
           st == CHOOSE st : st = [i \in 0..Len(views) |->
                   IF i = 0 THEN [left |-> budget, views |-> <<>>]
                            ELSE CropView(st[i - 1], views[i])]
<1>1. CropIndividualNodes(views, budget) = st[Len(views)]
  BY DEF CropIndividualNodes
<1>2. n \in Nat /\ n = Len(views) /\ \A i \in 1..n : views[i] \in NodeViews
  OBVIOUS
<1>3. first \in CropStates
  BY DEF CropStates
<1>4. \A i \in 1..n, s \in CropStates : CropView(s, views[i]) \in CropStates
  BY <1>2, CropTurn
<1>5. st = CHOOSE h : h = [i \in 0..n |-> IF i = 0 THEN first ELSE CropView(h[i - 1], views[i])]
  BY <1>2
<1> HIDE DEF n, first, st
<1>6. step \in [Int \X CropStates -> CropStates]
  BY <1>4
<1>7. \A i \in 1..n, s \in CropStates : step[<<i, s>>] = CropView(s, views[i])
  BY <1>2
<1>8. 0 \in Int /\ n \in Int
  BY <1>2
<1> HIDE DEF step
<1>9. PICK r \in [0..n -> CropStates] : Solution(r, 0, n, first, step)
  BY <1>3, <1>6, <1>8, Recursion
<1>10. r = [i \in 0..n |-> IF i = 0 THEN first ELSE CropView(r[i - 1], views[i])]
  <2>1. \A i \in 0..n : r[i] = IF i = 0 THEN first ELSE step[<<i, r[i - 1]>>]
    BY <1>9 DEF Solution
  <2>2. \A i \in 0..n : i # 0 => step[<<i, r[i - 1]>>] = CropView(r[i - 1], views[i])
    BY <1>2, <1>7
  <2> QED
    BY <2>1, <2>2
<1>11. st = [i \in 0..n |-> IF i = 0 THEN first ELSE CropView(st[i - 1], views[i])]
  BY <1>5, <1>10
<1>12. \A i \in 0..n : st[i] = IF i = 0 THEN first ELSE CropView(st[i - 1], views[i])
  BY <1>11
<1>13. st \in [0..n -> CropStates]
  <2> DEFINE S == {i \in Nat : i \in 0..n => st[i] \in CropStates}
  <2>1. 0 \in S
    BY <1>3, <1>12
  <2>2. ASSUME NEW i \in Nat, i \in S PROVE i + 1 \in S
    <3> SUFFICES ASSUME i + 1 \in 0..n PROVE st[i + 1] \in CropStates
      OBVIOUS
    <3>1. i \in 0..n /\ i + 1 \in 1..n /\ st[i + 1] = CropView(st[i], views[i + 1])
      BY <1>2, <1>12
    <3> QED
      BY <1>4, <2>2, <3>1
  <2> HIDE DEF S
  <2>3. Nat \subseteq S
    BY <2>1, <2>2, Induction
  <2>4. \A i \in 0..n : st[i] \in CropStates
    BY <1>2, <2>3 DEF S
  <2> QED
    BY <1>11, <2>4
<1>14. st[0] = first /\ \A i \in 1..n : st[i] = CropView(st[i - 1], views[i])
  BY <1>2, <1>12
<1> QED
  BY <1>1, <1>2, <1>13, <1>14 DEF first

(* The state of the loop after views that have the nodes in able.          *)
Took(s, able, budget) ==
  /\ NodesIn(s.views) \subseteq able
  /\ Cardinality(NodesIn(s.views)) =
       IF budget < 1 THEN 0 ELSE Minimum(budget, Cardinality(able))
  /\ s.left = budget - Cardinality(NodesIn(s.views))
  /\ \A i \in DOMAIN s.views :
       s.views[i].group \notin AtomicGroups /\ s.views[i].batchSize = 0

(* cropIndividualNodes takes as many nodes as there are, or as the budget  *)
(* allows, and none of atomic groups.                                      *)
LEMMA CropTakes ==
  ASSUME NEW nodes \in Lists, NEW budget \in Int
  PROVE  LET crop == CropIndividualNodes(Grouped(nodes), budget)
             took == NodesIn(crop.views)
             able == Cardinality(Individual(ToSet(nodes)))
         IN  /\ crop \in CropStates
             /\ took \subseteq Individual(ToSet(nodes))
             /\ Cardinality(took) = IF budget < 1 THEN 0 ELSE Minimum(budget, able)
             /\ crop.left = budget - Cardinality(took)
             /\ \A i \in DOMAIN crop.views :
                  crop.views[i].group \notin AtomicGroups /\ crop.views[i].batchSize = 0
<1> DEFINE views == Grouped(nodes)
           S == ToSet(nodes)
           crop == CropIndividualNodes(views, budget)
           n == Len(views)
<1>1. S \in SUBSET Nodes
  BY DEF Lists, ToSet
<1>2. IsGrouping(views, S)
  BY GroupedIsGrouping
<1> HIDE DEF views, S
<1>3. /\ views \in Seq(NodeViews) /\ n \in Nat /\ n = Len(views)
      /\ \A i, j \in 1..n : views[i].group = views[j].group => i = j
      /\ \A i \in 1..n : HasAll(views[i], S) /\ views[i] \in NodeViews
      /\ \A m \in S : \E i \in 1..n : views[i].group = GroupOf[m]
  BY <1>2 DEF IsGrouping
<1>4. PICK st \in [0..n -> CropStates] :
        /\ st[0] = [left |-> budget, views |-> <<>>]
        /\ \A i \in 1..n : st[i] = CropView(st[i - 1], views[i])
        /\ crop = st[n]
  BY <1>3, CropUnfolds
<1> HIDE DEF n, crop
<1> DEFINE Seen(i) == {views[j].group : j \in 1..i} \ AtomicGroups
           Able(i) == Of(S, Seen(i))
           Good == {i \in Nat : i \in 0..n => Took(st[i], Able(i), budget)}
<1>5. 0 \in Good
  <2>1. st[0].left = budget /\ st[0].views = <<>>
    BY <1>4
  <2>2. NodesIn(<<>>) = {} /\ Able(0) = {} /\ DOMAIN <<>> = {}
    BY DEF NodesIn, Of
  <2>3. Cardinality({}) = 0
    BY FS_EmptySet
  <2>4. NodesIn(st[0].views) = {} /\ DOMAIN st[0].views = {}
    BY <2>1, <2>2
  <2>5. budget >= 1 => Minimum(budget, 0) = 0
    BY DEF Minimum
  <2>6. Cardinality(NodesIn(st[0].views)) = 0
    BY <2>3, <2>4, Zenon
  <2>7. Took(st[0], {}, budget)
    <3> DEFINE s == st[0]
    <3>1. /\ NodesIn(s.views) = {} /\ DOMAIN s.views = {} /\ Cardinality(NodesIn(s.views)) = 0
          /\ s.left = budget /\ Cardinality({}) = 0
      BY <2>1, <2>3, <2>4, <2>6, Zenon
    <3> HIDE DEF s
    <3>2. Cardinality(NodesIn(s.views)) = IF budget < 1 THEN 0 ELSE Minimum(budget, Cardinality({}))
      BY <2>5, <3>1
    <3>3. Took(s, {}, budget)
      BY <3>1, <3>2 DEF Took
    <3> QED
      BY <3>3 DEF s
  <2> QED
    BY <2>2, <2>7
<1>6. ASSUME NEW i \in Nat, i + 1 \in 0..n, Took(st[i], Able(i), budget)
      PROVE  Took(st[i + 1], Able(i + 1), budget)
  <2> DEFINE k == i + 1
             view == views[k]
             g == view.group
             s == st[i]
             t == st[k]
  <2>1. i \in 0..n /\ k \in 1..n /\ k \in 0..n /\ k - 1 = i
    BY <1>3, <1>6
  <2>2. t = CropView(s, view) /\ s \in CropStates /\ t \in CropStates
    BY <1>4, <2>1
  <2>3. view \in NodeViews /\ HasAll(view, S) /\ OneToOne(view.nodes) /\ view.batchSize = 0
    BY <1>3, <2>1 DEF HasAll
  <2>4. Seen(k) = IF g \in AtomicGroups THEN Seen(i) ELSE Seen(i) \cup {g}
    <3>1. 1..k = 1..i \cup {k}
      BY <2>1
    <3> HIDE DEF k
    <3> QED
      BY <3>1
  <2>5. g \notin Seen(i)
    BY <1>3, <2>1
  <2> HIDE DEF Seen, view, s, t
  <2>6. /\ Cardinality(Able(i)) \in Nat /\ Able(i) \in SUBSET Nodes
        /\ ToSet(view.nodes) = Of(S, {g}) /\ Len(view.nodes) = Cardinality(Of(S, {g}))
        /\ Len(view.nodes) \in Nat /\ Len(view.nodes) >= 1 /\ Of(S, {g}) \in SUBSET Nodes
    <3>1. Able(i) \in SUBSET Nodes /\ Of(S, {g}) \in SUBSET Nodes
      BY <1>1 DEF Of
    <3> HIDE DEF Able
    <3> QED
      BY <1>1, <2>3, <3>1, ViewCounts, Sizes
  <2>7. g \notin AtomicGroups =>
          /\ Able(k) = Able(i) \cup Of(S, {g}) /\ Able(i) \cap Of(S, {g}) = {}
          /\ Cardinality(Able(k)) = Cardinality(Able(i)) + Len(view.nodes)
    <3> SUFFICES ASSUME g \notin AtomicGroups
                 PROVE  /\ Able(k) = Able(i) \cup Of(S, {g}) /\ Able(i) \cap Of(S, {g}) = {}
                        /\ Cardinality(Able(k)) = Cardinality(Able(i)) + Len(view.nodes)
      OBVIOUS
    <3>1. Able(k) = Able(i) \cup Of(S, {g}) /\ Able(i) \cap Of(S, {g}) = {}
      BY <2>4, <2>5 DEF Of
    <3> DEFINE A == Able(i)
               B == Of(S, {g})
    <3>2. A \in SUBSET Nodes /\ B \in SUBSET Nodes /\ A \cap B = {}
      BY <2>6, <3>1
    <3> HIDE DEF A, B
    <3>3. Cardinality(A \cup B) = Cardinality(A) + Cardinality(B)
      BY <3>2, Sizes
    <3> QED
      BY <2>6, <3>1, <3>3 DEF A, B
  <2>8. g \in AtomicGroups => Able(k) = Able(i)
    BY <2>4
  <2> DEFINE taken == Minimum(s.left, Len(view.nodes))
  <2>9. \/ /\ g \in AtomicGroups \/ s.left < 1
           /\ t = s
        \/ /\ g \notin AtomicGroups /\ s.left >= 1
           /\ t.left = s.left - taken
           /\ \E W \in SUBSET ToSet(view.nodes), v \in NodeViews :
                /\ Cardinality(W) = taken
                /\ v.group = g /\ v.batchSize = view.batchSize
                /\ ToSet(v.nodes) = W
                /\ t.views = Append(s.views, v)
    BY <2>2, <2>3, CropTurn
  <2>10. Took(s, Able(i), budget)
    BY <1>6 DEF s
  <2>11. s.left \in Int /\ s.views \in Seq(NodeViews)
    BY <2>2 DEF CropStates
  <2> HIDE DEF Able, k, g
  <2>12. ASSUME g \in AtomicGroups PROVE Took(t, Able(k), budget)
    BY <2>8, <2>9, <2>10, <2>12
  <2>13. ASSUME g \notin AtomicGroups, s.left < 1 PROVE Took(t, Able(k), budget)
    <3>1. t = s
      BY <2>9, <2>11, <2>13
    <3>2. Cardinality(NodesIn(s.views)) =
            IF budget < 1 THEN 0 ELSE Minimum(budget, Cardinality(Able(k)))
      BY <2>6, <2>7, <2>10, <2>13 DEF Took, Minimum
    <3>3. NodesIn(s.views) \subseteq Able(k)
      BY <2>7, <2>10, <2>13 DEF Took
    <3> QED
      BY <2>10, <3>1, <3>2, <3>3 DEF Took
  <2>14. ASSUME g \notin AtomicGroups, s.left >= 1 PROVE Took(t, Able(k), budget)
    <3>1. /\ t.left = s.left - taken
          /\ \E W \in SUBSET ToSet(view.nodes), v \in NodeViews :
                /\ Cardinality(W) = taken
                /\ v.group = g /\ v.batchSize = view.batchSize
                /\ ToSet(v.nodes) = W
                /\ t.views = Append(s.views, v)
      BY <2>9, <2>11, <2>14
    <3>2. PICK W \in SUBSET ToSet(view.nodes) : \E v \in NodeViews :
                /\ Cardinality(W) = taken
                /\ v.group = g /\ v.batchSize = view.batchSize
                /\ ToSet(v.nodes) = W
                /\ t.views = Append(s.views, v)
      BY <3>1
    <3>3. PICK v \in NodeViews :
                /\ Cardinality(W) = taken
                /\ v.group = g /\ v.batchSize = view.batchSize
                /\ ToSet(v.nodes) = W
                /\ t.views = Append(s.views, v)
      BY <3>2
    <3>4. NodesIn(t.views) = NodesIn(s.views) \cup W
      BY <2>11, <3>3, NodesInAppended
    <3>5. NodesIn(s.views) \in SUBSET Nodes /\ W \in SUBSET Nodes /\ NodesIn(s.views) \cap W = {}
      BY <2>6, <2>7, <2>10, <2>14 DEF Took
    <3>6. Cardinality(NodesIn(t.views)) = Cardinality(NodesIn(s.views)) + taken
      <4> DEFINE N == NodesIn(s.views)
      <4>1. N \in SUBSET Nodes /\ N \cap W = {} /\ W \in SUBSET Nodes
        BY <3>5
      <4> HIDE DEF N
      <4>2. Cardinality(N \cup W) = Cardinality(N) + Cardinality(W)
        BY <4>1, Sizes
      <4> QED
        BY <3>3, <3>4, <4>2 DEF N
    <3>7. Cardinality(NodesIn(s.views)) \in Nat
      BY <3>5, Sizes
    <3>8. taken = IF s.left < Len(view.nodes) THEN s.left ELSE Len(view.nodes)
      BY DEF Minimum
    <3>9. /\ Cardinality(NodesIn(t.views)) =
               IF budget < 1 THEN 0 ELSE Minimum(budget, Cardinality(Able(k)))
          /\ t.left = budget - Cardinality(NodesIn(t.views))
      <4> HIDE DEF taken
      <4> QED
        BY <2>6, <2>7, <2>10, <2>11, <2>14, <3>1, <3>6, <3>7, <3>8 DEF Took, Minimum
    <3>10. NodesIn(t.views) \subseteq Able(k)
      BY <2>6, <2>7, <2>10, <2>14, <3>4 DEF Took
    <3>11. \A j \in DOMAIN t.views : t.views[j].group \notin AtomicGroups /\ t.views[j].batchSize = 0
      <4>1. /\ DOMAIN t.views = 1..(Len(s.views) + 1) /\ Len(s.views) \in Nat
            /\ DOMAIN s.views = 1..Len(s.views)
            /\ \A j \in 1..Len(s.views) : t.views[j] = s.views[j]
            /\ t.views[Len(s.views) + 1] = v
        BY <2>11, <3>3, Appended
      <4>2. v.group \notin AtomicGroups /\ v.batchSize = 0
        BY <2>3, <2>14, <3>3
      <4> QED
        BY <2>10, <4>1, <4>2 DEF Took
    <3> QED
      BY <3>9, <3>10, <3>11 DEF Took
  <2>15. Took(t, Able(k), budget)
    BY <2>11, <2>12, <2>13, <2>14
  <2> QED
    BY <2>15 DEF t, k
<1>7. ASSUME NEW i \in Nat, i \in Good PROVE i + 1 \in Good
  <2> SUFFICES ASSUME i + 1 \in 0..n PROVE Took(st[i + 1], Able(i + 1), budget)
    OBVIOUS
  <2>1. i \in 0..n
    BY <1>3
  <2> HIDE DEF Able
  <2> QED
    BY <1>6, <1>7, <2>1
<1> HIDE DEF Good
<1>8. n \in Good
  BY <1>3, <1>5, <1>7, Induction
<1>9. Took(crop, Able(n), budget) /\ crop \in CropStates
  <2>1. n \in 0..n
    BY <1>3
  <2> HIDE DEF Able
  <2> QED
    BY <1>4, <1>8, <2>1 DEF Good
<1>10. Able(n) = Individual(S)
  BY <1>1, <1>3 DEF Of, Individual, IndividualNodes
<1> HIDE DEF Able
<1> QED
  BY <1>9, <1>10 DEF Took, crop, views, S

-----------------------------------------------------------------------------
(* The state that CropNodes reads. *)

Empties == ToSet(empty)
Drains  == ToSet(drain)
All     == Empties \cup Drains

Shape ==
  /\ empty \in Lists /\ drain \in Lists /\ Empties \cap Drains = {}
  /\ emptyInProgress \in Nat /\ drainInProgress \in Nat
  /\ target \in [Groups -> Nat] /\ registered \in [Groups -> Nat]

ParallelismLeft == ParallelismBudget(emptyInProgress, drainInProgress)
DrainsLeft      == DrainBudget(drainInProgress)

Size(g)   == Cardinality(Of(All, {g}))
ToDrain(g) == Cardinality(Of(Drains, {g}))
Batch(g)  == BatchSizeOf(g, Empties, Drains, target, registered)

LoopStates ==
  [parallelism : Int, drains : Int, canOverflow : BOOLEAN, left : BOOLEAN,
   empty : Seq(NodeViews), drain : Seq(NodeViews)]

(* A list gets a view of the nodes in S that are of g, if there are any.   *)
AppendsView(list, next, g, S) ==
  IF Of(S, {g}) = {} THEN next = list
  ELSE \E view \in NodeViews :
         /\ next = Append(list, view)
         /\ view.group = g /\ view.batchSize = Batch(g)
         /\ ToSet(view.nodes) = Of(S, {g})

(* A turn of either loop that takes the group g. *)
Takes(st, next, g) ==
  /\ next \in LoopStates
  /\ g \in AtomicGroups /\ ~st.left /\ Scalable(g, Size(g)) /\ Size(g) >= 1
  /\ next.parallelism = st.parallelism - Size(g)
  /\ next.drains \in Int
  /\ ~next.canOverflow
  /\ AppendsView(st.empty, next.empty, g, Empties)
  /\ AppendsView(st.drain, next.drain, g, Drains)

(* A turn that takes nothing, and may be the last. *)
TakesNothing(st, next) ==
  /\ next \in LoopStates
  /\ next.parallelism = st.parallelism /\ next.drains = st.drains
  /\ next.canOverflow = st.canOverflow
  /\ next.empty = st.empty /\ next.drain = st.drain

LEMMA ShapeFacts ==
  ASSUME Shape
  PROVE  /\ Empties \in SUBSET Nodes /\ Drains \in SUBSET Nodes /\ All \in SUBSET Nodes
         /\ ParallelismLeft \in Int /\ DrainsLeft \in Int
         /\ \A g \in Groups : target[g] \in Nat /\ registered[g] \in Nat
BY NodeGroupsAssumption
   DEF Shape, Lists, ToSet, Empties, Drains, All, ParallelismLeft, DrainsLeft,
       ParallelismBudget, DrainBudget

(* The sizes of a group and of groups. *)
LEMMA SizesAddUp ==
  ASSUME Shape, NEW g
  PROVE  /\ Size(g) \in Nat /\ ToDrain(g) \in Nat
         /\ Size(g) = Cardinality(Of(Empties, {g})) + ToDrain(g)
         /\ Cardinality(Of(Empties, {g})) \in Nat
         /\ ToDrain(g) = 0 <=> Of(Drains, {g}) = {}
         /\ Cardinality(Of(Empties, {g})) = 0 <=> Of(Empties, {g}) = {}
<1> DEFINE A == Of(Empties, {g})
           B == Of(Drains, {g})
<1>1. A \in SUBSET Nodes /\ B \in SUBSET Nodes /\ A \cap B = {} /\ Of(All, {g}) = A \cup B
  BY ShapeFacts DEF Of, All, Shape
<1> HIDE DEF A, B
<1>2. /\ Cardinality(A) \in Nat /\ Cardinality(B) \in Nat /\ Cardinality(A \cup B) \in Nat
      /\ Cardinality(A \cup B) = Cardinality(A) + Cardinality(B)
      /\ Cardinality(A) = 0 <=> A = {}
      /\ Cardinality(B) = 0 <=> B = {}
  <2>1. A \cup B \in SUBSET Nodes
    BY <1>1
  <2> QED
    BY <1>1, <2>1, Sizes
<1> QED
  BY <1>1, <1>2 DEF A, B, Size, ToDrain

LEMMA GroupsAddUp ==
  ASSUME NEW S \in SUBSET Nodes, NEW T, NEW g, g \notin T
  PROVE  /\ Of(S, T \cup {g}) = Of(S, T) \cup Of(S, {g})
         /\ Cardinality(Of(S, T \cup {g})) = Cardinality(Of(S, T)) + Cardinality(Of(S, {g}))
         /\ Cardinality(Of(S, T)) \in Nat
<1> DEFINE A == Of(S, T)
           B == Of(S, {g})
<1>1. A \in SUBSET Nodes /\ B \in SUBSET Nodes /\ A \cap B = {} /\ Of(S, T \cup {g}) = A \cup B
  BY DEF Of
<1> HIDE DEF A, B
<1>2. Cardinality(A \cup B) = Cardinality(A) + Cardinality(B) /\ Cardinality(A) \in Nat
  BY <1>1, Sizes
<1> QED
  BY <1>1, <1>2 DEF A, B

(* The size of the batch is what the first list of a group says.           *)
LEMMA BatchOfView ==
  ASSUME Shape, NEW view, NEW S \in {Empties, Drains}, HasAll(view, S),
         S = Drains => Of(Empties, {view.group}) = {}
  PROVE  ViewBatchSize(view) = Batch(view.group) /\ Batch(view.group) \in Int
<1> DEFINE g == view.group
<1>1. /\ Len(view.nodes) = Cardinality(Of(S, {g})) /\ g \in Groups
      /\ Of(S, {g}) # {}
  <2>1. S \in SUBSET Nodes
    BY ShapeFacts
  <2> QED
    BY <2>1, ViewCounts DEF HasAll
<1>2. /\ Empties \cap NodesOf(g) = Of(Empties, {g})
      /\ Drains \cap NodesOf(g) = Of(Drains, {g})
  BY ShapeFacts DEF NodesOf, Of
<1>3. target[g] \in Int /\ registered[g] \in Int
  BY <1>1, ShapeFacts
<1> QED
  BY <1>1, <1>2, <1>3 DEF ViewBatchSize, Batch, BatchSizeOf

(* A turn of the first loop. *)
LEMMA EmptyTurn ==
  ASSUME Shape, NEW st \in LoopStates, NEW view, HasAll(view, Empties)
  PROVE  LET g    == view.group
             next == TakeEmptyAtomic(st, view)
         IN  \/ TakesNothing(st, next)
             \/ /\ Takes(st, next, g)
                /\ next.drains = st.drains - ToDrain(g)
                /\ \/ st.parallelism >= Size(g) /\ st.drains >= ToDrain(g)
                   \/ /\ st.canOverflow /\ st.parallelism # 0
                      /\ ToDrain(g) > 0 => st.drains # 0
<1> DEFINE g == view.group
           next == TakeEmptyAtomic(st, view)
           buckets == Buckets(drain, g)
           drained == CHOOSE bucket \in buckets : TRUE
           drains == IF buckets = {} THEN 0 ELSE Len(drained.nodes)
           size == Len(view.nodes) + drains
           batch == ViewBatchSize(view)
           fits == st.parallelism >= size /\ st.drains >= drains
           v == [view EXCEPT !.batchSize = batch]
           w == [drained EXCEPT !.batchSize = batch]
<1>1. /\ view \in NodeViews /\ g \in Groups
      /\ ToSet(view.nodes) = Of(Empties, {g}) /\ Of(Empties, {g}) # {}
      /\ Len(view.nodes) = Cardinality(Of(Empties, {g}))
      /\ Len(view.nodes) \in Nat /\ Len(view.nodes) >= 1
  BY ShapeFacts, ViewCounts DEF HasAll
<1>2. buckets = {} <=> Of(Drains, {g}) = {}
  BY BucketOfGroup DEF Shape, Of, Drains
<1>3. buckets # {} => HasAll(drained, Drains) /\ drained.group = g
  BY BucketOfGroup DEF Shape, Drains
<1>4. batch = Batch(g) /\ batch \in Int
  <2>1. Empties # Drains
    BY <1>1 DEF Shape, Of
  <2> QED
    BY <1>1, <2>1, BatchOfView
<1> HIDE DEF buckets, drained, batch
<1>5. /\ drains = ToDrain(g) /\ drains \in Nat
      /\ buckets # {} => /\ drained \in NodeViews /\ drained.group = g
                         /\ ToSet(drained.nodes) = Of(Drains, {g})
  <2>1. CASE buckets = {}
    BY <1>2, <2>1, SizesAddUp
  <2>2. CASE buckets # {}
    <3>1. /\ ToSet(drained.nodes) = Of(Drains, {g}) /\ Len(drained.nodes) = ToDrain(g)
          /\ Len(drained.nodes) \in Nat /\ drained \in NodeViews
      BY <1>3, <2>2, ShapeFacts, ViewCounts DEF HasAll, ToDrain
    <3> QED
      BY <1>3, <2>2, <3>1
  <2> QED
    BY <2>1, <2>2
<1>6. size = Size(g) /\ size \in Nat /\ size >= 1
  <2>1. Size(g) = Cardinality(Of(Empties, {g})) + ToDrain(g)
    BY SizesAddUp
  <2> QED
    BY <1>1, <1>5, <2>1
<1>7. /\ v \in NodeViews /\ v.group = g /\ v.batchSize = Batch(g) /\ v.nodes = view.nodes
  BY <1>1, <1>4 DEF NodeViews
<1>8. buckets # {} => /\ w \in NodeViews /\ w.group = g /\ w.batchSize = Batch(g)
                      /\ w.nodes = drained.nodes
  BY <1>4, <1>5 DEF NodeViews
<1>9. next = IF g \notin AtomicGroups THEN st
             ELSE IF st.left \/ ~(fits \/ SneaksIn(st, drains)) THEN [st EXCEPT !.left = TRUE]
             ELSE IF ~Scalable(g, size) THEN st
             ELSE [st EXCEPT
                     !.parallelism = @ - size,
                     !.drains      = @ - drains,
                     !.canOverflow = FALSE,
                     !.empty       = Append(@, v),
                     !.drain       = IF buckets = {} THEN @ ELSE Append(@, w)]
  BY DEF TakeEmptyAtomic, buckets, drained, batch
<1>10. /\ st.parallelism \in Int /\ st.drains \in Int /\ st.canOverflow \in BOOLEAN /\ st.left \in BOOLEAN
       /\ st.empty \in Seq(NodeViews) /\ st.drain \in Seq(NodeViews)
  BY DEF LoopStates
<1> HIDE DEF drains, size, fits, v, w, next, g
<1>11. TakesNothing(st, st) /\ TakesNothing(st, [st EXCEPT !.left = TRUE])
  BY DEF TakesNothing, LoopStates
<1>12. CASE g \notin AtomicGroups \/ st.left \/ ~(fits \/ SneaksIn(st, drains)) \/ ~Scalable(g, size)
  <2>1. next = st \/ next = [st EXCEPT !.left = TRUE]
    BY <1>9, <1>12
  <2> QED
    BY <1>11, <2>1 DEF next
<1>13. CASE g \in AtomicGroups /\ ~st.left /\ (fits \/ SneaksIn(st, drains)) /\ Scalable(g, size)
  <2> DEFINE more == Append(st.empty, v)
             moreDrain == IF buckets = {} THEN st.drain ELSE Append(st.drain, w)
  <2>1. next = [st EXCEPT !.parallelism = @ - size, !.drains = @ - drains, !.canOverflow = FALSE,
                          !.empty = Append(@, v),
                          !.drain = IF buckets = {} THEN @ ELSE Append(@, w)]
    BY <1>9, <1>13
  <2>2. more \in Seq(NodeViews) /\ moreDrain \in Seq(NodeViews)
    BY <1>7, <1>8, <1>10, Appended
  <2> DEFINE p == st.parallelism - size
             d == st.drains - drains
  <2>8. next = [st EXCEPT !.parallelism = p, !.drains = d, !.canOverflow = FALSE,
                          !.empty = more, !.drain = moreDrain]
    BY <2>1
  <2>9. p \in Int /\ d \in Int
    BY <1>5, <1>6, <1>10
  <2> HIDE DEF more, moreDrain, p, d
  <2>3. /\ next \in LoopStates
        /\ next.parallelism = st.parallelism - size /\ next.drains = st.drains - drains
        /\ next.canOverflow = FALSE /\ next.empty = more /\ next.drain = moreDrain
    <3>1. /\ next \in LoopStates
          /\ next.parallelism = p /\ next.drains = d
          /\ next.canOverflow = FALSE /\ next.empty = more /\ next.drain = moreDrain
      BY <2>2, <2>8, <2>9 DEF LoopStates
    <3> QED
      BY <3>1 DEF p, d
  <2>4. AppendsView(st.empty, next.empty, g, Empties)
    BY <1>1, <1>7, <2>3 DEF AppendsView, more
  <2>5. AppendsView(st.drain, next.drain, g, Drains)
    <3>1. CASE buckets = {}
      BY <1>2, <2>3, <3>1 DEF AppendsView, moreDrain
    <3>2. CASE buckets # {}
      BY <1>2, <1>5, <1>8, <2>3, <3>2 DEF AppendsView, moreDrain
    <3> QED
      BY <3>1, <3>2
  <2>6. Takes(st, next, g)
    BY <1>6, <1>10, <1>13, <2>3, <2>4, <2>5 DEF Takes, LoopStates
  <2>7. \/ st.parallelism >= Size(g) /\ st.drains >= ToDrain(g)
        \/ /\ st.canOverflow /\ st.parallelism # 0
           /\ ToDrain(g) > 0 => st.drains # 0
    BY <1>5, <1>6, <1>13 DEF fits, SneaksIn
  <2> QED
    BY <1>5, <2>3, <2>6, <2>7 DEF next, g
<1> QED
  BY <1>12, <1>13

(* A turn of the second loop. *)
LEMMA DrainTurn ==
  ASSUME Shape, NEW st \in LoopStates, NEW view, HasAll(view, Drains)
  PROVE  LET g    == view.group
             next == TakeDrainAtomic(st, view)
         IN  \/ TakesNothing(st, next)
             \/ /\ Takes(st, next, g)
                /\ Of(Empties, {g}) = {}
                /\ next.drains = st.drains - ToDrain(g)
                /\ st.drains >= ToDrain(g) \/ (st.canOverflow /\ st.drains # 0)
<1> DEFINE g == view.group
           next == TakeDrainAtomic(st, view)
           buckets == Buckets(empty, g)
           size == Len(view.nodes)
           fits == st.drains >= size
           v == [view EXCEPT !.batchSize = ViewBatchSize(view)]
<1>1. /\ view \in NodeViews /\ g \in Groups
      /\ ToSet(view.nodes) = Of(Drains, {g}) /\ Of(Drains, {g}) # {}
      /\ size = ToDrain(g) /\ size \in Nat /\ size >= 1
  BY ShapeFacts, ViewCounts DEF HasAll, ToDrain
<1>2. buckets = {} <=> Of(Empties, {g}) = {}
  BY BucketOfGroup DEF Shape, Of, Empties
<1>3. next = IF g \notin AtomicGroups \/ buckets # {} THEN st
             ELSE IF st.left \/ ~(fits \/ (st.canOverflow /\ st.drains # 0))
               THEN [st EXCEPT !.left = TRUE]
             ELSE IF ~Scalable(g, size) THEN st
             ELSE [st EXCEPT
                     !.parallelism = @ - size,
                     !.drains      = @ - size,
                     !.canOverflow = FALSE,
                     !.drain       = Append(@, v)]
  BY DEF TakeDrainAtomic
<1>4. /\ st.parallelism \in Int /\ st.drains \in Int /\ st.canOverflow \in BOOLEAN /\ st.left \in BOOLEAN
      /\ st.empty \in Seq(NodeViews) /\ st.drain \in Seq(NodeViews)
  BY DEF LoopStates
<1>5. buckets = {} => v \in NodeViews /\ v.group = g /\ v.batchSize = Batch(g) /\ v.nodes = view.nodes
  <2> SUFFICES ASSUME buckets = {}
               PROVE  v \in NodeViews /\ v.group = g /\ v.batchSize = Batch(g) /\ v.nodes = view.nodes
    OBVIOUS
  <2>1. ViewBatchSize(view) = Batch(g) /\ Batch(g) \in Int
    BY <1>2, BatchOfView
  <2> QED
    BY <1>1, <2>1 DEF NodeViews
<1>6. buckets = {} => size = Size(g)
  <2>1. /\ Size(g) = Cardinality(Of(Empties, {g})) + ToDrain(g)
        /\ Cardinality(Of(Empties, {g})) = 0 <=> Of(Empties, {g}) = {}
    BY SizesAddUp
  <2>2. buckets = {} => Cardinality(Of(Empties, {g})) = 0
    BY <1>2, <2>1, Zenon
  <2> HIDE DEF size, buckets, g
  <2> QED
    BY <1>1, <2>1, <2>2
<1> HIDE DEF size, fits, v, next, g, buckets
<1>7. TakesNothing(st, st) /\ TakesNothing(st, [st EXCEPT !.left = TRUE])
  BY DEF TakesNothing, LoopStates
<1>8. CASE \/ g \notin AtomicGroups \/ buckets # {} \/ st.left
           \/ ~(fits \/ (st.canOverflow /\ st.drains # 0)) \/ ~Scalable(g, size)
  <2>1. next = st \/ next = [st EXCEPT !.left = TRUE]
    BY <1>3, <1>8
  <2> QED
    BY <1>7, <2>1 DEF next
<1>9. CASE /\ g \in AtomicGroups /\ buckets = {} /\ ~st.left
           /\ fits \/ (st.canOverflow /\ st.drains # 0)
           /\ Scalable(g, size)
  <2> DEFINE more == Append(st.drain, v)
  <2>1. next = [st EXCEPT !.parallelism = @ - size, !.drains = @ - size, !.canOverflow = FALSE,
                          !.drain = Append(@, v)]
    BY <1>3, <1>9
  <2>2. more \in Seq(NodeViews)
    BY <1>4, <1>5, <1>9, Appended
  <2> DEFINE p == st.parallelism - size
             d == st.drains - size
  <2>7. next = [st EXCEPT !.parallelism = p, !.drains = d, !.canOverflow = FALSE, !.drain = more]
    BY <2>1
  <2>8. p \in Int /\ d \in Int
    BY <1>1, <1>4
  <2> HIDE DEF more, p, d
  <2>3. /\ next \in LoopStates
        /\ next.parallelism = st.parallelism - size /\ next.drains = st.drains - size
        /\ next.canOverflow = FALSE /\ next.empty = st.empty /\ next.drain = more
    <3>1. /\ next \in LoopStates
          /\ next.parallelism = p /\ next.drains = d
          /\ next.canOverflow = FALSE /\ next.empty = st.empty /\ next.drain = more
      BY <2>2, <2>7, <2>8 DEF LoopStates
    <3> QED
      BY <3>1 DEF p, d
  <2>4. AppendsView(st.empty, next.empty, g, Empties)
    BY <1>2, <1>9, <2>3 DEF AppendsView
  <2>5. AppendsView(st.drain, next.drain, g, Drains)
    BY <1>1, <1>5, <1>9, <2>3 DEF AppendsView, more
  <2>6. Takes(st, next, g)
    BY <1>1, <1>4, <1>6, <1>9, <2>3, <2>4, <2>5 DEF Takes, LoopStates
  <2> QED
    BY <1>1, <1>2, <1>9, <2>3, <2>6 DEF next, g, fits
<1> QED
  BY <1>8, <1>9

-----------------------------------------------------------------------------
(* The views of a list are those of the groups T, with all nodes in S.     *)
ViewsOf(list, S, T) ==
  /\ NodesIn(list) = Of(S, T)
  /\ \A i \in DOMAIN list :
       list[i].group \in T /\ list[i].batchSize = Batch(list[i].group)

TookViews(st, T) == ViewsOf(st.empty, Empties, T) /\ ViewsOf(st.drain, Drains, T)

(* Groups that may be taken: of a known size, and all of their nodes. *)
Whole(T) ==
  /\ T \subseteq AtomicGroups
  /\ \A g \in T : Size(g) >= 1 /\ Scalable(g, Size(g))

Taken(st, T) ==
  /\ st \in LoopStates
  /\ TookViews(st, T) /\ Whole(T)
  /\ st.canOverflow <=> T = {}
  /\ st.parallelism = ParallelismLeft - Cardinality(Of(All, T))

AtMostOne(T) == \E g : T \subseteq {g}

(* What holds between the turns of the first loop ...                      *)
FirstLoop(st, T) ==
  /\ Taken(st, T)
  /\ st.drains = DrainsLeft - Cardinality(Of(Drains, T))
  /\ AtMostOne(T) \/ (st.parallelism >= 0 /\ st.drains >= 0)
  /\ ParallelismLeft = 0 => T = {}
  /\ DrainsLeft = 0 => Of(Drains, T) = {}

(* ... and of the second, which has a single budget.                       *)
SecondLoop(st, T) ==
  /\ Taken(st, T)
  /\ st.drains = Minimum(st.parallelism, DrainsLeft - Cardinality(Of(Drains, T)))
  /\ AtMostOne(T) \/ st.drains >= 0
  /\ ParallelismLeft = 0 /\ DrainsLeft >= 0 => T = {}
  /\ DrainsLeft = 0 /\ ParallelismLeft >= 0 => Of(Drains, T) = {}

LEMMA ListGrows ==
  ASSUME NEW list \in Seq(NodeViews), NEW next, NEW g, NEW T, NEW S \in SUBSET Nodes, g \notin T,
         AppendsView(list, next, g, S), ViewsOf(list, S, T)
  PROVE  ViewsOf(next, S, T \cup {g})
<1>1. Of(S, T \cup {g}) = Of(S, T) \cup Of(S, {g})
  BY GroupsAddUp
<1>2. CASE Of(S, {g}) = {}
  BY <1>1, <1>2 DEF AppendsView, ViewsOf
<1>3. CASE Of(S, {g}) # {}
  <2>1. PICK view \in NodeViews :
         /\ next = Append(list, view)
         /\ view.group = g /\ view.batchSize = Batch(g)
         /\ ToSet(view.nodes) = Of(S, {g})
    BY <1>3 DEF AppendsView
  <2>2. NodesIn(next) = NodesIn(list) \cup ToSet(view.nodes)
    BY <2>1, NodesInAppended
  <2>3. /\ DOMAIN next = 1..(Len(list) + 1) /\ Len(list) \in Nat
        /\ DOMAIN list = 1..Len(list)
        /\ \A i \in 1..Len(list) : next[i] = list[i]
        /\ next[Len(list) + 1] = view
    BY <2>1, Appended
  <2>4. NodesIn(next) = Of(S, T \cup {g})
    BY <1>1, <2>1, <2>2 DEF ViewsOf
  <2>5. ASSUME NEW i \in DOMAIN next
        PROVE  next[i].group \in T \cup {g} /\ next[i].batchSize = Batch(next[i].group)
    <3>1. CASE i = Len(list) + 1
      BY <2>1, <2>3, <3>1
    <3>2. CASE i # Len(list) + 1
      <4>1. i \in DOMAIN list /\ next[i] = list[i]
        BY <2>3, <3>2
      <4> QED
        BY <4>1 DEF ViewsOf
    <3> QED
      BY <3>1, <3>2
  <2> QED
    BY <2>4, <2>5 DEF ViewsOf
<1> QED
  BY <1>2, <1>3

(* A turn that takes a group. *)
LEMMA TurnTakes ==
  ASSUME Shape, NEW st, NEW T, Taken(st, T), NEW next, NEW g, g \notin T, Takes(st, next, g)
  PROVE  /\ Taken(next, T \cup {g})
         /\ Cardinality(Of(Drains, T \cup {g})) = Cardinality(Of(Drains, T)) + ToDrain(g)
         /\ Cardinality(Of(All, T \cup {g})) = Cardinality(Of(All, T)) + Size(g)
         /\ Cardinality(Of(Drains, T)) \in Nat /\ Cardinality(Of(All, T)) \in Nat
<1> DEFINE U == T \cup {g}
<1>1. /\ Cardinality(Of(Drains, U)) = Cardinality(Of(Drains, T)) + ToDrain(g)
      /\ Cardinality(Of(Drains, T)) \in Nat
  BY ShapeFacts, GroupsAddUp DEF ToDrain
<1>2. /\ Cardinality(Of(All, U)) = Cardinality(Of(All, T)) + Size(g)
      /\ Cardinality(Of(All, T)) \in Nat
  BY ShapeFacts, GroupsAddUp DEF Size
<1>3. Size(g) \in Nat /\ ParallelismLeft \in Int
  BY SizesAddUp, ShapeFacts
<1>4. st.empty \in Seq(NodeViews) /\ st.drain \in Seq(NodeViews)
  BY DEF Taken, LoopStates
<1>5. ViewsOf(next.empty, Empties, U)
  <2> DEFINE l == st.empty
             m == next.empty
  <2>1. /\ l \in Seq(NodeViews) /\ Empties \in SUBSET Nodes /\ AppendsView(l, m, g, Empties)
        /\ ViewsOf(l, Empties, T)
    BY <1>4, ShapeFacts DEF Takes, Taken, TookViews
  <2> HIDE DEF l, m
  <2> QED
    BY <2>1, ListGrows DEF m
<1>6. ViewsOf(next.drain, Drains, U)
  <2> DEFINE l == st.drain
             m == next.drain
  <2>1. /\ l \in Seq(NodeViews) /\ Drains \in SUBSET Nodes /\ AppendsView(l, m, g, Drains)
        /\ ViewsOf(l, Drains, T)
    BY <1>4, ShapeFacts DEF Takes, Taken, TookViews
  <2> HIDE DEF l, m
  <2> QED
    BY <2>1, ListGrows DEF m
<1>7. TookViews(next, U)
  BY <1>5, <1>6 DEF TookViews
<1>8. Whole(U)
  BY DEF Whole, Taken, Takes
<1>9. next.parallelism = ParallelismLeft - Cardinality(Of(All, U))
  <2>1. st.parallelism = ParallelismLeft - Cardinality(Of(All, T))
    BY DEF Taken
  <2>2. next.parallelism = st.parallelism - Size(g)
    BY DEF Takes
  <2> QED
    BY <1>2, <1>3, <2>1, <2>2
<1>10. next.canOverflow <=> U = {}
  BY DEF Takes
<1>11. Taken(next, U)
  BY <1>7, <1>8, <1>9, <1>10 DEF Taken, Takes
<1> QED
  BY <1>1, <1>2, <1>11

(* The first loop, turn by turn. *)
LEMMA FirstLoopTurn ==
  ASSUME Shape, NEW st, NEW T, FirstLoop(st, T), NEW view, HasAll(view, Empties), view.group \notin T
  PROVE  \E U \in {T, T \cup {view.group}} : FirstLoop(TakeEmptyAtomic(st, view), U)
<1> DEFINE g == view.group
           next == TakeEmptyAtomic(st, view)
           U == T \cup {g}
<1>1. st \in LoopStates /\ Taken(st, T)
  BY DEF FirstLoop, Taken
<1>2. \/ TakesNothing(st, next)
      \/ /\ Takes(st, next, g)
         /\ next.drains = st.drains - ToDrain(g)
         /\ \/ st.parallelism >= Size(g) /\ st.drains >= ToDrain(g)
            \/ /\ st.canOverflow /\ st.parallelism # 0
               /\ ToDrain(g) > 0 => st.drains # 0
  BY <1>1, EmptyTurn
<1>3. /\ Size(g) \in Nat /\ ToDrain(g) \in Nat
      /\ ToDrain(g) = 0 <=> Of(Drains, {g}) = {}
  BY SizesAddUp
<1>4. ParallelismLeft \in Int /\ DrainsLeft \in Int
  BY ShapeFacts
<1> HIDE DEF next, g
<1>5. ASSUME TakesNothing(st, next) PROVE FirstLoop(next, T)
  BY <1>5 DEF TakesNothing, FirstLoop, Taken, TookViews
<1>6. ASSUME /\ Takes(st, next, g)
             /\ next.drains = st.drains - ToDrain(g)
             /\ \/ st.parallelism >= Size(g) /\ st.drains >= ToDrain(g)
                \/ /\ st.canOverflow /\ st.parallelism # 0
                   /\ ToDrain(g) > 0 => st.drains # 0
      PROVE  FirstLoop(next, U)
  <2>1. /\ Taken(next, U)
        /\ Cardinality(Of(Drains, U)) = Cardinality(Of(Drains, T)) + ToDrain(g)
        /\ Cardinality(Of(Drains, T)) \in Nat /\ Cardinality(Of(All, T)) \in Nat
    BY <1>1, <1>6, TurnTakes DEF g
  <2>2. /\ st.drains = DrainsLeft - Cardinality(Of(Drains, T))
        /\ st.parallelism = ParallelismLeft - Cardinality(Of(All, T))
        /\ ParallelismLeft = 0 => T = {}
        /\ DrainsLeft = 0 => Of(Drains, T) = {}
        /\ st.canOverflow <=> T = {}
        /\ next.parallelism = st.parallelism - Size(g) /\ Size(g) >= 1
    BY <1>6 DEF FirstLoop, Taken, Takes
  <2>3. /\ T = {} => Cardinality(Of(All, T)) = 0
        /\ Of(Drains, T) = {} => Cardinality(Of(Drains, T)) = 0
    BY FS_EmptySet DEF Of
  <2>4. Of(Drains, U) = Of(Drains, T) \cup Of(Drains, {g})
    BY DEF Of
  <2> HIDE DEF U
  <2>5. next.drains = DrainsLeft - Cardinality(Of(Drains, U))
    BY <1>3, <1>4, <1>6, <2>1, <2>2
  <2>6. AtMostOne(U) \/ (next.parallelism >= 0 /\ next.drains >= 0)
    <3>1. T = {} => AtMostOne(U)
      BY DEF AtMostOne, U
    <3>2. T # {} => next.parallelism >= 0 /\ next.drains >= 0
      BY <1>3, <1>4, <1>6, <2>1, <2>2
    <3> QED
      BY <3>1, <3>2
  <2>7. ParallelismLeft # 0
    BY <1>3, <1>4, <1>6, <2>1, <2>2, <2>3
  <2>8. DrainsLeft = 0 => Of(Drains, U) = {}
    <3>1. DrainsLeft = 0 => ToDrain(g) = 0
      BY <1>3, <1>4, <1>6, <2>1, <2>2, <2>3
    <3> QED
      BY <1>3, <2>2, <2>4, <3>1
  <2> QED
    BY <2>1, <2>5, <2>6, <2>7, <2>8 DEF FirstLoop
<1> QED
  BY <1>2, <1>5, <1>6 DEF next, g

(* The second loop, turn by turn. *)
LEMMA SecondLoopTurn ==
  ASSUME Shape, NEW st, NEW T, SecondLoop(st, T), NEW view, HasAll(view, Drains),
         view.group \in T => Of(Empties, {view.group}) # {}
  PROVE  \E U \in {T, T \cup {view.group}} : SecondLoop(TakeDrainAtomic(st, view), U)
<1> DEFINE g == view.group
           next == TakeDrainAtomic(st, view)
           U == T \cup {g}
<1>1. st \in LoopStates /\ Taken(st, T)
  BY DEF SecondLoop, Taken
<1>2. \/ TakesNothing(st, next)
      \/ /\ Takes(st, next, g)
         /\ Of(Empties, {g}) = {}
         /\ next.drains = st.drains - ToDrain(g)
         /\ st.drains >= ToDrain(g) \/ (st.canOverflow /\ st.drains # 0)
  BY <1>1, DrainTurn
<1>3. /\ Size(g) \in Nat /\ ToDrain(g) \in Nat
      /\ ToDrain(g) = 0 <=> Of(Drains, {g}) = {}
      /\ Of(Empties, {g}) = {} => Size(g) = ToDrain(g)
  <2>1. /\ Size(g) \in Nat /\ ToDrain(g) \in Nat
        /\ ToDrain(g) = 0 <=> Of(Drains, {g}) = {}
        /\ Size(g) = Cardinality(Of(Empties, {g})) + ToDrain(g)
        /\ Cardinality(Of(Empties, {g})) = 0 <=> Of(Empties, {g}) = {}
    BY SizesAddUp
  <2> HIDE DEF g
  <2>2. Of(Empties, {g}) = {} => Cardinality(Of(Empties, {g})) = 0
    BY <2>1, Zenon
  <2> QED
    BY <2>1, <2>2
<1>4. ParallelismLeft \in Int /\ DrainsLeft \in Int
  BY ShapeFacts
<1>5. g \in T => Of(Empties, {g}) # {}
  OBVIOUS
<1> HIDE DEF next, g
<1>6. ASSUME TakesNothing(st, next) PROVE SecondLoop(next, T)
  BY <1>6 DEF TakesNothing, SecondLoop, Taken, TookViews
<1>7. ASSUME /\ Takes(st, next, g)
             /\ Of(Empties, {g}) = {}
             /\ next.drains = st.drains - ToDrain(g)
             /\ st.drains >= ToDrain(g) \/ (st.canOverflow /\ st.drains # 0)
      PROVE  SecondLoop(next, U)
  <2>10. g \notin T
    BY <1>5, <1>7
  <2>1. /\ Taken(next, U)
        /\ Cardinality(Of(Drains, U)) = Cardinality(Of(Drains, T)) + ToDrain(g)
        /\ Cardinality(Of(Drains, T)) \in Nat /\ Cardinality(Of(All, T)) \in Nat
    BY <1>1, <1>7, <2>10, TurnTakes
  <2> DEFINE c == Cardinality(Of(Drains, T))
             a == Cardinality(Of(All, T))
             s == Size(g)
  <2>2. /\ st.drains = Minimum(st.parallelism, DrainsLeft - c)
        /\ st.parallelism = ParallelismLeft - a
        /\ ParallelismLeft = 0 /\ DrainsLeft >= 0 => T = {}
        /\ DrainsLeft = 0 /\ ParallelismLeft >= 0 => Of(Drains, T) = {}
        /\ st.canOverflow <=> T = {}
        /\ next.parallelism = st.parallelism - s /\ s >= 1
    BY <1>7 DEF SecondLoop, Taken, Takes
  <2>3. /\ T = {} => a = 0 /\ c = 0
        /\ Of(Drains, T) = {} => c = 0
    BY FS_EmptySet DEF Of
  <2>4. Of(Drains, U) = Of(Drains, T) \cup Of(Drains, {g})
    BY DEF Of
  <2>5. /\ Cardinality(Of(Drains, U)) = c + s /\ ToDrain(g) = s /\ s \in Nat /\ c \in Nat /\ a \in Nat
        /\ next.drains = st.drains - s
        /\ st.drains >= s \/ (st.canOverflow /\ st.drains # 0)
    BY <1>3, <1>7, <2>1
  <2> HIDE DEF c, a, s, U
  <2>6. next.drains = Minimum(next.parallelism, DrainsLeft - Cardinality(Of(Drains, U)))
    BY <1>4, <2>2, <2>5 DEF Minimum
  <2>7. AtMostOne(U) \/ next.drains >= 0
    <3>1. T = {} => AtMostOne(U)
      BY DEF AtMostOne, U
    <3>2. T # {} => next.drains >= 0
      BY <1>4, <2>2, <2>5 DEF Minimum
    <3> QED
      BY <3>1, <3>2
  <2>8. ~(ParallelismLeft = 0 /\ DrainsLeft >= 0)
    BY <1>4, <2>2, <2>3, <2>5 DEF Minimum
  <2>9. ~(DrainsLeft = 0 /\ ParallelismLeft >= 0)
    BY <1>4, <2>2, <2>3, <2>5 DEF Minimum
  <2> QED
    BY <2>1, <2>6, <2>7, <2>8, <2>9 DEF SecondLoop
<1> QED
  BY <1>2, <1>6, <1>7 DEF next, g

-----------------------------------------------------------------------------
(* The functions that the two loops are made of, view by view.             *)
LEMMA FirstUnfolds ==
  ASSUME Shape, NEW start \in LoopStates, NEW views, views = Grouped(empty)
  PROVE  \E st \in [0..Len(views) -> LoopStates] :
           /\ st[0] = start
           /\ \A i \in 1..Len(views) : st[i] = TakeEmptyAtomic(st[i - 1], views[i])
           /\ TakeEmptyAtomics(start) = st[Len(views)]
<1> DEFINE n == Len(views)
           first == start
           step == [p \in Int \X LoopStates |->
                      IF p[1] \in 1..n THEN TakeEmptyAtomic(p[2], views[p[1]]) ELSE p[2]]
           st == CHOOSE st : st = [i \in 0..Len(views) |->
                   IF i = 0 THEN start
                            ELSE TakeEmptyAtomic(st[i - 1], views[i])]
<1>1. TakeEmptyAtomics(start) = st[Len(views)]
  BY DEF TakeEmptyAtomics
<1>2. n \in Nat /\ n = Len(views) /\ \A i \in 1..n : HasAll(views[i], Empties)
  <2>1. IsGrouping(views, Empties)
    BY GroupedIsGrouping DEF Shape, Empties
  <2> QED
    BY <2>1 DEF IsGrouping
<1>3. first \in LoopStates
  OBVIOUS
<1>4. \A i \in 1..n, s \in LoopStates : TakeEmptyAtomic(s, views[i]) \in LoopStates
  BY <1>2, EmptyTurn DEF Takes, TakesNothing
<1>5. st = CHOOSE h : h = [i \in 0..n |-> IF i = 0 THEN first ELSE TakeEmptyAtomic(h[i - 1], views[i])]
  BY <1>2
<1> HIDE DEF n, first, st
<1>6. step \in [Int \X LoopStates -> LoopStates]
  BY <1>4
<1>7. \A i \in 1..n, s \in LoopStates : step[<<i, s>>] = TakeEmptyAtomic(s, views[i])
  BY <1>2
<1>8. 0 \in Int /\ n \in Int
  BY <1>2
<1> HIDE DEF step
<1>9. PICK r \in [0..n -> LoopStates] : Solution(r, 0, n, first, step)
  BY <1>3, <1>6, <1>8, Recursion
<1>10. r = [i \in 0..n |-> IF i = 0 THEN first ELSE TakeEmptyAtomic(r[i - 1], views[i])]
  <2>1. \A i \in 0..n : r[i] = IF i = 0 THEN first ELSE step[<<i, r[i - 1]>>]
    BY <1>9 DEF Solution
  <2>2. \A i \in 0..n : i # 0 => step[<<i, r[i - 1]>>] = TakeEmptyAtomic(r[i - 1], views[i])
    BY <1>2, <1>7
  <2> QED
    BY <2>1, <2>2
<1>11. st = [i \in 0..n |-> IF i = 0 THEN first ELSE TakeEmptyAtomic(st[i - 1], views[i])]
  BY <1>5, <1>10
<1>12. \A i \in 0..n : st[i] = IF i = 0 THEN first ELSE TakeEmptyAtomic(st[i - 1], views[i])
  BY <1>11
<1>13. st \in [0..n -> LoopStates]
  <2> DEFINE S == {i \in Nat : i \in 0..n => st[i] \in LoopStates}
  <2>1. 0 \in S
    BY <1>3, <1>12
  <2>2. ASSUME NEW i \in Nat, i \in S PROVE i + 1 \in S
    <3> SUFFICES ASSUME i + 1 \in 0..n PROVE st[i + 1] \in LoopStates
      OBVIOUS
    <3>1. i \in 0..n /\ i + 1 \in 1..n /\ st[i + 1] = TakeEmptyAtomic(st[i], views[i + 1])
      BY <1>2, <1>12
    <3> QED
      BY <1>4, <2>2, <3>1
  <2> HIDE DEF S
  <2>3. Nat \subseteq S
    BY <2>1, <2>2, Induction
  <2>4. \A i \in 0..n : st[i] \in LoopStates
    BY <1>2, <2>3 DEF S
  <2> QED
    BY <1>11, <2>4
<1>14. st[0] = first /\ \A i \in 1..n : st[i] = TakeEmptyAtomic(st[i - 1], views[i])
  BY <1>2, <1>12
<1> QED
  BY <1>1, <1>2, <1>13, <1>14 DEF first

(* The same for the second loop. *)
LEMMA SecondUnfolds ==
  ASSUME Shape, NEW start \in LoopStates, NEW views, views = Grouped(drain)
  PROVE  \E st \in [0..Len(views) -> LoopStates] :
           /\ st[0] = start
           /\ \A i \in 1..Len(views) : st[i] = TakeDrainAtomic(st[i - 1], views[i])
           /\ TakeDrainAtomics(start) = st[Len(views)]
<1> DEFINE n == Len(views)
           first == start
           step == [p \in Int \X LoopStates |->
                      IF p[1] \in 1..n THEN TakeDrainAtomic(p[2], views[p[1]]) ELSE p[2]]
           st == CHOOSE st : st = [i \in 0..Len(views) |->
                   IF i = 0 THEN start
                            ELSE TakeDrainAtomic(st[i - 1], views[i])]
<1>1. TakeDrainAtomics(start) = st[Len(views)]
  BY DEF TakeDrainAtomics
<1>2. n \in Nat /\ n = Len(views) /\ \A i \in 1..n : HasAll(views[i], Drains)
  <2>1. IsGrouping(views, Drains)
    BY GroupedIsGrouping DEF Shape, Drains
  <2> QED
    BY <2>1 DEF IsGrouping
<1>3. first \in LoopStates
  OBVIOUS
<1>4. \A i \in 1..n, s \in LoopStates : TakeDrainAtomic(s, views[i]) \in LoopStates
  BY <1>2, DrainTurn DEF Takes, TakesNothing
<1>5. st = CHOOSE h : h = [i \in 0..n |-> IF i = 0 THEN first ELSE TakeDrainAtomic(h[i - 1], views[i])]
  BY <1>2
<1> HIDE DEF n, first, st
<1>6. step \in [Int \X LoopStates -> LoopStates]
  BY <1>4
<1>7. \A i \in 1..n, s \in LoopStates : step[<<i, s>>] = TakeDrainAtomic(s, views[i])
  BY <1>2
<1>8. 0 \in Int /\ n \in Int
  BY <1>2
<1> HIDE DEF step
<1>9. PICK r \in [0..n -> LoopStates] : Solution(r, 0, n, first, step)
  BY <1>3, <1>6, <1>8, Recursion
<1>10. r = [i \in 0..n |-> IF i = 0 THEN first ELSE TakeDrainAtomic(r[i - 1], views[i])]
  <2>1. \A i \in 0..n : r[i] = IF i = 0 THEN first ELSE step[<<i, r[i - 1]>>]
    BY <1>9 DEF Solution
  <2>2. \A i \in 0..n : i # 0 => step[<<i, r[i - 1]>>] = TakeDrainAtomic(r[i - 1], views[i])
    BY <1>2, <1>7
  <2> QED
    BY <2>1, <2>2
<1>11. st = [i \in 0..n |-> IF i = 0 THEN first ELSE TakeDrainAtomic(st[i - 1], views[i])]
  BY <1>5, <1>10
<1>12. \A i \in 0..n : st[i] = IF i = 0 THEN first ELSE TakeDrainAtomic(st[i - 1], views[i])
  BY <1>11
<1>13. st \in [0..n -> LoopStates]
  <2> DEFINE S == {i \in Nat : i \in 0..n => st[i] \in LoopStates}
  <2>1. 0 \in S
    BY <1>3, <1>12
  <2>2. ASSUME NEW i \in Nat, i \in S PROVE i + 1 \in S
    <3> SUFFICES ASSUME i + 1 \in 0..n PROVE st[i + 1] \in LoopStates
      OBVIOUS
    <3>1. i \in 0..n /\ i + 1 \in 1..n /\ st[i + 1] = TakeDrainAtomic(st[i], views[i + 1])
      BY <1>2, <1>12
    <3> QED
      BY <1>4, <2>2, <3>1
  <2> HIDE DEF S
  <2>3. Nat \subseteq S
    BY <2>1, <2>2, Induction
  <2>4. \A i \in 0..n : st[i] \in LoopStates
    BY <1>2, <2>3 DEF S
  <2> QED
    BY <1>11, <2>4
<1>14. st[0] = first /\ \A i \in 1..n : st[i] = TakeDrainAtomic(st[i - 1], views[i])
  BY <1>2, <1>12
<1> QED
  BY <1>1, <1>2, <1>13, <1>14 DEF first

(* What the first loop takes ... *)
LEMMA FirstLoopTakes ==
  ASSUME Shape, NEW start \in LoopStates, FirstLoop(start, {})
  PROVE  \E T : /\ FirstLoop(TakeEmptyAtomics(start), T)
                /\ \A g \in T : Of(Empties, {g}) # {}
<1> DEFINE views == Grouped(empty)
           n == Len(views)
           Seen(i) == {views[j].group : j \in 1..i}
<1>1. IsGrouping(views, Empties)
  BY GroupedIsGrouping DEF Shape, Empties
<1>2. PICK st \in [0..Len(views) -> LoopStates] :
        /\ st[0] = start
        /\ \A i \in 1..Len(views) : st[i] = TakeEmptyAtomic(st[i - 1], views[i])
        /\ TakeEmptyAtomics(start) = st[Len(views)]
  BY FirstUnfolds
<1> HIDE DEF views
<1>3. /\ n \in Nat /\ n = Len(views)
      /\ \A i, j \in 1..n : views[i].group = views[j].group => i = j
      /\ \A i \in 1..n : HasAll(views[i], Empties)
  BY <1>1 DEF IsGrouping
<1> DEFINE Good(i, T) == T \subseteq Seen(i) /\ FirstLoop(st[i], T)
           S == {i \in Nat : i \in 0..n => \E T : Good(i, T)}
<1>4. 0 \in S
  <2>1. Good(0, {})
    BY <1>2
  <2> QED
    BY <2>1
<1>5. ASSUME NEW i \in Nat, i + 1 \in 0..n, NEW T, Good(i, T) PROVE \E U : Good(i + 1, U)
  <2> DEFINE k == i + 1
             view == views[k]
  <2>1. k \in 1..n /\ k - 1 = i /\ HasAll(view, Empties)
    BY <1>3, <1>5
  <2>2. st[k] = TakeEmptyAtomic(st[i], view)
    BY <1>2, <1>3, <2>1
  <2>3. Seen(k) = Seen(i) \cup {view.group} /\ view.group \notin Seen(i)
    <3>1. 1..k = 1..i \cup {k} /\ \A j \in 1..i : j \in 1..n /\ j # k
      BY <2>1
    <3> HIDE DEF k
    <3> QED
      BY <1>3, <2>1, <3>1
  <2> HIDE DEF k, view, Seen
  <2>4. T \subseteq Seen(i) /\ FirstLoop(st[i], T) /\ view.group \notin T
    BY <1>5, <2>3
  <2>5. PICK U \in {T, T \cup {view.group}} : FirstLoop(TakeEmptyAtomic(st[i], view), U)
    BY <2>1, <2>4, FirstLoopTurn
  <2>6. U \subseteq Seen(k) /\ FirstLoop(st[k], U)
    BY <2>2, <2>3, <2>4, <2>5
  <2> QED
    BY <2>6 DEF k
<1>6. ASSUME NEW i \in Nat, i \in S PROVE i + 1 \in S
  <2> HIDE DEF Good
  <2> SUFFICES ASSUME i + 1 \in 0..n PROVE \E U : Good(i + 1, U)
    OBVIOUS
  <2>1. i \in 0..n
    BY <1>3
  <2>2. PICK T : Good(i, T)
    BY <1>6, <2>1
  <2> QED
    BY <1>5, <2>2
<1> HIDE DEF S
<1>7. n \in S
  BY <1>3, <1>4, <1>6, Induction
<1>8. PICK T : Good(n, T)
  <2>1. n \in 0..n
    BY <1>3
  <2> HIDE DEF Good
  <2> QED
    BY <1>7, <2>1 DEF S
<1>9. \A g \in T : Of(Empties, {g}) # {}
  <2> SUFFICES ASSUME NEW j \in 1..n PROVE Of(Empties, {views[j].group}) # {}
    BY <1>8
  <2>1. HasAll(views[j], Empties)
    BY <1>3
  <2> QED
    BY <2>1 DEF HasAll, Of
<1> QED
  BY <1>2, <1>8, <1>9

(* ... and the second one after it. *)
LEMMA SecondLoopTakes ==
  ASSUME Shape, NEW start \in LoopStates, NEW T0, SecondLoop(start, T0),
         \A g \in T0 : Of(Empties, {g}) # {}
  PROVE  \E T : SecondLoop(TakeDrainAtomics(start), T)
<1> DEFINE views == Grouped(drain)
           n == Len(views)
           Seen(i) == {views[j].group : j \in 1..i}
<1>1. IsGrouping(views, Drains)
  BY GroupedIsGrouping DEF Shape, Drains
<1>2. PICK st \in [0..Len(views) -> LoopStates] :
        /\ st[0] = start
        /\ \A i \in 1..Len(views) : st[i] = TakeDrainAtomic(st[i - 1], views[i])
        /\ TakeDrainAtomics(start) = st[Len(views)]
  BY SecondUnfolds
<1> HIDE DEF views
<1>3. /\ n \in Nat /\ n = Len(views)
      /\ \A i, j \in 1..n : views[i].group = views[j].group => i = j
      /\ \A i \in 1..n : HasAll(views[i], Drains)
  BY <1>1 DEF IsGrouping
<1> DEFINE Good(i, T) ==
             /\ \A g \in T : Of(Empties, {g}) # {} \/ g \in Seen(i)
             /\ SecondLoop(st[i], T)
           S == {i \in Nat : i \in 0..n => \E T : Good(i, T)}
<1>4. 0 \in S
  <2>1. Good(0, T0)
    BY <1>2
  <2> QED
    BY <2>1
<1>5. ASSUME NEW i \in Nat, i + 1 \in 0..n, NEW T, Good(i, T) PROVE \E U : Good(i + 1, U)
  <2> DEFINE k == i + 1
             view == views[k]
  <2>1. k \in 1..n /\ k - 1 = i /\ HasAll(view, Drains)
    BY <1>3, <1>5
  <2>2. st[k] = TakeDrainAtomic(st[i], view)
    BY <1>2, <1>3, <2>1
  <2>3. Seen(k) = Seen(i) \cup {view.group} /\ view.group \notin Seen(i)
    <3>1. 1..k = 1..i \cup {k} /\ \A j \in 1..i : j \in 1..n /\ j # k
      BY <2>1
    <3> HIDE DEF k
    <3> QED
      BY <1>3, <2>1, <3>1
  <2> HIDE DEF k, view, Seen
  <2>4. /\ SecondLoop(st[i], T)
        /\ view.group \in T => Of(Empties, {view.group}) # {}
        /\ \A g \in T : Of(Empties, {g}) # {} \/ g \in Seen(i)
    BY <1>5, <2>3
  <2>5. PICK U \in {T, T \cup {view.group}} : SecondLoop(TakeDrainAtomic(st[i], view), U)
    BY <2>1, <2>4, SecondLoopTurn
  <2>6. (\A g \in U : Of(Empties, {g}) # {} \/ g \in Seen(k)) /\ SecondLoop(st[k], U)
    BY <2>2, <2>3, <2>4, <2>5
  <2> QED
    BY <2>6 DEF k
<1>6. ASSUME NEW i \in Nat, i \in S PROVE i + 1 \in S
  <2> HIDE DEF Good
  <2> SUFFICES ASSUME i + 1 \in 0..n PROVE \E U : Good(i + 1, U)
    OBVIOUS
  <2>1. i \in 0..n
    BY <1>3
  <2>2. PICK T : Good(i, T)
    BY <1>6, <2>1
  <2> QED
    BY <1>5, <2>2
<1> HIDE DEF S
<1>7. n \in S
  BY <1>3, <1>4, <1>6, Induction
<1>8. PICK T : Good(n, T)
  <2>1. n \in 0..n
    BY <1>3
  <2> HIDE DEF Good
  <2> QED
    BY <1>7, <2>1 DEF S
<1> QED
  BY <1>2, <1>8

-----------------------------------------------------------------------------
(* What CropNodes selects, in terms of the groups T that are taken whole   *)
(* and of the nodes I and J that are taken one by one.                     *)
Selects(result, T, I, J) ==
  /\ Whole(T)
  /\ I \subseteq Individual(Empties) /\ J \subseteq Individual(Drains)
  /\ NodesIn(result.empty) = Of(Empties, T) \cup I
  /\ NodesIn(result.drain) = Of(Drains, T) \cup J
  /\ \A list \in {result.empty, result.drain} : \A i \in DOMAIN list :
       \/ list[i].group \in T /\ list[i].batchSize = Batch(list[i].group)
       \/ list[i].group \notin AtomicGroups /\ list[i].batchSize = 0

(* What is left of the limits for the nodes that are taken one by one.     *)
SpareParallelism(T) == ParallelismLeft - Cardinality(Of(All, T))
SpareDrains(T)      == DrainsLeft - Cardinality(Of(Drains, T))

Used(budget, able) == IF budget < 1 THEN 0 ELSE Minimum(budget, able)

(* How much of them is used. *)
Spends(T, I, J) ==
  /\ Cardinality(I) = Used(SpareParallelism(T), Cardinality(Individual(Empties)))
  /\ Cardinality(J) =
       Used(Minimum(SpareParallelism(T) - Cardinality(I),
                    Minimum(SpareParallelism(T), SpareDrains(T))),
            Cardinality(Individual(Drains)))
  /\ AtMostOne(T) \/ (SpareParallelism(T) >= 0 /\ SpareDrains(T) >= 0)
  /\ ParallelismLeft = 0 /\ DrainsLeft >= 0 => T = {}
  /\ DrainsLeft = 0 /\ ParallelismLeft >= 0 => Of(Drains, T) = {}

(* The nodes of two lists of views. *)
LEMMA NodesInBoth ==
  ASSUME NEW s \in Seq(NodeViews), NEW t \in Seq(NodeViews)
  PROVE  /\ NodesIn(s \o t) = NodesIn(s) \cup NodesIn(t)
         /\ \A i \in DOMAIN (s \o t) :
              \/ \E j \in DOMAIN s : (s \o t)[i] = s[j]
              \/ \E j \in DOMAIN t : (s \o t)[i] = t[j]
<1> DEFINE u == s \o t
           m == Len(s)
           n == Len(t)
<1>1. /\ m \in Nat /\ n \in Nat /\ DOMAIN s = 1..m /\ DOMAIN t = 1..n /\ DOMAIN u = 1..(m + n)
      /\ \A i \in 1..m : u[i] = s[i]
      /\ \A i \in 1..n : u[m + i] = t[i]
  <2>1. Len(u) = m + n /\ u \in Seq(NodeViews)
    BY ConcatProperties
  <2>2. \A i \in 1..(m + n) : u[i] = IF i <= m THEN s[i] ELSE t[i - m]
    BY ConcatProperties
  <2>3. m \in Nat /\ n \in Nat
    OBVIOUS
  <2>4. DOMAIN u = 1..(m + n) /\ DOMAIN s = 1..m /\ DOMAIN t = 1..n
    BY <2>1
  <2> HIDE DEF u, m, n
  <2> QED
    BY <2>2, <2>3, <2>4
<1> HIDE DEF u, m, n
<1>2. ASSUME NEW i \in 1..(m + n) PROVE i \in 1..m \/ \E j \in 1..n : i = m + j
  <2>1. CASE i <= m
    BY <1>1, <2>1
  <2>2. CASE i > m
    <3>1. i - m \in 1..n /\ i = m + (i - m)
      BY <1>1, <2>2
    <3> QED
      BY <3>1
  <2> QED
    BY <1>1, <2>1, <2>2
<1>3. \A i \in 1..m : i \in 1..(m + n)
  BY <1>1
<1>4. \A i \in 1..n : m + i \in 1..(m + n)
  BY <1>1
<1>5. \A i \in DOMAIN u : (\E j \in DOMAIN s : u[i] = s[j]) \/ (\E j \in DOMAIN t : u[i] = t[j])
  <2> SUFFICES ASSUME NEW i \in 1..(m + n)
               PROVE  (\E j \in 1..m : u[i] = s[j]) \/ (\E j \in 1..n : u[i] = t[j])
    BY <1>1
  <2>1. CASE i \in 1..m
    BY <1>1, <2>1
  <2>2. CASE \E j \in 1..n : i = m + j
    BY <1>1, <2>2
  <2> QED
    BY <1>2, <2>1, <2>2
<1>6. NodesIn(u) = NodesIn(s) \cup NodesIn(t)
  <2>1. NodesIn(u) \subseteq NodesIn(s) \cup NodesIn(t)
    BY <1>5 DEF NodesIn
  <2>2. NodesIn(s) \subseteq NodesIn(u)
    BY <1>1, <1>3 DEF NodesIn
  <2>3. NodesIn(t) \subseteq NodesIn(u)
    BY <1>1, <1>4 DEF NodesIn
  <2> QED
    BY <2>1, <2>2, <2>3
<1> QED
  BY <1>5, <1>6 DEF u

(* CropNodes, from the beginning to the end. *)
LEMMA CroppedSelects ==
  ASSUME Shape
  PROVE  \E T, I, J : Selects(Cropped, T, I, J) /\ Spends(T, I, J)
<1> DEFINE start == [parallelism |-> ParallelismLeft, drains |-> DrainsLeft,
                     canOverflow |-> TRUE, left |-> FALSE, empty |-> <<>>, drain |-> <<>>]
           first == TakeEmptyAtomics(start)
           middle == [first EXCEPT !.left = FALSE, !.drains = Minimum(first.parallelism, @)]
           second == TakeDrainAtomics(middle)
           empties == CropIndividualNodes(Grouped(empty), second.parallelism)
           spare == Minimum(empties.left, second.drains)
           drains == CropIndividualNodes(Grouped(drain), spare)
<1>1. Cropped = [empty |-> second.empty \o empties.views, drain |-> second.drain \o drains.views]
  BY DEF Cropped, ParallelismLeft, DrainsLeft
<1>2. /\ Empties \in SUBSET Nodes /\ Drains \in SUBSET Nodes /\ All \in SUBSET Nodes
      /\ ParallelismLeft \in Int /\ DrainsLeft \in Int
  BY ShapeFacts
<1>3. start \in LoopStates /\ FirstLoop(start, {})
  <2>1. /\ start \in LoopStates
        /\ start.parallelism = ParallelismLeft /\ start.drains = DrainsLeft
        /\ start.canOverflow = TRUE /\ start.empty = <<>> /\ start.drain = <<>>
    BY <1>2 DEF LoopStates
  <2> HIDE DEF start
  <2>2. /\ Of(Empties, {}) = {} /\ Of(Drains, {}) = {} /\ Of(All, {}) = {} /\ Cardinality({}) = 0
        /\ NodesIn(<<>>) = {} /\ DOMAIN <<>> = {}
    BY FS_EmptySet DEF Of, NodesIn
  <2>3. ViewsOf(<<>>, Empties, {}) /\ ViewsOf(<<>>, Drains, {})
    BY <2>2 DEF ViewsOf
  <2>4. Cardinality(Of(All, {})) = 0 /\ Cardinality(Of(Drains, {})) = 0
    BY <2>2, Zenon
  <2>5. Taken(start, {})
    BY <1>2, <2>1, <2>3, <2>4 DEF Taken, TookViews, Whole
  <2>6. AtMostOne({})
    BY DEF AtMostOne
  <2> QED
    BY <1>2, <2>1, <2>2, <2>4, <2>5, <2>6 DEF FirstLoop
<1> HIDE DEF start
<1>4. PICK T0 : FirstLoop(first, T0) /\ \A g \in T0 : Of(Empties, {g}) # {}
  BY <1>3, FirstLoopTakes
<1> HIDE DEF first
<1>5. middle \in LoopStates /\ SecondLoop(middle, T0)
  <2> DEFINE c == Cardinality(Of(Drains, T0))
             low == Minimum(first.parallelism, first.drains)
  <2>1. first \in LoopStates
    BY <1>4 DEF FirstLoop, Taken
  <2>2. first.parallelism \in Int /\ first.drains \in Int
    BY <2>1 DEF LoopStates
  <2>3. middle = [first EXCEPT !.left = FALSE, !.drains = low]
    OBVIOUS
  <2>4. low \in Int
    BY <2>2 DEF Minimum
  <2> HIDE DEF low, c
  <2>5. /\ middle \in LoopStates
        /\ middle.drains = low /\ middle.parallelism = first.parallelism
        /\ middle.canOverflow = first.canOverflow
        /\ middle.empty = first.empty /\ middle.drain = first.drain
    BY <2>1, <2>3, <2>4 DEF LoopStates
  <2> HIDE DEF middle
  <2>6. Taken(middle, T0)
    BY <1>4, <2>5 DEF FirstLoop, Taken, TookViews
  <2>7. AtMostOne(T0) \/ low >= 0
    BY <1>4, <2>2 DEF FirstLoop, low, Minimum
  <2>8. middle.drains = Minimum(middle.parallelism, DrainsLeft - c)
    BY <1>4, <2>5 DEF FirstLoop, low, c
  <2> QED
    BY <1>4, <2>5, <2>6, <2>7, <2>8 DEF FirstLoop, SecondLoop, c
<1> HIDE DEF middle
<1>6. PICK T : SecondLoop(second, T)
  BY <1>4, <1>5, SecondLoopTakes
<1> HIDE DEF second
<1>7. /\ second \in LoopStates /\ TookViews(second, T) /\ Whole(T)
      /\ second.parallelism = SpareParallelism(T)
      /\ second.drains = Minimum(SpareParallelism(T), SpareDrains(T))
      /\ AtMostOne(T) \/ second.drains >= 0
      /\ ParallelismLeft = 0 /\ DrainsLeft >= 0 => T = {}
      /\ DrainsLeft = 0 /\ ParallelismLeft >= 0 => Of(Drains, T) = {}
  BY <1>6 DEF SecondLoop, Taken, SpareParallelism, SpareDrains
<1>8. /\ second.parallelism \in Int /\ second.drains \in Int
      /\ second.empty \in Seq(NodeViews) /\ second.drain \in Seq(NodeViews)
  BY <1>7 DEF LoopStates
<1> DEFINE I == NodesIn(empties.views)
           J == NodesIn(drains.views)
           mayI == Cardinality(Individual(Empties))
           mayJ == Cardinality(Individual(Drains))
<1>9. /\ empties \in CropStates
      /\ I \subseteq Individual(Empties)
      /\ Cardinality(I) = Used(second.parallelism, mayI)
      /\ empties.left = second.parallelism - Cardinality(I)
      /\ \A i \in DOMAIN empties.views :
           empties.views[i].group \notin AtomicGroups /\ empties.views[i].batchSize = 0
  BY <1>8, CropTakes DEF Shape, Empties, Used
<1> HIDE DEF empties
<1>10. empties.left \in Int /\ empties.views \in Seq(NodeViews) /\ spare \in Int
  BY <1>8, <1>9 DEF CropStates, Minimum
<1> HIDE DEF spare
<1>11. /\ drains \in CropStates
       /\ J \subseteq Individual(Drains)
       /\ Cardinality(J) = Used(spare, mayJ)
       /\ \A i \in DOMAIN drains.views :
            drains.views[i].group \notin AtomicGroups /\ drains.views[i].batchSize = 0
  BY <1>10, CropTakes DEF Shape, Drains, Used
<1> HIDE DEF drains
<1>12. drains.views \in Seq(NodeViews)
  BY <1>11 DEF CropStates
<1>13. ASSUME NEW taken \in Seq(NodeViews), NEW cropped0 \in Seq(NodeViews), NEW S,
              ViewsOf(taken, S, T),
              \A i \in DOMAIN cropped0 : cropped0[i].group \notin AtomicGroups /\ cropped0[i].batchSize = 0
       PROVE  /\ NodesIn(taken \o cropped0) = Of(S, T) \cup NodesIn(cropped0)
              /\ \A i \in DOMAIN (taken \o cropped0) :
                   \/ /\ (taken \o cropped0)[i].group \in T
                      /\ (taken \o cropped0)[i].batchSize = Batch((taken \o cropped0)[i].group)
                   \/ (taken \o cropped0)[i].group \notin AtomicGroups /\ (taken \o cropped0)[i].batchSize = 0
  <2>1. /\ NodesIn(taken \o cropped0) = NodesIn(taken) \cup NodesIn(cropped0)
        /\ \A i \in DOMAIN (taken \o cropped0) :
             \/ \E j \in DOMAIN taken : (taken \o cropped0)[i] = taken[j]
             \/ \E j \in DOMAIN cropped0 : (taken \o cropped0)[i] = cropped0[j]
    BY NodesInBoth
  <2> DEFINE both == taken \o cropped0
  <2> HIDE DEF both
  <2>2. /\ NodesIn(both) = NodesIn(taken) \cup NodesIn(cropped0)
        /\ \A i \in DOMAIN both :
             (\E j \in DOMAIN taken : both[i] = taken[j]) \/ \E j \in DOMAIN cropped0 : both[i] = cropped0[j]
    BY <2>1 DEF both
  <2>3. /\ NodesIn(both) = Of(S, T) \cup NodesIn(cropped0)
        /\ \A i \in DOMAIN both :
             \/ both[i].group \in T /\ both[i].batchSize = Batch(both[i].group)
             \/ both[i].group \notin AtomicGroups /\ both[i].batchSize = 0
    BY <1>13, <2>2 DEF ViewsOf
  <2> QED
    BY <2>3 DEF both
<1>14. Selects(Cropped, T, I, J)
  <2> DEFINE both == second.empty \o empties.views
             bothDrain == second.drain \o drains.views
  <2>1. /\ NodesIn(both) = Of(Empties, T) \cup I
        /\ \A i \in DOMAIN both :
             \/ both[i].group \in T /\ both[i].batchSize = Batch(both[i].group)
             \/ both[i].group \notin AtomicGroups /\ both[i].batchSize = 0
    BY <1>7, <1>8, <1>9, <1>10, <1>13 DEF TookViews
  <2>2. /\ NodesIn(bothDrain) = Of(Drains, T) \cup J
        /\ \A i \in DOMAIN bothDrain :
             \/ bothDrain[i].group \in T /\ bothDrain[i].batchSize = Batch(bothDrain[i].group)
             \/ bothDrain[i].group \notin AtomicGroups /\ bothDrain[i].batchSize = 0
    BY <1>7, <1>8, <1>11, <1>12, <1>13 DEF TookViews
  <2>3. Cropped.empty = both /\ Cropped.drain = bothDrain
    BY <1>1
  <2> HIDE DEF both, bothDrain, I, J
  <2> QED
    BY <1>7, <1>9, <1>11, <2>1, <2>2, <2>3 DEF Selects
<1>15. Spends(T, I, J)
  <2>1. spare = Minimum(SpareParallelism(T) - Cardinality(I), Minimum(SpareParallelism(T), SpareDrains(T)))
    BY <1>7, <1>9 DEF spare
  <2> HIDE DEF I, J, mayI, mayJ
  <2>2. AtMostOne(T) \/ (SpareParallelism(T) >= 0 /\ SpareDrains(T) >= 0)
    <3> DEFINE p == SpareParallelism(T)
               d == SpareDrains(T)
    <3>1. p \in Int /\ d \in Int
      <4>1. Cardinality(Of(All, T)) \in Nat /\ Cardinality(Of(Drains, T)) \in Nat
        <5>1. Of(All, T) \in SUBSET Nodes /\ Of(Drains, T) \in SUBSET Nodes
          BY <1>2 DEF Of
        <5> QED
          BY <5>1, Sizes
      <4> QED
        BY <1>2, <4>1 DEF SpareParallelism, SpareDrains
    <3>2. AtMostOne(T) \/ Minimum(p, d) >= 0
      BY <1>7
    <3> HIDE DEF p, d
    <3>3. Minimum(p, d) >= 0 => p >= 0 /\ d >= 0
      BY <3>1 DEF Minimum
    <3> QED
      BY <3>2, <3>3 DEF p, d
  <2>3. Cardinality(I) = Used(SpareParallelism(T), mayI) /\ Cardinality(J) = Used(spare, mayJ)
    BY <1>7, <1>9, <1>11
  <2> QED
    BY <1>7, <2>1, <2>2, <2>3 DEF Spends, mayI, mayJ
<1> QED
  BY <1>14, <1>15


-----------------------------------------------------------------------------
(* The parts of a selection: whole groups and single nodes. *)
PartsAre(E, D, T, I, J) ==
  /\ Individual(E) = I /\ Individual(D) = J
  /\ Atomic(E) = Of(Empties, T) /\ Atomic(D) = Of(Drains, T)
  /\ Atomic(E \cup D) = Of(All, T)
  /\ AtomicSelected(E \cup D) = T
  /\ \A g \in T : /\ (E \cup D) \cap NodesOf(g) = Of(All, {g})
                  /\ BatchSizeOf(g, E, D, target, registered) = Batch(g)

LEMMA PartsOfSelection ==
  ASSUME Shape, NEW T, NEW I, NEW J, Whole(T),
         I \subseteq Individual(Empties), J \subseteq Individual(Drains)
  PROVE  PartsAre(Of(Empties, T) \cup I, Of(Drains, T) \cup J, T, I, J)
<1> DEFINE E == Of(Empties, T) \cup I
           D == Of(Drains, T) \cup J
<1>1. /\ Empties \in SUBSET Nodes /\ Drains \in SUBSET Nodes /\ All = Empties \cup Drains
      /\ T \subseteq AtomicGroups /\ AtomicGroups \subseteq Groups
  BY ShapeFacts, NodeGroupsAssumption DEF Whole, All
<1>2. \A n \in I \cup J : n \in Nodes /\ GroupOf[n] \notin AtomicGroups
  BY DEF Individual, IndividualNodes
<1>3. /\ Individual(E) = I /\ Individual(D) = J
      /\ Atomic(E) = Of(Empties, T) /\ Atomic(D) = Of(Drains, T)
      /\ Atomic(E \cup D) = Of(All, T)
  BY <1>1, <1>2 DEF Individual, Atomic, IndividualNodes, Of
<1>4. ASSUME NEW g \in AtomicGroups
      PROVE  /\ E \cap NodesOf(g) = IF g \in T THEN Of(Empties, {g}) ELSE {}
             /\ D \cap NodesOf(g) = IF g \in T THEN Of(Drains, {g}) ELSE {}
  BY <1>1, <1>2 DEF Of, NodesOf
<1>5. \A g : Of(All, {g}) = Of(Empties, {g}) \cup Of(Drains, {g})
  BY DEF Of, All
<1>6. ASSUME NEW g PROVE /\ Empties \cap NodesOf(g) = Of(Empties, {g})
                         /\ Drains \cap NodesOf(g) = Of(Drains, {g})
  BY <1>1 DEF Of, NodesOf
<1> HIDE DEF E, D
<1>7. \A g \in AtomicGroups :
        (E \cup D) \cap NodesOf(g) = IF g \in T THEN Of(All, {g}) ELSE {}
  BY <1>4, <1>5
<1>8. ASSUME NEW g \in T PROVE Of(All, {g}) # {}
  <2>1. Size(g) >= 1
    BY DEF Whole
  <2>2. Of(All, {g}) = {} => Size(g) = 0
    BY FS_EmptySet DEF Size
  <2> QED
    BY <2>1, <2>2
<1>9. AtomicSelected(E \cup D) = T
  BY <1>1, <1>7, <1>8 DEF AtomicSelected
<1>10. ASSUME NEW g \in T PROVE BatchSizeOf(g, E, D, target, registered) = Batch(g)
  <2>1. /\ E \cap NodesOf(g) = Empties \cap NodesOf(g)
        /\ D \cap NodesOf(g) = Drains \cap NodesOf(g)
    BY <1>1, <1>4, <1>6
  <2> QED
    BY <2>1 DEF BatchSizeOf, Batch
<1> QED
  BY <1>1, <1>3, <1>7, <1>9, <1>10 DEF E, D, PartsAre

(* How many nodes they have. *)
SizesAre(E, D, T, I, J) ==
  /\ Cardinality(E) = Cardinality(Of(Empties, T)) + Cardinality(I)
  /\ Cardinality(D) = Cardinality(Of(Drains, T)) + Cardinality(J)
  /\ Cardinality(E \cup D) = Cardinality(E) + Cardinality(D)
  /\ Cardinality(Of(All, T)) = Cardinality(Of(Empties, T)) + Cardinality(Of(Drains, T))
  /\ Cardinality(Of(Empties, T)) \in Nat
  /\ Cardinality(Of(Drains, T)) \in Nat
  /\ Cardinality(I) \in Nat
  /\ Cardinality(J) \in Nat
  /\ Cardinality(I) = 0 <=> I = {}
  /\ Cardinality(J) = 0 <=> J = {}

LEMMA SizesOfParts ==
  ASSUME Shape, NEW T, NEW I, NEW J, Whole(T),
         I \subseteq Individual(Empties), J \subseteq Individual(Drains)
  PROVE  SizesAre(Of(Empties, T) \cup I, Of(Drains, T) \cup J, T, I, J)
<1> DEFINE A == Of(Empties, T)
           B == Of(Drains, T)
           E == A \cup I
           D == B \cup J
<1>1. /\ Empties \in SUBSET Nodes /\ Drains \in SUBSET Nodes /\ All = Empties \cup Drains
      /\ T \subseteq AtomicGroups /\ Empties \cap Drains = {}
  BY ShapeFacts DEF Whole, All, Shape
<1>2. /\ I \subseteq Empties /\ J \subseteq Drains
      /\ \A n \in I \cup J : GroupOf[n] \notin AtomicGroups
  BY <1>1 DEF Individual, IndividualNodes
<1>3. /\ A \subseteq Empties /\ B \subseteq Drains /\ Of(All, T) = A \cup B
      /\ \A n \in A \cup B : GroupOf[n] \in AtomicGroups
  BY <1>1 DEF Of
<1> HIDE DEF A, B
<1>4. /\ A \in SUBSET Nodes /\ B \in SUBSET Nodes /\ I \in SUBSET Nodes /\ J \in SUBSET Nodes
      /\ E \in SUBSET Nodes /\ D \in SUBSET Nodes
      /\ A \cap I = {} /\ B \cap J = {} /\ E \cap D = {} /\ A \cap B = {}
  BY <1>1, <1>2, <1>3
<1>5. Cardinality(E) = Cardinality(A) + Cardinality(I)
  BY <1>4, Sizes
<1>6. Cardinality(D) = Cardinality(B) + Cardinality(J)
  BY <1>4, Sizes
<1>7. Cardinality(A \cup B) = Cardinality(A) + Cardinality(B)
  BY <1>4, Sizes
<1>8. Cardinality(E \cup D) = Cardinality(E) + Cardinality(D)
  <2> HIDE DEF E, D
  <2> QED
    BY <1>4, Sizes
<1>9. /\ Cardinality(A) \in Nat /\ Cardinality(B) \in Nat
      /\ Cardinality(I) \in Nat /\ Cardinality(J) \in Nat
  BY <1>4, Sizes
<1>10. Cardinality(I) = 0 <=> I = {}
  BY <1>4, Sizes
<1>11. Cardinality(J) = 0 <=> J = {}
  BY <1>4, Sizes
<1> QED
  BY <1>3, <1>5, <1>6, <1>7, <1>8, <1>9, <1>10, <1>11 DEF A, B, SizesAre

-----------------------------------------------------------------------------
(* KeepsContract and BudgetIsUsedUp, of a result. *)

Contract(result) ==
  WithinBudget(emptyInProgress, drainInProgress, target, registered,
               NodesIn(result.empty), NodesIn(result.drain))

BatchesAgree(result) ==
  \A list \in {result.empty, result.drain} : \A i \in DOMAIN list :
    list[i].batchSize = IF list[i].group \in AtomicGroups
                          THEN BatchSizeOf(list[i].group, NodesIn(result.empty), NodesIn(result.drain),
                                           target, registered)
                          ELSE 0

Rest(limit, used) == IF used < limit THEN limit - used ELSE 0

UsedUp(result) ==
  LET atomic  == Cardinality(Atomic(NodesIn(result.empty) \cup NodesIn(result.drain)))
      one     == Cardinality(Individual(NodesIn(result.empty)))
      empties == Rest(MaxScaleDownParallelism, (emptyInProgress + drainInProgress) + atomic)
      drains  == Minimum(Rest(MaxScaleDownParallelism,
                              ((emptyInProgress + drainInProgress) + atomic) + one),
                         Rest(MaxDrainParallelism,
                              drainInProgress + Cardinality(Atomic(NodesIn(result.drain)))))
  IN  /\ one = Minimum(empties, Cardinality(Individual(Empties)))
      /\ Cardinality(Individual(NodesIn(result.drain))) =
           Minimum(drains, Cardinality(Individual(Drains)))

LEMMA SelectionIsRight ==
  ASSUME Shape, NEW result, NEW T, NEW I, NEW J, Selects(result, T, I, J), Spends(T, I, J)
  PROVE  Contract(result) /\ BatchesAgree(result) /\ UsedUp(result)
<1> DEFINE E == Of(Empties, T) \cup I
           D == Of(Drains, T) \cup J
           a == Cardinality(Of(Empties, T))
           b == Cardinality(Of(Drains, T))
           i == Cardinality(I)
           j == Cardinality(J)
           ableI == Cardinality(Individual(Empties))
           ableJ == Cardinality(Individual(Drains))
           p == ParallelismLeft
           d == DrainsLeft
<1>1. /\ Whole(T) /\ I \subseteq Individual(Empties) /\ J \subseteq Individual(Drains)
      /\ NodesIn(result.empty) = E /\ NodesIn(result.drain) = D
  BY DEF Selects
<1>2. /\ Individual(E) = I /\ Individual(D) = J
      /\ Atomic(E) = Of(Empties, T) /\ Atomic(D) = Of(Drains, T)
      /\ Atomic(E \cup D) = Of(All, T)
      /\ AtomicSelected(E \cup D) = T
      /\ \A g \in T : /\ (E \cup D) \cap NodesOf(g) = Of(All, {g})
                      /\ BatchSizeOf(g, E, D, target, registered) = Batch(g)
  <2>1. PartsAre(E, D, T, I, J)
    BY <1>1, PartsOfSelection
  <2> HIDE DEF E, D
  <2> QED
    BY <2>1 DEF PartsAre
<1>3. /\ Cardinality(E) = a + i
      /\ Cardinality(D) = b + j
      /\ Cardinality(E \cup D) = Cardinality(E) + Cardinality(D)
      /\ Cardinality(Of(All, T)) = a + b
      /\ a \in Nat /\ b \in Nat /\ i \in Nat /\ j \in Nat
      /\ i = 0 <=> I = {}
      /\ j = 0 <=> J = {}
  <2>1. SizesAre(E, D, T, I, J)
    BY <1>1, SizesOfParts
  <2> HIDE DEF E, D
  <2> QED
    BY <2>1 DEF SizesAre
<1>4. ableI \in Nat /\ ableJ \in Nat /\ p \in Int /\ d \in Int
  <2>1. Individual(Empties) \in SUBSET Nodes /\ Individual(Drains) \in SUBSET Nodes
    BY ShapeFacts DEF Individual
  <2>2. Cardinality(Individual(Empties)) \in Nat
    BY <2>1, Sizes
  <2>3. Cardinality(Individual(Drains)) \in Nat
    BY <2>1, Sizes
  <2> QED
    BY <2>2, <2>3, ShapeFacts
<1>5. /\ i = Used(p - (a + b), ableI)
      /\ j = Used(Minimum((p - (a + b)) - i, Minimum(p - (a + b), d - b)), ableJ)
      /\ AtMostOne(T) \/ (p - (a + b) >= 0 /\ d - b >= 0)
      /\ p = 0 /\ d >= 0 => T = {}
      /\ d = 0 /\ p >= 0 => Of(Drains, T) = {}
  BY <1>3 DEF Spends, SpareParallelism, SpareDrains
<1>6. Of(Drains, T) = {} => b = 0
  BY FS_EmptySet
<1>7. T = {} => a = 0 /\ b = 0 /\ Of(Empties, T) = {} /\ Of(Drains, T) = {}
  BY FS_EmptySet DEF Of
<1> HIDE DEF E, D, a, b, i, j, ableI, ableJ, p, d
<1>8. Contract(result)
  <2>1. ASSUME NEW g \in T PROVE Cardinality((E \cup D) \cap NodesOf(g)) \in {target[g], registered[g]}
    <3>1. Scalable(g, Size(g))
      BY <1>1 DEF Whole
    <3> QED
      BY <1>2, <3>1 DEF Scalable, Size
  <2>2. I # {} => Cardinality(E) + b <= p
    BY <1>3, <1>4, <1>5 DEF Used, Minimum
  <2>3. J # {} => Cardinality(E \cup D) <= p /\ Cardinality(D) <= d
    BY <1>3, <1>4, <1>5 DEF Used, Minimum
  <2>4. Cardinality(T) > 1 => a + b <= p /\ b <= d
    <3>1. ASSUME AtMostOne(T) PROVE ~(Cardinality(T) > 1)
      <4>1. PICK g : T \subseteq {g}
        BY <3>1 DEF AtMostOne
      <4>2. IsFiniteSet({g}) /\ Cardinality({g}) = 1
        BY FS_Singleton
      <4>3. Cardinality(T) <= Cardinality({g}) /\ Cardinality(T) \in Nat
        BY <4>1, <4>2, FS_Subset, FS_CardinalityType
      <4> QED
        BY <4>2, <4>3
    <3> QED
      BY <1>3, <1>4, <1>5, <3>1
  <2>5. p = 0 /\ d >= 0 => E \cup D = {}
    <3>1. p = 0 /\ d >= 0 => i = 0 /\ j = 0
      BY <1>3, <1>4, <1>5, <1>7 DEF Used, Minimum
    <3> QED
      BY <1>3, <1>5, <1>7, <3>1 DEF E, D
  <2>6. d = 0 /\ p >= 0 => D = {}
    <3>1. d = 0 /\ p >= 0 => j = 0
      BY <1>3, <1>4, <1>5, <1>6 DEF Used, Minimum
    <3> QED
      BY <1>3, <1>5, <3>1 DEF D
  <2>7. WithinBudget(emptyInProgress, drainInProgress, target, registered, E, D)
    <3>1. /\ Cardinality(Atomic(D)) = b
          /\ Cardinality(Atomic(E \cup D)) = a + b
      BY <1>2, <1>3 DEF b
    <3>2. /\ p = ParallelismBudget(emptyInProgress, drainInProgress)
          /\ d = DrainBudget(drainInProgress)
      BY DEF p, d, ParallelismLeft, DrainsLeft
    <3> QED
      BY <1>2, <2>1, <2>2, <2>3, <2>4, <2>5, <2>6, <3>1, <3>2 DEF WithinBudget
  <2> QED
    BY <1>1, <2>7 DEF Contract
<1>9. BatchesAgree(result)
  <2> SUFFICES ASSUME NEW list \in {result.empty, result.drain}, NEW k \in DOMAIN list
               PROVE  list[k].batchSize = IF list[k].group \in AtomicGroups
                                            THEN BatchSizeOf(list[k].group, E, D, target, registered)
                                            ELSE 0
    BY <1>1 DEF BatchesAgree
  <2>1. \/ list[k].group \in T /\ list[k].batchSize = Batch(list[k].group)
        \/ list[k].group \notin AtomicGroups /\ list[k].batchSize = 0
    BY DEF Selects
  <2>2. T \subseteq AtomicGroups
    BY <1>1 DEF Whole
  <2> QED
    BY <1>2, <2>1, <2>2
<1>10. UsedUp(result)
  <2>1. /\ Cardinality(Atomic(E \cup D)) = a + b /\ Cardinality(Atomic(D)) = b
        /\ Cardinality(Individual(E)) = i /\ Cardinality(Individual(D)) = j
    BY <1>2, <1>3 DEF b, i, j
  <2> DEFINE m == MaxScaleDownParallelism
             l == MaxDrainParallelism
             e == emptyInProgress
             r == drainInProgress
  <2>2. /\ p = m - e - r /\ d = l - r
        /\ m \in Nat /\ l \in Nat /\ e \in Nat /\ r \in Nat
    BY NodeGroupsAssumption
       DEF p, d, ParallelismLeft, DrainsLeft, ParallelismBudget, DrainBudget, Shape
  <2> HIDE DEF m, l, e, r
  <2>3. i = Minimum(Rest(m, (e + r) + (a + b)), ableI)
    BY <1>3, <1>4, <1>5, <2>2 DEF Used, Minimum, Rest
  <2>4. j = Minimum(Minimum(Rest(m, ((e + r) + (a + b)) + i), Rest(l, r + b)), ableJ)
    BY <1>3, <1>4, <1>5, <2>2 DEF Used, Minimum, Rest
  <2> QED
    BY <1>1, <2>1, <2>3, <2>4 DEF UsedUp, m, l, e, r, ableI, ableJ
<1> QED
  BY <1>8, <1>9, <1>10

-----------------------------------------------------------------------------
(***************************************************************************)
(* The inductive invariant.                                                *)
(***************************************************************************)
Right == Shape /\ KeepsContract /\ BudgetIsUsedUp

LEMMA InitIsRight == Init => Right
<1> SUFFICES ASSUME Init PROVE Right
  OBVIOUS
<1>1. \A g \in Groups : GroupSize[g] \in Nat
  <2> SUFFICES ASSUME NEW g \in Groups PROVE Cardinality(NodesOf(g)) \in Nat
    BY DEF GroupSize
  <2>1. NodesOf(g) \in SUBSET Nodes
    BY DEF NodesOf
  <2> QED
    BY <2>1, Sizes
<1>2. target \in [Groups -> Nat] /\ registered \in [Groups -> Nat]
  BY <1>1 DEF Init
<1>3. empty \in Lists /\ drain \in Lists /\ Empties \cap Drains = {}
  BY DEF Init, Lists, OneToOne, Empties, Drains, ToSet
<1>4. emptyInProgress \in Nat /\ drainInProgress \in Nat
  BY BudgetsAssumption DEF Init
<1>5. cropped = <<>>
  BY DEF Init
<1> QED
  BY <1>2, <1>3, <1>4, <1>5 DEF Right, Shape, KeepsContract, BudgetIsUsedUp

LEMMA StepIsRight == Right /\ [Next]_vars => Right'
<1> SUFFICES ASSUME Right, [Next]_vars PROVE Right'
  OBVIOUS
<1>1. ASSUME NEW n \in Nodes, AddCandidate(n) PROVE Right'
  <2>1. /\ empty \in Seq(Nodes) /\ OneToOne(empty) /\ drain \in Seq(Nodes) /\ OneToOne(drain)
        /\ n \notin ToSet(empty) /\ n \notin ToSet(drain)
        /\ ToSet(empty) \cap ToSet(drain) = {}
    BY <1>1 DEF Right, Shape, Lists, AddCandidate, ScaledNodes, Empties, Drains
  <2>2. /\ Append(empty, n) \in Lists /\ ToSet(Append(empty, n)) = ToSet(empty) \cup {n}
        /\ Append(drain, n) \in Lists /\ ToSet(Append(drain, n)) = ToSet(drain) \cup {n}
    BY <2>1, Appended DEF Lists
  <2>3. /\ empty' \in Lists /\ drain' \in Lists
        /\ ToSet(empty') \cap ToSet(drain') = {}
    <3>1. CASE empty' = Append(empty, n) /\ UNCHANGED drain
      BY <2>1, <2>2, <3>1 DEF Right, Shape
    <3>2. CASE drain' = Append(drain, n) /\ UNCHANGED empty
      BY <2>1, <2>2, <3>2 DEF Right, Shape
    <3> QED
      BY <1>1, <3>1, <3>2 DEF AddCandidate
  <2>4. Shape'
    BY <1>1, <2>3 DEF AddCandidate, Right, Shape, Empties, Drains
  <2>5. cropped' = <<>>
    BY <1>1 DEF AddCandidate
  <2> QED
    BY <2>4, <2>5 DEF Right, KeepsContract, BudgetIsUsedUp
<1>2. ASSUME CropNodes PROVE Right'
  <2>1. Contract(Cropped) /\ BatchesAgree(Cropped) /\ UsedUp(Cropped)
    <3>1. Shape
      BY DEF Right
    <3>2. PICK T, I, J : Selects(Cropped, T, I, J) /\ Spends(T, I, J)
      BY <3>1, CroppedSelects
    <3> QED
      BY <3>1, <3>2, SelectionIsRight
  <2> DEFINE result == Cropped
  <2>2. /\ cropped' = <<result>>
        /\ UNCHANGED <<empty, drain, emptyInProgress, drainInProgress, target, registered,
                       targetUnknown>>
    BY <1>2 DEF CropNodes
  <2>3. Shape'
    BY <2>2 DEF Right, Shape, Empties, Drains
  <2> HIDE DEF result
  <2>4. cropped'[1] = result
    BY <2>2
  <2>5. /\ SelectedEmpty' = NodesIn(result.empty)
        /\ SelectedDrain' = NodesIn(result.drain)
    BY <2>4 DEF SelectedEmpty, SelectedDrain, NodesIn
  <2>6. KeepsContract'
    BY <2>1, <2>2, <2>4, <2>5
       DEF KeepsContract, BatchSizesAgree, Contract, BatchesAgree, result
  <2>7. BudgetIsUsedUp'
    BY <2>1, <2>2, <2>5 DEF BudgetIsUsedUp, UsedUp, Rest, Empties, Drains, result
  <2> QED
    BY <2>3, <2>6, <2>7 DEF Right
<1>3. ASSUME UNCHANGED vars PROVE Right'
  BY <1>3 DEF vars, Right, Shape, KeepsContract, BudgetIsUsedUp, BatchSizesAgree, Empties, Drains,
              SelectedEmpty, SelectedDrain, NodesIn
<1> QED
  BY <1>1, <1>2, <1>3 DEF Next

(***************************************************************************)
(* For any nodes, groups, limits and candidates, CropNodes only hands over *)
(* what the actuator relies on: whole atomic groups, of them at most one   *)
(* beyond the limits, single nodes within what is left of both limits, and *)
(* the same batch size wherever a group occurs.                            *)
(***************************************************************************)
THEOREM SelectionKeepsContract == Spec => []KeepsContract
<1>1. Right => KeepsContract
  BY DEF Right
<1> QED
  BY <1>1, InitIsRight, StepIsRight, PTL DEF Spec

(***************************************************************************)
(* Nor does CropNodes crop without need: what the whole groups leave of    *)
(* the limits goes to candidates that are deleted one by one, the empty    *)
(* ones first, as long as there are any.                                   *)
(***************************************************************************)
THEOREM NoBudgetIsWasted == Spec => []BudgetIsUsedUp
<1>1. Right => BudgetIsUsedUp
  BY DEF Right
<1> QED
  BY <1>1, InitIsRight, StepIsRight, PTL DEF Spec
=============================================================================
