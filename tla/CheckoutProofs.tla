---------------------------- MODULE CheckoutProofs ----------------------------
(***************************************************************************)
(* What becomes of the items of a cart, for any additions, orders, prices  *)
(* and each of the stores: no addition is lost, and none is charged twice, *)
(* but by what the properties except; and what is charged is what the      *)
(* items that are shipped cost.  First, what Sum and MultiplySlow of the   *)
(* money package keep, for every number of nanos in a unit and all         *)
(* amounts, also of different signs.                                       *)
(***************************************************************************)
EXTENDS Checkout, FiniteSetTheorems, NaturalsInduction, WellFoundedInduction, TLAPS

Valid == {m \in Amounts : IsValid(m)}

(* One unit more or less makes a difference of NanosMod. *)
LEMMA WorthOfUnits ==
  ASSUME NEW u \in Int, NEW n \in Int
  PROVE  /\ Worth(Amount(u + 1, n - NanosMod)) = Worth(Amount(u, n))
         /\ Worth(Amount(u - 1, n + NanosMod)) = Worth(Amount(u, n))
<1> NanosMod \in Int
  BY MoneyAssumption
<1>1. (u + 1) * NanosMod + (n - NanosMod) = u * NanosMod + n
  BY SMT
<1>2. (u - 1) * NanosMod + (n + NanosMod) = u * NanosMod + n
  BY SMT
<1> QED
  BY <1>1, <1>2 DEF Worth, Amount

(* Carrying and borrowing change the form of an amount and not its worth.  *)
LEMMA CarriedKeepsWorth ==
  ASSUME NEW u \in Int, NEW n \in Int
  PROVE  /\ Worth(Carried(u, n)) = Worth(Amount(u, n))
         /\ Worth(Borrowed(u, n)) = Worth(Amount(u, n))
BY WorthOfUnits DEF Carried, Borrowed

(* The amounts added up side by side. *)
LEMMA WorthAddsUp ==
  ASSUME NEW l \in Amounts, NEW r \in Amounts
  PROVE  Worth(Amount(l.units + r.units, l.nanos + r.nanos)) = Worth(l) + Worth(r)
<1> NanosMod \in Int
  BY MoneyAssumption
<1> DEFINE a == l.units  b == r.units
<1>1. a \in Int /\ b \in Int /\ l.nanos \in Int /\ r.nanos \in Int
  BY DEF Amounts
<1>2. (a + b) * NanosMod = a * NanosMod + b * NanosMod
  BY <1>1, SMT
<1>3. a * NanosMod \in Int /\ b * NanosMod \in Int
  BY <1>1
<1> QED
  BY <1>1, <1>2, <1>3 DEF Worth, Amount

(* Sum never errs in what it returns: the result is worth what its two     *)
(* arguments are, whatever their signs, carries and borrows - also where   *)
(* it is not a valid amount.                                               *)
THEOREM SumIsExact ==
  ASSUME NEW l \in Valid, NEW r \in Valid
  PROVE  Worth(Sum(l, r)) = Worth(l) + Worth(r)
<1> DEFINE u == l.units + r.units
           n == l.nanos + r.nanos
<1>1. l \in Amounts /\ r \in Amounts /\ IsValid(l) /\ IsValid(r)
  BY DEF Valid
<1>2. u \in Int /\ n \in Int
  BY <1>1 DEF Amounts
<1>3. Sum(l, r) = IF SameSign(u, n) THEN Carried(u, n) ELSE Borrowed(u, n)
  BY <1>1 DEF Sum, Added
<1>4. Worth(Sum(l, r)) = Worth(Amount(u, n))
  BY <1>2, <1>3, CarriedKeepsWorth
<1> QED
  BY <1>1, <1>4, WorthAddsUp

(* Sum returns a valid amount whenever the units do not cancel out; only   *)
(* when they do, and the nanos do not, is the next Sum in danger.          *)
THEOREM SumIsValid ==
  ASSUME NEW l \in Valid, NEW r \in Valid,
         l.units + r.units # 0 \/ l.nanos + r.nanos = 0
  PROVE  Sum(l, r) \in Valid
<1> DEFINE u == l.units + r.units
           n == l.nanos + r.nanos
<1>1. l \in Amounts /\ r \in Amounts /\ IsValid(l) /\ IsValid(r)
  BY DEF Valid
<1>2. u \in Int /\ n \in Int /\ -(2 * NanosMod) < n /\ n < 2 * NanosMod /\ NanosMod \in Nat /\ NanosMod > 1
  BY <1>1, MoneyAssumption DEF Amounts, IsValid
<1>3. Sum(l, r) = IF SameSign(u, n) THEN Carried(u, n) ELSE Borrowed(u, n)
  BY <1>1 DEF Sum, Added
<1>4. CASE SameSign(u, n)
  BY <1>2, <1>3, <1>4 DEF SameSign, Carried, Amount, Valid, Amounts, IsValid, SignMatches
<1>5. CASE ~SameSign(u, n)
  <2>1. u # 0
    BY <1>5 DEF SameSign
  <2>2. -NanosMod < n /\ n < NanosMod
    BY <1>1, <1>2, <1>5, <2>1, MoneyAssumption DEF SameSign, Amounts, IsValid, SignMatches
  <2> QED
    BY <1>2, <1>3, <1>5, <2>1, <2>2 DEF SameSign, Borrowed, Amount, Valid, Amounts, IsValid, SignMatches
<1> QED
  BY <1>4, <1>5

-----------------------------------------------------------------------------
(* Induction, about a set of numbers: whatever its complement has a least  *)
(* element of.                                                             *)
LEMMA Induction ==
  ASSUME NEW S, 0 \in S, \A n \in Nat : n \in S => n + 1 \in S
  PROVE  Nat \subseteq S
<1> DEFINE T == Nat \ S
           R == {p \in Nat \X Nat : p[1] < p[2]}
<1>1. SUFFICES ASSUME T # {} PROVE FALSE
  OBVIOUS
<1>2. IsWellFoundedOn(R, Nat)
  BY NatLessThanWellFounded DEF OpToRel
<1>3. \A x \in Nat, y \in Nat : y < x => <<y, x>> \in R
  OBVIOUS
<1> HIDE DEF R
<1>4. PICK x \in T : \A y \in T : <<y, x>> \notin R
  BY <1>1, <1>2, WFMin
<1>5. x # 0 /\ x - 1 \in Nat /\ x - 1 < x
  BY <1>4
<1>6. x - 1 \in S
  BY <1>3, <1>4, <1>5
<1> QED
  BY <1>4, <1>5, <1>6

(* r follows a recursive definition over an interval.                      *)
Solution(r, lo, hi, first, step) ==
  \A k \in lo..hi : r[k] = IF k = lo THEN first ELSE step[<<k, r[k - 1]>>]

(* A recursive definition over an interval has a solution.                 *)
LEMMA Recursion ==
  ASSUME NEW lo \in Int, NEW T, NEW first \in T, NEW step \in [Int \X T -> T], NEW hi \in Int
  PROVE  \E r \in [lo..hi -> T] : Solution(r, lo, hi, first, step)
<1> DEFINE Solves(r, n) == r \in [lo..(lo + n) -> T] /\ Solution(r, lo, lo + n, first, step)
           S == {n \in Nat : \E r : Solves(r, n)}
<1>1. 0 \in S
  <2>1. Solves([k \in lo..(lo + 0) |-> first], 0)
    BY DEF Solution
  <2> QED
    BY <2>1
<1>2. ASSUME NEW n \in Nat, n \in S PROVE n + 1 \in S
  <2>1. PICK r : Solves(r, n)
    BY <1>2
  <2> DEFINE top == lo + (n + 1)
             longer == [k \in lo..top |-> IF k = top THEN step[<<top, r[lo + n]>>] ELSE r[k]]
  <2>2. /\ \A k \in lo..top : k # top => k \in lo..(lo + n)
        /\ top - 1 = lo + n /\ lo + n \in lo..(lo + n) /\ top # lo /\ top \in Int
    OBVIOUS
  <2>3. step[<<top, r[lo + n]>>] \in T
    BY <2>1, <2>2
  <2>4. longer \in [lo..top -> T]
    BY <2>1, <2>2, <2>3
  <2>5. ASSUME NEW k \in lo..top
        PROVE  longer[k] = IF k = lo THEN first ELSE step[<<k, longer[k - 1]>>]
    <3>1. CASE k = top
      BY <2>2, <3>1
    <3>2. CASE k # top
      <4>1. k \in lo..(lo + n) /\ (k # lo => k - 1 \in lo..(lo + n) /\ k - 1 # top)
        BY <2>2, <3>2
      <4>2. longer[k] = r[k] /\ (k # lo => longer[k - 1] = r[k - 1])
        BY <2>2, <3>2, <4>1
      <4> QED
        BY <2>1, <4>1, <4>2 DEF Solution
    <3> QED
      BY <3>1, <3>2
  <2> HIDE DEF longer
  <2>6. Solves(longer, n + 1)
    BY <2>4, <2>5 DEF Solution
  <2> QED
    BY <2>6
<1> HIDE DEF S
<1>3. Nat \subseteq S
  BY <1>1, <1>2, Induction
<1>4. CASE hi < lo
  <2>1. lo..hi = {}
    BY <1>4
  <2>2. [k \in lo..hi |-> first] \in [lo..hi -> T] /\ Solution([k \in lo..hi |-> first], lo, hi, first, step)
    BY <2>1 DEF Solution
  <2> QED
    BY <2>2
<1>5. CASE lo <= hi
  <2> DEFINE n == hi - lo
  <2>1. n \in Nat /\ lo + n = hi
    BY <1>5
  <2>2. PICK r : Solves(r, n)
    BY <1>3, <2>1 DEF S
  <2> HIDE DEF n
  <2> QED
    BY <2>1, <2>2
<1> QED
  BY <1>4, <1>5

-----------------------------------------------------------------------------
(* What a chain of sums returns: Panic, or what it should be worth. *)
Sound(m, worth) == m \in Amounts /\ (m = Panic \/ Worth(m) = worth)

(* Sums of sound amounts are sound: a sum that is not valid is worth the   *)
(* right amount once more, and then refused.                               *)
LEMMA SumIsSound ==
  ASSUME NEW l, NEW r, NEW v \in Int, NEW w \in Int, Sound(l, v), Sound(r, w)
  PROVE  Sound(Sum(l, r), v + w)
<1> NanosMod \in Nat /\ NanosMod > 1
  BY MoneyAssumption
<1>1. Panic \in Amounts /\ ~IsValid(Panic)
  BY DEF Panic, Amounts, Amount, IsValid
<1>2. CASE IsValid(l) /\ IsValid(r)
  <2>1. l \in Valid /\ r \in Valid /\ l \in Amounts /\ r \in Amounts
    BY <1>2 DEF Sound, Valid
  <2>2. Worth(Sum(l, r)) = v + w
    BY <1>1, <1>2, <2>1, SumIsExact DEF Sound
  <2>3. Sum(l, r) \in Amounts
    BY <1>2, <2>1 DEF Sum, Added, Carried, Borrowed, Amount, Amounts
  <2> QED
    BY <2>2, <2>3 DEF Sound
<1>3. CASE ~(IsValid(l) /\ IsValid(r))
  BY <1>1, <1>3 DEF Sum, Sound
<1> QED
  BY <1>2, <1>3

(* The function that MultiplySlow is made of exists, and is what its       *)
(* definition says.                                                        *)
LEMMA Multiplied ==
  ASSUME NEW m \in Amounts, NEW n \in Nat
  PROVE  \E out \in [1..n -> Amounts] :
           /\ \A k \in 1..n : out[k] = IF k = 1 THEN m ELSE Sum(out[k - 1], m)
           /\ MultiplySlow(m, n) = IF n <= 1 THEN m ELSE out[n]
<1> DEFINE step == [p \in Int \X Amounts |-> Sum(p[2], m)]
           out == CHOOSE out : out = [k \in 1..n |-> IF k = 1 THEN m ELSE Sum(out[k - 1], m)]
<1>1. ASSUME NEW s \in Amounts PROVE Sum(s, m) \in Amounts
  <2>1. Sound(s, Worth(s)) /\ Sound(m, Worth(m)) /\ Worth(s) \in Int /\ Worth(m) \in Int
    BY MoneyAssumption DEF Sound, Worth, Amounts
  <2> QED
    BY <2>1, SumIsSound DEF Sound
<1>2. step \in [Int \X Amounts -> Amounts]
  BY <1>1
<1>3. \A k \in Int, s \in Amounts : step[<<k, s>>] = Sum(s, m)
  OBVIOUS
<1> HIDE DEF step
<1>4. PICK r \in [1..n -> Amounts] :
        Solution(r, 1, n, m, step)
  <2>1. 1 \in Int /\ n \in Int
    OBVIOUS
  <2> QED
    BY <1>2, <2>1, Recursion
<1>5. \A k \in 1..n : k # 1 => step[<<k, r[k - 1]>>] = Sum(r[k - 1], m)
  BY <1>3, <1>4
<1>6. r = [k \in 1..n |-> IF k = 1 THEN m ELSE Sum(r[k - 1], m)]
  BY <1>4, <1>5 DEF Solution
<1>7. out = [k \in 1..n |-> IF k = 1 THEN m ELSE Sum(out[k - 1], m)]
  BY <1>6
<1>8. MultiplySlow(m, n) = IF n <= 1 THEN m ELSE out[n]
  BY DEF MultiplySlow
<1> HIDE DEF out
<1>10. \A k \in 1..n : out[k] = IF k = 1 THEN m ELSE Sum(out[k - 1], m)
  BY <1>7
<1>11. out \in [1..n -> Amounts]
  <2> DEFINE S == {k \in Nat : k + 1 \in 1..n => out[k + 1] \in Amounts}
  <2>1. 0 \in S
    BY <1>10
  <2>2. ASSUME NEW k \in Nat, k \in S PROVE k + 1 \in S
    BY <1>1, <1>10, <2>2
  <2> HIDE DEF S
  <2>3. Nat \subseteq S
    BY <2>1, <2>2, Induction
  <2>4. \A k \in 1..n : k - 1 \in S /\ (k - 1) + 1 = k
    BY <2>3
  <2>5. \A k \in 1..n : out[k] \in Amounts
    BY <2>4 DEF S
  <2> QED
    BY <1>7, <2>5
<1> QED
  BY <1>8, <1>10, <1>11

(* MultiplySlow never errs either: n pieces are worth n times the price,   *)
(* if none of the sums on the way is refused.                              *)
THEOREM MultiplyIsExact ==
  ASSUME NEW m \in Amounts, NEW n \in Nat, n >= 1
  PROVE  Sound(MultiplySlow(m, n), Worth(m) * n)
<1>1. PICK out \in [1..n -> Amounts] :
        /\ \A k \in 1..n : out[k] = IF k = 1 THEN m ELSE Sum(out[k - 1], m)
        /\ MultiplySlow(m, n) = IF n <= 1 THEN m ELSE out[n]
  BY Multiplied
<1> DEFINE w == Worth(m)
           S == {k \in Nat : k + 1 \in 1..n => Sound(out[k + 1], w * (k + 1))}
<1>2. w \in Int
  BY MoneyAssumption DEF Worth, Amounts
<1>3. Sound(m, w)
  BY DEF Sound
<1> HIDE DEF w
<1>4. 0 \in S
  <2>1. w * (0 + 1) = w
    BY <1>2
  <2>2. 0 + 1 \in 1..n => out[0 + 1] = m
    BY <1>1
  <2> QED
    BY <1>3, <2>1, <2>2
<1>5. ASSUME NEW k \in Nat, k \in S PROVE k + 1 \in S
  <2> SUFFICES ASSUME (k + 1) + 1 \in 1..n PROVE Sound(out[(k + 1) + 1], w * ((k + 1) + 1))
    OBVIOUS
  <2>1. k + 1 \in 1..n /\ out[(k + 1) + 1] = Sum(out[k + 1], m)
    BY <1>1
  <2>2. Sound(out[k + 1], w * (k + 1))
    BY <1>5, <2>1
  <2>3. w * (k + 1) \in Int /\ w * (k + 1) + w = w * ((k + 1) + 1)
    BY <1>2
  <2>4. Sound(Sum(out[k + 1], m), w * (k + 1) + w)
    BY <1>2, <1>3, <2>2, <2>3, SumIsSound
  <2> QED
    BY <2>1, <2>3, <2>4
<1> HIDE DEF S
<1>6. Nat \subseteq S
  BY <1>4, <1>5, Induction
<1>7. CASE n = 1
  BY <1>1, <1>2, <1>3, <1>7 DEF w
<1>8. CASE n > 1
  <2>1. n - 1 \in S /\ (n - 1) + 1 = n
    BY <1>6, <1>8
  <2>2. Sound(out[n], w * n)
    BY <2>1 DEF S
  <2> QED
    BY <1>1, <1>8, <2>2 DEF w
<1> QED
  BY <1>7, <1>8

(* Amounts of at least one unit never lead to Panic. *)
Whole == {m \in Valid : m.units >= 1}

(* Sums of them are not refused, nor is the first one, to zero.            *)
LEMMA WholeSum ==
  ASSUME NEW l \in Whole \cup {Zero}, NEW r \in Whole
  PROVE  Sum(l, r) \in Whole
<1> DEFINE u == l.units + r.units
           n == l.nanos + r.nanos
<1> NanosMod \in Nat /\ NanosMod > 1
  BY MoneyAssumption
<1>1. /\ l \in Valid /\ l.units \in Int /\ l.nanos \in Int
      /\ l.units >= 0 /\ l.nanos >= 0
  BY DEF Whole, Valid, Zero, Amount, Amounts, IsValid, SignMatches
<1>2. /\ r \in Valid /\ r.units \in Int /\ r.nanos \in Int
      /\ r.units >= 1 /\ r.nanos >= 0
  BY DEF Whole, Valid, Amounts, IsValid, SignMatches
<1>3. Sum(l, r) \in Valid
  BY <1>1, <1>2, SumIsValid
<1>4. Sum(l, r) = Carried(u, n)
  BY <1>1, <1>2 DEF Sum, Added, SameSign, Valid
<1>5. Carried(u, n).units >= 1
  BY <1>1, <1>2 DEF Carried, Amount
<1> QED
  BY <1>3, <1>4, <1>5 DEF Whole

(* Nor is any sum that a product of them is made of.                       *)
LEMMA WholeProduct ==
  ASSUME NEW m \in Whole, NEW n \in Nat
  PROVE  MultiplySlow(m, n) \in Whole
<1>1. m \in Amounts
  BY DEF Whole, Valid
<1>2. PICK out \in [1..n -> Amounts] :
        /\ \A k \in 1..n : out[k] = IF k = 1 THEN m ELSE Sum(out[k - 1], m)
        /\ MultiplySlow(m, n) = IF n <= 1 THEN m ELSE out[n]
  BY <1>1, Multiplied
<1> DEFINE S == {k \in Nat : k + 1 \in 1..n => out[k + 1] \in Whole}
<1>3. 0 \in S
  BY <1>2
<1>4. ASSUME NEW k \in Nat, k \in S PROVE k + 1 \in S
  <2> SUFFICES ASSUME (k + 1) + 1 \in 1..n PROVE out[(k + 1) + 1] \in Whole
    OBVIOUS
  <2>1. k + 1 \in 1..n /\ out[(k + 1) + 1] = Sum(out[k + 1], m)
    BY <1>2
  <2>2. out[k + 1] \in Whole
    BY <1>4, <2>1
  <2> QED
    BY <2>1, <2>2, WholeSum
<1> HIDE DEF S
<1>5. Nat \subseteq S
  BY <1>3, <1>4, Induction
<1>6. CASE n > 1
  <2>1. n - 1 \in S /\ (n - 1) + 1 = n
    BY <1>5, <1>6
  <2>2. out[n] \in Whole
    BY <2>1, <1>6 DEF S
  <2> QED
    BY <1>2, <1>6, <2>2
<1> QED
  BY <1>2, <1>6

-----------------------------------------------------------------------------
(* Carts and orders. *)
NotShippedYet == {"new", "read", "priced", "charged"}

(* An addition is in a cart, and in what anybody has read of one, only     *)
(* when it was made.                                                       *)
MadeIn(set, a) == set \subseteq Additions /\ \A b \in set : a[b] = "done"

Shape ==
  /\ adding \in [Additions -> {"new", "read", "done"}]
  /\ saw \in [Additions -> SUBSET Additions]
  /\ raced \in BOOLEAN
  /\ stage \in [Orders -> Stages]
  /\ items \in [Orders -> SUBSET Additions]
  /\ shipped \in [Orders -> SUBSET Additions]
  /\ before \in [Orders -> SUBSET Orders]
  /\ late \subseteq Additions

OnlyMade ==
  /\ MadeIn(cart, adding)
  /\ \A a \in Additions : MadeIn(saw[a], adding)
  /\ \A o \in Orders : MadeIn(items[o], adding)

(* The cart of the transactional store is never overwritten.               *)
SpannerReads == \A a \in Additions : adding[a] = "read" => ~Transactional

(* What an order under way has not read came late; and what it has read is *)
(* shipped when the cart is emptied.                                       *)
ReadOrLate == \A o \in Orders : Active(o) => cart \ items[o] \subseteq late

ShipsItems ==
  \A o \in Orders :
    /\ stage[o] \in NotShippedYet => shipped[o] = {}
    /\ stage[o] = "shipped" => shipped[o] = items[o]

(* The items of an order that has ended well do not come back.             *)
DoneIsGone ==
  InOrder => \A o \in Orders : stage[o] = "done" => items[o] \intersect cart = {}

BeforeIsDone == \A o \in Orders : \A p \in before[o] : stage[p] = "done"

ItemsApart ==
  InOrder => \A o \in Orders : \A p \in before[o] : items[p] \intersect items[o] = {}

NewIsEmpty == \A o \in Orders : stage[o] = "new" => items[o] = {} /\ before[o] = {}

CartInv ==
  /\ Shape /\ OnlyMade /\ SpannerReads /\ ReadOrLate /\ ShipsItems
  /\ DoneIsGone /\ BeforeIsDone /\ ItemsApart /\ NewIsEmpty /\ AdditionsKept

-----------------------------------------------------------------------------
(* Nothing is in the cart, and no order has begun. *)
LEMMA InitCartInv == Init => CartInv
<1> SUFFICES ASSUME Init PROVE CartInv
  OBVIOUS
<1> USE DEF Init, CartInit
<1>1. Shape
  <2>1. raced \in BOOLEAN
    OBVIOUS
  <2> QED
    BY <2>1 DEF Shape, Stages
<1>2. OnlyMade
  BY DEF OnlyMade, MadeIn
<1>3. SpannerReads /\ AdditionsKept
  BY DEF SpannerReads, AdditionsKept
<1>4. ReadOrLate /\ ShipsItems
  BY DEF ReadOrLate, ShipsItems, Active, NotShippedYet
<1>5. DoneIsGone /\ BeforeIsDone /\ ItemsApart /\ NewIsEmpty
  BY DEF DoneIsGone, BeforeIsDone, ItemsApart, NewIsEmpty
<1> QED
  BY <1>1, <1>2, <1>3, <1>4, <1>5 DEF CartInv

-----------------------------------------------------------------------------
(* What a step of AddItemAsync does to the cart, in any of the stores: it  *)
(* adds its own piece when it is done, and nothing else gets in or out as  *)
(* long as it has not overwritten a change it did not see.                 *)
LEMMA AddFacts ==
  ASSUME Shape, OnlyMade, SpannerReads, NEW a \in Additions, Add(a)
  PROVE  /\ adding' \in [Additions -> {"new", "read", "done"}]
         /\ saw' \in [Additions -> SUBSET Additions]
         /\ raced' \in BOOLEAN
         /\ store' = store
         /\ adding[a] # "done"
         /\ \A b \in Additions \ {a} : adding'[b] = adding[b]
         /\ adding'[a] = "read" => ~Transactional
         /\ MadeIn(cart', adding')
         /\ \A b \in Additions : MadeIn(saw'[b], adding')
         /\ InOrder' => InOrder
         /\ InOrder' => cart \subseteq cart' /\ cart' \subseteq cart \union {a}
         /\ adding'[a] = "done" => a \in cart'
<1> USE DEF Shape
<1>1. MadeIn(cart, adding) /\ \A b \in Additions : MadeIn(saw[b], adding)
  BY DEF OnlyMade
<1>2. CASE AddItem(a)
  <2> USE <1>2 DEF AddItem
  <2>1. InOrder' <=> InOrder
    BY Zenon DEF InOrder
  <2>2. raced' \in BOOLEAN
    BY Zenon
  <2> QED
    BY <1>1, <2>1, <2>2 DEF MadeIn
<1>3. CASE ReadItem(a)
  <2> USE <1>3 DEF ReadItem
  <2>1. InOrder' <=> InOrder
    BY Zenon DEF InOrder
  <2>2. raced' \in BOOLEAN
    BY Zenon
  <2> QED
    BY <1>1, <2>1, <2>2 DEF MadeIn
<1>4. CASE WriteItem(a)
  <2> USE <1>4 DEF WriteItem
  <2>1. ~Transactional
    BY DEF SpannerReads
  <2>2. /\ InOrder' => InOrder
        /\ InOrder' => cart \intersect Extent(a) = saw[a]
    BY <2>1, Zenon DEF InOrder, Transactional
  <2>3. raced' \in BOOLEAN
    BY Zenon
  <2>4. /\ MadeIn(cart', adding')
        /\ \A b \in Additions : MadeIn(saw'[b], adding')
    BY <1>1 DEF MadeIn
  <2>5. InOrder' => cart \subseteq cart' /\ cart' \subseteq cart \union {a}
    BY <2>2
  <2> QED
    BY <2>2, <2>3, <2>4, <2>5
<1> QED
  BY <1>2, <1>3, <1>4 DEF Add

(* The orders under way take no notice of an addition, which is late for   *)
(* them.                                                                   *)
LEMMA AddInv ==
  ASSUME CartInv, NEW a \in Additions, Add(a), UNCHANGED orderVars,
         late' = IF \E o \in Orders : Active(o) THEN late \union (cart' \ cart) ELSE late
  PROVE  CartInv'
<1>1. Shape /\ OnlyMade /\ SpannerReads
  BY DEF CartInv
<1>2. /\ adding' \in [Additions -> {"new", "read", "done"}]
      /\ saw' \in [Additions -> SUBSET Additions]
      /\ raced' \in BOOLEAN
      /\ store' = store
      /\ adding[a] # "done"
      /\ \A b \in Additions \ {a} : adding'[b] = adding[b]
      /\ adding'[a] = "read" => ~Transactional
      /\ MadeIn(cart', adding')
      /\ \A b \in Additions : MadeIn(saw'[b], adding')
      /\ InOrder' => InOrder
      /\ InOrder' => cart \subseteq cart' /\ cart' \subseteq cart \union {a}
      /\ adding'[a] = "done" => a \in cart'
  BY <1>1, AddFacts
<1>3. /\ stage' = stage /\ items' = items /\ shipped' = shipped /\ before' = before
      /\ \A o \in Orders : Active(o)' <=> Active(o)
  BY DEF orderVars, Active
<1>4. late \subseteq late' /\ cart' \subseteq Additions
  BY <1>2 DEF MadeIn
<1>5. Shape'
  <2>1. late' \subseteq Additions
    BY <1>1, <1>4 DEF Shape
  <2> QED
    BY <1>1, <1>2, <1>3, <2>1 DEF Shape
<1>6. OnlyMade'
  BY <1>1, <1>2, <1>3 DEF OnlyMade, MadeIn
<1>7. SpannerReads'
  BY <1>1, <1>2 DEF SpannerReads, Transactional
<1>8. ReadOrLate'
  BY <1>2, <1>3, <1>4 DEF CartInv, ReadOrLate
<1>9. ShipsItems' /\ BeforeIsDone' /\ NewIsEmpty'
  BY <1>3 DEF CartInv, ShipsItems, BeforeIsDone, NewIsEmpty
<1>10. ItemsApart'
  BY <1>2, <1>3 DEF CartInv, ItemsApart
<1>11. DoneIsGone'
  <2> SUFFICES ASSUME InOrder', NEW o \in Orders, stage[o] = "done"
               PROVE  items[o] \intersect cart' = {}
    BY <1>3 DEF DoneIsGone
  <2>1. items[o] \intersect cart = {}
    BY <1>2 DEF CartInv, DoneIsGone
  <2>2. a \notin items[o]
    BY <1>1, <1>2 DEF OnlyMade, MadeIn
  <2> QED
    BY <1>2, <2>1, <2>2
<1>12. AdditionsKept'
  <2> SUFFICES ASSUME InOrder', NEW b \in Additions, b \notin late', adding'[b] = "done"
               PROVE  b \in cart' \/ \E o \in Orders : b \in shipped[o]
    BY <1>3 DEF AdditionsKept
  <2>1. CASE b = a
    BY <1>2, <2>1
  <2>2. CASE b # a
    <3>1. b \in cart \/ \E o \in Orders : b \in shipped[o]
      BY <1>2, <1>4, <2>2 DEF CartInv, AdditionsKept
    <3> QED
      BY <1>2, <3>1
  <2> QED
    BY <2>1, <2>2
<1> QED
  BY <1>5, <1>6, <1>7, <1>8, <1>9, <1>10, <1>11, <1>12 DEF CartInv

-----------------------------------------------------------------------------
(* A step of an order that leaves the cart and what was read and shipped   *)
(* alone, and that neither begins an order nor ends one well.              *)
LEMMA StageInv ==
  ASSUME CartInv, UNCHANGED <<cartVars, items, shipped, before, late>>,
         stage' \in [Orders -> Stages],
         \A o \in Orders :
           /\ stage'[o] = "new" <=> stage[o] = "new"
           /\ stage'[o] = "done" <=> stage[o] = "done"
           /\ stage'[o] = "shipped" => stage[o] = "shipped"
           /\ stage'[o] \in NotShippedYet => stage[o] \in NotShippedYet
           /\ Active(o)' => Active(o)
  PROVE  CartInv'
<1>1. /\ cart' = cart /\ store' = store /\ adding' = adding /\ saw' = saw /\ raced' = raced
      /\ items' = items /\ shipped' = shipped /\ before' = before /\ late' = late
  BY DEF cartVars
<1>2. InOrder' <=> InOrder
  BY <1>1, Zenon DEF InOrder
<1>3. Shape' /\ OnlyMade'
  <2>1. raced' \in BOOLEAN
    BY <1>1, Zenon DEF CartInv, Shape
  <2> QED
    BY <1>1, <2>1 DEF CartInv, Shape, OnlyMade, MadeIn
<1>4. SpannerReads' /\ ReadOrLate'
  BY <1>1 DEF CartInv, SpannerReads, Transactional, ReadOrLate
<1>5. ShipsItems' /\ NewIsEmpty'
  BY <1>1 DEF CartInv, ShipsItems, NewIsEmpty
<1>6. DoneIsGone' /\ ItemsApart'
  BY <1>1, <1>2 DEF CartInv, DoneIsGone, ItemsApart
<1>7. BeforeIsDone'
  BY <1>1 DEF CartInv, BeforeIsDone, Shape
<1>8. AdditionsKept'
  BY <1>1, <1>2 DEF CartInv, AdditionsKept
<1> QED
  BY <1>3, <1>4, <1>5, <1>6, <1>7, <1>8 DEF CartInv

(* An order begins with what is in the cart, which the orders that have    *)
(* ended well have left.                                                   *)
LEMMA GetUserCartInv ==
  ASSUME CartInv, NEW o \in Orders, GetUserCart(o), late' = late
  PROVE  CartInv'
<1> USE DEF GetUserCart, Goes
<1>1. /\ cart' = cart /\ store' = store /\ adding' = adding /\ saw' = saw /\ raced' = raced
      /\ shipped' = shipped /\ late' = late
  BY DEF cartVars
<1>2. /\ stage[o] = "new"
      /\ stage' = [stage EXCEPT ![o] = "read"]
      /\ items' = [items EXCEPT ![o] = cart]
      /\ before' = [before EXCEPT ![o] = {p \in Orders : stage[p] = "done"}]
  OBVIOUS
<1>3. InOrder' <=> InOrder
  BY <1>1, Zenon DEF InOrder
<1>4. Shape /\ OnlyMade
  BY DEF CartInv
<1>5. Shape' /\ OnlyMade'
  <2>1. raced' \in BOOLEAN
    BY <1>1, Zenon DEF CartInv, Shape
  <2> QED
    BY <1>1, <1>2, <1>4, <2>1 DEF Shape, OnlyMade, MadeIn, Stages
<1>6. SpannerReads'
  BY <1>1 DEF CartInv, SpannerReads, Transactional
<1>7. ReadOrLate'
  BY <1>1, <1>2, <1>4 DEF CartInv, ReadOrLate, Active, Shape
<1>8. ShipsItems' /\ NewIsEmpty' /\ BeforeIsDone'
  BY <1>1, <1>2, <1>4 DEF CartInv, ShipsItems, NewIsEmpty, BeforeIsDone, NotShippedYet, Shape
<1>9. DoneIsGone'
  BY <1>1, <1>2, <1>3, <1>4 DEF CartInv, DoneIsGone, Shape
<1>10. ItemsApart'
  <2> SUFFICES ASSUME InOrder', NEW q \in Orders, NEW p \in before'[q]
               PROVE  items'[p] \intersect items'[q] = {}
    BY DEF ItemsApart
  <2>1. CASE q = o
    <3>1. p \in Orders /\ stage[p] = "done" /\ p # o
      BY <1>2, <1>4, <2>1 DEF Shape
    <3> QED
      BY <1>2, <1>3, <1>4, <2>1, <3>1 DEF CartInv, DoneIsGone, Shape
  <2>2. CASE q # o
    <3>1. p \in before[q] /\ p \in Orders /\ stage[p] = "done" /\ p # o
      BY <1>2, <1>4, <2>2 DEF CartInv, BeforeIsDone, Shape
    <3> QED
      BY <1>2, <1>3, <1>4, <2>2, <3>1 DEF CartInv, ItemsApart, Shape
  <2> QED
    BY <2>1, <2>2
<1>11. AdditionsKept'
  BY <1>1, <1>3 DEF CartInv, AdditionsKept
<1> QED
  BY <1>5, <1>6, <1>7, <1>8, <1>9, <1>10, <1>11 DEF CartInv

(* Shipping changes what is shipped of an order of which nothing was.      *)
LEMMA ShipOrderInv ==
  ASSUME CartInv, NEW o \in Orders, ShipOrder(o), late' = late
  PROVE  CartInv'
<1> USE DEF ShipOrder, Goes
<1>1. /\ cart' = cart /\ store' = store /\ adding' = adding /\ saw' = saw /\ raced' = raced
      /\ items' = items /\ before' = before /\ late' = late
  BY DEF cartVars
<1>2. /\ stage[o] = "charged"
      /\ \/ stage' = [stage EXCEPT ![o] = "shipped"] /\ shipped' = [shipped EXCEPT ![o] = items[o]]
         \/ stage' = [stage EXCEPT ![o] = "failed"]
            /\ shipped' \in {shipped, [shipped EXCEPT ![o] = items[o]]}
  OBVIOUS
<1>3. InOrder' <=> InOrder
  BY <1>1, Zenon DEF InOrder
<1>4. Shape /\ OnlyMade
  BY DEF CartInv
<1>5. Shape' /\ OnlyMade'
  <2>1. raced' \in BOOLEAN
    BY <1>1, Zenon DEF CartInv, Shape
  <2>2. shipped' \in [Orders -> SUBSET Additions] /\ stage' \in [Orders -> Stages]
    BY <1>2, <1>4 DEF Shape, Stages
  <2> QED
    BY <1>1, <1>4, <2>1, <2>2 DEF Shape, OnlyMade, MadeIn
<1>6. SpannerReads'
  BY <1>1 DEF CartInv, SpannerReads, Transactional
<1>7. ReadOrLate'
  BY <1>1, <1>2, <1>4 DEF CartInv, ReadOrLate, Active, Shape
<1>8. ShipsItems'
  BY <1>1, <1>2, <1>4 DEF CartInv, ShipsItems, NotShippedYet, Shape
<1>9. NewIsEmpty' /\ BeforeIsDone'
  BY <1>1, <1>2, <1>4 DEF CartInv, NewIsEmpty, BeforeIsDone, Shape
<1>10. DoneIsGone' /\ ItemsApart'
  BY <1>1, <1>2, <1>3, <1>4 DEF CartInv, DoneIsGone, ItemsApart, Shape
<1>11. AdditionsKept'
  <2> SUFFICES ASSUME InOrder', NEW a \in Additions, a \notin late, adding[a] = "done", a \notin cart
               PROVE  \E p \in Orders : a \in shipped'[p]
    BY <1>1 DEF AdditionsKept
  <2>1. PICK p \in Orders : a \in shipped[p]
    BY <1>3 DEF CartInv, AdditionsKept
  <2>2. p # o
    BY <1>2, <2>1 DEF CartInv, ShipsItems, NotShippedYet
  <2>3. a \in shipped'[p]
    BY <1>2, <1>4, <2>1, <2>2 DEF Shape
  <2> QED
    BY <2>3
<1> QED
  BY <1>5, <1>6, <1>7, <1>8, <1>9, <1>10, <1>11 DEF CartInv

(* What the cart is emptied of was shipped by this order, or came late.    *)
LEMMA EmptyUserCartInv ==
  ASSUME CartInv, NEW o \in Orders, EmptyUserCart(o), late' = late
  PROVE  CartInv'
<1> USE DEF EmptyUserCart, Goes, StageOfEmptying
<1>1. /\ store' = store /\ adding' = adding /\ saw' = saw /\ raced' = raced
      /\ items' = items /\ shipped' = shipped /\ before' = before /\ late' = late
  BY DEF cartVars, EmptyCart
<1>2. /\ stage[o] = "shipped"
      /\ \/ stage' = [stage EXCEPT ![o] = "done"] /\ cart' = {}
         \/ stage' = [stage EXCEPT ![o] = "notEmptied"] /\ cart' \in {{}, cart}
  BY DEF cartVars, EmptyCart
<1>3. InOrder' <=> InOrder
  BY <1>1, Zenon DEF InOrder
<1>4. Shape /\ OnlyMade
  BY DEF CartInv
<1>5. Shape' /\ OnlyMade'
  <2>1. raced' \in BOOLEAN
    BY <1>1, Zenon DEF CartInv, Shape
  <2>2. stage' \in [Orders -> Stages] /\ cart' \subseteq cart
    BY <1>2, <1>4 DEF Shape, Stages
  <2> QED
    BY <1>1, <1>4, <2>1, <2>2 DEF Shape, OnlyMade, MadeIn
<1>6. SpannerReads'
  BY <1>1 DEF CartInv, SpannerReads, Transactional
<1>7. ReadOrLate'
  BY <1>1, <1>2, <1>4 DEF CartInv, ReadOrLate, Active, Shape
<1>8. ShipsItems'
  BY <1>1, <1>2, <1>4 DEF CartInv, ShipsItems, NotShippedYet, Shape
<1>9. NewIsEmpty' /\ BeforeIsDone'
  BY <1>1, <1>2, <1>4 DEF CartInv, NewIsEmpty, BeforeIsDone, Shape
<1>10. DoneIsGone' /\ ItemsApart'
  BY <1>1, <1>2, <1>3, <1>4 DEF CartInv, DoneIsGone, ItemsApart, Shape
<1>11. AdditionsKept'
  <2> SUFFICES ASSUME InOrder', NEW a \in Additions, a \notin late, adding[a] = "done", a \notin cart'
               PROVE  \E p \in Orders : a \in shipped[p]
    BY <1>1 DEF AdditionsKept
  <2>1. CASE a \in cart
    <3>1. a \in items[o]
      BY <1>2, <2>1 DEF CartInv, ReadOrLate, Active
    <3>2. shipped[o] = items[o]
      BY <1>2 DEF CartInv, ShipsItems
    <3> QED
      BY <3>1, <3>2
  <2>2. CASE a \notin cart
    BY <1>3, <2>2 DEF CartInv, AdditionsKept
  <2> QED
    BY <2>1, <2>2
<1> QED
  BY <1>5, <1>6, <1>7, <1>8, <1>9, <1>10, <1>11 DEF CartInv

(* Of the steps of an order, only emptying touches the cart, and it adds   *)
(* nothing to it.                                                          *)
LEMMA OrderInv ==
  ASSUME CartInv, NEW o \in Orders, PlaceOrder(o),
         late' = IF \E p \in Orders : Active(p) THEN late \union (cart' \ cart) ELSE late
  PROVE  CartInv'
<1>1. late' = late
  <2>1. cart' \subseteq cart
    BY DEF PlaceOrder, GetUserCart, Prepare, Crash, PrepareFails, ChargeCard, ShipOrder,
           EmptyUserCart, EmptyCart, cartVars
  <2> QED
    BY <2>1
<1>2. stage \in [Orders -> Stages]
  BY DEF CartInv, Shape
<1>3. CASE GetUserCart(o)
  BY <1>1, <1>3, GetUserCartInv
<1>4. CASE Prepare(o) \/ PrepareFails(o) \/ ChargeCard(o)
  <2>1. /\ UNCHANGED <<cartVars, items, shipped, before, late>>
        /\ \E from \in {"read", "priced"} : \E to \in {"priced", "charged", "failed"} :
             stage[o] = from /\ stage' = [stage EXCEPT ![o] = to]
    BY <1>1, <1>4 DEF Prepare, PrepareFails, ChargeCard, Goes
  <2>2. stage' \in [Orders -> Stages]
    BY <1>2, <2>1 DEF Stages
  <2>3. \A p \in Orders :
          /\ stage'[p] = "new" <=> stage[p] = "new"
          /\ stage'[p] = "done" <=> stage[p] = "done"
          /\ stage'[p] = "shipped" => stage[p] = "shipped"
          /\ stage'[p] \in NotShippedYet => stage[p] \in NotShippedYet
          /\ Active(p)' => Active(p)
    BY <1>2, <2>1 DEF NotShippedYet, Active
  <2> QED
    BY <2>1, <2>2, <2>3, StageInv
<1>5. CASE Crash(o)
  <2>1. /\ UNCHANGED <<cartVars, items, shipped, before, late>>
        /\ stage' = [p \in Orders |-> IF Active(p) THEN "crashed" ELSE stage[p]]
    BY <1>1, <1>5 DEF Crash
  <2>2. stage' \in [Orders -> Stages]
    BY <1>2, <2>1 DEF Stages
  <2>3. \A p \in Orders :
          /\ stage'[p] = "new" <=> stage[p] = "new"
          /\ stage'[p] = "done" <=> stage[p] = "done"
          /\ stage'[p] = "shipped" => stage[p] = "shipped"
          /\ stage'[p] \in NotShippedYet => stage[p] \in NotShippedYet
          /\ Active(p)' => Active(p)
    BY <1>2, <2>1 DEF NotShippedYet, Active
  <2> QED
    BY <2>1, <2>2, <2>3, StageInv
<1>6. CASE ShipOrder(o)
  BY <1>1, <1>6, ShipOrderInv
<1>7. CASE EmptyUserCart(o)
  BY <1>1, <1>7, EmptyUserCartInv
<1> QED
  BY <1>3, <1>4, <1>5, <1>6, <1>7 DEF PlaceOrder

(* The first invariant: of the cart, what was read of it and shipped.     *)
LEMMA CartInvariant == Spec => []CartInv
<1>1. CartInv /\ Next => CartInv'
  <2> SUFFICES ASSUME CartInv, Next PROVE CartInv'
    OBVIOUS
  <2>1. CASE \E a \in Additions : Add(a) /\ UNCHANGED orderVars
    <3>1. PICK a \in Additions : Add(a) /\ UNCHANGED orderVars
      BY <2>1
    <3> QED
      BY <3>1, AddInv DEF Next
  <2>2. CASE \E o \in Orders : PlaceOrder(o)
    <3>1. PICK o \in Orders : PlaceOrder(o)
      BY <2>2
    <3> QED
      BY <3>1, OrderInv DEF Next
  <2> QED
    BY <2>1, <2>2 DEF Next
<1>2. CartInv /\ UNCHANGED vars => CartInv'
  <2> SUFFICES ASSUME CartInv, UNCHANGED vars PROVE CartInv'
    OBVIOUS
  <2>1. UNCHANGED <<cartVars, items, shipped, before, late>> /\ stage' = stage
    BY DEF vars, orderVars
  <2>2. stage' \in [Orders -> Stages] /\ \A o \in Orders : Active(o)' <=> Active(o)
    BY <2>1 DEF CartInv, Shape, Active
  <2> QED
    BY <2>1, <2>2, StageInv
<1> QED
  BY InitCartInv, <1>1, <1>2, PTL DEF Spec

-----------------------------------------------------------------------------
(* Sums over sets.  The model adds with MapThenFoldSet, which takes the    *)
(* elements in an order that is not known.                                 *)
First(S) == CHOOSE p \in S : TRUE

Adds(g, P, w) ==
  g = [s \in SUBSET P |-> IF s = {} THEN 0 ELSE w[First(s)] + g[s \ {First(s)}]]

(* Subsets of a finite set by size. *)
LEMMA SmallerSet ==
  ASSUME NEW P, IsFiniteSet(P), NEW s \in SUBSET P, NEW x \in s
  PROVE  /\ s \ {x} \in SUBSET P
         /\ Cardinality(s) \in Nat /\ Cardinality(s) >= 1
         /\ Cardinality(s \ {x}) = Cardinality(s) - 1
<1>1. IsFiniteSet(s)
  BY FS_Subset
<1>2. Cardinality(s) \in Nat /\ Cardinality(s \ {x}) = Cardinality(s) - 1
  BY <1>1, FS_RemoveElement, FS_CardinalityType
<1>3. Cardinality(s) # 0
  BY <1>1, FS_EmptySet
<1> QED
  BY <1>2, <1>3

(* Such a function exists: a level for each size of the sets.              *)
LEMMA AddsExists ==
  ASSUME NEW P, IsFiniteSet(P), NEW w \in [P -> Int]
  PROVE  \E g : Adds(g, P, w)
<1> DEFINE T == [SUBSET P -> Int]
           zero == [s \in SUBSET P |-> 0]
           more(h) == [s \in SUBSET P |-> IF s = {} THEN 0 ELSE w[First(s)] + h[s \ {First(s)}]]
           step == [p \in Int \X T |-> more(p[2])]
           n == Cardinality(P)
<1>1. zero \in T
  OBVIOUS
<1>2. \A s \in SUBSET P : s # {} => First(s) \in s /\ First(s) \in P /\ s \ {First(s)} \in SUBSET P
  BY DEF First
<1>3. \A h \in T : more(h) \in T
  BY <1>2
<1> HIDE DEF zero, T
<1>4. step \in [Int \X T -> T]
  BY <1>3
<1>5. \A k \in Int, h \in T : step[<<k, h>>] = more(h)
  OBVIOUS
<1>6. 0 \in Int /\ n \in Nat /\ n \in Int /\ 0 \in 0..n
  BY FS_CardinalityType
<1>7. \A h \in T, s \in SUBSET P :
         more(h)[s] = IF s = {} THEN 0 ELSE w[First(s)] + h[s \ {First(s)}]
  OBVIOUS
<1> HIDE DEF n, step, more
<1>8. PICK r \in [0..n -> T] : Solution(r, 0, n, zero, step)
  BY <1>1, <1>4, <1>6, Recursion
<1>9. \A k \in 0..n : r[k] = IF k = 0 THEN zero ELSE step[<<k, r[k - 1]>>]
  BY <1>8 DEF Solution
<1>10. r[0] = zero
  BY <1>6, <1>9
<1>11. ASSUME NEW k \in 0..n, k # 0 PROVE r[k - 1] \in T /\ r[k] = more(r[k - 1])
  <2>1. r[k - 1] \in T /\ k \in Int
    BY <1>6, <1>11
  <2>2. r[k] = step[<<k, r[k - 1]>>]
    BY <1>9, <1>11
  <2> QED
    BY <1>5, <2>1, <2>2
<1> DEFINE g == [s \in SUBSET P |-> r[Cardinality(s)][s]]
<1>12. ASSUME NEW s \in SUBSET P
      PROVE  g[s] = IF s = {} THEN 0 ELSE w[First(s)] + g[s \ {First(s)}]
  <2>1. CASE s = {}
    BY <1>10, <2>1, FS_EmptySet DEF zero
  <2>2. CASE s # {}
    <3> DEFINE x == First(s)
               c == Cardinality(s)
    <3>1. x \in s /\ s \ {x} \in SUBSET P
      BY <1>2, <2>2
    <3>2. c \in Nat /\ c >= 1 /\ Cardinality(s \ {x}) = c - 1
      BY <3>1, SmallerSet
    <3>3. c <= n
      BY FS_Subset DEF n
    <3>4. r[c - 1] \in T /\ r[c] = more(r[c - 1])
      BY <1>6, <1>11, <3>2, <3>3
    <3>5. g[s] = r[c][s] /\ g[s \ {x}] = r[c - 1][s \ {x}]
      BY <3>1, <3>2
    <3>6. more(r[c - 1])[s] = w[x] + r[c - 1][s \ {x}]
      BY <1>7, <2>2, <3>4
    <3> QED
      BY <2>2, <3>4, <3>5, <3>6
  <2> QED
    BY <2>1, <2>2
<1>13. g = [s \in SUBSET P |-> g[s]]
  OBVIOUS
<1> HIDE DEF g
<1>14. Adds(g, P, w)
  BY <1>12, <1>13 DEF Adds
<1> QED
  BY <1>14

(* The sum grows by each element, in whatever order it is made.            *)
Additive(g, P, w) ==
  /\ g \in [SUBSET P -> Int]
  /\ g[{}] = 0
  /\ \A s \in SUBSET P : \A x \in s : g[s] = w[x] + g[s \ {x}]

(* The solution does not depend on the order of First: any element can be  *)
(* taken out first.                                                        *)
LEMMA AddsUp ==
  ASSUME NEW P, IsFiniteSet(P), NEW w \in [P -> Int], NEW g, Adds(g, P, w)
  PROVE  Additive(g, P, w)
<1>0. g = [s \in SUBSET P |-> g[s]]
  BY DEF Adds
<1>1. /\ g[{}] = 0
      /\ \A s \in SUBSET P : s # {} => g[s] = w[First(s)] + g[s \ {First(s)}]
  BY DEF Adds
<1>2. ASSUME NEW s \in SUBSET P, s # {}
      PROVE  /\ First(s) \in s /\ s \ {First(s)} \in SUBSET P
             /\ Cardinality(s \ {First(s)}) = Cardinality(s) - 1
             /\ Cardinality(s) \in Nat \ {0}
  <2> DEFINE c == First(s)
  <2>1. c \in s
    BY <1>2 DEF First
  <2> HIDE DEF c
  <2>2. /\ s \ {c} \in SUBSET P /\ Cardinality(s) \in Nat /\ Cardinality(s) >= 1
        /\ Cardinality(s \ {c}) = Cardinality(s) - 1
    BY <2>1, SmallerSet
  <2> QED
    BY <2>1, <2>2 DEF c
<1>3. \A s \in SUBSET P : Cardinality(s) \in Nat /\ (Cardinality(s) = 0 => s = {})
  <2> SUFFICES ASSUME NEW s \in SUBSET P PROVE Cardinality(s) \in Nat /\ (Cardinality(s) = 0 => s = {})
    OBVIOUS
  <2>1. IsFiniteSet(s)
    BY FS_Subset
  <2> QED
    BY <2>1, FS_EmptySet, FS_CardinalityType
<1>4. g \in [SUBSET P -> Int]
  <2> DEFINE S == {k \in Nat : \A s \in SUBSET P : Cardinality(s) = k => g[s] \in Int}
  <2>1. 0 \in S
    <3>1. \A s \in SUBSET P : Cardinality(s) = 0 => g[s] = 0
      BY <1>1, <1>3
    <3> QED
      BY <3>1
  <2>2. ASSUME NEW k \in Nat, k \in S PROVE k + 1 \in S
    <3> SUFFICES ASSUME NEW s \in SUBSET P, Cardinality(s) = k + 1 PROVE g[s] \in Int
      OBVIOUS
    <3>1. s # {}
      BY FS_EmptySet
    <3>2. g[s \ {First(s)}] \in Int
      BY <1>2, <2>2, <3>1
    <3>3. First(s) \in P
      BY <1>2, <3>1
    <3>4. w[First(s)] \in Int
      BY <3>3
    <3>5. g[s] = w[First(s)] + g[s \ {First(s)}]
      BY <1>1, <3>1
    <3> QED
      BY <3>2, <3>4, <3>5
  <2> HIDE DEF S
  <2>3. Nat \subseteq S
    BY <2>1, <2>2, Induction
  <2>4. \A s \in SUBSET P : g[s] \in Int
    BY <1>3, <2>3 DEF S
  <2> QED
    BY <1>0, <2>4
<1>5. \A s \in SUBSET P : \A x \in s : g[s] = w[x] + g[s \ {x}]
  <2> DEFINE Fine(s) == \A x \in s : g[s] = w[x] + g[s \ {x}]
             S == {k \in Nat : \A s \in SUBSET P : Cardinality(s) = k => Fine(s)}
  <2>1. 0 \in S
    BY <1>3
  <2>2. ASSUME NEW k \in Nat, k \in S PROVE k + 1 \in S
    <3> SUFFICES ASSUME NEW s \in SUBSET P, Cardinality(s) = k + 1, NEW x \in s
                 PROVE  g[s] = w[x] + g[s \ {x}]
      OBVIOUS
    <3> DEFINE c == First(s)
    <3>1. /\ g[s] = w[c] + g[s \ {c}] /\ c \in s
          /\ s \ {c} \in SUBSET P /\ Cardinality(s \ {c}) = k
      <4>1. s # {}
        OBVIOUS
      <4>2. g[s] = w[c] + g[s \ {c}]
        BY <1>1, <4>1
      <4>3. c \in s /\ s \ {c} \in SUBSET P /\ Cardinality(s \ {c}) = Cardinality(s) - 1
        BY <1>2, <4>1
      <4> QED
        BY <4>2, <4>3
    <3> HIDE DEF c
    <3>2. CASE x = c
      BY <3>1, <3>2
    <3>3. CASE x # c
      <4>1. s \ {x} \in SUBSET P /\ Cardinality(s \ {x}) = k
        BY SmallerSet
      <4>2. x \in s \ {c} /\ c \in s \ {x} /\ (s \ {x}) \ {c} = (s \ {c}) \ {x}
        BY <3>1, <3>3
      <4>3. g[s \ {x}] = w[c] + g[(s \ {x}) \ {c}]
        BY <2>2, <4>1, <4>2
      <4>4. g[s \ {c}] = w[x] + g[(s \ {c}) \ {x}]
        BY <2>2, <3>1, <4>2
      <4> DEFINE both == (s \ {c}) \ {x}
      <4>5. both \in SUBSET P
        OBVIOUS
      <4> HIDE DEF both
      <4>6. g[both] \in Int /\ w[x] \in Int /\ w[c] \in Int
        BY <1>4, <3>1, <4>5
      <4>7. g[s \ {x}] = w[c] + g[both] /\ g[s \ {c}] = w[x] + g[both]
        BY <4>2, <4>3, <4>4 DEF both
      <4>8. w[c] + (w[x] + g[both]) = w[x] + (w[c] + g[both])
        BY <4>6
      <4> QED
        BY <3>1, <4>7, <4>8
    <3> QED
      BY <3>2, <3>3
  <2> HIDE DEF S
  <2>3. Nat \subseteq S
    BY <2>1, <2>2, Induction
  <2> QED
    BY <1>3, <2>3 DEF S
<1> QED
  BY <1>1, <1>4, <1>5 DEF Additive

(* Elements that add nothing can be left out.                              *)
LEMMA AddsRest ==
  ASSUME NEW P, IsFiniteSet(P), NEW w \in [P -> Int], NEW g, Adds(g, P, w),
         NEW U \in SUBSET P, \A x \in P \ U : w[x] = 0
  PROVE  g[P] = g[U]
<1>1. /\ g \in [SUBSET P -> Int]
      /\ \A s \in SUBSET P : \A x \in s : g[s] = w[x] + g[s \ {x}]
  <2>1. Additive(g, P, w)
    BY AddsUp
  <2> QED
    BY <2>1 DEF Additive
<1> DEFINE S == {k \in Nat : \A s \in SUBSET P :
                    U \subseteq s /\ Cardinality(s) = Cardinality(U) + k => g[s] = g[U]}
<1>2. \A s \in SUBSET P : IsFiniteSet(s) /\ Cardinality(s) \in Nat
  BY FS_Subset, FS_CardinalityType
<1>3. 0 \in S
  <2> SUFFICES ASSUME NEW s \in SUBSET P, U \subseteq s, Cardinality(s) = Cardinality(U) + 0
               PROVE  g[s] = g[U]
    OBVIOUS
  <2>1. Cardinality(s) = Cardinality(U)
    BY <1>2
  <2>2. U = s
    BY <1>2, <2>1, FS_Subset
  <2> QED
    BY <2>2
<1>4. ASSUME NEW k \in Nat, k \in S PROVE k + 1 \in S
  <2> SUFFICES ASSUME NEW s \in SUBSET P, U \subseteq s, Cardinality(s) = Cardinality(U) + (k + 1)
               PROVE  g[s] = g[U]
    OBVIOUS
  <2>1. s # U
    BY <1>2
  <2>2. PICK x \in s : x \notin U
    BY <2>1
  <2>3. s \ {x} \in SUBSET P /\ Cardinality(s \ {x}) = Cardinality(s) - 1
    BY SmallerSet
  <2>4. U \subseteq s \ {x} /\ Cardinality(s \ {x}) = Cardinality(U) + k
    BY <1>2, <2>2, <2>3
  <2>5. g[s \ {x}] = g[U]
    BY <1>4, <2>3, <2>4
  <2>6. g[s] = w[x] + g[s \ {x}] /\ w[x] = 0 /\ g[U] \in Int
    BY <1>1, <2>2
  <2> QED
    BY <2>5, <2>6
<1> HIDE DEF S
<1>5. Nat \subseteq S
  BY <1>3, <1>4, Induction
<1> DEFINE k == Cardinality(P) - Cardinality(U)
<1>6. k \in Nat /\ Cardinality(P) = Cardinality(U) + k
  BY <1>2, FS_Subset
<1> HIDE DEF k
<1> QED
  BY <1>5, <1>6 DEF S

(* Nothing is subtracted.                                                  *)
LEMMA AddsPositive ==
  ASSUME NEW P, IsFiniteSet(P), NEW w \in [P -> Nat], NEW g, Adds(g, P, w)
  PROVE  \A s \in SUBSET P : g[s] >= 0
<1>0. w \in [P -> Int] /\ \A x \in P : w[x] \in Nat
  OBVIOUS
<1>1. /\ g \in [SUBSET P -> Int] /\ g[{}] = 0
      /\ \A s \in SUBSET P : \A x \in s : g[s] = w[x] + g[s \ {x}]
  <2>1. Additive(g, P, w)
    BY <1>0, AddsUp
  <2> QED
    BY <2>1 DEF Additive
<1> DEFINE S == {k \in Nat : \A s \in SUBSET P : Cardinality(s) = k => g[s] >= 0}
<1>2. \A s \in SUBSET P : Cardinality(s) \in Nat /\ (Cardinality(s) = 0 => s = {})
  <2> TAKE s \in SUBSET P
  <2>1. IsFiniteSet(s)
    BY FS_Subset
  <2> QED
    BY <2>1, FS_EmptySet, FS_CardinalityType
<1>3. 0 \in S
  <2>1. \A s \in SUBSET P : Cardinality(s) = 0 => g[s] = 0
    BY <1>1, <1>2
  <2> QED
    BY <2>1
<1>4. ASSUME NEW k \in Nat, k \in S PROVE k + 1 \in S
  <2> SUFFICES ASSUME NEW s \in SUBSET P, Cardinality(s) = k + 1 PROVE g[s] >= 0
    OBVIOUS
  <2>1. s # {}
    <3>1. Cardinality({}) = 0 /\ k + 1 # 0
      BY FS_EmptySet
    <3> QED
      BY <3>1
  <2>2. PICK x \in s : TRUE
    BY <2>1
  <2>3. s \ {x} \in SUBSET P /\ Cardinality(s \ {x}) = k
    BY SmallerSet
  <2>4. g[s \ {x}] >= 0 /\ g[s \ {x}] \in Int
    BY <1>1, <1>4, <2>3
  <2>5. g[s] = w[x] + g[s \ {x}] /\ w[x] \in Nat
    BY <1>0, <1>1
  <2> QED
    BY <2>4, <2>5
<1> HIDE DEF S
<1>5. Nat \subseteq S
  BY <1>3, <1>4, Induction
<1> QED
  BY <1>2, <1>5 DEF S

-----------------------------------------------------------------------------
(* Totals of orders.                                                       *)

PriceOf(its, p) == Worth(price[p]) * Cardinality({a \in its : ProductOf[a] = p})
PricesOf(its) == [p \in Products |-> PriceOf(its, p)]
ProductsOf(its) == {ProductOf[a] : a \in its}

Priced == price \in [Products -> Prices] /\ shippingCost \in Prices

(* WorthOfItems adds up the prices of the products, and those that are not *)
(* among the items add nothing.                                            *)
LEMMA WorthAdds ==
  ASSUME Priced, NEW its \in SUBSET Additions, IsFiniteSet(its)
  PROVE  /\ PricesOf(its) \in [Products -> Nat]
         /\ ProductsOf(its) \in SUBSET Products
         /\ \A p \in Products : Cardinality({a \in its : ProductOf[a] = p}) \in Nat
         /\ \A p \in ProductsOf(its) : Cardinality({a \in its : ProductOf[a] = p}) >= 1
         /\ \A p \in Products \ ProductsOf(its) : PricesOf(its)[p] = 0
         /\ \E g : Adds(g, Products, PricesOf(its)) /\ WorthOfItems(its) = g[Products]
<1> IsFiniteSet(Products)
  BY CartAssumption
<1>1. ASSUME NEW p
      PROVE  /\ Cardinality({a \in its : ProductOf[a] = p}) \in Nat
             /\ p \in ProductsOf(its) => Cardinality({a \in its : ProductOf[a] = p}) >= 1
             /\ p \notin ProductsOf(its) => Cardinality({a \in its : ProductOf[a] = p}) = 0
  <2> DEFINE s == {a \in its : ProductOf[a] = p}
  <2>1. s \subseteq its
    OBVIOUS
  <2>2. p \in ProductsOf(its) <=> s # {}
    BY DEF ProductsOf
  <2> HIDE DEF s
  <2>3. IsFiniteSet(s)
    BY <2>1, FS_Subset
  <2>4. Cardinality(s) \in Nat /\ (Cardinality(s) = 0 <=> s = {})
    BY <2>3, FS_EmptySet, FS_CardinalityType
  <2> QED
    BY <2>2, <2>4 DEF s
<1>2. \A p \in Products : Worth(price[p]) \in Nat
  <2> TAKE p \in Products
  <2>1. price[p] \in Amounts /\ Worth(price[p]) >= 0
    BY CheckoutAssumption DEF Priced
  <2>2. Worth(price[p]) \in Int
    BY <2>1, MoneyAssumption DEF Worth, Amounts
  <2> QED
    BY <2>1, <2>2
<1>3. \A p \in Products : PriceOf(its, p) \in Nat
  <2> TAKE p \in Products
  <2> DEFINE v == Worth(price[p])
             c == Cardinality({a \in its : ProductOf[a] = p})
  <2>1. v \in Nat /\ c \in Nat
    BY <1>1, <1>2
  <2> HIDE DEF v, c
  <2>2. v * c \in Nat
    BY <2>1
  <2> QED
    BY <2>2 DEF v, c, PriceOf
<1>4. PricesOf(its) \in [Products -> Nat] /\ PricesOf(its) \in [Products -> Int]
  BY <1>3 DEF PricesOf
<1>5. ProductsOf(its) \in SUBSET Products
  BY CartAssumption DEF ProductsOf
<1>6. \A p \in Products \ ProductsOf(its) : PricesOf(its)[p] = 0
  <2> TAKE p \in Products \ ProductsOf(its)
  <2>1. Worth(price[p]) * 0 = 0
    BY <1>2
  <2>2. Cardinality({a \in its : ProductOf[a] = p}) = 0
    BY <1>1
  <2> QED
    BY <2>1, <2>2 DEF PricesOf, PriceOf
<1>7. \E g : Adds(g, Products, PricesOf(its)) /\ WorthOfItems(its) = g[Products]
  <2> DEFINE w == PricesOf(its)
             g == CHOOSE g : g = [s \in SUBSET Products |->
                                    IF s = {} THEN 0 ELSE PriceOf(its, First(s)) + g[s \ {First(s)}]]
  <2>1. WorthOfItems(its) = g[Products]
    BY DEF WorthOfItems, MapThenFoldSet, PriceOf, First
  <2>2. \E h : Adds(h, Products, w)
    BY <1>4, AddsExists
  <2>3. \A s \in SUBSET Products : s # {} => PriceOf(its, First(s)) = w[First(s)]
    BY DEF First, PricesOf
  <2> HIDE DEF w
  <2>4. \A h : Adds(h, Products, w) <=>
          h = [s \in SUBSET Products |-> IF s = {} THEN 0 ELSE PriceOf(its, First(s)) + h[s \ {First(s)}]]
    BY <2>3 DEF Adds
  <2>5. g = [s \in SUBSET Products |-> IF s = {} THEN 0 ELSE PriceOf(its, First(s)) + g[s \ {First(s)}]]
    BY <2>2, <2>4
  <2> HIDE DEF g
  <2>6. Adds(g, Products, w)
    BY <2>4, <2>5
  <2> QED
    BY <2>1, <2>6 DEF w
<1> QED
  BY <1>1, <1>4, <1>5, <1>6, <1>7

(* The list of the items has each product once.                            *)
LEMMA OrderingIsOneToOne ==
  ASSUME NEW U, IsFiniteSet(U), NEW list \in Orderings(U)
  PROVE  /\ Cardinality(U) \in Nat
         /\ list \in [1..Cardinality(U) -> U] /\ Len(list) = Cardinality(U)
         /\ \A p \in U : \E i \in 1..Cardinality(U) : list[i] = p
         /\ \A i, j \in 1..Cardinality(U) : list[i] = list[j] => i = j
<1> DEFINE n == Cardinality(U)
<1>1. n \in Nat
  BY FS_CardinalityType
<1>2. list \in [1..n -> U] /\ \A p \in U : \E i \in 1..n : list[i] = p
  BY DEF Orderings
<1> HIDE DEF n
<1>3. Len(list) = n
  BY <1>1, <1>2
<1>4. IsFiniteSet(1..n) /\ Cardinality(1..n) = n
  BY <1>1, FS_Interval
<1>5. list \in Surjection(1..n, U)
  BY <1>2 DEF Surjection
<1>6. list \in Injection(1..n, U)
  BY <1>4, <1>5, FS_SurjSameCardinalityImpliesInj DEF n
<1>7. \A i, j \in 1..n : list[i] = list[j] => i = j
  BY <1>2, <1>6 DEF Injection, IsInjective
<1> QED
  BY <1>1, <1>2, <1>3, <1>7 DEF n

(* The function that TotalOf is made of, product by product.               *)
LEMMA TotalUnfolds ==
  ASSUME Priced, NEW its \in SUBSET Additions, IsFiniteSet(its),
         NEW list \in Orderings(ProductsOf(its)), NEW n, n = Cardinality(ProductsOf(its))
  PROVE  \E upTo \in [0..n -> Amounts] :
           /\ upTo[0] = Sum(Zero, shippingCost)
           /\ \A i \in 1..n :
                upTo[i] = Sum(upTo[i - 1], MultiplySlow(price[list[i]], Quantity(its, list[i])))
           /\ TotalOf(list, its) = upTo[n]
<1> IsFiniteSet(Products)
  BY CartAssumption
<1> DEFINE item(i) == MultiplySlow(price[list[i]], Quantity(its, list[i]))
           step == [p \in Int \X Amounts |-> IF p[1] \in 1..n THEN Sum(p[2], item(p[1])) ELSE Zero]
           first == Sum(Zero, shippingCost)
           upTo == CHOOSE upTo : upTo = [i \in 0..Len(list) |->
                                           IF i = 0 THEN Sum(Zero, shippingCost)
                                           ELSE Sum(upTo[i - 1], MultiplySlow(price[list[i]], Quantity(its, list[i])))]
<1>1. TotalOf(list, its) = upTo[Len(list)]
  BY DEF TotalOf
<1>2. /\ n \in Nat /\ Len(list) = n
      /\ \A i \in 1..n : list[i] \in ProductsOf(its)
  <2>1. IsFiniteSet(ProductsOf(its))
    BY WorthAdds, FS_Subset
  <2> QED
    BY <2>1, OrderingIsOneToOne
<1>3. ASSUME NEW l \in Amounts, NEW r \in Amounts PROVE Sum(l, r) \in Amounts
  <2>1. Sound(l, Worth(l)) /\ Sound(r, Worth(r)) /\ Worth(l) \in Int /\ Worth(r) \in Int
    BY MoneyAssumption DEF Sound, Worth, Amounts
  <2> QED
    BY <2>1, SumIsSound DEF Sound
<1>4. \A i \in 1..n : item(i) \in Amounts
  <2> TAKE i \in 1..n
  <2> DEFINE m == price[list[i]]
             q == Quantity(its, list[i])
  <2>1. list[i] \in Products /\ list[i] \in ProductsOf(its)
    BY <1>2, WorthAdds
  <2>2. m \in Amounts
    BY <2>1, CheckoutAssumption DEF Priced
  <2>3. q \in Nat /\ q >= 1
    BY <2>1, WorthAdds DEF Quantity
  <2> HIDE DEF m, q
  <2>4. Sound(MultiplySlow(m, q), Worth(m) * q)
    BY <2>2, <2>3, MultiplyIsExact
  <2> QED
    BY <2>4 DEF Sound, m, q
<1>5. first \in Amounts /\ Zero \in Amounts
  BY <1>3, CheckoutAssumption DEF Priced, Zero, Amount, Amounts
<1> HIDE DEF item
<1>6. step \in [Int \X Amounts -> Amounts]
  BY <1>3, <1>4, <1>5
<1>7. \A i \in 1..n, m \in Amounts : step[<<i, m>>] = Sum(m, item(i))
  BY <1>2
<1>8. 0 \in Int /\ n \in Int
  BY <1>2
<1> HIDE DEF step, first
<1>9. PICK r \in [0..n -> Amounts] : Solution(r, 0, n, first, step)
  BY <1>5, <1>6, <1>8, Recursion
<1>10. r = [i \in 0..n |-> IF i = 0 THEN first ELSE Sum(r[i - 1], item(i))]
  <2>1. \A i \in 0..n : r[i] = IF i = 0 THEN first ELSE step[<<i, r[i - 1]>>]
    BY <1>9 DEF Solution
  <2>2. \A i \in 0..n : i # 0 => step[<<i, r[i - 1]>>] = Sum(r[i - 1], item(i))
    BY <1>2, <1>7
  <2> QED
    BY <2>1, <2>2
<1>11. upTo = [i \in 0..n |-> IF i = 0 THEN first ELSE Sum(upTo[i - 1], item(i))]
  <2>1. upTo = CHOOSE h : h = [i \in 0..n |-> IF i = 0 THEN first ELSE Sum(h[i - 1], item(i))]
    BY <1>2 DEF first, item
  <2> HIDE DEF upTo
  <2> QED
    BY <1>10, <2>1
<1> HIDE DEF upTo
<1>12. \A i \in 0..n : upTo[i] = IF i = 0 THEN first ELSE Sum(upTo[i - 1], item(i))
  BY <1>11
<1>13. upTo \in [0..n -> Amounts]
  <2> DEFINE S == {i \in Nat : i \in 0..n => upTo[i] \in Amounts}
  <2>1. 0 \in S
    BY <1>5, <1>12
  <2>2. ASSUME NEW i \in Nat, i \in S PROVE i + 1 \in S
    <3> SUFFICES ASSUME i + 1 \in 0..n PROVE upTo[i + 1] \in Amounts
      OBVIOUS
    <3>1. i \in 0..n /\ i + 1 \in 1..n /\ upTo[i + 1] = Sum(upTo[i], item(i + 1))
      BY <1>2, <1>12
    <3>2. upTo[i] \in Amounts /\ item(i + 1) \in Amounts
      BY <1>4, <2>2, <3>1
    <3> QED
      BY <1>3, <3>1, <3>2
  <2> HIDE DEF S
  <2>3. Nat \subseteq S
    BY <2>1, <2>2, Induction
  <2>4. \A i \in 0..n : upTo[i] \in Amounts
    BY <1>2, <2>3 DEF S
  <2> QED
    BY <1>11, <2>4
<1>14. upTo[0] = first /\ \A i \in 1..n : upTo[i] = Sum(upTo[i - 1], item(i))
  BY <1>2, <1>12
<1> QED
  BY <1>1, <1>2, <1>13, <1>14 DEF first, item

(* In whatever order the items are, the total is worth what they and the   *)
(* shipping cost, if no sum is refused.                                    *)
LEMMA TotalIsExact ==
  ASSUME Priced, NEW its \in SUBSET Additions, IsFiniteSet(its),
         NEW amount \in Totals(its)
  PROVE  /\ WorthOfItems(its) \in Nat
         /\ Sound(amount, WorthOfItems(its) + Worth(shippingCost))
<1> IsFiniteSet(Products)
  BY CartAssumption
<1> DEFINE U == ProductsOf(its)
           w == PricesOf(its)
           ship == Worth(shippingCost)
           n == Cardinality(U)
<1>1. PICK list \in Orderings(U) : amount = TotalOf(list, its)
  BY DEF Totals, ProductsOf
<1>2. /\ w \in [Products -> Nat] /\ w \in [Products -> Int] /\ U \in SUBSET Products
      /\ \A p \in Products : Cardinality({a \in its : ProductOf[a] = p}) \in Nat
      /\ \A p \in U : Cardinality({a \in its : ProductOf[a] = p}) >= 1
      /\ \A p \in Products \ U : w[p] = 0
  <2>1. PricesOf(its) \in [Products -> Nat]
    BY WorthAdds
  <2>2. PricesOf(its) \in [Products -> Int]
    BY <2>1
  <2> QED
    BY <2>1, <2>2, WorthAdds
<1>3. PICK g : Adds(g, Products, w) /\ WorthOfItems(its) = g[Products]
  BY WorthAdds
<1>4. Additive(g, Products, w)
  BY <1>2, <1>3, AddsUp
<1>5. g[Products] = g[U]
  <2> HIDE DEF U, w
  <2> QED
    BY <1>2, <1>3, AddsRest
<1>6. g[Products] >= 0 /\ g[Products] \in Int
  <2>1. \A s \in SUBSET Products : g[s] >= 0
    <3> HIDE DEF w
    <3> QED
      BY <1>2, <1>3, AddsPositive
  <2> QED
    BY <1>4, <2>1 DEF Additive
<1>7. ship \in Int /\ shippingCost \in Amounts
  BY CheckoutAssumption, MoneyAssumption DEF Priced, Worth, Amounts
<1>8. /\ n \in Nat
      /\ list \in [1..n -> U] /\ \A p \in U : \E i \in 1..n : list[i] = p
      /\ \A i, j \in 1..n : list[i] = list[j] => i = j
  <2>1. IsFiniteSet(U)
    BY <1>2, FS_Subset
  <2> HIDE DEF U
  <2> QED
    BY <2>1, OrderingIsOneToOne
<1>9. PICK upTo \in [0..n -> Amounts] :
        /\ upTo[0] = Sum(Zero, shippingCost)
        /\ \A i \in 1..n :
             upTo[i] = Sum(upTo[i - 1], MultiplySlow(price[list[i]], Quantity(its, list[i])))
        /\ TotalOf(list, its) = upTo[n]
  BY TotalUnfolds
<1> HIDE DEF n, ship
<1> DEFINE seen(i) == {list[j] : j \in 1..i}
           S == {i \in Nat : i \in 0..n => Sound(upTo[i], ship + g[seen(i)])}
<1>10. 0 \in S
  <2>1. seen(0) = {} /\ g[{}] = 0
    BY <1>4 DEF Additive
  <2>2. Sound(Zero, 0) /\ Sound(shippingCost, ship)
    BY <1>7, MoneyAssumption DEF Sound, Zero, Amount, Amounts, Worth, ship
  <2>3. Sound(Sum(Zero, shippingCost), 0 + ship)
    BY <1>7, <2>2, SumIsSound
  <2>5. ASSUME NEW x, x = {} PROVE 0 + ship = ship + g[x]
    BY <1>7, <2>1, <2>5
  <2> HIDE DEF seen
  <2>4. 0 + ship = ship + g[seen(0)]
    BY <2>1, <2>5
  <2> QED
    BY <1>9, <2>3, <2>4
<1>11. ASSUME NEW i \in Nat, i \in S PROVE i + 1 \in S
  <2> SUFFICES ASSUME i + 1 \in 0..n PROVE Sound(upTo[i + 1], ship + g[seen(i + 1)])
    OBVIOUS
  <2> DEFINE p == list[i + 1]
             m == price[p]
             q == Quantity(its, p)
  <2>1. i \in 0..n /\ i + 1 \in 1..n /\ (i + 1) - 1 = i
    BY <1>8
  <2>2. Sound(upTo[i], ship + g[seen(i)])
    BY <1>11, <2>1
  <2>3. /\ p \in U /\ p \in Products
        /\ seen(i + 1) \in SUBSET Products /\ seen(i) \in SUBSET Products
        /\ p \in seen(i + 1) /\ seen(i + 1) \ {p} = seen(i)
    <3>1. \A j \in 1..(i + 1) : j \in 1..n /\ (j \in 1..i \/ j = i + 1)
      BY <1>8, <2>1
    <3>2. \A j \in 1..i : j \in 1..(i + 1) /\ j # i + 1
      BY <1>8, <2>1
    <3>3. \A j \in 1..i : list[j] # list[i + 1]
      BY <1>8, <2>1, <3>1, <3>2
    <3>4. i + 1 \in 1..(i + 1)
      OBVIOUS
    <3>5. p \in U /\ p \in Products /\ \A j \in 1..(i + 1) : list[j] \in Products
      BY <1>2, <1>8, <2>1, <3>1
    <3> HIDE DEF U
    <3> QED
      BY <3>1, <3>2, <3>3, <3>4, <3>5
  <2>4. g[seen(i + 1)] = w[p] + g[seen(i)] /\ g[seen(i)] \in Int
    <3> HIDE DEF p, seen, w
    <3>1. g[seen(i + 1)] = w[p] + g[seen(i + 1) \ {p}]
      BY <1>4, <2>3 DEF Additive
    <3> QED
      BY <1>4, <2>3, <3>1 DEF Additive
  <2>5. m \in Amounts
    BY <2>3, CheckoutAssumption DEF Priced
  <2>6. q \in Nat /\ q >= 1 /\ w[p] = Worth(m) * q
    BY <1>2, <2>3 DEF Quantity, PricesOf, PriceOf
  <2>7. upTo[i + 1] = Sum(upTo[i], MultiplySlow(m, q))
    BY <1>9, <2>1
  <2>8. w[p] \in Int
    BY <1>2, <2>3
  <2> HIDE DEF m, q, p, seen, w, U
  <2>9. Sound(MultiplySlow(m, q), w[p])
    BY <2>5, <2>6, MultiplyIsExact
  <2>10. Sound(Sum(upTo[i], MultiplySlow(m, q)), (ship + g[seen(i)]) + w[p])
    BY <1>7, <2>2, <2>4, <2>8, <2>9, SumIsSound
  <2>11. (ship + g[seen(i)]) + w[p] = ship + g[seen(i + 1)]
    BY <1>7, <2>4, <2>8
  <2> QED
    BY <2>7, <2>10, <2>11
<1>12. seen(n) = U
  BY <1>8
<1> HIDE DEF S, seen, U, w
<1>13. Nat \subseteq S
  BY <1>10, <1>11, Induction
<1>14. Sound(upTo[n], ship + g[U])
  BY <1>8, <1>12, <1>13 DEF S
<1>15. WorthOfItems(its) \in Nat /\ ship + g[U] = WorthOfItems(its) + ship
  BY <1>3, <1>5, <1>6, <1>7
<1> QED
  BY <1>1, <1>9, <1>14, <1>15 DEF ship

(* If every price has a unit, no sum is refused. *)
LEMMA WholeTotals ==
  ASSUME Priced, NEW its \in SUBSET Additions, IsFiniteSet(its),
         shippingCost.units # 0, \A p \in Products : price[p].units # 0,
         NEW amount \in Totals(its)
  PROVE  amount # Panic
<1> IsFiniteSet(Products)
  BY CartAssumption
<1> DEFINE U == ProductsOf(its)
           n == Cardinality(U)
<1>1. PICK list \in Orderings(U) : amount = TotalOf(list, its)
  BY DEF Totals, ProductsOf
<1>2. ASSUME NEW m \in Prices, m.units # 0 PROVE m \in Whole
  <2>1. m \in Amounts /\ IsValid(m) /\ Worth(m) >= 0
    BY CheckoutAssumption
  <2>2. m.units \in Int /\ m.nanos \in Int /\ NanosMod \in Nat /\ NanosMod > 1
    BY <2>1, MoneyAssumption DEF Amounts
  <2>3. m.nanos < NanosMod
    BY <2>1 DEF IsValid
  <2>4. m.units >= 1
    <3> SUFFICES ASSUME m.units <= -1 PROVE FALSE
      BY <1>2, <2>2
    <3>1. m.units * NanosMod <= -1 * NanosMod
      BY <2>2
    <3> QED
      BY <2>1, <2>2, <2>3, <3>1 DEF Worth
  <2> QED
    BY <2>1, <2>4 DEF Whole, Valid
<1>3. shippingCost \in Whole /\ \A p \in Products : price[p] \in Whole
  BY <1>2 DEF Priced
<1>4. U \in SUBSET Products /\ n \in Nat /\ \A i \in 1..n : list[i] \in U
  <2>1. U \in SUBSET Products /\ IsFiniteSet(U)
    BY WorthAdds, FS_Subset
  <2> HIDE DEF U
  <2> QED
    BY <2>1, OrderingIsOneToOne
<1>5. PICK upTo \in [0..n -> Amounts] :
        /\ upTo[0] = Sum(Zero, shippingCost)
        /\ \A i \in 1..n :
             upTo[i] = Sum(upTo[i - 1], MultiplySlow(price[list[i]], Quantity(its, list[i])))
        /\ TotalOf(list, its) = upTo[n]
  BY TotalUnfolds
<1>6. \A p \in Products : Quantity(its, p) \in Nat
  BY WorthAdds DEF Quantity
<1> HIDE DEF U, n
<1> DEFINE S == {i \in Nat : i \in 0..n => upTo[i] \in Whole}
<1>7. 0 \in S
  BY <1>3, <1>5, WholeSum
<1>8. ASSUME NEW i \in Nat, i \in S PROVE i + 1 \in S
  <2> SUFFICES ASSUME i + 1 \in 0..n PROVE upTo[i + 1] \in Whole
    OBVIOUS
  <2> DEFINE m == price[list[i + 1]]
             q == Quantity(its, list[i + 1])
  <2>1. i \in 0..n /\ i + 1 \in 1..n /\ (i + 1) - 1 = i
    BY <1>4
  <2>2. upTo[i] \in Whole
    BY <1>8, <2>1
  <2>3. m \in Whole /\ q \in Nat
    BY <1>3, <1>4, <1>6, <2>1
  <2>4. upTo[i + 1] = Sum(upTo[i], MultiplySlow(m, q))
    BY <1>5, <2>1
  <2> HIDE DEF m, q
  <2>5. MultiplySlow(m, q) \in Whole
    BY <2>3, WholeProduct
  <2> QED
    BY <2>2, <2>4, <2>5, WholeSum
<1> HIDE DEF S
<1>9. Nat \subseteq S
  BY <1>7, <1>8, Induction
<1>10. upTo[n] \in Whole
  BY <1>4, <1>9 DEF S
<1>11. Panic \notin Whole
  BY MoneyAssumption DEF Panic, Amount, Whole
<1> QED
  BY <1>1, <1>5, <1>10, <1>11

-----------------------------------------------------------------------------
(* The invariant of charging and shipping.                                 *)

(* The worth of the items, with the prices as a parameter. *)
SumAt(pr, its) ==
  (CHOOSE iter : iter =
     [s \in SUBSET Products |->
        IF s = {} THEN 0
        ELSE Worth(pr[First(s)]) * Cardinality({a \in its : ProductOf[a] = First(s)})
               + iter[s \ {First(s)}]])[Products]

(* SumAt is WorthOfItems with the prices as a parameter.                   *)
LEMMA WorthIsSum == ASSUME NEW its PROVE WorthOfItems(its) = SumAt(price, its)
BY DEF WorthOfItems, MapThenFoldSet, SumAt, First

(* What an order is charged, from its items.                               *)
Costs(o) == SumAt(price, items[o]) + Worth(shippingCost)

(* Quantities are numbers only because carts are finite.                   *)
FiniteCarts ==
  /\ IsFiniteSet(cart)
  /\ \A a \in Additions : IsFiniteSet(saw[a])
  /\ \A o \in Orders : IsFiniteSet(items[o])

(* The total is right from when it is prepared, and is what gets charged;  *)
(* only orders that were charged are shipped.                              *)
ChargeOf(o) ==
  /\ stage[o] \in {"new", "read", "priced"} => charged[o] = NotCharged
  /\ stage[o] = "priced" => Worth(total[o]) >= 0 /\ Worth(total[o]) = Costs(o)
  /\ stage[o] = "charged" => charged[o] # NotCharged
  /\ charged[o] # NotCharged => Worth(charged[o]) = Costs(o)
  /\ shipped[o] # {} => charged[o] # NotCharged /\ shipped[o] = items[o]

ChargeTypes == total \in [Orders -> Amounts] /\ charged \in [Orders -> Amounts]

ChargeInv ==
  Priced /\ FiniteCarts /\ ChargeTypes /\ PanicsOnlyBelowOne /\ \A o \in Orders : ChargeOf(o)

(* No order has begun.                                                     *)
LEMMA InitChargeInv == Init => ChargeInv
<1> SUFFICES ASSUME Init PROVE ChargeInv
  OBVIOUS
<1> USE DEF Init, CartInit
<1>1. Priced
  BY DEF Priced
<1>2. FiniteCarts
  BY FS_EmptySet DEF FiniteCarts
<1>3. ChargeTypes
  BY DEF ChargeTypes, Zero, NotCharged, Amount, Amounts
<1>4. PanicsOnlyBelowOne
  BY DEF PanicsOnlyBelowOne
<1>5. ASSUME NEW o \in Orders PROVE ChargeOf(o)
  BY DEF ChargeOf
<1> QED
  BY <1>1, <1>2, <1>3, <1>4, <1>5 DEF ChargeInv

(* An order that another step does not touch, or that crashes or ends.     *)
LEMMA OthersKept ==
  ASSUME NEW o \in Orders, ChargeOf(o), price' = price, shippingCost' = shippingCost,
         items'[o] = items[o], total'[o] = total[o], charged'[o] = charged[o], shipped'[o] = shipped[o],
         stage'[o] = stage[o] \/ stage'[o] \notin {"new", "read", "priced", "charged"}
  PROVE  ChargeOf(o)'
BY DEF ChargeOf, Costs

(* An addition touches no order.                                           *)
LEMMA AddCharge ==
  ASSUME CartInv, ChargeInv, NEW a \in Additions, Add(a), UNCHANGED orderVars,
         UNCHANGED <<price, shippingCost>>
  PROVE  ChargeInv'
<1>1. /\ stage' = stage /\ items' = items /\ total' = total /\ charged' = charged /\ shipped' = shipped
      /\ price' = price /\ shippingCost' = shippingCost
  BY DEF orderVars
<1>2. FiniteCarts'
  <2>1. IsFiniteSet(cart) /\ \A b \in Additions : IsFiniteSet(saw[b])
    BY DEF ChargeInv, FiniteCarts
  <2>2. saw \in [Additions -> SUBSET Additions]
    BY DEF CartInv, Shape
  <2>3. IsFiniteSet(cart')
    <3>1. cart' \subseteq cart \cup (saw[a] \cup {a})
      BY DEF Add, AddItem, ReadItem, WriteItem
    <3>2. IsFiniteSet(saw[a] \cup {a})
      BY <2>1, FS_AddElement
    <3>3. IsFiniteSet(cart \cup (saw[a] \cup {a}))
      BY <2>1, <3>2, FS_Union
    <3> QED
      BY <3>1, <3>3, FS_Subset
  <2>4. ASSUME NEW b \in Additions PROVE IsFiniteSet(saw'[b])
    <3>1. saw'[b] \subseteq cart \/ saw'[b] = saw[b]
      BY <2>2 DEF Add, AddItem, ReadItem, WriteItem
    <3> QED
      BY <2>1, <3>1, FS_Subset
  <2> QED
    BY <1>1, <2>3, <2>4 DEF ChargeInv, FiniteCarts
<1>3. \A o \in Orders : ChargeOf(o)'
  BY <1>1, OthersKept DEF ChargeInv
<1>4. Priced' /\ ChargeTypes' /\ PanicsOnlyBelowOne'
  BY <1>1 DEF ChargeInv, Priced, ChargeTypes, PanicsOnlyBelowOne
<1> QED
  BY <1>2, <1>3, <1>4 DEF ChargeInv

(* The steps of an order, one by one.                                      *)
LEMMA OrderCharge ==
  ASSUME CartInv, ChargeInv, NEW o \in Orders, PlaceOrder(o), UNCHANGED <<price, shippingCost>>
  PROVE  ChargeInv'
<1>1. price' = price /\ shippingCost' = shippingCost
  OBVIOUS
<1>2. /\ Priced /\ FiniteCarts /\ ChargeTypes /\ PanicsOnlyBelowOne
      /\ \A p \in Orders : ChargeOf(p)
  BY DEF ChargeInv
<1>3. /\ stage \in [Orders -> Stages] /\ items \in [Orders -> SUBSET Additions]
      /\ shipped \in [Orders -> SUBSET Additions]
      /\ stage[o] \in NotShippedYet => shipped[o] = {}
  BY DEF CartInv, Shape, ShipsItems
<1>4. Priced'
  BY <1>1, <1>2 DEF Priced
<1>5. FiniteCarts'
  <2>1. cart' \subseteq cart /\ saw' = saw
    BY DEF PlaceOrder, GetUserCart, Prepare, Crash, PrepareFails, ChargeCard, ShipOrder,
           EmptyUserCart, EmptyCart, cartVars
  <2>2. \A p \in Orders : items'[p] \in {items[p], cart}
    BY <1>3 DEF PlaceOrder, GetUserCart, Prepare, Crash, PrepareFails, ChargeCard, ShipOrder,
                EmptyUserCart
  <2>3. IsFiniteSet(cart')
    BY <1>2, <2>1, FS_Subset DEF FiniteCarts
  <2> QED
    BY <1>2, <2>1, <2>2, <2>3 DEF FiniteCarts
<1>6. ASSUME NEW t \in Totals(items[o])
      PROVE  /\ t \in Amounts
             /\ t # Panic => Worth(t) = Costs(o) /\ Worth(t) >= 0
             /\ shippingCost.units # 0 /\ (\A p \in Products : price[p].units # 0) => t # Panic
  <2>1. items[o] \in SUBSET Additions /\ IsFiniteSet(items[o])
    BY <1>2, <1>3 DEF FiniteCarts
  <2> DEFINE its == items[o]
  <2> HIDE DEF its
  <2>2. its \in SUBSET Additions /\ IsFiniteSet(its) /\ t \in Totals(its)
    BY <2>1 DEF its
  <2>3. WorthOfItems(its) \in Nat /\ Sound(t, WorthOfItems(its) + Worth(shippingCost))
    BY <1>2, <2>2, TotalIsExact
  <2>4. Worth(shippingCost) \in Nat
    <3>1. shippingCost \in Amounts /\ Worth(shippingCost) >= 0
      BY <1>2, CheckoutAssumption DEF Priced
    <3> QED
      BY <3>1, MoneyAssumption DEF Worth, Amounts
  <2>5. WorthOfItems(its) = SumAt(price, its)
    BY WorthIsSum
  <2>6. t \in Amounts /\ (t # Panic => Worth(t) = SumAt(price, its) + Worth(shippingCost) /\ Worth(t) >= 0)
    BY <2>3, <2>4, <2>5 DEF Sound
  <2>7. shippingCost.units # 0 /\ (\A p \in Products : price[p].units # 0) => t # Panic
    BY <1>2, <2>2, WholeTotals
  <2> QED
    BY <2>6, <2>7 DEF Costs, its
<1>7. CASE GetUserCart(o)
  <2> USE <1>7 DEF GetUserCart, Goes
  <2>1. ChargeOf(o)'
    BY <1>1, <1>2, <1>3 DEF ChargeOf, NotShippedYet
  <2>2. \A p \in Orders \ {o} : ChargeOf(p)'
    BY <1>1, <1>2, <1>3, OthersKept
  <2>3. ChargeTypes'
    BY <1>2 DEF ChargeTypes
  <2>4. PanicsOnlyBelowOne'
    BY <1>1, <1>2, <1>3 DEF PanicsOnlyBelowOne
  <2> QED
    BY <1>4, <1>5, <2>1, <2>2, <2>3, <2>4 DEF ChargeInv
<1>8. CASE Prepare(o)
  <2> USE <1>8 DEF Prepare, Goes
  <2>1. PICK t \in Totals(items[o]) : t # Panic /\ total' = [total EXCEPT ![o] = t]
    OBVIOUS
  <2>2. ChargeTypes'
    BY <1>2, <1>6, <2>1 DEF ChargeTypes
  <2>3. total'[o] = t /\ stage'[o] = "priced" /\ items' = items
    BY <1>2, <1>3, <2>1 DEF ChargeTypes
  <2>4. Costs(o)' = Costs(o)
    BY <1>1, <2>3 DEF Costs
  <2>5. ChargeOf(o)'
    BY <1>2, <1>3, <1>6, <2>1, <2>3, <2>4 DEF ChargeOf, NotShippedYet
  <2>6. \A p \in Orders \ {o} : ChargeOf(p)'
    BY <1>1, <1>2, <1>3, <2>1, OthersKept DEF ChargeTypes
  <2>7. PanicsOnlyBelowOne'
    BY <1>1, <1>2, <1>3 DEF PanicsOnlyBelowOne
  <2> QED
    BY <1>4, <1>5, <2>2, <2>5, <2>6, <2>7 DEF ChargeInv
<1>9. CASE Crash(o)
  <2> USE <1>9 DEF Crash
  <2>1. \A p \in Orders : stage'[p] = stage[p] \/ stage'[p] = "crashed"
    BY <1>3
  <2>2. \A p \in Orders : ChargeOf(p)'
    BY <1>1, <1>2, <2>1, OthersKept
  <2>3. ChargeTypes'
    BY <1>2 DEF ChargeTypes
  <2>4. PanicsOnlyBelowOne'
    BY <1>1, <1>6 DEF PanicsOnlyBelowOne
  <2> QED
    BY <1>4, <1>5, <2>2, <2>3, <2>4 DEF ChargeInv
<1>10. CASE PrepareFails(o)
  <2> USE <1>10 DEF PrepareFails, Goes
  <2>1. \A p \in Orders : ChargeOf(p)'
    BY <1>1, <1>2, <1>3, OthersKept
  <2>2. ChargeTypes'
    BY <1>2 DEF ChargeTypes
  <2>3. PanicsOnlyBelowOne'
    BY <1>1, <1>2, <1>3 DEF PanicsOnlyBelowOne
  <2> QED
    BY <1>4, <1>5, <2>1, <2>2, <2>3 DEF ChargeInv
<1>11. CASE ChargeCard(o)
  <2> USE <1>11 DEF ChargeCard, Goes
  <2>1. /\ stage[o] = "priced" /\ Worth(total[o]) >= 0 /\ Worth(total[o]) = Costs(o)
        /\ charged[o] = NotCharged /\ shipped[o] = {}
    BY <1>2, <1>3 DEF ChargeOf, NotShippedYet
  <2>2. total[o] # NotCharged
    <3>1. Worth(NotCharged) = -NanosMod
      BY MoneyAssumption DEF Worth, NotCharged, Amount
    <3> QED
      BY <2>1, <3>1, MoneyAssumption
  <2>3. ChargeTypes'
    BY <1>2 DEF ChargeTypes
  <2>4. /\ stage'[o] \in {"charged", "failed"} /\ charged'[o] \in {total[o], NotCharged}
        /\ stage'[o] = "charged" => charged'[o] = total[o]
        /\ items' = items /\ shipped' = shipped
    BY <1>2, <1>3, <2>1 DEF ChargeTypes
  <2>5. Costs(o)' = Costs(o)
    BY <1>1, <2>4 DEF Costs
  <2>6. ChargeOf(o)'
    BY <2>1, <2>2, <2>4, <2>5 DEF ChargeOf
  <2>7. \A p \in Orders \ {o} : ChargeOf(p)'
    BY <1>1, <1>2, <1>3, OthersKept DEF ChargeTypes
  <2>8. PanicsOnlyBelowOne'
    BY <1>1, <1>2, <1>3 DEF PanicsOnlyBelowOne
  <2> QED
    BY <1>4, <1>5, <2>3, <2>6, <2>7, <2>8 DEF ChargeInv
<1>12. CASE ShipOrder(o)
  <2> USE <1>12 DEF ShipOrder, Goes
  <2>1. stage[o] = "charged" /\ charged[o] # NotCharged /\ Worth(charged[o]) = Costs(o) /\ shipped[o] = {}
    BY <1>2, <1>3 DEF ChargeOf, NotShippedYet
  <2>2. /\ stage'[o] \in {"shipped", "failed"} /\ shipped'[o] \in {{}, items[o]}
        /\ items' = items /\ charged' = charged
    BY <1>3, <2>1
  <2>3. Costs(o)' = Costs(o)
    BY <1>1, <2>2 DEF Costs
  <2>4. ChargeOf(o)'
    BY <2>1, <2>2, <2>3 DEF ChargeOf
  <2>5. \A p \in Orders \ {o} : ChargeOf(p)'
    BY <1>1, <1>2, <1>3, OthersKept
  <2>6. ChargeTypes'
    BY <1>2 DEF ChargeTypes
  <2>7. PanicsOnlyBelowOne'
    BY <1>1, <1>2, <1>3 DEF PanicsOnlyBelowOne
  <2> QED
    BY <1>4, <1>5, <2>4, <2>5, <2>6, <2>7 DEF ChargeInv
<1>13. CASE EmptyUserCart(o)
  <2> USE <1>13 DEF EmptyUserCart, Goes, StageOfEmptying
  <2>1. \A p \in Orders : ChargeOf(p)'
    BY <1>1, <1>2, <1>3, OthersKept
  <2>2. ChargeTypes'
    BY <1>2 DEF ChargeTypes
  <2>3. PanicsOnlyBelowOne'
    BY <1>1, <1>2, <1>3 DEF PanicsOnlyBelowOne
  <2> QED
    BY <1>4, <1>5, <2>1, <2>2, <2>3 DEF ChargeInv
<1> QED
  BY <1>7, <1>8, <1>9, <1>10, <1>11, <1>12, <1>13 DEF PlaceOrder

(* The second invariant: of prices, totals and what an order costs.        *)
LEMMA ChargeInvariant == Spec => []ChargeInv
<1>1. CartInv /\ ChargeInv /\ [Next]_vars => ChargeInv'
  <2> SUFFICES ASSUME CartInv, ChargeInv, [Next]_vars PROVE ChargeInv'
    OBVIOUS
  <2>1. CASE Next
    <3>1. UNCHANGED <<price, shippingCost>>
      BY <2>1 DEF Next
    <3>2. ASSUME NEW a \in Additions, Add(a) /\ UNCHANGED orderVars PROVE ChargeInv'
      BY <3>1, <3>2, AddCharge
    <3>3. ASSUME NEW o \in Orders, PlaceOrder(o) PROVE ChargeInv'
      BY <3>1, <3>3, OrderCharge
    <3> QED
      BY <2>1, <3>2, <3>3 DEF Next
  <2>2. CASE UNCHANGED vars
    <3>1. /\ stage' = stage /\ items' = items /\ total' = total /\ charged' = charged /\ shipped' = shipped
          /\ price' = price /\ shippingCost' = shippingCost /\ cart' = cart /\ saw' = saw
      BY <2>2 DEF vars, cartVars, orderVars
    <3>2. \A o \in Orders : ChargeOf(o)'
      BY <3>1, OthersKept DEF ChargeInv
    <3> QED
      BY <3>1, <3>2 DEF ChargeInv, Priced, FiniteCarts, ChargeTypes, PanicsOnlyBelowOne
  <2> QED
    BY <2>1, <2>2
<1> QED
  BY InitChargeInv, CartInvariant, <1>1, PTL DEF Spec

-----------------------------------------------------------------------------
(* PlaceOrder and AddItem lose no addition, in any store and whatever      *)
(* fails, unless it came while an order was under way or an unlocked       *)
(* addition has overwritten a change.                                      *)
THEOREM AdditionsAreKept == Spec => []AdditionsKept
<1>1. CartInv => AdditionsKept
  BY DEF CartInv
<1> QED
  BY CartInvariant, <1>1, PTL

(* No order charges for what an order that ended well before it began has  *)
(* been charged for.                                                       *)
THEOREM NothingIsChargedTwice == Spec => []ChargedOnce
<1>1. CartInv => ChargedOnce
  BY DEF CartInv, ItemsApart, ChargedOnce
<1> QED
  BY CartInvariant, <1>1, PTL

(* A card is charged exactly what the items that are shipped for it cost,  *)
(* and the shipping, whatever the order of the items and the carries of    *)
(* nanos on the way, and although the cart changes meanwhile; and nothing  *)
(* is shipped that was not charged.                                        *)
THEOREM ChargedIsShipped == Spec => []CheckoutInvariant
<1>1. CartInv /\ ChargeInv => CheckoutInvariant
  <2> SUFFICES ASSUME CartInv, ChargeInv PROVE CheckoutInvariant
    OBVIOUS
  <2>1. CheckoutTypeOK
    BY DEF CartInv, Shape, OnlyMade, MadeIn, ChargeInv, ChargeTypes, CheckoutTypeOK
  <2>2. ASSUME NEW o \in Orders
        PROVE  /\ charged[o] # NotCharged => Worth(charged[o]) = WorthOfItems(items[o]) + Worth(shippingCost)
               /\ shipped[o] # {} => charged[o] # NotCharged /\ shipped[o] = items[o]
    <3> DEFINE its == items[o]
    <3>1. WorthOfItems(its) = SumAt(price, its)
      <4> HIDE DEF its
      <4> QED
        BY WorthIsSum
    <3> QED
      BY <3>1 DEF ChargeInv, ChargeOf, Costs
  <2> QED
    BY <2>1, <2>2 DEF CheckoutInvariant, ChargedExactly
<1> QED
  BY CartInvariant, ChargeInvariant, <1>1, PTL

(* With amounts of at least one unit, no sum of an order is ever refused,  *)
(* so PlaceOrder takes the process down only where one is below.           *)
THEOREM OnlySmallAmountsPanic == Spec => []PanicsOnlyBelowOne
<1>1. ChargeInv => PanicsOnlyBelowOne
  BY DEF ChargeInv
<1> QED
  BY ChargeInvariant, <1>1, PTL
=============================================================================
