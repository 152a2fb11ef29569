------------------------------- MODULE Checkout -------------------------------
(***************************************************************************)
(* Orders of one user: PlaceOrder of the checkout service, whose calls of  *)
(* other services may fail or take effect without an answer, while the     *)
(* user adds to the cart and places further orders.                        *)
(***************************************************************************)
EXTENDS CartStore, Money, Sequences, Folds

CONSTANTS
  Orders,
  Prices                \* that products and shipping may have

ASSUME CheckoutAssumption == \A m \in Prices : m \in Amounts /\ IsValid(m) /\ Worth(m) >= 0

VARIABLES
  price, shippingCost,  \* in the currency of the user
  stage,                \* how far PlaceOrder of an order is
  items,                \* the cart that it read
  total,                \* what it asks the payment service to charge
  charged, shipped,     \* what the payment and the shipping service did
  late,                 \* additions that came while an order was under way
  before                \* orders that had ended well when an order began

orderVars == <<stage, items, total, charged, shipped, before>>
vars == <<cartVars, price, shippingCost, orderVars, late>>

NotCharged == Amount(-1, 0)

Active(o) == stage[o] \in {"read", "priced", "charged", "shipped"}

Init ==
  /\ CartInit
  /\ price \in [Products -> Prices] /\ shippingCost \in Prices
  /\ stage = [o \in Orders |-> "new"]
  /\ items = [o \in Orders |-> {}]
  /\ total = [o \in Orders |-> Zero]
  /\ charged = [o \in Orders |-> NotCharged]
  /\ shipped = [o \in Orders |-> {}]
  /\ late = {}
  /\ before = [o \in Orders |-> {}]

Goes(o, from, to) == stage[o] = from /\ stage' = [stage EXCEPT ![o] = to]

GetUserCart(o) ==
  /\ Goes(o, "new", "read")
  /\ items' = [items EXCEPT ![o] = cart]
  /\ before' = [before EXCEPT ![o] = {p \in Orders : stage[p] = "done"}]
  /\ UNCHANGED <<cartVars, total, charged, shipped>>

(* Mutant of Quantity: each item once.                                     *)
OnePiece(its, p) == 1

Quantity(its, p) == Cardinality({a \in its : ProductOf[a] = p})

(* The sum over the items, which may be in any order. *)
Orderings(products) ==
  {list \in [1..Cardinality(products) -> products] :
     \A p \in products : \E i \in DOMAIN list : list[i] = p}

TotalOf(list, its) ==
  LET upTo[i \in 0..Len(list)] ==
        IF i = 0 THEN Sum(Zero, shippingCost)
        ELSE Sum(upTo[i - 1], MultiplySlow(price[list[i]], Quantity(its, list[i])))
  IN  upTo[Len(list)]

Totals(its) == {TotalOf(list, its) : list \in Orderings({ProductOf[a] : a \in its})}

(* prepareOrderItemsAndShippingQuoteFromCart, and the total. *)
Prepare(o) ==
  /\ Goes(o, "read", "priced")
  /\ \E t \in Totals(items[o]) : t # Panic /\ total' = [total EXCEPT ![o] = t]
  /\ UNCHANGED <<cartVars, items, charged, shipped, before>>

(* Must panics, and nothing in the server recovers: the process dies, and  *)
(* with it every order that is under way.                                  *)
Crash(o) ==
  /\ stage[o] = "read" /\ Panic \in Totals(items[o])
  /\ stage' = [p \in Orders |-> IF Active(p) THEN "crashed" ELSE stage[p]]
  /\ UNCHANGED <<cartVars, items, total, charged, shipped, before>>

(* A product, a conversion or the quote cannot be had.  (An order whose    *)
(* cart cannot be read is one that does not begin.)                        *)
PrepareFails(o) ==
  /\ Goes(o, "read", "failed")
  /\ UNCHANGED <<cartVars, items, total, charged, shipped, before>>

ChargeCard(o) ==
  /\ \/ Goes(o, "priced", "charged") /\ charged' = [charged EXCEPT ![o] = total[o]]
     \/ Goes(o, "priced", "failed") /\ charged' \in {charged, [charged EXCEPT ![o] = total[o]]}
  /\ UNCHANGED <<cartVars, items, total, shipped, before>>

(* An error of shipping does not give the money back. *)
ShipOrder(o) ==
  /\ \/ Goes(o, "charged", "shipped") /\ shipped' = [shipped EXCEPT ![o] = items[o]]
     \/ Goes(o, "charged", "failed") /\ shipped' \in {shipped, [shipped EXCEPT ![o] = items[o]]}
  /\ UNCHANGED <<cartVars, items, total, charged, before>>

(* Mutant of StageOfEmptying: the cart is emptied once the card was        *)
(* charged.                                                                *)
StageAfterCharging == "charged"

StageOfEmptying == "shipped"

(* An error of emptyUserCart is ignored. *)
EmptyUserCart(o) ==
  /\ \/ Goes(o, StageOfEmptying, "done") /\ EmptyCart
     \/ Goes(o, StageOfEmptying, "notEmptied") /\ (EmptyCart \/ UNCHANGED cartVars)
  /\ UNCHANGED <<items, total, charged, shipped, before>>

PlaceOrder(o) ==
  \/ GetUserCart(o) \/ Prepare(o) \/ Crash(o) \/ PrepareFails(o)
  \/ ChargeCard(o) \/ ShipOrder(o) \/ EmptyUserCart(o)

Next ==
  /\ \/ \E a \in Additions : Add(a) /\ UNCHANGED orderVars
     \/ \E o \in Orders : PlaceOrder(o)
  /\ late' = IF \E o \in Orders : Active(o) THEN late \union (cart' \ cart) ELSE late
  /\ UNCHANGED <<price, shippingCost>>

Spec == Init /\ [][Next]_vars

-----------------------------------------------------------------------------
Stages == {"new", "read", "priced", "charged", "shipped",
           "done", "notEmptied", "failed", "crashed"}

(* The state is well formed. *)
CheckoutTypeOK ==
  /\ cart \subseteq Additions
  /\ stage \in [Orders -> Stages]
  /\ items \in [Orders -> SUBSET Additions] /\ shipped \in [Orders -> SUBSET Additions]
  /\ total \in [Orders -> Amounts] /\ charged \in [Orders -> Amounts]

(* What a card is charged is exactly what the items cost that are shipped  *)
(* for it, and the shipping: no carry of nanos is lost, whatever the sum   *)
(* goes through, and the cart may change meanwhile.                        *)
WorthOfItems(its) ==
  LET WorthOf(p) == Worth(price[p]) * Cardinality({a \in its : ProductOf[a] = p})
  IN  MapThenFoldSet(+, 0, WorthOf, LAMBDA S : CHOOSE p \in S : TRUE, Products)

ChargedExactly ==
  \A o \in Orders :
    /\ charged[o] # NotCharged =>
         Worth(charged[o]) = WorthOfItems(items[o]) + Worth(shippingCost)
    /\ shipped[o] # {} => charged[o] # NotCharged /\ shipped[o] = items[o]

(* Nothing is charged or shipped that was not ordered. *)
CheckoutInvariant == CheckoutTypeOK /\ ChargedExactly

(* An order that begins after another has ended well is not charged for    *)
(* what that one was charged for - unless an addition that had read the    *)
(* cart before it was emptied brought its items back.                      *)
ChargedOnce ==
  InOrder =>
    \A o \in Orders : charged[o] # NotCharged =>
      \A p \in before[o] : items[p] \intersect items[o] = {}

(* What was added to the cart is there or was shipped, unless it came      *)
(* while an order was under way, which empties the cart of it unread.      *)
AdditionsKept ==
  InOrder =>
    \A a \in Additions \ late :
      adding[a] = "done" => a \in cart \/ \E o \in Orders : a \in shipped[o]

(* Adding up can only panic where an amount is less than one unit: there   *)
(* Sum returns (1, -0.2) for 0.5 + 0.3, which it refuses the next time.    *)
PanicsOnlyBelowOne ==
  (\E o \in Orders : stage[o] = "crashed") =>
    shippingCost.units = 0 \/ \E p \in Products : price[p].units = 0
=============================================================================
