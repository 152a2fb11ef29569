------------------------------ MODULE MCCheckout ------------------------------
(* Three additions of two products and two orders. *)
EXTENDS Checkout, TLC

CONSTANTS a1, a2, a3, p, q

MCProductOf == (a1 :> p) @@ (a2 :> p) @@ (a3 :> q)

MCPrices == {Amount(0, 3), Amount(1, 5)}

Symmetry == Permutations({a1, a2}) \union Permutations(Orders)
=============================================================================
