SPECIFICATION Spec
CONSTANTS
  a1 = a1
  a2 = a2
  a3 = a3
  p = p
  q = q
  Additions = {a1, a2, a3}
  Products = {p, q}
  ProductOf <- MCProductOf
  Orders = {o1, o2}
  Prices <- MCPrices
  NanosMod = 10
SYMMETRY Symmetry
INVARIANTS
  CheckoutInvariant
  ChargedOnce
  AdditionsKept
  PanicsOnlyBelowOne
\* Everything is added, and every order ends.
CHECK_DEADLOCK FALSE
