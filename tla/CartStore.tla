------------------------------ MODULE CartStore -------------------------------
(***************************************************************************)
(* The cart of one user in the stores of the cart service.  What is in the *)
(* cart are additions, each of one piece of its product, so that the       *)
(* quantity of a product is the number of its additions.                   *)
(*                                                                         *)
(* SpannerCartStore adds in a transaction.  AlloyDBCartStore reads the     *)
(* quantity of the product and writes the new one, RedisCartStore reads    *)
(* and writes the whole cart, neither with a lock.                         *)
(***************************************************************************)
EXTENDS FiniteSets

CONSTANTS Additions, Products, ProductOf

ASSUME CartAssumption ==
  /\ ProductOf \in [Additions -> Products]
  /\ IsFiniteSet(Products)

VARIABLES
  store,                \* which of the stores is in use
  cart,                 \* the additions in the cart
  adding,               \* how far AddItemAsync is
  saw,                  \* what it read
  raced                 \* whether one has overwritten a change it did not see

cartVars == <<store, cart, adding, saw, raced>>

Stores == {"spanner", "alloydb", "redis"}

CartInit ==
  /\ store \in Stores
  /\ cart = {}
  /\ adding = [a \in Additions |-> "new"]
  /\ saw = [a \in Additions |-> {}]
  /\ raced = FALSE

OfProduct(a) == {b \in Additions : ProductOf[b] = ProductOf[a]}

(* Mutant of Transactional: the retriable transaction is forgotten.        *)
NeverTransactional == FALSE

(* RunWithRetriableTransactionAsync *)
Transactional == store = "spanner"

(* What AddItemAsync reads and overwrites. *)
Extent(a) == IF store = "redis" THEN Additions ELSE OfProduct(a)

AddItem(a) ==
  /\ Transactional
  /\ adding[a] = "new"
  /\ adding' = [adding EXCEPT ![a] = "done"]
  /\ cart' = cart \union {a}
  /\ UNCHANGED <<store, saw, raced>>

ReadItem(a) ==
  /\ ~Transactional
  /\ adding[a] = "new"
  /\ adding' = [adding EXCEPT ![a] = "read"]
  /\ saw' = [saw EXCEPT ![a] = cart \intersect Extent(a)]
  /\ UNCHANGED <<store, cart, raced>>

WriteItem(a) ==
  /\ adding[a] = "read"
  /\ adding' = [adding EXCEPT ![a] = "done"]
  /\ cart' = (cart \ Extent(a)) \union saw[a] \union {a}
  /\ raced' = (raced \/ cart \intersect Extent(a) # saw[a])
  /\ UNCHANGED <<store, saw>>

(* When a call of the store fails, AddItemAsync throws an RpcException: an *)
(* addition that goes no further.                                          *)
Add(a) == AddItem(a) \/ ReadItem(a) \/ WriteItem(a)

EmptyCart == cart' = {} /\ UNCHANGED <<store, adding, saw, raced>>

(* Additions do not get in each other's way. *)
InOrder == store = "spanner" \/ ~raced
=============================================================================
