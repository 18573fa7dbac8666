---------------------------- MODULE CartService ----------------------------
(***************************************************************************)
(* The cart service: CartHandler and CartService over CartRepository, the  *)
(* hash cart:<customer> in Redis.  Every operation is one Redis command,   *)
(* or one MULTI of two, and so one step.  One customer is modelled: keys   *)
(* of different customers never meet.                                      *)
(***************************************************************************)
EXTENDS Integers

CONSTANTS Products, MaxQuantity

VARIABLE hash    \* the quantity stored for each product, 0 when it has no field

Carts == [Products -> 0..MaxQuantity]
Empty == [p \in Products |-> 0]
Lines(cart) == {p \in Products : cart[p] > 0}

(* A cart may be left from an earlier visit. *)
Init == hash \in Carts

-----------------------------------------------------------------------------
(* Mutant of SetItem: the quantity is added (HINCRBY).                      *)
IncreaseItem(p, quantity) == quantity > 0 /\ hash' = [hash EXCEPT ![p] = @ + quantity]

(* POST /cart/items and PATCH /cart/items/{productId}: both set the         *)
(* quantity, neither adds to it.  Every call renews the expiry.             *)
SetItem(p, quantity) == quantity > 0 /\ hash' = [hash EXCEPT ![p] = quantity]

RemoveItem(p) == hash' = [hash EXCEPT ![p] = 0]

Clear == hash' = Empty

(* CART_TTL has passed since the last SetItem. *)
Expire == hash # Empty /\ hash' = Empty
=============================================================================
