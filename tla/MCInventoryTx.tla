--------------------------- MODULE MCInventoryTx ---------------------------
(***************************************************************************)
(* An instance of InventoryTx with two products.  o1 names them in the     *)
(* order opposite to o2, which names the first of them twice.  Each order  *)
(* fits alone, and both fit together line by line but not in sum.          *)
(***************************************************************************)
EXTENDS InventoryTx

CONSTANTS o1, o2, p1, p2

OrderLine(p, q) == [product |-> p, quantity |-> q, price |-> 1]

MCStock == [p \in {p1, p2} |-> IF p = p1 THEN 2 ELSE 3]
MCPosition == [p \in {p1, p2} |-> IF p = p1 THEN 1 ELSE 2]

MCBasket ==
  [o \in {o1, o2} |->
     IF o = o1 THEN <<OrderLine(p2, 2), OrderLine(p1, 1)>>
               ELSE <<OrderLine(p1, 1), OrderLine(p1, 1), OrderLine(p2, 1)>>]
=============================================================================
