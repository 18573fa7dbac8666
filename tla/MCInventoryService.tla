------------------------- MODULE MCInventoryService -------------------------
(***************************************************************************)
(* Instances of InventoryService: four orders that compete for two         *)
(* products, one of which is scarce, and one order for a product without   *)
(* an inventory row.  RepeatedBasket has an order with two lines for the   *)
(* same product, which the order service accepts.                          *)
(***************************************************************************)
EXTENDS InventoryService

CONSTANTS o1, o2, o3, o4, o5, p1, p2, unknown

Line(p, q) == [product |-> p, quantity |-> q, price |-> 1]

MCStock == [p \in {p1, p2} |-> IF p = p1 THEN 3 ELSE 2]

DistinctBasket ==
  [o \in {o1, o2, o3, o4, o5} |->
     CASE o = o1 -> <<Line(p1, 2), Line(p2, 1)>>
       [] o = o2 -> <<Line(p2, 2)>>
       [] o = o3 -> <<Line(p1, 1)>>
       [] o = o4 -> <<Line(p2, 1), Line(p1, 1)>>
       [] o = o5 -> <<Line(p1, 1), Line(unknown, 1)>>]

RepeatedBasket ==
  [DistinctBasket EXCEPT ![o3] = <<Line(p1, 1), Line(p1, 1)>>,
                         ![o2] = <<Line(p2, 1), Line(p2, 2)>>]
=============================================================================
