----------------------------- MODULE MCOrderTx -----------------------------
(***************************************************************************)
(* An instance of OrderTx with 6-bit totals and 4-bit quantities: an order *)
(* of two lines, one that is dear, one whose second quantity does not fit, *)
(* and two whose totals wrap, to a negative and to a positive sum.         *)
(***************************************************************************)
EXTENDS OrderTx

CONSTANTS small, dear, many, negative, wrapped

Line(quantity, price) == [product |-> "p", quantity |-> quantity, price |-> price]

MCBasket == [o \in {small, dear, many, negative, wrapped} |->
  CASE o = small -> <<Line(2, 1), Line(1, 3)>>
    [] o = dear -> <<Line(1, 31)>>
    [] o = many -> <<Line(1, 1), Line(8, 1)>>
    [] o = negative -> <<Line(5, 7)>>
    [] o = wrapped -> <<Line(4, 10), Line(7, 4)>>]
=============================================================================
