--------------------------- MODULE MCCheckoutSaga ---------------------------
(***************************************************************************)
(* Two orders that compete for one product: one costs more than the        *)
(* payment service authorizes and is cancelled, the other is affordable,   *)
(* and is refused if it comes while the first holds the stock.  In         *)
(* RepeatedBasket the second names the product on two lines, which fit     *)
(* separately and not together while the first holds its stock, and costs  *)
(* 33 cents, which 5 bits store and charge as 1.                           *)
(***************************************************************************)
EXTENDS CheckoutSaga

CONSTANTS dear, cheap, p

Line(quantity, price) == [product |-> p, quantity |-> quantity, price |-> price]

MCStock == [x \in {p} |-> 3]

DistinctBasket == [o \in {dear, cheap} |-> IF o = dear THEN <<Line(2, 3)>> ELSE <<Line(2, 1)>>]
RepeatedBasket ==
  [o \in {dear, cheap} |-> IF o = dear THEN <<Line(1, 6)>> ELSE <<Line(1, 9), Line(2, 12)>>]
=============================================================================
