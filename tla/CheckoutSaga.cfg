CONSTANTS
  dear = dear
  cheap = cheap
  p = p
  Orders = {dear, cheap}
  Products = {p}
  Stock <- MCStock
  Basket <- RepeatedBasket
  MaxAuthCents = 5
  MaxCents = 15
  MaxQuantity = 3
  MaxFaults = 2
  MaxErrors = 1
SPECIFICATION Spec
INVARIANTS
  TypeOK
  ConfirmedIsBacked
PROPERTY CheckoutSpec
CHECK_DEADLOCK FALSE
