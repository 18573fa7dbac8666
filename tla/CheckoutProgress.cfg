CONSTANTS
  dear = dear
  cheap = cheap
  p = p
  Orders = {dear, cheap}
  Products = {p}
  Stock <- MCStock
  Basket <- DistinctBasket
  MaxAuthCents = 5
  MaxCents = 15
  MaxQuantity = 3
  MaxFaults = 1
  MaxErrors = 0
SPECIFICATION FairSpec
PROPERTY OrdersSeenThrough
CHECK_DEADLOCK FALSE
