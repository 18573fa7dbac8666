CONSTANTS
  o1 = o1
  o2 = o2
  o3 = o3
  o4 = o4
  o5 = o5
  p1 = p1
  p2 = p2
  unknown = unknown
  Orders = {o1, o2, o3, o4, o5}
  Products = {p1, p2, unknown}
  Stock <- MCStock
  Basket <- DistinctBasket
SPECIFICATION Spec
INVARIANTS
  StockConserved
  AnswersMatchRows
  CancelledHoldsNothing
  RowsAccountForReserved
PROPERTY LedgerSpec
