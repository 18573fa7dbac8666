CONSTANTS
  o1 = o1
  o2 = o2
  p1 = p1
  p2 = p2
  Orders = {o1, o2}
  Products = {p1, p2}
  Stock <- MCStock
  Basket <- MCBasket
  Position <- MCPosition
  Replicas = {r1, r2, r3}
  NoReplica = NoReplica
SPECIFICATION FairSpec
INVARIANTS
  TypeOK
  StockSeenIsThere
  NoDeadlock
PROPERTIES
  ServiceSpec
  HandlersReturn
