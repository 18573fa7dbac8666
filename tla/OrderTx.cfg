CONSTANTS
  small = small
  dear = dear
  many = many
  negative = negative
  wrapped = wrapped
  Orders = {small, dear, many, negative, wrapped}
  Basket <- MCBasket
  MaxAuthCents = 20
  MaxCents = 31
  MaxQuantity = 7
  Sessions = {s1, s2}
SPECIFICATION Spec
INVARIANTS
  TypeOK
  AnswersAreTrue
  TotalIsCharged
PROPERTY ServiceSpec
