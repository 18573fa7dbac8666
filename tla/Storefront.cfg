CONSTANTS
  t1 = t1
  t2 = t2
  Tabs = {t1, t2}
  Products = {p1}
  MaxQuantity = 2
  MaxClicks <- MCMaxClicks
  MaxFaults = 1
SPECIFICATION FairSpec
INVARIANTS
  TypeOK
  OneOrderPerClick
  BusyWhileWaiting
  OrderedWasCart
  ViewIsCart
PROPERTY BusyEnds
CHECK_DEADLOCK FALSE
