---------------------------- MODULE CheckoutSaga ----------------------------
(***************************************************************************)
(* The checkout: the order, inventory, payment and notification services   *)
(* joined by the three Kafka topics.                                       *)
(*                                                                         *)
(* The services are those of OrderService, InventoryService,               *)
(* PaymentService and NotificationService.  A topic is a log per order:    *)
(* the key of every message is the order id, so the messages of one order  *)
(* share a partition.  Each service relays its outbox as OutboxRelay says: *)
(* any committed row, in any order, and again after a fault.  Each         *)
(* consumer group reads as KafkaConsumer says: in order, again after a     *)
(* fault, and past a message whose handler fails.                          *)
(***************************************************************************)
EXTENDS Money, FiniteSets, Events

CONSTANTS
  Orders, Products, Stock, Basket, MaxAuthCents,
  MaxFaults,     \* bound: messages sent twice or delivered twice
  MaxErrors      \* bound: handlers that fail for a passing reason

ASSUME OrdersAssumption == IsFiniteSet(Orders)
ASSUME StockAssumption == \E S \in SUBSET Products : Stock \in [S -> Nat]

(* The items of the requests.  One whose total wraps round to a negative    *)
(* sum, or with a quantity too large for its column, never becomes an       *)
(* order; OrderTx has requests of every other kind too.                     *)
ASSUME BasketAssumption ==
  Basket \in [Orders -> Seq([product : Products, quantity : Nat \ {0}, price : Nat]) \ {<<>>}]

VARIABLES
  orders, totals, ordProcessed, ordOutbox,
  available, reserved, reservations, invProcessed, invOutbox,
  payments, payProcessed, payOutbox,
  notifications, ntfProcessed,
  log,           \* log[topic][order]: what the broker has of the order
  next,          \* next[group][order]: how many of those the group has passed
  faults, errors

ordVars == <<orders, totals, ordProcessed, ordOutbox>>
invVars == <<available, reserved, reservations, invProcessed, invOutbox>>
payVars == <<payments, payProcessed, payOutbox>>
ntfVars == <<notifications, ntfProcessed>>
vars == <<ordVars, invVars, payVars, ntfVars, log, next, faults, errors>>

Ord == INSTANCE OrderService WITH processed <- ordProcessed, outbox <- ordOutbox
Inv == INSTANCE InventoryService WITH processed <- invProcessed, outbox <- invOutbox
Pay == INSTANCE PaymentService WITH processed <- payProcessed, outbox <- payOutbox
Ntf == INSTANCE NotificationService WITH processed <- ntfProcessed

Topics == {"orders", "inventory", "payments"}

(* The consumer groups and the topic each one reads. *)
Groups == {"inventory", "payment", "order", "notification"}

Reads(g) ==
  CASE g = "inventory" -> "orders"
    [] g = "payment" -> "inventory"
    [] g = "order" -> "payments"
    [] g = "notification" -> "orders"

Init ==
  /\ Ord!Init /\ Inv!Init /\ Pay!Init /\ Ntf!Init
  /\ log = [t \in Topics |-> [o \in Orders |-> <<>>]]
  /\ next = [g \in Groups |-> [o \in Orders |-> 0]]
  /\ faults = 0
  /\ errors = 0

-----------------------------------------------------------------------------
Fault == faults < MaxFaults /\ faults' = faults + 1

CreateOrder(o) ==
  /\ Ord!CreateOrder(o)
  /\ UNCHANGED <<invVars, payVars, ntfVars, log, next, faults, errors>>

(* The outbox rows of the three services. *)
Outbox == ordOutbox \cup invOutbox \cup payOutbox

Partition(e) == log[TopicOf(e.type)][e.order]

Deliver(e) ==
  log' = [log EXCEPT ![TopicOf(e.type)][e.order] = Append(@, e)]

Send(e) ==
  /\ e \notin ToSet(Partition(e))
  /\ Deliver(e)
  /\ UNCHANGED <<ordVars, invVars, payVars, ntfVars, next, faults, errors>>

(* The mark was lost, the replica crashed, or another one held the row. *)
SendAgain(e) ==
  /\ e \in ToSet(Partition(e))
  /\ Fault
  /\ Deliver(e)
  /\ UNCHANGED <<ordVars, invVars, payVars, ntfVars, next, errors>>

(* The message a group fetches, and the loop going on to the next one. *)
HasMessage(g, o) == next[g][o] < Len(log[Reads(g)][o])
Message(g, o) == log[Reads(g)][o][next[g][o] + 1]
Pass(g, o) == next' = [next EXCEPT ![g][o] = @ + 1]

InventoryRun(o) ==
  LET e == Message("inventory", o) IN
  /\ HasMessage("inventory", o)
  /\ \/ Inv!HandleEvent(e)
     \/ Inv!HandleEventFails(e) /\ UNCHANGED invVars
  /\ Pass("inventory", o)
  /\ UNCHANGED <<ordVars, payVars, ntfVars, log, faults, errors>>

PaymentRun(o) ==
  LET e == Message("payment", o) IN
  /\ HasMessage("payment", o)
  /\ \/ Pay!Wanted(e) /\ Pay!HandleEvent(e)
     \/ (~Pay!Wanted(e) \/ Pay!HandleEventFails(e)) /\ UNCHANGED payVars
  /\ Pass("payment", o)
  /\ UNCHANGED <<ordVars, invVars, ntfVars, log, faults, errors>>

OrderRun(o) ==
  LET e == Message("order", o) IN
  /\ HasMessage("order", o)
  /\ \/ Ord!Wanted(e) /\ Ord!HandleEvent(e)
     \/ (~Ord!Wanted(e) \/ Ord!HandleEventFails(e)) /\ UNCHANGED ordVars
  /\ Pass("order", o)
  /\ UNCHANGED <<invVars, payVars, ntfVars, log, faults, errors>>

NotificationRun(o) ==
  LET e == Message("notification", o) IN
  /\ HasMessage("notification", o)
  /\ Ntf!HandleEvent(e)
  /\ Pass("notification", o)
  /\ UNCHANGED <<ordVars, invVars, payVars, log, faults, errors>>

(* A handler fails on its database or network: the message is passed. *)
HandlerError(g, o) ==
  /\ HasMessage(g, o)
  /\ errors < MaxErrors
  /\ errors' = errors + 1
  /\ Pass(g, o)
  /\ UNCHANGED <<ordVars, invVars, payVars, ntfVars, log, faults>>

(* A restart or a rebalance: the group reads on from an older offset. *)
Redeliver(g, o) ==
  /\ next[g][o] > 0
  /\ Fault
  /\ \E n \in 0..next[g][o] - 1 : next' = [next EXCEPT ![g][o] = n]
  /\ UNCHANGED <<ordVars, invVars, payVars, ntfVars, log, errors>>

Next ==
  \/ \E o \in Orders :
       \/ CreateOrder(o)
       \/ InventoryRun(o) \/ PaymentRun(o) \/ OrderRun(o) \/ NotificationRun(o)
  \/ \E e \in Outbox : Send(e) \/ SendAgain(e)
  \/ \E g \in Groups, o \in Orders : HandlerError(g, o) \/ Redeliver(g, o)

Spec == Init /\ [][Next]_vars

(* The publishers poll and the consumers fetch for ever; what happens to    *)
(* one order never waits for another.                                       *)
Fairness ==
  /\ WF_vars(\E e \in Outbox : Send(e))
  /\ \A o \in Orders :
       /\ WF_vars(InventoryRun(o))
       /\ WF_vars(PaymentRun(o))
       /\ WF_vars(OrderRun(o))
       /\ WF_vars(NotificationRun(o))

FairSpec == Spec /\ Fairness

-----------------------------------------------------------------------------
TypeOK ==
  /\ totals \in [Orders -> Nat]
  /\ orders \in [Orders -> {"none", "pending", "confirmed", "cancelled"}]
  /\ Inv!TypeOK
  /\ next \in [Groups -> [Orders -> Nat]]
  /\ \A g \in Groups, o \in Orders : next[g][o] <= Len(log[Reads(g)][o])
  /\ \A payment \in payments :
       payment \in [order : Orders, amount : Nat, status : {"authorized", "failed"}]
  /\ \A note \in notifications :
       note.order \in Orders /\ note.type \in {"order.confirmed", "order.cancelled"}

(* The stock an order has, seen from the rows of the inventory service. *)
StockOf(o) ==
  CASE Inv!HeldRows(o) # {} -> "held"
    [] \E row \in reservations : row.order = o /\ row.status = "released" -> "freed"
    [] \E e \in invOutbox : e.order = o /\ e.type = "inventory.rejected" -> "refused"
    [] OTHER -> "none"

PaidOf(o) ==
  IF \E payment \in payments : payment.order = o
  THEN (CHOOSE payment \in payments : payment.order = o).status
  ELSE "none"

(* What the customer was told; two notifications contradict any flow. *)
ToldOf(o) ==
  LET notes == {n \in notifications : n.order = o}
  IN  CASE notes = {} -> "none"
        [] Cardinality(notes) > 1 -> "told twice"
        [] \E n \in notes : n.type = "order.confirmed" -> "confirmed"
        [] OTHER -> "cancelled"

(* The services together follow the business flows of README.md:27-43,      *)
(* each step of an order at most once, whatever is sent twice, delivered    *)
(* twice, delivered late or skipped.                                        *)
Flow == INSTANCE Checkout WITH
          status <- orders,
          stock <- [o \in Orders |-> StockOf(o)],
          paid <- [o \in Orders |-> PaidOf(o)],
          told <- [o \in Orders |-> ToldOf(o)]
CheckoutSpec == Flow!CheckoutSpec

(* The customer of a confirmed order has paid exactly the total the order   *)
(* service stored, summed up anew by another service from an event that     *)
(* went through a third, and within the limit.  (It is what the items cost  *)
(* unless that is beyond int64: then both have wrapped round, see           *)
(* TotalIsCharged.)  Its stock is still set aside, and it is stock that     *)
(* exists: what is reserved and what is available add up to the seed.       *)
ConfirmedIsBacked ==
  /\ Inv!StockConserved
  /\ \A o \in Orders : orders[o] = "confirmed" =>
       /\ [order |-> o, amount |-> totals[o], status |-> "authorized"] \in payments
       /\ totals[o] <= MaxAuthCents
       /\ \A i \in DOMAIN Basket[o] :
            \E row \in Inv!HeldRows(o) : row.product = Basket[o][i].product

(* While no handler fails, every order is seen through, one whose stock was *)
(* refused excepted: inventory.rejected has no consumer that acts on it, and*)
(* its order stays pending.  All others are settled, the customer is told,  *)
(* and a cancelled order gives all its stock back.                          *)
SeenThrough(o) ==
  /\ orders[o] \in {"confirmed", "cancelled"}
  /\ ToldOf(o) = orders[o]
  /\ orders[o] = "cancelled" => Inv!HeldRows(o) = {}

OrdersSeenThrough ==
  \A o \in Orders : orders[o] = "pending" ~> (SeenThrough(o) \/ StockOf(o) = "refused")
=============================================================================
