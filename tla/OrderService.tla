---------------------------- MODULE OrderService ----------------------------
(***************************************************************************)
(* The order service: OrderService.CreateOrder with OrderRepository.Create *)
(* for POST /api/orders, and PaymentEventService.HandleEvent with          *)
(* OrderRepository.ApplyPaymentEvent for the payments topic.  Each of the  *)
(* two transactions is one step; a request the tables refuse changes       *)
(* nothing.                                                                *)
(***************************************************************************)
EXTENDS Money, Events

CONSTANTS
  Orders,        \* the random ids newID may return
  Basket         \* the items of the request that becomes the order

VARIABLES
  orders,        \* orders.status, "none" for an id not given out yet
  totals,        \* orders.total_cents, 0 for an id not given out yet
  processed,     \* processed_events
  outbox         \* outbox_events

vars == <<orders, totals, processed, outbox>>

Init ==
  /\ orders = [o \in Orders |-> "none"]
  /\ totals = [o \in Orders |-> 0]
  /\ processed = {}
  /\ outbox = {}

-----------------------------------------------------------------------------
(* What CreateOrder refuses: no items, a quantity that is not positive, a   *)
(* negative price.                                                          *)
ValidRequest(items) ==
  /\ items # <<>>
  /\ \A i \in DOMAIN items : items[i].quantity > 0 /\ items[i].price >= 0

(* What the tables store: orders has CHECK (total_cents >= 0) on a total    *)
(* that may have wrapped round, order_items an INTEGER for each quantity.   *)
Storable(items) ==
  /\ Total(items) \in Nat
  /\ \A i \in DOMAIN items : FitsQuantity(items[i].quantity)

(* Mutant of CreateOrder: an order id that exists is written over.          *)
CreateOrderUpsert(o) ==
  /\ ValidRequest(Basket[o])
  /\ Storable(Basket[o])
  /\ orders' = [orders EXCEPT ![o] = "pending"]
  /\ totals' = [totals EXCEPT ![o] = Total(Basket[o])]
  /\ outbox' = outbox \cup {CreatedEvent(o, Basket[o])}
  /\ UNCHANGED processed

CreateOrder(o) ==
  /\ ValidRequest(Basket[o])
  /\ Storable(Basket[o])
  /\ orders[o] = "none"
  /\ orders' = [orders EXCEPT ![o] = "pending"]
  /\ totals' = [totals EXCEPT ![o] = Total(Basket[o])]
  /\ outbox' = outbox \cup {CreatedEvent(o, Basket[o])}
  /\ UNCHANGED processed

(* The status HandleEvent asks for, and the event that announces it. *)
NewStatus(src) == IF src.type = "payment.authorized" THEN "confirmed" ELSE "cancelled"

StatusEvent(src) ==
  FollowUp(src, "order",
           IF NewStatus(src) = "confirmed" THEN "order.confirmed" ELSE "order.cancelled",
           <<>>)

ApplyPaymentEvent(src) ==
  \/ /\ src.id \in processed
     /\ UNCHANGED vars
  \/ /\ src.id \notin processed
     /\ orders[src.order] \notin {"none", "pending"}
     /\ processed' = processed \cup {src.id}
     /\ UNCHANGED <<orders, totals, outbox>>
  \/ /\ src.id \notin processed
     /\ orders[src.order] = "pending"
     /\ orders' = [orders EXCEPT ![src.order] = NewStatus(src)]
     /\ outbox' = outbox \cup {StatusEvent(src)}
     /\ processed' = processed \cup {src.id}
     /\ UNCHANGED totals

Wanted(src) == src.type \in {"payment.authorized", "payment.failed"}

(* HandleEvent returning nil, and with ErrOrderNotFound. *)
HandleEvent(src) == Wanted(src) /\ ApplyPaymentEvent(src)

HandleEventFails(src) ==
  \/ ~Wanted(src)
  \/ src.id \notin processed /\ orders[src.order] = "none"
=============================================================================
