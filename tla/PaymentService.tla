--------------------------- MODULE PaymentService ---------------------------
(***************************************************************************)
(* The payment service: PaymentService.HandleEvent decides on the amount   *)
(* of a reserved order, PaymentRepository.ProcessPayment records the       *)
(* payment, the answer in the outbox and the processed event in one        *)
(* transaction.  The amount is Money's: it wraps round beyond int64, and   *)
(* the wrapped amount is what is compared with the limit.  The random      *)
(* payment id is left out: a payment is known by its order, on which the   *)
(* table has a unique key.                                                 *)
(***************************************************************************)
EXTENDS Money, Events

CONSTANT MaxAuthCents    \* PAYMENT_MAX_AUTH_CENTS

VARIABLES
  payments,      \* rows of payments: order, amount in cents and status
  processed,     \* processed_events
  outbox         \* outbox_events

vars == <<payments, processed, outbox>>

Init == payments = {} /\ processed = {} /\ outbox = {}

-----------------------------------------------------------------------------
ValidItems(items) ==
  \A i \in DOMAIN items : items[i].quantity > 0 /\ items[i].price >= 0

Authorized(items) == ChargedAmount(items) <= MaxAuthCents

(* What the table payments refuses: a second payment of an order, and a     *)
(* negative amount, CHECK (amount_cents >= 0).                              *)
Acceptable(src) ==
  /\ \A payment \in payments : payment.order # src.order
  /\ ChargedAmount(src.items) \in Nat

(* The transaction, for an event it has not processed. *)
ProcessPayment(src) ==
  LET type == IF Authorized(src.items) THEN "payment.authorized" ELSE "payment.failed"
  IN  /\ Acceptable(src)
      /\ payments' = payments \cup
           {[order |-> src.order, amount |-> ChargedAmount(src.items),
             status |-> IF Authorized(src.items) THEN "authorized" ELSE "failed"]}
      /\ outbox' = outbox \cup {FollowUp(src, "payment", type, <<>>)}
      /\ processed' = processed \cup {src.id}

(* HandleEvent returning nil. *)
HandleEvent(src) ==
  /\ src.type = "inventory.reserved"
  /\ ValidItems(src.items)
  /\ \/ src.id \in processed /\ UNCHANGED vars
     \/ src.id \notin processed /\ ProcessPayment(src)

HandleEventFails(src) ==
  \/ src.type # "inventory.reserved"
  \/ ~ValidItems(src.items)
  \/ src.id \notin processed /\ ~Acceptable(src)

(* What Consumer.Run passes to HandleEvent; the rest it commits unread. *)
Wanted(src) == src.type = "inventory.reserved"
=============================================================================
