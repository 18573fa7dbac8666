------------------------------ MODULE Checkout ------------------------------
(***************************************************************************)
(* What a customer and a shopkeeper may rely on: the two business flows of *)
(* README.md, order by order, without services, topics or databases.  An   *)
(* order is placed, its stock is held or refused, a held order is paid or  *)
(* not, the payment settles the order, a cancelled order gives its stock   *)
(* back, and the customer is told the outcome once.  CheckoutSaga          *)
(* implements it.                                                          *)
(***************************************************************************)
CONSTANT Orders

VARIABLES
  status,        \* "none", "pending", "confirmed" or "cancelled"
  stock,         \* "none", "held", "refused" or "freed"
  paid,          \* "none", "authorized" or "failed"
  told           \* "none", or the outcome the customer was notified of

checkoutVars == <<status, stock, paid, told>>

CheckoutInit ==
  /\ status = [o \in Orders |-> "none"]
  /\ stock = [o \in Orders |-> "none"]
  /\ paid = [o \in Orders |-> "none"]
  /\ told = [o \in Orders |-> "none"]

Place(o) ==
  /\ status[o] = "none"
  /\ status' = [status EXCEPT ![o] = "pending"]
  /\ UNCHANGED <<stock, paid, told>>

ClaimStock(o) ==
  /\ status[o] = "pending" /\ stock[o] = "none"
  /\ \E answer \in {"held", "refused"} : stock' = [stock EXCEPT ![o] = answer]
  /\ UNCHANGED <<status, paid, told>>

Pay(o) ==
  /\ status[o] = "pending" /\ stock[o] = "held" /\ paid[o] = "none"
  /\ \E answer \in {"authorized", "failed"} : paid' = [paid EXCEPT ![o] = answer]
  /\ UNCHANGED <<status, stock, told>>

Settle(o) ==
  /\ status[o] = "pending" /\ paid[o] # "none"
  /\ status' = [status EXCEPT ![o] =
                  IF paid[o] = "authorized" THEN "confirmed" ELSE "cancelled"]
  /\ UNCHANGED <<stock, paid, told>>

GiveBack(o) ==
  /\ status[o] = "cancelled" /\ stock[o] = "held"
  /\ stock' = [stock EXCEPT ![o] = "freed"]
  /\ UNCHANGED <<status, paid, told>>

Tell(o) ==
  /\ status[o] \in {"confirmed", "cancelled"} /\ told[o] = "none"
  /\ told' = [told EXCEPT ![o] = status[o]]
  /\ UNCHANGED <<status, stock, paid>>

CheckoutNext ==
  \E o \in Orders :
    Place(o) \/ ClaimStock(o) \/ Pay(o) \/ Settle(o) \/ GiveBack(o) \/ Tell(o)

CheckoutSpec == CheckoutInit /\ [][CheckoutNext]_checkoutVars
=============================================================================
