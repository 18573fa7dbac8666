---------------------------- MODULE StockLedger ----------------------------
(***************************************************************************)
(* What the inventory service promises: an order's whole demand is held or *)
(* refused, once; what is held comes out of the seeded stock, and is given *)
(* back whole, at most once.  There are no rows, no events and no          *)
(* redelivery here: InventoryService implements this ledger.               *)
(***************************************************************************)
EXTENDS Integers, Functions

CONSTANTS
  Orders,
  Stock,         \* units of each product
  Want           \* Want[o][p]: units of p the order asks for

VARIABLE claim   \* "none", "held", "refused" or "freed" for each order

LedgerInit == claim = [o \in Orders |-> "none"]

HeldUnits(p) == SumFunction([o \in Orders |-> IF claim[o] = "held" THEN Want[o][p] ELSE 0])

(* A product without an inventory row has no units to give. *)
Fits(o) ==
  \A p \in DOMAIN Want[o] :
    Want[o][p] > 0 => p \in DOMAIN Stock /\ Want[o][p] <= Stock[p] - HeldUnits(p)

Hold(o) ==
  /\ claim[o] = "none"
  /\ Fits(o)
  /\ claim' = [claim EXCEPT ![o] = "held"]

Refuse(o) ==
  /\ claim[o] = "none"
  /\ ~Fits(o)
  /\ claim' = [claim EXCEPT ![o] = "refused"]

Free(o) ==
  /\ claim[o] = "held"
  /\ claim' = [claim EXCEPT ![o] = "freed"]

LedgerNext == \E o \in Orders : Hold(o) \/ Refuse(o) \/ Free(o)

LedgerSpec == LedgerInit /\ [][LedgerNext]_claim
=============================================================================
