-------------------------- MODULE InventoryService --------------------------
(***************************************************************************)
(* The inventory service: InventoryService.HandleEvent and the two         *)
(* transactions of InventoryRepository, which reserve the stock of a new   *)
(* order and give it back when the order is cancelled.                     *)
(*                                                                         *)
(* A transaction is one step here.  A handler that returns an error        *)
(* changes nothing; ReserveFails and ReleaseFails say when the database    *)
(* makes it do so.  KafkaConsumer says what becomes of the message.        *)
(*                                                                         *)
(* Alone, the module is driven by its environment: order.created arrives   *)
(* for any order and any number of times, and order.cancelled for an order *)
(* whose stock was reserved.  Checkout drives it with the other services.  *)
(***************************************************************************)
EXTENDS Integers, FiniteSets, SequencesExt, Events

CONSTANTS
  Orders,
  Products,
  Stock,         \* the seeded available_quantity; its domain has the rows
  Basket         \* the items of each order, with product, quantity and price

ASSUME OrdersAssumption == IsFiniteSet(Orders)
ASSUME StockAssumption == \E S \in SUBSET Products : Stock \in [S -> Nat]

(* The order service refuses an order without items and a quantity that is  *)
(* not positive.                                                            *)
ASSUME BasketAssumption ==
  Basket \in [Orders -> Seq([product : Products, quantity : Nat \ {0}, price : Nat]) \ {<<>>}]

VARIABLES
  available,     \* inventory.available_quantity
  reserved,      \* inventory.reserved_quantity
  reservations,  \* the rows of inventory_reservations
  processed,     \* processed_events
  outbox         \* outbox_events

vars == <<available, reserved, reservations, processed, outbox>>

Init ==
  /\ available = Stock
  /\ reserved = [p \in DOMAIN Stock |-> 0]
  /\ reservations = {}
  /\ processed = {}
  /\ outbox = {}

-----------------------------------------------------------------------------
Stocked == DOMAIN Stock

(* What the UPDATEs of one transaction add up to for a product. *)
Demand(items, p) ==
  FoldSeq(LAMBDA item, sum : IF item.product = p THEN item.quantity + sum ELSE sum,
          0, items)

(* Mutant of LinesAvailable: the last unit is never sold.                   *)
LinesAvailableStrict(items) ==
  \A i \in DOMAIN items :
    /\ items[i].product \in Stocked
    /\ items[i].quantity < available[items[i].product]

(* The first loop of ReserveForOrder looks at every line by itself. *)
LinesAvailable(items) ==
  \A i \in DOMAIN items :
    /\ items[i].product \in Stocked
    /\ items[i].quantity <= available[items[i].product]

(* Mutant of DemandFits: the table without the CHECK.                       *)
DemandUnchecked(items) == TRUE

(* CHECK (available_quantity >= 0) *)
DemandFits(items) == \A p \in Stocked : Demand(items, p) <= available[p]

(* INSERT ... ON CONFLICT (order_id, product_id) DO NOTHING: a row that is   *)
(* already there stays as it is, so of two lines for one product the first   *)
(* makes the row.                                                            *)
NewReservations(o, items) ==
  {[order |-> o, product |-> items[i].product, quantity |-> items[i].quantity,
    status |-> "reserved"] :
     i \in {i \in DOMAIN items :
              /\ \A j \in 1..i-1 : items[j].product # items[i].product
              /\ \A row \in reservations :
                   ~(row.order = o /\ row.product = items[i].product)}}

Remember(src, event) ==
  /\ outbox' = outbox \cup {event}
  /\ processed' = processed \cup {src.id}

(* Mutants of ReserveForOrder: processed_events is not read; the rows are   *)
(* inserted by the loop that looks at the lines, and a refusal commits them.*)
ReserveForOrderAgain(src) ==
  /\ src.type = "order.created"
  /\ \/ /\ LinesAvailable(src.items)
        /\ DemandFits(src.items)
        /\ available' = [p \in Stocked |-> available[p] - Demand(src.items, p)]
        /\ reserved' = [p \in Stocked |-> reserved[p] + Demand(src.items, p)]
        /\ reservations' = reservations \cup NewReservations(src.order, src.items)
        /\ Remember(src, FollowUp(src, "inventory", "inventory.reserved", src.items))
     \/ /\ ~LinesAvailable(src.items)
        /\ Remember(src, FollowUp(src, "inventory", "inventory.rejected", <<>>))
        /\ UNCHANGED <<available, reserved, reservations>>

ReserveForOrderOneLoop(src) ==
  /\ src.type = "order.created"
  /\ \/ /\ src.id \in processed
        /\ UNCHANGED vars
     \/ /\ src.id \notin processed
        /\ LinesAvailable(src.items)
        /\ DemandFits(src.items)
        /\ available' = [p \in Stocked |-> available[p] - Demand(src.items, p)]
        /\ reserved' = [p \in Stocked |-> reserved[p] + Demand(src.items, p)]
        /\ reservations' = reservations \cup NewReservations(src.order, src.items)
        /\ Remember(src, FollowUp(src, "inventory", "inventory.reserved", src.items))
     \/ /\ src.id \notin processed
        /\ ~LinesAvailable(src.items)
        /\ reservations' = reservations \cup
             NewReservations(src.order,
                             SelectSeq(src.items, LAMBDA item : LinesAvailable(<<item>>)))
        /\ Remember(src, FollowUp(src, "inventory", "inventory.rejected", <<>>))
        /\ UNCHANGED <<available, reserved>>

(* order.created *)
ReserveForOrder(src) ==
  /\ src.type = "order.created"
  /\ \/ /\ src.id \in processed
        /\ UNCHANGED vars
     \/ /\ src.id \notin processed
        /\ LinesAvailable(src.items)
        /\ DemandFits(src.items)
        /\ available' = [p \in Stocked |-> available[p] - Demand(src.items, p)]
        /\ reserved' = [p \in Stocked |-> reserved[p] + Demand(src.items, p)]
        /\ reservations' = reservations \cup NewReservations(src.order, src.items)
        /\ Remember(src, FollowUp(src, "inventory", "inventory.reserved", src.items))
     \/ /\ src.id \notin processed
        /\ ~LinesAvailable(src.items)
        /\ Remember(src, FollowUp(src, "inventory", "inventory.rejected", <<>>))
        /\ UNCHANGED <<available, reserved, reservations>>

(* Every line fits alone but not all together: the CHECK fails an UPDATE.  *)
ReserveFails(src) ==
  /\ src.type = "order.created"
  /\ src.id \notin processed
  /\ LinesAvailable(src.items)
  /\ ~DemandFits(src.items)

HeldRows(o) == {row \in reservations : row.order = o /\ row.status = "reserved"}

(* At most one row for each product: inventory_reservations' primary key. *)
HeldQuantity(o, p) ==
  LET rows == {row \in HeldRows(o) : row.product = p}
  IN  IF rows = {} THEN 0 ELSE (CHOOSE row \in rows : TRUE).quantity

(* Mutants of ReleaseForOrder: reserved_quantity is not lowered; the rows   *)
(* stay reserved; every status event releases.                              *)
ReleaseOnlyAvailable(src) ==
  /\ src.type = "order.cancelled"
  /\ src.id \notin processed
  /\ available' = [p \in Stocked |-> available[p] + HeldQuantity(src.order, p)]
  /\ reservations' = (reservations \ HeldRows(src.order))
       \cup {[row EXCEPT !.status = "released"] : row \in HeldRows(src.order)}
  /\ Remember(src, FollowUp(src, "inventory-release", "inventory.released", <<>>))
  /\ UNCHANGED reserved

ReleaseKeepsRows(src) ==
  /\ src.type = "order.cancelled"
  /\ src.id \notin processed
  /\ available' = [p \in Stocked |-> available[p] + HeldQuantity(src.order, p)]
  /\ reserved' = [p \in Stocked |-> reserved[p] - HeldQuantity(src.order, p)]
  /\ Remember(src, FollowUp(src, "inventory-release", "inventory.released", <<>>))
  /\ UNCHANGED reservations

ReleaseOnAnyStatus(src) ==
  /\ src.type \in {"order.confirmed", "order.cancelled"}
  /\ src.id \notin processed
  /\ available' = [p \in Stocked |-> available[p] + HeldQuantity(src.order, p)]
  /\ reserved' = [p \in Stocked |-> reserved[p] - HeldQuantity(src.order, p)]
  /\ reservations' = (reservations \ HeldRows(src.order))
       \cup {[row EXCEPT !.status = "released"] : row \in HeldRows(src.order)}
  /\ Remember(src, FollowUp(src, "inventory-release", "inventory.released", <<>>))

(* order.cancelled *)
ReleaseForOrder(src) ==
  /\ src.type = "order.cancelled"
  /\ \/ /\ src.id \in processed
        /\ UNCHANGED vars
     \/ /\ src.id \notin processed
        /\ HeldRows(src.order) = {}
        /\ processed' = processed \cup {src.id}
        /\ UNCHANGED <<available, reserved, reservations, outbox>>
     \/ /\ src.id \notin processed
        /\ HeldRows(src.order) # {}
        /\ \A row \in HeldRows(src.order) : reserved[row.product] >= row.quantity
        /\ available' = [p \in Stocked |-> available[p] + HeldQuantity(src.order, p)]
        /\ reserved' = [p \in Stocked |-> reserved[p] - HeldQuantity(src.order, p)]
        /\ reservations' = (reservations \ HeldRows(src.order))
             \cup {[row EXCEPT !.status = "released"] : row \in HeldRows(src.order)}
        /\ Remember(src, FollowUp(src, "inventory-release", "inventory.released", <<>>))

(* "cannot release": the conditional UPDATE changes no row. *)
ReleaseFails(src) ==
  /\ src.type = "order.cancelled"
  /\ src.id \notin processed
  /\ \E row \in HeldRows(src.order) : reserved[row.product] < row.quantity

(* Mutant of HandleEvent: order.cancelled falls into the default case.      *)
HandleOnlyCreated(src) ==
  \/ ReserveForOrder(src)
  \/ /\ src.type # "order.created"
     /\ UNCHANGED vars

(* HandleEvent returning nil; other types are accepted and ignored. *)
HandleEvent(src) ==
  \/ ReserveForOrder(src)
  \/ ReleaseForOrder(src)
  \/ /\ src.type \notin {"order.created", "order.cancelled"}
     /\ UNCHANGED vars

HandleEventFails(src) == ReserveFails(src) \/ ReleaseFails(src)

-----------------------------------------------------------------------------
(* The environment of the service when it is checked alone. *)
CancelledEvent(o) ==
  [id |-> <<o, "created", "inventory", "payment", "order">>,
   type |-> "order.cancelled", order |-> o, items |-> <<>>]

WasReserved(o) == \E e \in outbox : e.order = o /\ e.type = "inventory.reserved"

Next ==
  \E o \in Orders :
    \/ ReserveForOrder(CreatedEvent(o, Basket[o]))
    \/ WasReserved(o) /\ ReleaseForOrder(CancelledEvent(o))

Spec == Init /\ [][Next]_vars

-----------------------------------------------------------------------------
Reservation ==
  [order : Orders, product : Stocked, quantity : Nat \ {0},
   status : {"reserved", "released"}]

TypeOK ==
  /\ available \in [Stocked -> Nat]
  /\ reserved \in [Stocked -> Nat]
  /\ reservations \subseteq Reservation

(* No unit of stock appears or disappears: what is available and what is    *)
(* reserved add up to the seed, whatever is reserved, refused, released or  *)
(* delivered twice.                                                         *)
StockConserved == \A p \in Stocked : available[p] + reserved[p] = Stock[p]

(* The reservation rows account for every reserved unit, so that a          *)
(* cancellation gives back exactly what the order took:                     *)
(* inventory-service/README.md:15 "records item quantities per order so     *)
(* cancellation can restore stock exactly once".                            *)
RowsAccountForReserved ==
  \A p \in Stocked :
    reserved[p] = SumFunction([o \in Orders |-> HeldQuantity(o, p)])

RowsOf(o) == {row \in reservations : row.order = o}

Said(o, type) == {e \in outbox : e.order = o /\ e.type = type}

(* What the service tells the others is what its rows say.  An order is     *)
(* answered once its order.created is processed, and once only, reserved or *)
(* rejected.  A rejected order, and one not answered yet, has no rows; a    *)
(* reserved one has a row for the product of every line, each with the      *)
(* quantity of a line of its basket.  The rows are released, all of them,   *)
(* exactly when inventory.released was announced.                           *)
AnswersMatchRows ==
  \A o \in Orders :
    LET answers == Said(o, "inventory.reserved") \cup Said(o, "inventory.rejected") IN
    /\ answers # {} <=> CreatedEvent(o, Basket[o]).id \in processed
    /\ \A e, f \in answers : e = f
    /\ Said(o, "inventory.reserved") = {} => RowsOf(o) = {}
    /\ Said(o, "inventory.reserved") # {} =>
         \A i \in DOMAIN Basket[o] : \E row \in RowsOf(o) : row.product = Basket[o][i].product
    /\ \A row \in RowsOf(o) :
         /\ \E i \in DOMAIN Basket[o] :
              row.product = Basket[o][i].product /\ row.quantity = Basket[o][i].quantity
         /\ row.status = IF Said(o, "inventory.released") # {} THEN "released" ELSE "reserved"
    /\ Said(o, "inventory.released") # {} => RowsOf(o) # {}

(* A cancellation that was handled leaves nothing of the order reserved,    *)
(* and order.created, delivered again, does not take the stock a second     *)
(* time.                                                                    *)
CancelledHoldsNothing ==
  \A o \in Orders : CancelledEvent(o).id \in processed => HeldRows(o) = {}

(* The ledger an order sees.  Its basket names a product at most once: with *)
(* two lines for one product, RowsAccountForReserved fails and so does      *)
(* this.                                                                    *)
Claim(o) ==
  CASE \E row \in reservations : row.order = o /\ row.status = "released" -> "freed"
    [] HeldRows(o) # {} -> "held"
    [] \E e \in outbox : e.order = o /\ e.type = "inventory.rejected" -> "refused"
    [] OTHER -> "none"

BasketWant(o) == [p \in Products |-> Demand(Basket[o], p)]

Ledger == INSTANCE StockLedger WITH
            Want <- [o \in Orders |-> BasketWant(o)],
            claim <- [o \in Orders |-> Claim(o)]
LedgerSpec == Ledger!LedgerSpec
=============================================================================
