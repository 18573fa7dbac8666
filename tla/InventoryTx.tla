---------------------------- MODULE InventoryTx ----------------------------
(***************************************************************************)
(* The two transactions of InventoryRepository, statement by statement, in *)
(* the replicas of the inventory service: what InventoryService takes as   *)
(* one step.  PostgreSQL runs them READ COMMITTED.                         *)
(*                                                                         *)
(*   - A row read FOR UPDATE, or updated, is locked until the transaction  *)
(*     ends; who needs it waits, and then sees the row as committed.       *)
(*   - An INSERT waits while another transaction has inserted the same     *)
(*     unique key, and fails if that one commits.                          *)
(*   - One transaction of a cycle of waits is aborted.                     *)
(*                                                                         *)
(* What a transaction writes stays in tx[r] until it commits; every row of *)
(* inventory it writes is locked by it.  BEGIN and the look at             *)
(* processed_events are one step, and so are the last INSERT and COMMIT;   *)
(* of two UPDATE and INSERT statements on one line, only the first can     *)
(* wait or fail.                                                           *)
(***************************************************************************)
EXTENDS Integers, FiniteSets, SequencesExt, Events

CONSTANTS
  Orders, Products, Stock, Basket,
  Position,      \* the order of product_id in the database's collation
  Replicas,      \* replicas of the service, each handling one event at a time
  NoReplica

ASSUME OrdersAssumption == IsFiniteSet(Orders)
ASSUME StockAssumption == \E S \in SUBSET Products : Stock \in [S -> Nat]

(* The order service refuses an order without items and a quantity that is  *)
(* not positive.                                                            *)
ASSUME BasketAssumption ==
  Basket \in [Orders -> Seq([product : Products, quantity : Nat \ {0}, price : Nat]) \ {<<>>}]

ASSUME PositionAssumption ==
  /\ Position \in [Products -> Nat] /\ IsInjective(Position)
  /\ IsFiniteSet(Replicas) /\ NoReplica \notin Replicas

VARIABLES
  available, reserved, reservations, processed, outbox,   \* committed tables
  tx,            \* the transaction each replica has open
  lock           \* the replica that has locked each row of inventory

tables == <<available, reserved, reservations, processed, outbox>>
vars == <<tables, tx, lock>>

Svc == INSTANCE InventoryService
Stocked == DOMAIN Stock

Idle ==
  [src |-> [id |-> <<>>, type |-> "none"], pc |-> "idle", line |-> 1,
   moved |-> [p \in Stocked |-> 0],      \* from available to reserved
   rows |-> {},                          \* reservations made or given back
   todo |-> {},                          \* reservations still to be given back
   answer |-> "none"]

Init ==
  /\ Svc!Init
  /\ tx = [r \in Replicas |-> Idle]
  /\ lock = [p \in Stocked |-> NoReplica]

-----------------------------------------------------------------------------
Open(r) == tx[r].pc # "idle"

Line(r) == tx[r].src.items[tx[r].line]

(* UPDATE ... in the order of SELECT ... ORDER BY product_id *)
NextRow(r) ==
  CHOOSE row \in tx[r].todo :
    \A other \in tx[r].todo : Position[row.product] <= Position[other.product]

(* Whom a replica's next statement waits for. *)
RowHolder(r, p) == {lock[p]} \ {NoReplica, r}

Blockers(r) ==
  CASE tx[r].pc = "lock" ->
         IF Line(r).product \in Stocked THEN RowHolder(r, Line(r).product) ELSE {}
    [] tx[r].pc = "select" ->
         {q \in Replicas \ {r} : tx[q].src.type = "order.cancelled" /\ tx[q].rows # {}
                                   /\ tx[q].src.order = tx[r].src.order}
    [] tx[r].pc = "giveback" -> RowHolder(r, NextRow(r).product)
    [] tx[r].pc = "outbox" ->
         {q \in Replicas \ {r} : tx[q].pc = "finish" /\ tx[q].answer # "none"
                                   /\ tx[q].src.id = tx[r].src.id}
    [] OTHER -> {}

At(r, pc) == tx[r].pc = pc /\ Blockers(r) = {}

(* Every line is looked at in turn, and then the next loop starts. *)
AfterLine(r, loop) ==
  IF tx[r].line < Len(tx[r].src.items)
  THEN [tx[r] EXCEPT !.line = @ + 1]
  ELSE [tx[r] EXCEPT !.line = 1, !.pc = loop]

(* HandleEvent calls ReserveForOrder or ReleaseForOrder; an event that was  *)
(* processed ends at once and changes nothing.                              *)
Begin(r, src) ==
  /\ ~Open(r)
  /\ \/ src.id \in processed /\ UNCHANGED tx
     \/ /\ src.id \notin processed
        /\ tx' = [tx EXCEPT ![r] =
                    [Idle EXCEPT !.src = src,
                                 !.pc = IF src.type = "order.created" THEN "lock" ELSE "select"]]
  /\ UNCHANGED <<tables, lock>>

Reject(r) == tx' = [tx EXCEPT ![r].answer = "inventory.rejected", ![r].pc = "outbox"]

(* Mutants of LockLine: the row is read without FOR UPDATE; one loop both   *)
(* looks at the lines and takes them.                                       *)
ReadLine(r) ==
  /\ At(r, "lock")
  /\ UNCHANGED <<tables, lock>>
  /\ IF Line(r).product \in Stocked /\ Line(r).quantity <= available[Line(r).product]
     THEN tx' = [tx EXCEPT ![r] = AfterLine(r, "update")]
     ELSE Reject(r)

TakeLine(r) ==
  LET p == Line(r).product IN
  /\ At(r, "lock")
  /\ UNCHANGED tables
  /\ \/ /\ p \in Stocked /\ Line(r).quantity <= available[p] - tx[r].moved[p]
        /\ lock' = [lock EXCEPT ![p] = r]
        /\ tx' = [tx EXCEPT ![r] =
                    [AfterLine(r, "outbox") EXCEPT !.moved[p] = @ + Line(r).quantity,
                                                   !.answer = "inventory.reserved"]]
     \/ /\ p \in Stocked => Line(r).quantity > available[p] - tx[r].moved[p]
        /\ Reject(r) /\ UNCHANGED lock

(* SELECT available_quantity ... FOR UPDATE *)
LockLine(r) ==
  /\ At(r, "lock")
  /\ UNCHANGED tables
  /\ \/ Line(r).product \notin Stocked /\ Reject(r) /\ UNCHANGED lock
     \/ /\ Line(r).product \in Stocked
        /\ lock' = [lock EXCEPT ![Line(r).product] = r]
        /\ IF Line(r).quantity <= available[Line(r).product]
           THEN tx' = [tx EXCEPT ![r] = AfterLine(r, "update")]
           ELSE Reject(r)

(* Mutant of CheckHolds: the table without the CHECK.                       *)
CheckMissing(r) == TRUE

(* CHECK (available_quantity >= 0), on what the UPDATE would leave. *)
CheckHolds(r) ==
  LET p == Line(r).product IN available[p] - tx[r].moved[p] >= Line(r).quantity

(* UPDATE inventory, and INSERT INTO inventory_reservations ... ON CONFLICT *)
(* DO NOTHING.                                                              *)
UpdateLine(r) ==
  LET o == tx[r].src.order
      p == Line(r).product
      row == [order |-> o, product |-> p, quantity |-> Line(r).quantity, status |-> "reserved"]
      conflict == \E other \in reservations \cup tx[r].rows :
                    other.order = o /\ other.product = p
  IN  /\ At(r, "update") /\ CheckHolds(r)
      /\ tx' = [tx EXCEPT ![r] =
                  [AfterLine(r, "outbox") EXCEPT
                     !.moved[p] = @ + Line(r).quantity,
                     !.rows = IF conflict THEN @ ELSE @ \cup {row},
                     !.answer = "inventory.reserved"]]
      /\ UNCHANGED <<tables, lock>>

(* SELECT ... FROM inventory_reservations ... ORDER BY product_id FOR UPDATE *)
SelectRows(r) ==
  LET rows == Svc!HeldRows(tx[r].src.order)
  IN  /\ At(r, "select")
      /\ tx' = [tx EXCEPT ![r].rows = rows, ![r].todo = rows,
                          ![r].pc = IF rows = {} THEN "finish" ELSE "giveback"]
      /\ UNCHANGED <<tables, lock>>

(* Mutant of GiveBackRow: any row may come first.                           *)
GiveBackAnyRow(r) ==
  \E row \in tx[r].todo :
    /\ tx[r].pc = "giveback" /\ RowHolder(r, row.product) = {}
    /\ lock' = [lock EXCEPT ![row.product] = r]
    /\ tx' = [tx EXCEPT ![r].todo = @ \ {row},
                        ![r].moved[row.product] = @ - row.quantity,
                        ![r].answer = "inventory.released",
                        ![r].pc = IF tx[r].todo = {row} THEN "outbox" ELSE @]
    /\ UNCHANGED tables

Releasable(r) ==
  LET row == NextRow(r) IN reserved[row.product] + tx[r].moved[row.product] >= row.quantity

(* UPDATE inventory ... WHERE product_id=$1 AND reserved_quantity >= $2, *)
(* which locks the row.                                                  *)
GiveBackRow(r) ==
  LET row == NextRow(r)
  IN  /\ At(r, "giveback") /\ Releasable(r)
      /\ lock' = [lock EXCEPT ![row.product] = r]
      /\ tx' = [tx EXCEPT ![r].todo = @ \ {row},
                          ![r].moved[row.product] = @ - row.quantity,
                          ![r].answer = "inventory.released",
                          ![r].pc = IF tx[r].todo = {row} THEN "outbox" ELSE @]
      /\ UNCHANGED tables

Answer(r) ==
  LET src == tx[r].src IN
  CASE tx[r].answer = "inventory.released" ->
         FollowUp(src, "inventory-release", "inventory.released", <<>>)
    [] tx[r].answer = "inventory.reserved" ->
         FollowUp(src, "inventory", "inventory.reserved", src.items)
    [] tx[r].answer = "inventory.rejected" ->
         FollowUp(src, "inventory", "inventory.rejected", <<>>)

OutboxKeyTaken(r) == \E e \in outbox : e.id = Answer(r).id

InsertOutbox(r) ==
  /\ At(r, "outbox") /\ ~OutboxKeyTaken(r)
  /\ tx' = [tx EXCEPT ![r].pc = "finish"]
  /\ UNCHANGED <<tables, lock>>

Unlocked(r) == [p \in Stocked |-> IF lock[p] = r THEN NoReplica ELSE lock[p]]

(* INSERT INTO processed_events, COMMIT *)
Finish(r) ==
  LET t == tx[r] IN
  /\ At(r, "finish") /\ t.src.id \notin processed
  /\ available' = [p \in Stocked |-> available[p] - t.moved[p]]
  /\ reserved' = [p \in Stocked |-> reserved[p] + t.moved[p]]
  /\ reservations' =
       IF t.answer = "inventory.released"
       THEN (reservations \ t.rows) \cup {[row EXCEPT !.status = "released"] : row \in t.rows}
       ELSE reservations \cup t.rows
  /\ outbox' = IF t.answer = "none" THEN outbox ELSE outbox \cup {Answer(r)}
  /\ processed' = processed \cup {t.src.id}
  /\ tx' = [tx EXCEPT ![r] = Idle]
  /\ lock' = Unlocked(r)

(* Mutant of Rollback: the handler returns and leaves its transaction open. *)
ReturnWithoutRollback(r) ==
  /\ tx' = [tx EXCEPT ![r] = Idle]
  /\ UNCHANGED <<tables, lock>>

(* defer tx.Rollback(ctx) *)
Rollback(r) ==
  /\ tx' = [tx EXCEPT ![r] = Idle]
  /\ lock' = Unlocked(r)
  /\ UNCHANGED tables

(* A constraint refuses a statement, or the release finds no row. *)
StatementFails(r) ==
  /\ \/ At(r, "update") /\ ~CheckHolds(r)
     \/ At(r, "giveback") /\ ~Releasable(r)
     \/ At(r, "outbox") /\ OutboxKeyTaken(r)
     \/ At(r, "finish") /\ tx[r].src.id \in processed
  /\ Rollback(r)

(* Replicas that wait for one another in a circle. *)
Deadlocked(S) ==
  /\ S # {}
  /\ \A r \in S : Blockers(r) \cap S # {} /\ \E q \in S : r \in Blockers(q)

DeadlockVictim(r) ==
  /\ \E S \in SUBSET Replicas : r \in S /\ Deadlocked(S)
  /\ Rollback(r)

(* The connection breaks, or the process is stopped. *)
Abort(r) == Open(r) /\ Rollback(r)

Step(r) ==
  \/ LockLine(r) \/ UpdateLine(r)
  \/ SelectRows(r) \/ GiveBackRow(r)
  \/ InsertOutbox(r) \/ Finish(r)
  \/ StatementFails(r) \/ DeadlockVictim(r)

(* The events a consumer may hand to the service, as InventoryService has   *)
(* them: order.created, and order.cancelled of an order that was reserved.  *)
Deliverable ==
  {CreatedEvent(o, Basket[o]) : o \in Orders}
    \cup {Svc!CancelledEvent(o) : o \in {x \in Orders : Svc!WasReserved(x)}}

Next ==
  \E r \in Replicas :
    \/ \E src \in Deliverable : Begin(r, src)
    \/ Step(r)
    \/ Abort(r)

Spec == Init /\ [][Next]_vars

(* Statements return, and who waits for a row gets its turn: PostgreSQL     *)
(* queues the waiters of a lock.                                            *)
Fairness == \A r \in Replicas : SF_vars(Step(r))

FairSpec == Spec /\ Fairness

-----------------------------------------------------------------------------
TypeOK ==
  /\ Svc!TypeOK
  /\ \A r \in Replicas :
       /\ tx[r].pc \in {"idle", "lock", "update", "select", "giveback", "outbox", "finish"}
       /\ tx[r].moved \in [Stocked -> Int]
       /\ tx[r].rows \subseteq Svc!Reservation /\ tx[r].todo \subseteq tx[r].rows
  /\ lock \in [Stocked -> Replicas \cup {NoReplica}]

(* The interleaved statements amount to the one-step transactions of        *)
(* InventoryService: replicas that compete for stock, or handle the same    *)
(* event, cannot take stock twice, lose an update or answer twice.          *)
ServiceSpec == Svc!Spec

(* The stock the first loop of ReserveForOrder has seen is still there when *)
(* the second loop takes it, whatever other replicas do in between.         *)
StockSeenIsThere ==
  \A r \in Replicas :
    tx[r].pc = "update" =>
      \A i \in tx[r].line..Len(tx[r].src.items) :
        LET item == tx[r].src.items[i] IN
        (\A j \in DOMAIN tx[r].src.items \ {i} : tx[r].src.items[j].product # item.product)
          => item.quantity <= available[item.product]

(* Replicas wait for one another in a circle only when one of them reserves *)
(* a basket that does not name its products in the order in which a release *)
(* takes them.  The storefront's baskets do: it sends the cart as the cart  *)
(* service has sorted it.                                                   *)
InProductOrder(items) ==
  \A i, j \in DOMAIN items : i < j => Position[items[i].product] <= Position[items[j].product]

NoDeadlock ==
  \A S \in SUBSET Replicas :
    Deadlocked(S) =>
      \E r \in S : tx[r].src.type = "order.created" /\ ~InProductOrder(tx[r].src.items)

(* Every handler returns: no replica waits for ever, not even for baskets   *)
(* that do deadlock.                                                        *)
HandlersReturn == \A r \in Replicas : Open(r) ~> ~Open(r)
=============================================================================
