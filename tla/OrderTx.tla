------------------------------ MODULE OrderTx ------------------------------
(***************************************************************************)
(* The transactions of OrderRepository statement by statement, and the two *)
(* queries that read beside them, in the sessions the replicas of the      *)
(* order service have with PostgreSQL: what OrderService takes as one step. *)
(*                                                                         *)
(*   - What a transaction writes is seen by others when it commits; each   *)
(*     statement sees what was committed when it started (READ COMMITTED). *)
(*   - An INSERT waits while another transaction has inserted the same key. *)
(*   - A row read FOR UPDATE is locked until the transaction ends; who      *)
(*     waited for it sees it as committed.                                  *)
(*   - GetByID and ListByCustomer are several statements and no transaction. *)
(*                                                                         *)
(* Statements that follow one another and cannot wait are one step.  All   *)
(* orders are of one customer: queries of others never see them.           *)
(***************************************************************************)
EXTENDS Money, FiniteSets, Events

CONSTANTS
  Orders,        \* the random ids newID may return
  Basket,        \* the items of the request that becomes the order
  MaxAuthCents,  \* PAYMENT_MAX_AUTH_CENTS
  Sessions       \* connections in use at the same time

(* What the decoder of the request makes of it: a list of items, each with  *)
(* an integer for its quantity and one for its price.                       *)
ASSUME BasketAssumption ==
  \A o \in Orders :
    /\ Basket[o] \in Seq(Range(Basket[o]))
    /\ \A i \in DOMAIN Basket[o] : Basket[o][i].quantity \in Int /\ Basket[o][i].price \in Int

VARIABLES
  orders, totals, processed, outbox,    \* committed tables, as in OrderService
  items,         \* order_items
  session,       \* what each session is doing
  acked          \* orders whose POST was answered 201

tables == <<orders, totals, processed, outbox, items>>
vars == <<tables, session, acked>>

Svc == INSTANCE OrderService

Idle ==
  [pc |-> "idle", order |-> {}, line |-> 1,
   known |-> {},      \* orders the client had been told of when it asked
   rows |-> <<>>,     \* rows of orders a query has read
   lines |-> <<>>]    \* lines of those orders it has read

Init ==
  /\ Svc!Init
  /\ items = [o \in Orders |-> <<>>]
  /\ session = [s \in Sessions |-> Idle]
  /\ acked = {}

-----------------------------------------------------------------------------
Open(s) == session[s].pc # "idle"

Order(s) == CHOOSE o \in Orders : session[s].order = {o}
Lines(s) == Basket[Order(s)]

(* Whom a session's next statement waits for: an insert of the same order   *)
(* id, or the lock of the order's row.                                      *)
Holders(s, pcs) ==
  {q \in Sessions \ {s} : session[q].pc \in pcs /\ session[q].order = session[s].order}

Blockers(s) ==
  CASE session[s].pc = "insert" -> Holders(s, {"lines", "commit"})
    [] session[s].pc = "lock" -> Holders(s, {"settle", "ignore"})
    [] OTHER -> {}

At(s, pc) == session[s].pc = pc /\ Blockers(s) = {}

Goto(s, pc) == session' = [session EXCEPT ![s].pc = pc]
End(s) == session' = [session EXCEPT ![s] = Idle]
Start(s, o, pc) == session' = [session EXCEPT ![s] = [Idle EXCEPT !.pc = pc, !.order = {o}]]

(* POST /orders: CreateOrder checks the request and gives it a new id. *)
CreateOrder(s, o) ==
  /\ ~Open(s)
  /\ Svc!ValidRequest(Basket[o])
  /\ Start(s, o, "insert")
  /\ UNCHANGED <<tables, acked>>

(* Mutant of InsertOrder: statements without a transaction.                 *)
InsertOrderAtOnce(s) ==
  /\ At(s, "insert") /\ orders[Order(s)] = "none" /\ Total(Lines(s)) >= 0
  /\ orders' = [orders EXCEPT ![Order(s)] = "pending"]
  /\ totals' = [totals EXCEPT ![Order(s)] = Total(Lines(s))]
  /\ Goto(s, "lines")
  /\ UNCHANGED <<processed, outbox, items, acked>>

(* INSERT INTO orders, with its primary key and CHECK (total_cents >= 0). *)
InsertOrder(s) ==
  /\ At(s, "insert") /\ orders[Order(s)] = "none" /\ Total(Lines(s)) >= 0
  /\ Goto(s, "lines")
  /\ UNCHANGED <<tables, acked>>

(* Mutant of InsertLine: the loop ends one line early.                      *)
InsertLineButLast(s) ==
  /\ At(s, "lines") /\ FitsQuantity(Lines(s)[session[s].line].quantity)
  /\ session' = IF session[s].line >= Len(Lines(s)) - 1
                THEN [session EXCEPT ![s].pc = "commit"]
                ELSE [session EXCEPT ![s].line = @ + 1]
  /\ UNCHANGED <<tables, acked>>

(* INSERT INTO order_items, line by line. *)
InsertLine(s) ==
  /\ At(s, "lines") /\ FitsQuantity(Lines(s)[session[s].line].quantity)
  /\ session' = IF session[s].line = Len(Lines(s))
                THEN [session EXCEPT ![s].pc = "commit"]
                ELSE [session EXCEPT ![s].line = @ + 1]
  /\ UNCHANGED <<tables, acked>>

(* Mutant of CommitCreate: the event is not written with the order.         *)
CommitWithoutEvent(s) ==
  /\ At(s, "commit")
  /\ orders' = [orders EXCEPT ![Order(s)] = "pending"]
  /\ totals' = [totals EXCEPT ![Order(s)] = Total(Lines(s))]
  /\ items' = [items EXCEPT ![Order(s)] = SubSeq(Lines(s), 1, session[s].line)]
  /\ Goto(s, "created")
  /\ UNCHANGED <<processed, outbox, acked>>

(* INSERT INTO outbox_events, COMMIT: the order, the lines inserted so far  *)
(* and the event are there at once.                                         *)
CommitCreate(s) ==
  /\ At(s, "commit")
  /\ orders' = [orders EXCEPT ![Order(s)] = "pending"]
  /\ totals' = [totals EXCEPT ![Order(s)] = Total(Lines(s))]
  /\ items' = [items EXCEPT ![Order(s)] = SubSeq(Lines(s), 1, session[s].line)]
  /\ outbox' = outbox \cup {CreatedEvent(Order(s), Lines(s))}
  /\ Goto(s, "created")
  /\ UNCHANGED <<processed, acked>>

(* 201 Created reaches the client. *)
AnswerCreated(s) ==
  /\ At(s, "created")
  /\ acked' = acked \cup {Order(s)}
  /\ End(s)
  /\ UNCHANGED tables

-----------------------------------------------------------------------------
(* What the payment service answers for an order that was created: one      *)
(* event, on which the consumers of two replicas may work at once.          *)
PaymentEvent(o) ==
  [id |-> <<o, "created", "inventory", "payment">>, order |-> o, items |-> <<>>,
   type |-> IF ChargedAmount(Basket[o]) <= MaxAuthCents
            THEN "payment.authorized" ELSE "payment.failed"]

Event(s) == PaymentEvent(Order(s))

(* HandleEvent calls ApplyPaymentEvent; nothing changes when the event is   *)
(* already in processed_events.                                             *)
HandleEvent(s, o) ==
  /\ ~Open(s)
  /\ orders[o] # "none" /\ PaymentEvent(o).id \notin processed
  /\ Start(s, o, "lock")
  /\ UNCHANGED <<tables, acked>>

(* SELECT status ... FOR UPDATE *)
LockOrder(s) ==
  /\ At(s, "lock")
  /\ Goto(s, IF orders[Order(s)] = "pending" THEN "settle" ELSE "ignore")
  /\ UNCHANGED <<tables, acked>>

(* UPDATE orders, INSERT INTO outbox_events and processed_events, COMMIT *)
SettleOrder(s) ==
  /\ At(s, "settle") /\ Event(s).id \notin processed
  /\ orders' = [orders EXCEPT ![Order(s)] = Svc!NewStatus(Event(s))]
  /\ outbox' = outbox \cup {Svc!StatusEvent(Event(s))}
  /\ processed' = processed \cup {Event(s).id}
  /\ End(s)
  /\ UNCHANGED <<totals, items, acked>>

(* The order was settled since the event was looked up: INSERT INTO         *)
(* processed_events ... ON CONFLICT DO NOTHING, COMMIT.                     *)
IgnoreEvent(s) ==
  /\ At(s, "ignore")
  /\ processed' = processed \cup {Event(s).id}
  /\ End(s)
  /\ UNCHANGED <<orders, outbox, totals, items, acked>>

-----------------------------------------------------------------------------
(* A query starts with the rows of the orders it wants that are there.      *)
SelectOrders(s, wanted) ==
  LET found == {o \in wanted : orders[o] # "none"} IN
  /\ ~Open(s)
  /\ session' = [session EXCEPT ![s] =
       [Idle EXCEPT !.pc = IF found = {} THEN "answer" ELSE "items",
                    !.known = acked \cap wanted,
                    !.rows = [o \in found |-> [status |-> orders[o], total |-> totals[o]]]]]
  /\ UNCHANGED <<tables, acked>>

GetOrder(s, o) == SelectOrders(s, {o})
ListOrders(s) == SelectOrders(s, Orders)

Read(s) == DOMAIN session[s].lines
Unread(s) == DOMAIN session[s].rows \ Read(s)

(* The lines of the next order, in a statement of their own. *)
LoadItems(s) ==
  LET o == CHOOSE x \in Unread(s) : TRUE IN
  /\ At(s, "items")
  /\ session' = [session EXCEPT ![s] = [session[s] EXCEPT
       !.lines = [x \in Read(s) \cup {o} |-> IF x = o THEN items[o] ELSE session[s].lines[x]],
       !.pc = IF Unread(s) = {o} THEN "answer" ELSE "items"]]
  /\ UNCHANGED <<tables, acked>>

AnswerQuery(s) == At(s, "answer") /\ End(s) /\ UNCHANGED <<tables, acked>>

-----------------------------------------------------------------------------
(* A key that is taken, a negative total or a quantity out of range: the    *)
(* deferred Rollback leaves nothing behind.                                 *)
StatementFails(s) ==
  /\ \/ At(s, "insert") /\ (orders[Order(s)] # "none" \/ Total(Lines(s)) < 0)
     \/ At(s, "lines") /\ ~FitsQuantity(Lines(s)[session[s].line].quantity)
  /\ End(s)
  /\ UNCHANGED <<tables, acked>>

(* The connection breaks, or the client does not see the answer. *)
Abort(s) == Open(s) /\ End(s) /\ UNCHANGED <<tables, acked>>

Next ==
  \E s \in Sessions :
    \/ \E o \in Orders : CreateOrder(s, o) \/ HandleEvent(s, o) \/ GetOrder(s, o)
    \/ ListOrders(s)
    \/ InsertOrder(s) \/ InsertLine(s) \/ CommitCreate(s) \/ AnswerCreated(s)
    \/ LockOrder(s) \/ SettleOrder(s) \/ IgnoreEvent(s)
    \/ LoadItems(s) \/ AnswerQuery(s)
    \/ StatementFails(s) \/ Abort(s)

Spec == Init /\ [][Next]_vars

-----------------------------------------------------------------------------
TypeOK ==
  /\ orders \in [Orders -> {"none", "pending", "confirmed", "cancelled"}]
  /\ totals \in [Orders -> Cents]
  /\ \A o \in Orders : items[o] \in {<<>>, Basket[o]}
  /\ \A s \in Sessions :
       /\ session[s].pc \in {"idle", "insert", "lines", "commit", "created",
                             "lock", "settle", "ignore", "items", "answer"}
       /\ Read(s) \subseteq DOMAIN session[s].rows
       /\ DOMAIN session[s].rows \subseteq Orders
  /\ acked \subseteq Orders

(* The interleaved statements amount to the one-step transactions of        *)
(* OrderService: an order is stored with its total and its event or not at  *)
(* all, and two replicas that handle one payment event settle the order     *)
(* once.                                                                    *)
ServiceNext ==
  \E o \in Orders : Svc!CreateOrder(o) \/ Svc!HandleEvent(PaymentEvent(o))
ServiceSpec == Svc!Init /\ [][ServiceNext]_<<orders, totals, processed, outbox>>

(* What GetOrder and ListOrders answer, though read in several statements:  *)
(* every order the client had been told of is there, each with its own      *)
(* total and all its lines, and a status that is "pending" or still the     *)
(* order's, so that an outcome once shown is never taken back.              *)
AnswersAreTrue ==
  \A s \in Sessions : session[s].pc = "answer" =>
    /\ session[s].known \subseteq DOMAIN session[s].rows
    /\ \A o \in DOMAIN session[s].rows :
         /\ session[s].lines[o] = Basket[o]
         /\ session[s].rows[o].total = totals[o]
         /\ session[s].rows[o].status \in {"pending", orders[o]}

(* The payment service charges what the order service has stored.  Neither  *)
(* is negative, and it is what the items cost if that fits at all: a sum    *)
(* beyond the range is stored wrapped round unless it is negative.          *)
TotalIsCharged ==
  \A e \in outbox : e.type = "order.created" =>
    /\ totals[e.order] = ChargedAmount(e.items)
    /\ totals[e.order] >= 0
    /\ ExactTotal(e.items) \in Cents => totals[e.order] = ExactTotal(e.items)
=============================================================================
