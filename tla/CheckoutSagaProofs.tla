------------------------- MODULE CheckoutSagaProofs -------------------------
(***************************************************************************)
(* Proofs about CheckoutSaga, for any finite set of orders, any stock, any *)
(* baskets and any number of repeated messages and failing handlers.  What *)
(* the inventory service contributes is proved in InventoryServiceProofs.  *)
(***************************************************************************)
EXTENDS CheckoutSaga, FiniteSetTheorems, TLAPS

InvP == INSTANCE InventoryServiceProofs WITH processed <- invProcessed, outbox <- invOutbox

(* The events and rows there can be of an order.  Its basket decides how    *)
(* its payment turns out, and thereby the order.                            *)
Outcome(o) == IF Pay!Authorized(Basket[o]) THEN "confirmed" ELSE "cancelled"

Created(o) == InvP!Created(o)
Reserved(o) == InvP!ReservedEvent(o)
Cancelled(o) == InvP!CancelledEvent(o)

PaymentEvent(o) ==
  FollowUp(Reserved(o), "payment",
           IF Pay!Authorized(Basket[o]) THEN "payment.authorized" ELSE "payment.failed", <<>>)

SettledEvent(o) ==
  FollowUp(PaymentEvent(o), "order",
           IF Outcome(o) = "confirmed" THEN "order.confirmed" ELSE "order.cancelled", <<>>)

PaymentRow(o) ==
  [order |-> o, amount |-> Pay!ChargedAmount(Basket[o]),
   status |-> IF Pay!Authorized(Basket[o]) THEN "authorized" ELSE "failed"]

Note(o) == [source |-> SettledEvent(o).id, order |-> o, type |-> SettledEvent(o).type]

(* What each service knows of an order, and from whom. *)
OrderInv(o) ==
  /\ orders[o] \in {"none", "pending", Outcome(o)}
  /\ orders[o] # "none" => totals[o] = Ord!Total(Basket[o])
  /\ Created(o) \in ordOutbox <=> orders[o] # "none"
  /\ SettledEvent(o) \in ordOutbox <=> orders[o] = Outcome(o)
  /\ PaymentEvent(o).id \in ordProcessed <=> orders[o] = Outcome(o)
  /\ orders[o] = Outcome(o) => PaymentEvent(o) \in payOutbox

StockInv(o) ==
  /\ Reserved(o) \in invOutbox \/ InvP!RejectedEvent(o) \in invOutbox => orders[o] # "none"
  /\ Cancelled(o).id \in invProcessed => orders[o] = "cancelled"

PayInv(o) ==
  /\ PaymentEvent(o) \in payOutbox <=> PaymentRow(o) \in payments
  /\ Reserved(o).id \in payProcessed <=> PaymentRow(o) \in payments
  /\ PaymentRow(o) \in payments =>
       Reserved(o) \in invOutbox /\ Pay!ChargedAmount(Basket[o]) \in Nat

NoteInv(o) ==
  /\ SettledEvent(o).id \in ntfProcessed <=> Note(o) \in notifications
  /\ Note(o) \in notifications => orders[o] = Outcome(o)

OrdersInv == \A o \in Orders : OrderInv(o) /\ StockInv(o) /\ PayInv(o) /\ NoteInv(o)

(* There is nothing else. *)
Known ==
  /\ orders \in [Orders -> {"none", "pending", "confirmed", "cancelled"}]
  /\ totals \in [Orders -> Nat]
  /\ \A e \in ordOutbox : \E o \in Orders : e \in {Created(o), SettledEvent(o)}
  /\ \A e \in payOutbox : \E o \in Orders : e = PaymentEvent(o)
  /\ \A row \in payments : \E o \in Orders : row = PaymentRow(o)
  /\ \A note \in notifications : \E o \in Orders : note = Note(o)

(* The topics hold what the outboxes held, each event in its own partition. *)
SentFrom(t, o, e) == e \in Outbox /\ TopicOf(e.type) = t /\ e.order = o

EventsOf(o) ==
  {Created(o), SettledEvent(o), PaymentEvent(o),
   Reserved(o), InvP!RejectedEvent(o), InvP!ReleasedEvent(o)}

LogInv ==
  /\ log \in [Topics -> [Orders -> Seq(UNION {EventsOf(o) : o \in Orders})]]
  /\ \A t \in Topics, o \in Orders :
       \A i \in 1..Len(log[t][o]) : SentFrom(t, o, log[t][o][i])
  /\ next \in [Groups -> [Orders -> Nat]]
  /\ \A g \in Groups, o \in Orders : next[g][o] <= Len(log[Reads(g)][o])

IInv == Known /\ OrdersInv /\ InvP!IInv /\ LogInv

-----------------------------------------------------------------------------
(* The events of one order differ from each other and from those of others. *)
LEMMA EventFacts ==
  ASSUME NEW o
  PROVE  /\ Created(o).id = <<o, "created">>
         /\ Reserved(o).id = <<o, "created", "inventory">>
         /\ PaymentEvent(o).id = <<o, "created", "inventory", "payment">>
         /\ SettledEvent(o).id = <<o, "created", "inventory", "payment", "order">>
         /\ Cancelled(o).id = SettledEvent(o).id
         /\ Created(o).order = o /\ Reserved(o).order = o /\ PaymentEvent(o).order = o
         /\ Cancelled(o).order = o /\ Cancelled(o).type = "order.cancelled"
         /\ SettledEvent(o).order = o /\ InvP!RejectedEvent(o).order = o
         /\ InvP!ReleasedEvent(o).order = o /\ Note(o).order = o /\ PaymentRow(o).order = o
         /\ Created(o).type = "order.created" /\ Reserved(o).type = "inventory.reserved"
         /\ InvP!RejectedEvent(o).type = "inventory.rejected"
         /\ InvP!ReleasedEvent(o).type = "inventory.released"
         /\ PaymentEvent(o).type = IF Outcome(o) = "confirmed" THEN "payment.authorized"
                                   ELSE "payment.failed"
         /\ SettledEvent(o).type = IF Outcome(o) = "confirmed" THEN "order.confirmed"
                                   ELSE "order.cancelled"
         /\ Outcome(o) = "cancelled" => SettledEvent(o) = Cancelled(o)
         /\ Outcome(o) \in {"confirmed", "cancelled"}
         /\ Created(o).items = Basket[o] /\ Reserved(o).items = Basket[o]
<1>1. Created(o) = [id |-> <<o, "created">>, type |-> "order.created", order |-> o,
                    items |-> Basket[o]]
  BY DEF Created, InvP!Created, InvP!CreatedEvent
<1>2. Reserved(o) = [id |-> <<o, "created", "inventory">>, type |-> "inventory.reserved",
                     order |-> o, items |-> Basket[o]]
  BY <1>1 DEF Reserved, InvP!ReservedEvent, InvP!FollowUp, Created
<1>3. Cancelled(o) = [id |-> <<o, "created", "inventory", "payment", "order">>,
                      type |-> "order.cancelled", order |-> o, items |-> <<>>]
  BY DEF Cancelled, InvP!CancelledEvent
<1>4. Outcome(o) = "confirmed" <=> Pay!Authorized(Basket[o])
  BY DEF Outcome
<1>5. PaymentEvent(o) = [id |-> <<o, "created", "inventory", "payment">>,
                         type |-> IF Outcome(o) = "confirmed" THEN "payment.authorized"
                                  ELSE "payment.failed",
                         order |-> o, items |-> <<>>]
  BY <1>2, <1>4 DEF PaymentEvent, FollowUp
<1>6. SettledEvent(o) = [id |-> <<o, "created", "inventory", "payment", "order">>,
                         type |-> IF Outcome(o) = "confirmed" THEN "order.confirmed"
                                  ELSE "order.cancelled",
                         order |-> o, items |-> <<>>]
  BY <1>5 DEF SettledEvent, FollowUp
<1>7. /\ InvP!RejectedEvent(o).order = o /\ InvP!RejectedEvent(o).type = "inventory.rejected"
      /\ InvP!ReleasedEvent(o).order = o /\ InvP!ReleasedEvent(o).type = "inventory.released"
  BY <1>1, <1>3 DEF InvP!RejectedEvent, InvP!ReleasedEvent, InvP!FollowUp, Created, Cancelled
<1>8. Outcome(o) \in {"confirmed", "cancelled"}
  BY DEF Outcome
<1>. QED
  BY <1>1, <1>2, <1>3, <1>5, <1>6, <1>7, <1>8 DEF Note, PaymentRow

(* What is proved about the inventory service alone holds of the one that   *)
(* is part of the saga.                                                     *)
LEMMA FiniteOrders == InvP!IsFiniteSet(Orders)
BY OrdersAssumption DEF IsFiniteSet, InvP!IsFiniteSet

LEMMA InventoryKeeps ==
  ASSUME InvP!IInv, [InvP!Next]_invVars
  PROVE  InvP!IInv'
BY InvP!NextIInv, FiniteOrders, StockAssumption, BasketAssumption
   DEF InvP!NextIInv, InvP!vars, invVars

LEMMA InventoryStarts == Inv!Init => InvP!IInv
BY InvP!InitIInv, FiniteOrders, StockAssumption, BasketAssumption
   DEF InvP!InitIInv, InvP!Init, Inv!Init

LEMMA InventoryOthers ==
  ASSUME InvP!IInv, NEW o \in Orders,
         InvP!Reserve(o) \/ InvP!Reject(o) \/ InvP!Cancel(o) \/ InvP!Release(o),
         NEW q \in Orders, q # o
  PROVE  InvP!SameOrder(q)
BY InvP!OthersSame, FiniteOrders, StockAssumption, BasketAssumption DEF InvP!OthersSame

LEMMA InventoryClaims ==
  ASSUME InvP!IInv, NEW o \in Orders
  PROVE  InvP!Claim(o) = IF InvP!ReleasedEvent(o) \in invOutbox THEN "freed"
                         ELSE IF InvP!HeldRows(o) # {} THEN "held"
                         ELSE IF InvP!RejectedEvent(o) \in invOutbox THEN "refused" ELSE "none"
BY InvP!ClaimValue, FiniteOrders, StockAssumption, BasketAssumption
   DEF InvP!ClaimValue, InvP!ClaimsTold

-----------------------------------------------------------------------------
LEMMA IdsDiffer ==
  ASSUME NEW o, NEW q, o # q
  PROVE  /\ PaymentEvent(o).id # PaymentEvent(q).id /\ Reserved(o).id # Reserved(q).id
         /\ SettledEvent(o).id # SettledEvent(q).id
<1>1. \A x : /\ PaymentEvent(x).id[1] = x /\ Reserved(x).id[1] = x /\ SettledEvent(x).id[1] = x
  BY EventFacts
<1>. QED
  BY <1>1

(* Whose outbox an event is in, and whose order it is about, is seen in its *)
(* type and its order.                                                      *)
LEMMA OutboxFacts ==
  ASSUME Known, InvP!IInv, NEW e \in Outbox
  PROVE  /\ e.order \in Orders /\ e \in EventsOf(e.order) /\ TopicOf(e.type) \in Topics
         /\ TopicOf(e.type) = "orders" =>
              e \in ordOutbox /\ e \in {Created(e.order), SettledEvent(e.order)}
         /\ TopicOf(e.type) = "inventory" =>
              /\ e \in invOutbox
              /\ e \in {Reserved(e.order), InvP!RejectedEvent(e.order), InvP!ReleasedEvent(e.order)}
         /\ TopicOf(e.type) = "payments" => e \in payOutbox /\ e = PaymentEvent(e.order)
<1>1. ASSUME e \in ordOutbox
      PROVE  /\ e.order \in Orders /\ e \in {Created(e.order), SettledEvent(e.order)}
             /\ TopicOf(e.type) = "orders"
  <2>1. PICK o \in Orders : e \in {Created(o), SettledEvent(o)}
    BY <1>1 DEF Known
  <2>2. e.order = o /\ e.type \in {"order.created", "order.confirmed", "order.cancelled"}
    BY <2>1, EventFacts
  <2>. QED
    BY <2>1, <2>2 DEF TopicOf
<1>2. ASSUME e \in invOutbox
      PROVE  /\ e.order \in Orders
             /\ e \in {Reserved(e.order), InvP!RejectedEvent(e.order), InvP!ReleasedEvent(e.order)}
             /\ TopicOf(e.type) = "inventory"
  <2>1. PICK o \in Orders : e \in {Reserved(o), InvP!RejectedEvent(o), InvP!ReleasedEvent(o)}
    BY <1>2 DEF InvP!IInv, InvP!OutboxKnown, Reserved
  <2>2. e.order = o /\ e.type \in {"inventory.reserved", "inventory.rejected", "inventory.released"}
    BY <2>1, EventFacts
  <2>3. TopicOf(e.type) = "inventory"
    BY <2>2 DEF TopicOf
  <2>. QED
    BY <2>1, <2>2, <2>3
<1>3. ASSUME e \in payOutbox
      PROVE  e.order \in Orders /\ e = PaymentEvent(e.order) /\ TopicOf(e.type) = "payments"
  <2>1. PICK o \in Orders : e = PaymentEvent(o)
    BY <1>3 DEF Known
  <2>2. e.order = o /\ e.type \in {"payment.authorized", "payment.failed"}
    BY <2>1, EventFacts
  <2>3. TopicOf(e.type) = "payments"
    BY <2>2 DEF TopicOf
  <2>. QED
    BY <2>1, <2>2, <2>3
<1>. QED
  BY <1>1, <1>2, <1>3 DEF Outbox, EventsOf, Topics

(* What a group can fetch about an order. *)
LEMMA MessageFacts ==
  ASSUME IInv, NEW g \in Groups, NEW o \in Orders, HasMessage(g, o)
  PROVE  /\ Reads(g) = "orders" =>
              Message(g, o) \in ordOutbox /\ Message(g, o) \in {Created(o), SettledEvent(o)}
         /\ Reads(g) = "inventory" =>
              /\ Message(g, o) \in invOutbox
              /\ Message(g, o) \in {Reserved(o), InvP!RejectedEvent(o), InvP!ReleasedEvent(o)}
         /\ Reads(g) = "payments" =>
              Message(g, o) \in payOutbox /\ Message(g, o) = PaymentEvent(o)
<1>. DEFINE t == Reads(g)
            e == Message(g, o)
<1>1. t \in Topics
  BY DEF Groups, Reads, Topics
<1>2. SentFrom(t, o, e)
  <2>1. next[g][o] \in Nat /\ next[g][o] < Len(log[t][o]) /\ Len(log[t][o]) \in Nat
    BY <1>1 DEF IInv, LogInv, HasMessage
  <2>2. next[g][o] + 1 \in 1..Len(log[t][o])
    BY <2>1
  <2>3. \A i \in 1..Len(log[t][o]) : SentFrom(t, o, log[t][o][i])
    BY <1>1 DEF IInv, LogInv
  <2>. QED
    BY <2>2, <2>3 DEF Message
<1>. HIDE DEF e, t
<1>. QED
  BY <1>2, OutboxFacts DEF IInv, SentFrom, e, t

-----------------------------------------------------------------------------
(* What the steps of the saga do to the services: an order is placed, its   *)
(* stock moves, it is paid or not, it is settled, its customer is told.     *)
svcVars == <<ordVars, invVars, payVars, ntfVars>>

PlaceStep(o) ==
  /\ orders[o] = "none" /\ Ord!Total(Basket[o]) \in Nat
  /\ orders' = [orders EXCEPT ![o] = "pending"]
  /\ totals' = [totals EXCEPT ![o] = Ord!Total(Basket[o])]
  /\ ordOutbox' = ordOutbox \cup {Created(o)}
  /\ UNCHANGED <<ordProcessed, invVars, payVars, ntfVars>>

StockStep(o) ==
  /\ \/ (InvP!Reserve(o) \/ InvP!Reject(o)) /\ orders[o] # "none"
     \/ InvP!Release(o) /\ orders[o] = "cancelled"
  /\ UNCHANGED <<ordVars, payVars, ntfVars>>

PayStep(o) ==
  /\ Reserved(o) \in invOutbox /\ PaymentRow(o) \notin payments
  /\ Pay!ChargedAmount(Basket[o]) \in Nat
  /\ payments' = payments \cup {PaymentRow(o)}
  /\ payOutbox' = payOutbox \cup {PaymentEvent(o)}
  /\ payProcessed' = payProcessed \cup {Reserved(o).id}
  /\ UNCHANGED <<ordVars, invVars, ntfVars>>

SettleStep(o) ==
  /\ orders[o] = "pending" /\ PaymentEvent(o) \in payOutbox
  /\ orders' = [orders EXCEPT ![o] = Outcome(o)]
  /\ ordOutbox' = ordOutbox \cup {SettledEvent(o)}
  /\ ordProcessed' = ordProcessed \cup {PaymentEvent(o).id}
  /\ UNCHANGED <<totals, invVars, payVars, ntfVars>>

TellStep(o) ==
  /\ orders[o] = Outcome(o) /\ Note(o) \notin notifications
  /\ notifications' = notifications \cup {Note(o)}
  /\ ntfProcessed' = ntfProcessed \cup {SettledEvent(o).id}
  /\ UNCHANGED <<ordVars, invVars, payVars>>

ServiceStep(o) ==
  PlaceStep(o) \/ StockStep(o) \/ PayStep(o) \/ SettleStep(o) \/ TellStep(o)

LEMMA CreateOrderStep ==
  ASSUME NEW o \in Orders, CreateOrder(o)
  PROVE  PlaceStep(o) /\ UNCHANGED <<log, next>>
BY DEF CreateOrder, Ord!CreateOrder, Ord!Storable, Ord!CreatedEvent, PlaceStep, Created, InvP!Created,
       InvP!CreatedEvent

(* The order service and the payment service add up the same sum. *)
LEMMA SameSum ==
  ASSUME NEW items
  PROVE  Ord!Total(items) = Pay!ChargedAmount(items)
BY DEF Ord!Total, Ord!Wrap, Ord!Price, Pay!ChargedAmount, Pay!Wrap, Pay!Price, Ord!FoldSeq,
       Pay!FoldSeq, Ord!FoldFunction, Pay!FoldFunction, Ord!FoldFunctionOnSet,
       Pay!FoldFunctionOnSet, Ord!MapThenFoldSet, Pay!MapThenFoldSet

(* The demand of a basket is the same in both instances. *)
LEMMA DemandSame ==
  ASSUME NEW items, NEW p
  PROVE  Inv!Demand(items, p) = InvP!Demand(items, p)
BY DEF Inv!Demand, InvP!Demand, Inv!FoldSeq, InvP!FoldSeq, Inv!FoldFunction, InvP!FoldFunction,
       Inv!FoldFunctionOnSet, InvP!FoldFunctionOnSet, Inv!MapThenFoldSet, InvP!MapThenFoldSet

(* An order that is placed is reserved or rejected once, and one that is    *)
(* cancelled gives its stock back once.                                     *)
LEMMA InventoryStep ==
  ASSUME IInv, NEW o \in Orders, InventoryRun(o)
  PROVE  StockStep(o) \/ UNCHANGED svcVars
<1>. DEFINE e == Message("inventory", o)
<1>0. Known /\ OrderInv(o) /\ PayInv(o) /\ InvP!IInv /\ InvP!History(o)
  BY DEF IInv, OrdersInv, InvP!IInv, InvP!Histories
<1>1. e \in ordOutbox /\ e \in {Created(o), SettledEvent(o)}
  BY MessageFacts DEF InventoryRun, Groups, Reads
<1>2. Inv!HandleEvent(e) \/ UNCHANGED invVars
  BY DEF InventoryRun
<1>3. UNCHANGED <<ordVars, payVars, ntfVars>>
  BY DEF InventoryRun
<1>. HIDE DEF e
<1>4. CASE e = Created(o) /\ Inv!ReserveForOrder(e)
  <2>1. InvP!ReserveForOrder(Created(o))
    <3>1. /\ Inv!LinesAvailable(e.items) <=> InvP!LinesAvailable(e.items)
          /\ Inv!DemandFits(e.items) <=> InvP!DemandFits(e.items)
          /\ Inv!NewReservations(e.order, e.items) = InvP!NewReservations(e.order, e.items)
          /\ \A p : Inv!Demand(e.items, p) = InvP!Demand(e.items, p)
      BY DemandSame DEF Inv!LinesAvailable, InvP!LinesAvailable, Inv!DemandFits, InvP!DemandFits,
         Inv!NewReservations, InvP!NewReservations, Inv!Stocked, InvP!Stocked
    <3>2. /\ Inv!FollowUp(e, "inventory", "inventory.reserved", e.items)
               = InvP!FollowUp(e, "inventory", "inventory.reserved", e.items)
          /\ Inv!FollowUp(e, "inventory", "inventory.rejected", <<>>)
               = InvP!FollowUp(e, "inventory", "inventory.rejected", <<>>)
      BY DEF Inv!FollowUp, InvP!FollowUp
    <3>. QED
      BY <1>4, <3>1, <3>2 DEF Inv!ReserveForOrder, InvP!ReserveForOrder, Inv!Remember,
         InvP!Remember, Inv!Stocked, InvP!Stocked, Inv!vars, InvP!vars
  <2>2. InvP!Reserve(o) \/ InvP!Reject(o) \/ UNCHANGED invVars
    BY <2>1, EventFacts DEF InvP!ReserveForOrder, InvP!Remember, InvP!Reserve, InvP!Reject,
       InvP!ReservedEvent, InvP!RejectedEvent, InvP!vars, invVars, Created
  <2>3. orders[o] # "none"
    BY <1>0, <1>1, <1>4 DEF OrderInv
  <2>. QED
    BY <1>3, <2>2, <2>3 DEF StockStep, svcVars
<1>5. CASE e = SettledEvent(o) /\ Inv!ReleaseForOrder(e)
  <2>1. Outcome(o) = "cancelled" /\ e = Cancelled(o)
    BY <1>5, EventFacts DEF Inv!ReleaseForOrder
  <2>2. orders[o] = "cancelled"
    BY <1>0, <1>1, <1>5, <2>1 DEF OrderInv
  <2>3. InvP!ReleaseForOrder(Cancelled(o))
    BY <1>5, <2>1 DEF Inv!ReleaseForOrder, InvP!ReleaseForOrder, Inv!HeldRows, InvP!HeldRows,
                Inv!HeldQuantity, InvP!HeldQuantity, Inv!Remember, InvP!Remember, Inv!Stocked,
                InvP!Stocked, Inv!vars, InvP!vars, Inv!FollowUp, InvP!FollowUp
  <2>4. CASE Cancelled(o).id \in invProcessed
    BY <1>3, <2>3, <2>4 DEF InvP!ReleaseForOrder, InvP!vars, svcVars, invVars
  <2>5. CASE Cancelled(o).id \notin invProcessed
    <3>1. Reserved(o) \in invOutbox
      BY <1>0, <2>1, <2>2 DEF OrderInv, PayInv
    <3>2. InvP!HeldRows(o) # {}
      <4>1. 1 \in DOMAIN Basket[o]
        BY BasketAssumption
      <4>. QED
        BY <1>0, <2>5, <3>1, <4>1 DEF InvP!IInv, InvP!LinesHeld, Reserved, Cancelled
    <3>3. InvP!WasReserved(o)
      BY <3>1, EventFacts DEF InvP!WasReserved
    <3>4. /\ Cancelled(o).order = o /\ Cancelled(o) = InvP!CancelledEvent(o)
          /\ InvP!ReleasedEvent(o) =
               InvP!FollowUp(Cancelled(o), "inventory-release", "inventory.released", <<>>)
      BY EventFacts DEF Cancelled, InvP!ReleasedEvent
    <3>5. InvP!Release(o)
      BY <2>3, <2>5, <3>2, <3>3, <3>4 DEF InvP!ReleaseForOrder, InvP!Remember, InvP!Release
    <3>. QED
      BY <1>3, <2>2, <3>5 DEF StockStep
  <2>. QED
    BY <2>4, <2>5
<1>6. CASE UNCHANGED invVars
  BY <1>3, <1>6 DEF svcVars
<1>. QED
  <2>1. Inv!HandleEvent(e) => Inv!ReserveForOrder(e) \/ Inv!ReleaseForOrder(e) \/ UNCHANGED invVars
    BY DEF Inv!HandleEvent, Inv!vars, invVars
  <2>2. Inv!ReserveForOrder(e) => e.type = "order.created"
    BY DEF Inv!ReserveForOrder
  <2>3. Inv!ReleaseForOrder(e) => e.type = "order.cancelled"
    BY DEF Inv!ReleaseForOrder
  <2>. QED
    BY <1>1, <1>2, <1>4, <1>5, <1>6, <2>1, <2>2, <2>3, EventFacts

(* A reserved order is paid, or refused for its amount, once. *)
LEMMA PaymentStep ==
  ASSUME IInv, NEW o \in Orders, PaymentRun(o)
  PROVE  PayStep(o) \/ UNCHANGED svcVars
<1>. DEFINE e == Message("payment", o)
<1>0. PayInv(o)
  BY DEF IInv, OrdersInv
<1>1. /\ e \in invOutbox
      /\ e \in {Reserved(o), InvP!RejectedEvent(o), InvP!ReleasedEvent(o)}
  BY MessageFacts DEF PaymentRun, Groups, Reads
<1>2. /\ (Pay!Wanted(e) /\ Pay!HandleEvent(e)) \/ UNCHANGED payVars
      /\ UNCHANGED <<ordVars, invVars, ntfVars>>
  BY DEF PaymentRun
<1>. HIDE DEF e
<1>3. CASE UNCHANGED payVars
  BY <1>2, <1>3 DEF svcVars
<1>4. CASE Pay!Wanted(e) /\ Pay!HandleEvent(e)
  <2>1. e = Reserved(o) /\ e.items = Basket[o] /\ e.order = o
    BY <1>1, <1>4, EventFacts DEF Pay!Wanted
  <2>2. CASE e.id \in payProcessed
    BY <1>2, <1>4, <2>2 DEF Pay!HandleEvent, Pay!ProcessPayment, Pay!vars, payVars, svcVars
  <2>3. CASE e.id \notin payProcessed
    <3>1. Pay!ProcessPayment(e)
      BY <1>4, <2>3 DEF Pay!HandleEvent
    <3>2. PaymentEvent(o) =
            Pay!FollowUp(e, "payment", IF Pay!Authorized(e.items) THEN "payment.authorized"
                                       ELSE "payment.failed", <<>>)
      BY <2>1 DEF PaymentEvent, FollowUp, Pay!FollowUp
    <3>3. PaymentRow(o) = [order |-> e.order, amount |-> Pay!ChargedAmount(e.items),
                           status |-> IF Pay!Authorized(e.items) THEN "authorized" ELSE "failed"]
      BY <2>1 DEF PaymentRow
    <3>4. /\ payments' = payments \cup {PaymentRow(o)}
          /\ payOutbox' = payOutbox \cup {PaymentEvent(o)}
          /\ payProcessed' = payProcessed \cup {Reserved(o).id}
      BY <2>1, <3>1, <3>2, <3>3 DEF Pay!ProcessPayment
    <3>5. Pay!ChargedAmount(Basket[o]) \in Nat
      BY <2>1, <3>1 DEF Pay!ProcessPayment, Pay!Acceptable
    <3>6. Reserved(o) \in invOutbox /\ PaymentRow(o) \notin payments
      BY <1>0, <1>1, <2>1, <2>3 DEF PayInv
    <3>. QED
      BY <1>2, <3>4, <3>5, <3>6 DEF PayStep
  <2>. QED
    BY <2>2, <2>3
<1>. QED
  BY <1>2, <1>3, <1>4

(* The first answer of the payment service settles the order. *)
LEMMA OrderStep ==
  ASSUME IInv, NEW o \in Orders, OrderRun(o)
  PROVE  SettleStep(o) \/ UNCHANGED svcVars
<1>. DEFINE e == Message("order", o)
<1>0. OrderInv(o)
  BY DEF IInv, OrdersInv
<1>1. e \in payOutbox /\ e = PaymentEvent(o)
  BY MessageFacts DEF OrderRun, Groups, Reads
<1>2. /\ Ord!ApplyPaymentEvent(e) \/ UNCHANGED ordVars
      /\ UNCHANGED <<invVars, payVars, ntfVars>>
  BY DEF OrderRun, Ord!HandleEvent
<1>. HIDE DEF e
<1>3. e.order = o
  BY <1>1, EventFacts
<1>4. CASE UNCHANGED ordVars
  BY <1>2, <1>4 DEF svcVars
<1>5. CASE Ord!ApplyPaymentEvent(e)
  <2>1. CASE e.id \in ordProcessed
    BY <1>2, <1>5, <2>1 DEF Ord!ApplyPaymentEvent, Ord!vars, ordVars, svcVars
  <2>2. CASE e.id \notin ordProcessed
    <3>1. orders[o] \in {"none", "pending"}
      BY <1>0, <1>1, <2>2 DEF OrderInv
    <3>2. /\ orders[o] = "pending"
          /\ orders' = [orders EXCEPT ![o] = Ord!NewStatus(e)]
          /\ ordOutbox' = ordOutbox \cup {Ord!StatusEvent(e)}
          /\ ordProcessed' = ordProcessed \cup {e.id}
          /\ UNCHANGED totals
      BY <1>3, <1>5, <2>2, <3>1 DEF Ord!ApplyPaymentEvent
    <3>3. Ord!NewStatus(e) = Outcome(o)
      BY <1>1, EventFacts DEF Ord!NewStatus
    <3>4. Ord!StatusEvent(e) = SettledEvent(o)
      BY <1>1, <3>3 DEF Ord!StatusEvent, SettledEvent, Ord!FollowUp, FollowUp
    <3>. QED
      BY <1>1, <1>2, <3>2, <3>3, <3>4 DEF SettleStep
  <2>. QED
    BY <2>1, <2>2
<1>. QED
  BY <1>2, <1>4, <1>5

(* A settled order is told of once. *)
LEMMA NotificationStep ==
  ASSUME IInv, NEW o \in Orders, NotificationRun(o)
  PROVE  TellStep(o) \/ UNCHANGED svcVars
<1>. DEFINE e == Message("notification", o)
<1>0. OrderInv(o) /\ NoteInv(o)
  BY DEF IInv, OrdersInv
<1>1. e \in ordOutbox /\ e \in {Created(o), SettledEvent(o)}
  BY MessageFacts DEF NotificationRun, Groups, Reads
<1>2. Ntf!HandleEvent(e) /\ UNCHANGED <<ordVars, invVars, payVars>>
  BY DEF NotificationRun
<1>. HIDE DEF e
<1>3. CASE UNCHANGED ntfVars
  BY <1>2, <1>3 DEF svcVars
<1>4. CASE Ntf!Wanted(e) /\ Ntf!StoreDelivered(e)
  <2>1. e = SettledEvent(o) /\ e.order = o
    BY <1>1, <1>4, EventFacts DEF Ntf!Wanted
  <2>2. CASE e.id \in ntfProcessed
    BY <1>2, <1>4, <2>2 DEF Ntf!StoreDelivered, Ntf!vars, ntfVars, svcVars
  <2>3. CASE e.id \notin ntfProcessed
    <3>1. notifications' = notifications \cup {Note(o)}
      BY <1>4, <2>1, <2>3 DEF Ntf!StoreDelivered, Note
    <3>2. ntfProcessed' = ntfProcessed \cup {SettledEvent(o).id}
      BY <1>4, <2>1, <2>3 DEF Ntf!StoreDelivered
    <3>3. orders[o] = Outcome(o) /\ Note(o) \notin notifications
      BY <1>0, <1>1, <2>1, <2>3 DEF OrderInv, NoteInv
    <3>. QED
      BY <1>2, <3>1, <3>2, <3>3 DEF TellStep
  <2>. QED
    BY <2>2, <2>3
<1>. QED
  BY <1>2, <1>3, <1>4 DEF Ntf!HandleEvent, Ntf!vars, ntfVars

LEMMA StepCases ==
  ASSUME IInv, [Next]_vars
  PROVE  UNCHANGED svcVars \/ \E o \in Orders : ServiceStep(o)
<1>1. ASSUME NEW o \in Orders,
             CreateOrder(o) \/ InventoryRun(o) \/ PaymentRun(o) \/ OrderRun(o) \/ NotificationRun(o)
      PROVE  UNCHANGED svcVars \/ ServiceStep(o)
  BY <1>1, CreateOrderStep, InventoryStep, PaymentStep, OrderStep, NotificationStep
     DEF ServiceStep
<1>2. ASSUME NEW e \in Outbox, Send(e) \/ SendAgain(e)
      PROVE  UNCHANGED svcVars
  BY <1>2 DEF Send, SendAgain, svcVars
<1>3. ASSUME NEW g \in Groups, NEW o \in Orders, HandlerError(g, o) \/ Redeliver(g, o)
      PROVE  UNCHANGED svcVars
  BY <1>3 DEF HandlerError, Redeliver, svcVars
<1>4. CASE UNCHANGED vars
  BY <1>4 DEF vars, svcVars
<1>. QED
  BY <1>1, <1>2, <1>3, <1>4 DEF Next

-----------------------------------------------------------------------------
(* A step of the inventory service within the saga is one of the service.   *)
LEMMA StockIsInventory ==
  ASSUME NEW o \in Orders, StockStep(o)
  PROVE  InvP!Next
<1>0. Created(o) = InvP!Created(o) /\ Cancelled(o) = InvP!CancelledEvent(o)
  BY DEF Created, Cancelled
<1>1. CASE InvP!Reserve(o) \/ InvP!Reject(o)
  <2>1. InvP!ReserveForOrder(InvP!Created(o))
    <3>1. /\ InvP!ReservedEvent(o) =
                InvP!FollowUp(InvP!Created(o), "inventory", "inventory.reserved", Basket[o])
          /\ InvP!RejectedEvent(o) =
                InvP!FollowUp(InvP!Created(o), "inventory", "inventory.rejected", <<>>)
      BY DEF InvP!ReservedEvent, InvP!RejectedEvent
    <3>2. /\ InvP!Created(o).type = "order.created" /\ InvP!Created(o).order = o
          /\ InvP!Created(o).items = Basket[o]
      BY <1>0, EventFacts
    <3>. QED
      BY <1>1, <3>1, <3>2 DEF InvP!Reserve, InvP!Reject, InvP!ReserveForOrder, InvP!Remember
  <2>. QED
    BY <2>1 DEF InvP!Next, InvP!Created
<1>2. CASE InvP!Release(o)
  <2>1. InvP!ReleaseForOrder(InvP!CancelledEvent(o))
    <3>1. InvP!ReleasedEvent(o) = InvP!FollowUp(InvP!CancelledEvent(o), "inventory-release",
                                                "inventory.released", <<>>)
      BY DEF InvP!ReleasedEvent
    <3>2. InvP!CancelledEvent(o).type = "order.cancelled" /\ InvP!CancelledEvent(o).order = o
      BY <1>0, EventFacts
    <3>. QED
      BY <1>2, <3>1, <3>2 DEF InvP!Release, InvP!ReleaseForOrder, InvP!Remember
  <2>2. InvP!WasReserved(o)
    BY <1>2 DEF InvP!Release
  <2>. QED
    BY <2>1, <2>2 DEF InvP!Next
<1>. QED
  BY <1>1, <1>2 DEF StockStep

LEMMA InventoryInv ==
  ASSUME IInv, UNCHANGED svcVars \/ \E o \in Orders : ServiceStep(o)
  PROVE  InvP!IInv'
<1>1. [InvP!Next]_invVars
  BY StockIsInventory DEF ServiceStep, PlaceStep, PayStep, SettleStep, TellStep, svcVars
<1>. QED
  BY <1>1, InventoryKeeps DEF IInv

LEMMA KnownKeeps ==
  ASSUME Known, UNCHANGED svcVars \/ \E o \in Orders : ServiceStep(o)
  PROVE  Known'
<1>1. CASE UNCHANGED svcVars
  BY <1>1 DEF Known, svcVars, ordVars, payVars, ntfVars
<1>2. ASSUME NEW o \in Orders, PlaceStep(o)
      PROVE  Known'
  BY <1>2 DEF Known, PlaceStep, payVars, ntfVars
<1>3. ASSUME NEW o \in Orders, StockStep(o)
      PROVE  Known'
  BY <1>3 DEF Known, StockStep, ordVars, payVars, ntfVars
<1>4. ASSUME NEW o \in Orders, PayStep(o)
      PROVE  Known'
  BY <1>4 DEF Known, PayStep, ordVars, ntfVars
<1>5. ASSUME NEW o \in Orders, SettleStep(o)
      PROVE  Known'
  <2>1. Outcome(o) \in {"confirmed", "cancelled"}
    BY EventFacts
  <2>. QED
    BY <1>5, <2>1 DEF Known, SettleStep, payVars, ntfVars
<1>6. ASSUME NEW o \in Orders, TellStep(o)
      PROVE  Known'
  BY <1>6 DEF Known, TellStep, ordVars, payVars
<1>. QED
  BY <1>1, <1>2, <1>3, <1>4, <1>5, <1>6 DEF ServiceStep

(* What the steps of one order leave of another. *)
SameOrder(q) ==
  /\ orders'[q] = orders[q] /\ totals'[q] = totals[q]
  /\ Created(q) \in ordOutbox' <=> Created(q) \in ordOutbox
  /\ SettledEvent(q) \in ordOutbox' <=> SettledEvent(q) \in ordOutbox
  /\ PaymentEvent(q).id \in ordProcessed' <=> PaymentEvent(q).id \in ordProcessed
  /\ PaymentEvent(q) \in payOutbox' <=> PaymentEvent(q) \in payOutbox
  /\ PaymentRow(q) \in payments' <=> PaymentRow(q) \in payments
  /\ Reserved(q).id \in payProcessed' <=> Reserved(q).id \in payProcessed
  /\ SettledEvent(q).id \in ntfProcessed' <=> SettledEvent(q).id \in ntfProcessed
  /\ Note(q) \in notifications' <=> Note(q) \in notifications
  /\ InvP!SameOrder(q)

LEMMA OthersSame ==
  ASSUME IInv, NEW o \in Orders, ServiceStep(o), NEW q \in Orders, q # o
  PROVE  SameOrder(q)
<1>0. Known /\ InvP!IInv
  BY DEF IInv
<1>1. /\ Created(q) \notin {Created(o), SettledEvent(o)}
      /\ SettledEvent(q) \notin {Created(o), SettledEvent(o)}
      /\ PaymentEvent(q) # PaymentEvent(o) /\ PaymentRow(q) # PaymentRow(o) /\ Note(q) # Note(o)
      /\ PaymentEvent(q).id # PaymentEvent(o).id /\ Reserved(q).id # Reserved(o).id
      /\ SettledEvent(q).id # SettledEvent(o).id
  <2>1. ASSUME NEW x
        PROVE  /\ Created(x).order = x /\ SettledEvent(x).order = x /\ PaymentEvent(x).order = x
               /\ PaymentRow(x).order = x /\ Note(x).order = x
    BY EventFacts
  <2>. QED
    BY <2>1, IdsDiffer
<1>2. orders'[q] = orders[q] /\ totals'[q] = totals[q]
  BY <1>0 DEF ServiceStep, PlaceStep, StockStep, PayStep, SettleStep, TellStep, ordVars, Known
<1>3. /\ Created(q) \in ordOutbox' <=> Created(q) \in ordOutbox
      /\ SettledEvent(q) \in ordOutbox' <=> SettledEvent(q) \in ordOutbox
      /\ PaymentEvent(q).id \in ordProcessed' <=> PaymentEvent(q).id \in ordProcessed
  BY <1>1 DEF ServiceStep, PlaceStep, StockStep, PayStep, SettleStep, TellStep, ordVars
<1>4. /\ PaymentEvent(q) \in payOutbox' <=> PaymentEvent(q) \in payOutbox
      /\ PaymentRow(q) \in payments' <=> PaymentRow(q) \in payments
      /\ Reserved(q).id \in payProcessed' <=> Reserved(q).id \in payProcessed
  BY <1>1 DEF ServiceStep, PlaceStep, StockStep, PayStep, SettleStep, TellStep, payVars
<1>5. /\ SettledEvent(q).id \in ntfProcessed' <=> SettledEvent(q).id \in ntfProcessed
      /\ Note(q) \in notifications' <=> Note(q) \in notifications
  BY <1>1 DEF ServiceStep, PlaceStep, StockStep, PayStep, SettleStep, TellStep, ntfVars
<1>6. InvP!SameOrder(q)
  <2>1. CASE StockStep(o)
    BY <1>0, <2>1, InventoryOthers DEF StockStep
  <2>2. CASE UNCHANGED invVars
    BY <2>2 DEF invVars, InvP!SameOrder, InvP!HeldRows
  <2>. QED
    BY <2>1, <2>2 DEF ServiceStep, PlaceStep, PayStep, SettleStep, TellStep
<1>. QED
  BY <1>2, <1>3, <1>4, <1>5, <1>6 DEF SameOrder

LEMMA OthersKeep ==
  ASSUME IInv, NEW o \in Orders, ServiceStep(o), NEW q \in Orders, q # o
  PROVE  OrderInv(q)' /\ StockInv(q)' /\ PayInv(q)' /\ NoteInv(q)'
<1>0. OrderInv(q) /\ StockInv(q) /\ PayInv(q) /\ NoteInv(q)
  BY DEF IInv, OrdersInv
<1>1. SameOrder(q)
  BY OthersSame
<1>2. /\ Reserved(q) \in invOutbox' <=> Reserved(q) \in invOutbox
      /\ InvP!RejectedEvent(q) \in invOutbox' <=> InvP!RejectedEvent(q) \in invOutbox
      /\ Cancelled(q).id \in invProcessed' <=> Cancelled(q).id \in invProcessed
  BY <1>1 DEF SameOrder, InvP!SameOrder, Reserved, Cancelled
<1>3. OrderInv(q)'
  BY <1>0, <1>1 DEF OrderInv, SameOrder
<1>4. StockInv(q)'
  BY <1>0, <1>1, <1>2 DEF StockInv, SameOrder
<1>5. PayInv(q)'
  BY <1>0, <1>1, <1>2 DEF PayInv, SameOrder
<1>6. NoteInv(q)'
  BY <1>0, <1>1 DEF NoteInv, SameOrder
<1>. QED
  BY <1>3, <1>4, <1>5, <1>6

(* What the steps of one order leave of it. *)
LEMMA OrderKeeps ==
  ASSUME IInv, NEW o \in Orders, ServiceStep(o)
  PROVE  OrderInv(o)' /\ StockInv(o)' /\ PayInv(o)' /\ NoteInv(o)'
<1>0. OrderInv(o) /\ StockInv(o) /\ PayInv(o) /\ NoteInv(o) /\ Known
  BY DEF IInv, OrdersInv
<1>1. /\ Created(o) # SettledEvent(o) /\ Outcome(o) \notin {"none", "pending"}
      /\ InvP!Created(o).id # Cancelled(o).id
  <2>1. Created(o).type # SettledEvent(o).type
    BY EventFacts
  <2>2. InvP!Created(o).id # InvP!CancelledEvent(o).id
    BY InvP!EventsDiffer, FiniteOrders, StockAssumption, BasketAssumption DEF InvP!EventsDiffer
  <2>. QED
    BY <2>1, <2>2, EventFacts DEF Cancelled
<1>2. /\ orders \in [Orders -> {"none", "pending", "confirmed", "cancelled"}]
      /\ totals \in [Orders -> Nat]
  BY <1>0 DEF Known
<1>3. CASE PlaceStep(o)
  <2>1. /\ orders[o] = "none" /\ orders'[o] = "pending"
        /\ totals'[o] = Ord!Total(Basket[o])
    BY <1>2, <1>3 DEF PlaceStep
  <2>2. OrderInv(o)'
    BY <1>0, <1>1, <1>3, <2>1 DEF OrderInv, PlaceStep, payVars
  <2>3. StockInv(o)'
    BY <1>0, <1>3, <2>1 DEF StockInv, PlaceStep, invVars
  <2>4. PayInv(o)'
    BY <1>0, <1>3 DEF PayInv, PlaceStep, invVars, payVars
  <2>5. NoteInv(o)'
    BY <1>0, <1>1, <1>3, <2>1 DEF NoteInv, PlaceStep, ntfVars
  <2>. QED
    BY <2>2, <2>3, <2>4, <2>5
<1>4. CASE StockStep(o)
  <2>1. \/ InvP!Reserve(o) /\ orders[o] # "none"
        \/ InvP!Reject(o) /\ orders[o] # "none"
        \/ InvP!Release(o) /\ orders[o] = "cancelled"
    BY <1>4 DEF StockStep
  <2>2. OrderInv(o)'
    BY <1>0, <1>4 DEF OrderInv, StockStep, ordVars, payVars
  <2>3. /\ invOutbox \subseteq invOutbox'
        /\ orders[o] # "none"
        /\ Cancelled(o).id \in invProcessed' => orders[o] = "cancelled"
    BY <1>0, <1>1, <2>1 DEF InvP!Reserve, InvP!Reject, InvP!Release, StockInv
  <2>4. StockInv(o)'
    BY <1>0, <1>4, <2>3 DEF StockInv, StockStep, ordVars
  <2>5. PayInv(o)'
    BY <1>0, <1>4, <2>3 DEF PayInv, StockStep, payVars
  <2>6. NoteInv(o)'
    BY <1>0, <1>4 DEF NoteInv, StockStep, ordVars, ntfVars
  <2>. QED
    BY <2>2, <2>4, <2>5, <2>6
<1>5. CASE PayStep(o)
  <2>1. OrderInv(o)'
    BY <1>0, <1>5 DEF OrderInv, PayStep, ordVars
  <2>2. StockInv(o)'
    BY <1>0, <1>5 DEF StockInv, PayStep, ordVars, invVars
  <2>3. PayInv(o)'
    BY <1>0, <1>5 DEF PayInv, PayStep, invVars
  <2>4. NoteInv(o)'
    BY <1>0, <1>5 DEF NoteInv, PayStep, ordVars, ntfVars
  <2>. QED
    BY <2>1, <2>2, <2>3, <2>4
<1>6. CASE SettleStep(o)
  <2>1. orders[o] = "pending" /\ orders'[o] = Outcome(o) /\ totals' = totals
    BY <1>2, <1>6 DEF SettleStep
  <2>2. OrderInv(o)'
    BY <1>0, <1>1, <1>6, <2>1 DEF OrderInv, SettleStep, payVars
  <2>3. StockInv(o)'
    BY <1>0, <1>1, <1>6, <2>1 DEF StockInv, SettleStep, invVars
  <2>4. PayInv(o)'
    BY <1>0, <1>6 DEF PayInv, SettleStep, invVars, payVars
  <2>5. NoteInv(o)'
    BY <1>0, <1>6, <2>1 DEF NoteInv, SettleStep, ntfVars
  <2>. QED
    BY <2>2, <2>3, <2>4, <2>5
<1>7. CASE TellStep(o)
  <2>1. OrderInv(o)'
    BY <1>0, <1>7 DEF OrderInv, TellStep, ordVars, payVars
  <2>2. StockInv(o)'
    BY <1>0, <1>7 DEF StockInv, TellStep, ordVars, invVars
  <2>3. PayInv(o)'
    BY <1>0, <1>7 DEF PayInv, TellStep, invVars, payVars
  <2>4. NoteInv(o)'
    BY <1>0, <1>7 DEF NoteInv, TellStep, ordVars
  <2>. QED
    BY <2>1, <2>2, <2>3, <2>4
<1>. QED
  BY <1>3, <1>4, <1>5, <1>6, <1>7 DEF ServiceStep

LEMMA OrdersKeep ==
  ASSUME IInv, UNCHANGED svcVars \/ \E o \in Orders : ServiceStep(o)
  PROVE  OrdersInv'
<1>1. CASE UNCHANGED svcVars
  <2>1. ASSUME NEW o \in Orders
        PROVE  OrderInv(o)' /\ StockInv(o)' /\ PayInv(o)' /\ NoteInv(o)'
    <3>0. OrderInv(o) /\ StockInv(o) /\ PayInv(o) /\ NoteInv(o)
      BY DEF IInv, OrdersInv
    <3>1. OrderInv(o)'
      BY <1>1, <3>0 DEF OrderInv, svcVars, ordVars, payVars
    <3>2. StockInv(o)'
      BY <1>1, <3>0 DEF StockInv, svcVars, ordVars, invVars
    <3>3. PayInv(o)'
      BY <1>1, <3>0 DEF PayInv, svcVars, invVars, payVars
    <3>4. NoteInv(o)'
      BY <1>1, <3>0 DEF NoteInv, svcVars, ordVars, ntfVars
    <3>. QED
      BY <3>1, <3>2, <3>3, <3>4
  <2>. QED
    BY <2>1 DEF OrdersInv
<1>2. ASSUME NEW o \in Orders, ServiceStep(o)
      PROVE  OrdersInv'
  <2>1. \A q \in Orders : OrderInv(q)' /\ StockInv(q)' /\ PayInv(q)' /\ NoteInv(q)'
    BY <1>2, OrderKeeps, OthersKeep
  <2>. QED
    BY <2>1 DEF OrdersInv
<1>. QED
  BY <1>1, <1>2

(* The outboxes only grow. *)
LEMMA OutboxGrows ==
  ASSUME UNCHANGED svcVars \/ \E o \in Orders : ServiceStep(o)
  PROVE  Outbox \subseteq Outbox'
<1>1. CASE UNCHANGED svcVars
  BY <1>1 DEF Outbox, svcVars, ordVars, invVars, payVars
<1>2. ASSUME NEW o \in Orders, StockStep(o)
      PROVE  Outbox \subseteq Outbox'
  BY <1>2 DEF StockStep, InvP!Reserve, InvP!Reject, InvP!Release, Outbox, ordVars, payVars
<1>3. ASSUME NEW o \in Orders, PlaceStep(o) \/ PayStep(o) \/ SettleStep(o) \/ TellStep(o)
      PROVE  Outbox \subseteq Outbox'
  BY <1>3 DEF PlaceStep, PayStep, SettleStep, TellStep, Outbox, ordVars, invVars, payVars
<1>. QED
  BY <1>1, <1>2, <1>3 DEF ServiceStep

(* What the broker and the consumer groups have is within what was sent. *)
LEMMA LogKeeps ==
  ASSUME IInv, [Next]_vars
  PROVE  LogInv'
<1>. DEFINE E == UNION {EventsOf(o) : o \in Orders}
<1>0. Known /\ InvP!IInv /\ LogInv
  BY DEF IInv
<1>1. Outbox \subseteq Outbox'
  BY StepCases, OutboxGrows
<1>2. \A t, o, e : SentFrom(t, o, e) => SentFrom(t, o, e)'
  BY <1>1 DEF SentFrom
<1>3. \A g \in Groups : Reads(g) \in Topics
  BY DEF Groups, Reads, Topics
<1>4. CASE UNCHANGED <<log, next>>
  <2>1. ASSUME NEW t \in Topics, NEW o \in Orders, NEW i \in 1..Len(log[t][o])
        PROVE  SentFrom(t, o, log[t][o][i])'
    BY <1>0, <1>2, <1>4, <2>1 DEF LogInv, SentFrom
  <2>. QED
    BY <1>0, <1>4, <2>1 DEF LogInv
<1>5. ASSUME NEW e \in Outbox, Deliver(e), UNCHANGED next
      PROVE  LogInv'
  <2>. DEFINE t == TopicOf(e.type)
              q == e.order
  <2>1. t \in Topics /\ q \in Orders /\ e \in E
    BY <1>0, <1>5, OutboxFacts
  <2>2. \A u \in Topics, o \in Orders :
          log'[u][o] = IF u = t /\ o = q THEN Append(log[u][o], e) ELSE log[u][o]
    BY <1>0, <1>5, <2>1 DEF LogInv, Deliver
  <2>3. \A u \in Topics, o \in Orders :
          /\ log[u][o] \in Seq(E) /\ Append(log[u][o], e) \in Seq(E)
          /\ Len(Append(log[u][o], e)) = Len(log[u][o]) + 1
          /\ Append(log[u][o], e)[Len(log[u][o]) + 1] = e
          /\ \A i \in 1..Len(log[u][o]) : Append(log[u][o], e)[i] = log[u][o][i]
    <3>1. \A u \in Topics, o \in Orders : log[u][o] \in Seq(E)
      BY <1>0 DEF LogInv
    <3>. HIDE DEF E
    <3>2. \A s \in Seq(E), x \in E :
            /\ Append(s, x) \in Seq(E) /\ Len(Append(s, x)) = Len(s) + 1
            /\ Append(s, x)[Len(s) + 1] = x
            /\ \A i \in 1..Len(s) : Append(s, x)[i] = s[i]
      OBVIOUS
    <3>. QED
      BY <2>1, <3>1, <3>2
  <2>4. log' \in [Topics -> [Orders -> Seq(E)]]
    <3>1. log' = [log EXCEPT ![t] = [log[t] EXCEPT ![q] = Append(log[t][q], e)]]
      BY <1>0, <1>5, <2>1 DEF LogInv, Deliver
    <3>2. log \in [Topics -> [Orders -> Seq(E)]]
      BY <1>0 DEF LogInv
    <3>. HIDE DEF E, t, q
    <3>. QED
      BY <2>1, <2>3, <3>1, <3>2
  <2>. HIDE DEF E, t, q
  <2>5. ASSUME NEW u \in Topics, NEW o \in Orders
        PROVE  /\ Len(log[u][o]) \in Nat
               /\ u = t /\ o = q => /\ Len(log'[u][o]) = Len(log[u][o]) + 1
                                    /\ log'[u][o][Len(log[u][o]) + 1] = e
               /\ ~(u = t /\ o = q) => Len(log'[u][o]) = Len(log[u][o])
               /\ \A i \in 1..Len(log[u][o]) : log'[u][o][i] = log[u][o][i]
    <3>1. log[u][o] \in Seq(E)
      BY <2>3
    <3>2. Len(log[u][o]) \in Nat
      BY <3>1
    <3>3. CASE u = t /\ o = q
      <4>1. log'[u][o] = Append(log[u][o], e)
        BY <2>2, <3>3
      <4>2. /\ Len(Append(log[u][o], e)) = Len(log[u][o]) + 1
            /\ Append(log[u][o], e)[Len(log[u][o]) + 1] = e
            /\ \A i \in 1..Len(log[u][o]) : Append(log[u][o], e)[i] = log[u][o][i]
        BY <2>3
      <4>. QED
        BY <3>2, <3>3, <4>1, <4>2
    <3>4. CASE ~(u = t /\ o = q)
      BY <2>2, <3>2, <3>4
    <3>. QED
      BY <3>3, <3>4
  <2>6. ASSUME NEW u \in Topics, NEW o \in Orders, NEW i \in 1..Len(log'[u][o])
        PROVE  SentFrom(u, o, log[u][o][i])'
    <3>1. CASE i \in 1..Len(log[u][o])
      <4>1. log'[u][o][i] = log[u][o][i] /\ SentFrom(u, o, log[u][o][i])
        BY <1>0, <2>5, <3>1 DEF LogInv
      <4>. QED
        BY <1>1, <4>1 DEF SentFrom
    <3>2. CASE i \notin 1..Len(log[u][o])
      <4>1. i = Len(log[u][o]) + 1 /\ u = t /\ o = q
        BY <2>5, <2>6, <3>2
      <4>2. log'[u][o][i] = e
        BY <2>5, <4>1
      <4>. QED
        BY <1>1, <1>5, <4>1, <4>2 DEF SentFrom, t, q
    <3>. QED
      BY <3>1, <3>2
  <2>8. ASSUME NEW g \in Groups, NEW o \in Orders
        PROVE  next'[g][o] <= Len(log'[Reads(g)][o])
    <3>1. next[g][o] <= Len(log[Reads(g)][o]) /\ next[g][o] \in Nat
      BY <1>0 DEF LogInv
    <3>2. /\ Len(log[Reads(g)][o]) \in Nat
          /\ \/ Len(log'[Reads(g)][o]) = Len(log[Reads(g)][o])
             \/ Len(log'[Reads(g)][o]) = Len(log[Reads(g)][o]) + 1
      BY <1>3, <2>5
    <3>. QED
      BY <1>5, <3>1, <3>2
  <2>7. next' \in [Groups -> [Orders -> Nat]]
    BY <1>0, <1>5 DEF LogInv
  <2>. QED
    BY <2>4, <2>6, <2>7, <2>8 DEF LogInv, E
<1>6. ASSUME NEW g \in Groups, NEW o \in Orders, NEW n \in Nat, n <= Len(log[Reads(g)][o]),
             next' = [next EXCEPT ![g][o] = n], UNCHANGED log
      PROVE  LogInv'
  <2>1. next' \in [Groups -> [Orders -> Nat]]
    BY <1>0, <1>6 DEF LogInv
  <2>2. \A h \in Groups, q \in Orders : next'[h][q] <= Len(log'[Reads(h)][q])
    BY <1>0, <1>6 DEF LogInv
  <2>3. ASSUME NEW t \in Topics, NEW q \in Orders, NEW i \in 1..Len(log[t][q])
        PROVE  SentFrom(t, q, log[t][q][i])'
    BY <1>0, <1>1, <1>6, <2>3 DEF LogInv, SentFrom
  <2>. QED
    BY <1>0, <1>6, <2>1, <2>2, <2>3 DEF LogInv
<1>7. ASSUME NEW g \in Groups, NEW o \in Orders, HasMessage(g, o), Pass(g, o), UNCHANGED log
      PROVE  LogInv'
  <2>. DEFINE n == next[g][o] + 1
  <2>1. next[g][o] \in Nat /\ log[Reads(g)][o] \in Seq(E)
    BY <1>0, <1>3 DEF LogInv
  <2>2. n \in Nat /\ n <= Len(log[Reads(g)][o])
    BY <1>7, <2>1 DEF HasMessage
  <2>3. next' = [next EXCEPT ![g][o] = n]
    BY <1>7 DEF Pass
  <2>. HIDE DEF n
  <2>. QED
    BY <1>6, <1>7, <2>2, <2>3
<1>8. ASSUME NEW g \in Groups, NEW o \in Orders, Redeliver(g, o)
      PROVE  LogInv'
  <2>1. PICK n \in 0..next[g][o] - 1 : next' = [next EXCEPT ![g][o] = n]
    BY <1>8 DEF Redeliver
  <2>2. /\ next[g][o] \in Nat /\ log[Reads(g)][o] \in Seq(E)
        /\ next[g][o] <= Len(log[Reads(g)][o])
    BY <1>0, <1>3 DEF LogInv
  <2>3. n \in Nat /\ n <= Len(log[Reads(g)][o])
    BY <2>1, <2>2
  <2>. QED
    BY <1>6, <1>8, <2>1, <2>3 DEF Redeliver
<1>. QED
  <2>1. ASSUME NEW o \in Orders,
               CreateOrder(o) \/ InventoryRun(o) \/ PaymentRun(o) \/ OrderRun(o)
                 \/ NotificationRun(o)
        PROVE  LogInv'
    <3>1. CASE CreateOrder(o)
      BY <1>4, <3>1 DEF CreateOrder
    <3>2. CASE InventoryRun(o) \/ PaymentRun(o) \/ OrderRun(o) \/ NotificationRun(o)
      BY <1>7, <3>2 DEF InventoryRun, PaymentRun, OrderRun, NotificationRun, Groups
    <3>. QED
      BY <2>1, <3>1, <3>2
  <2>2. ASSUME NEW e \in Outbox, Send(e) \/ SendAgain(e)
        PROVE  LogInv'
    BY <1>5, <2>2 DEF Send, SendAgain
  <2>3. ASSUME NEW g \in Groups, NEW o \in Orders, HandlerError(g, o)
        PROVE  LogInv'
    BY <1>7, <2>3 DEF HandlerError
  <2>4. CASE UNCHANGED vars
    BY <1>4, <2>4 DEF vars
  <2>. QED
    BY <1>8, <2>1, <2>2, <2>3, <2>4 DEF Next

-----------------------------------------------------------------------------
LEMMA InitIInv == Init => IInv
<1>. SUFFICES ASSUME Init PROVE IInv
  OBVIOUS
<1>1. /\ orders = [o \in Orders |-> "none"] /\ totals = [o \in Orders |-> 0]
      /\ ordOutbox = {} /\ ordProcessed = {}
      /\ payments = {} /\ payOutbox = {} /\ payProcessed = {}
      /\ notifications = {} /\ ntfProcessed = {}
  BY DEF Init, Ord!Init, Pay!Init, Ntf!Init
<1>2. invOutbox = {} /\ invProcessed = {} /\ InvP!IInv
  BY InventoryStarts DEF Init, Inv!Init
<1>3. Known
  BY <1>1 DEF Known
<1>4. ASSUME NEW o \in Orders
      PROVE  OrderInv(o) /\ StockInv(o) /\ PayInv(o) /\ NoteInv(o)
  <2>1. Outcome(o) # "none"
    BY EventFacts
  <2>. QED
    BY <1>1, <1>2, <2>1 DEF OrderInv, StockInv, PayInv, NoteInv
<1>5. LogInv
  <2>. DEFINE E == UNION {EventsOf(o) : o \in Orders}
  <2>1. \A g \in Groups : Reads(g) \in Topics
    BY DEF Groups, Reads, Topics
  <2>2. /\ log = [t \in Topics |-> [o \in Orders |-> <<>>]]
        /\ next = [g \in Groups |-> [o \in Orders |-> 0]]
    BY DEF Init
  <2>3. log \in [Topics -> [Orders -> Seq(E)]]
    <3>1. <<>> \in Seq(E)
      OBVIOUS
    <3>. HIDE DEF E
    <3>. QED
      BY <2>2, <3>1
  <2>. QED
    BY <2>1, <2>2, <2>3 DEF LogInv
<1>. QED
  BY <1>2, <1>3, <1>4, <1>5 DEF IInv, OrdersInv

LEMMA StepIInv == IInv /\ [Next]_vars => IInv'
<1>. SUFFICES ASSUME IInv, [Next]_vars PROVE IInv'
  OBVIOUS
<1>. QED
  BY StepCases, InventoryInv, KnownKeeps, OrdersKeep, LogKeeps DEF IInv

THEOREM Invariance == Spec => []IInv
BY InitIInv, StepIInv, PTL DEF Spec

-----------------------------------------------------------------------------
(* Every row of the four databases is well formed, and a consumer group is  *)
(* never ahead of the log it reads.                                         *)
THEOREM TypeCorrect == Spec => []TypeOK
<1>1. IInv => TypeOK
  <2>. SUFFICES ASSUME IInv PROVE TypeOK
    OBVIOUS
  <2>1. Inv!TypeOK
    BY DEF IInv, InvP!IInv, InvP!TypeOK, Inv!TypeOK, InvP!Reservation, Inv!Reservation,
           InvP!Stocked, Inv!Stocked
  <2>2. \A row \in payments :
          row \in [order : Orders, amount : Nat, status : {"authorized", "failed"}]
    BY DEF IInv, Known, OrdersInv, PayInv, PaymentRow
  <2>3. \A o \in Orders :
          Note(o).order \in Orders /\ Note(o).type \in {"order.confirmed", "order.cancelled"}
    BY EventFacts DEF Note
  <2>. QED
    BY <2>1, <2>2, <2>3 DEF IInv, Known, LogInv, TypeOK
<1>. QED
  BY <1>1, Invariance, PTL

(* A confirmed order is paid, to the cent of the total stored with it, and  *)
(* its stock is held: no message that is late, lost, repeated or out of     *)
(* order confirms another.  The baskets may have totals that wrap round:    *)
(* both services wrap them alike.                                           *)
THEOREM ConfirmedOrdersAreBacked == Spec => []ConfirmedIsBacked
<1>1. IInv => ConfirmedIsBacked
  <2>. SUFFICES ASSUME IInv PROVE ConfirmedIsBacked
    OBVIOUS
  <2>1. Inv!StockConserved
    BY DEF IInv, InvP!IInv, InvP!StockConserved, Inv!StockConserved, InvP!Stocked, Inv!Stocked
  <2>2. ASSUME NEW o \in Orders, orders[o] = "confirmed"
        PROVE  /\ [order |-> o, amount |-> totals[o], status |-> "authorized"] \in payments
               /\ totals[o] <= MaxAuthCents
               /\ \A i \in DOMAIN Basket[o] :
                    \E row \in Inv!HeldRows(o) : row.product = Basket[o][i].product
    <3>1. OrderInv(o) /\ StockInv(o) /\ PayInv(o) /\ InvP!LinesHeld
      BY DEF IInv, OrdersInv, InvP!IInv
    <3>2. Outcome(o) = "confirmed" /\ PaymentRow(o) \in payments
      BY <2>2, <3>1 DEF OrderInv, PayInv
    <3>3. totals[o] = Pay!ChargedAmount(Basket[o])
      BY <2>2, <3>1, SameSum DEF OrderInv
    <3>7. /\ PaymentRow(o) = [order |-> o, amount |-> totals[o], status |-> "authorized"]
          /\ totals[o] <= MaxAuthCents
      BY <3>2, <3>3 DEF Outcome, PaymentRow, Pay!Authorized
    <3>4. Reserved(o) \in invOutbox /\ Cancelled(o).id \notin invProcessed
      BY <2>2, <3>1, <3>2 DEF PayInv, StockInv
    <3>5. InvP!HeldRows(o) = Inv!HeldRows(o)
      BY DEF InvP!HeldRows, Inv!HeldRows
    <3>6. \A i \in DOMAIN Basket[o] :
            \E row \in InvP!HeldRows(o) : row.product = Basket[o][i].product
      BY <3>1, <3>4 DEF InvP!LinesHeld, Reserved, Cancelled
    <3>. QED
      BY <3>2, <3>5, <3>6, <3>7
  <2>. QED
    BY <2>1, <2>2 DEF ConfirmedIsBacked
<1>. QED
  BY <1>1, Invariance, PTL

-----------------------------------------------------------------------------
(* What Flow sees of an order, in terms of its events and rows. *)
StockView(o) ==
  IF InvP!ReleasedEvent(o) \in invOutbox THEN "freed"
  ELSE IF InvP!HeldRows(o) # {} THEN "held"
  ELSE IF InvP!RejectedEvent(o) \in invOutbox THEN "refused" ELSE "none"

PaidView(o) == IF PaymentRow(o) \in payments THEN PaymentRow(o).status ELSE "none"

ToldView(o) == IF Note(o) \in notifications THEN Outcome(o) ELSE "none"

Views ==
  \A o \in Orders :
    StockOf(o) = StockView(o) /\ PaidOf(o) = PaidView(o) /\ ToldOf(o) = ToldView(o)

LEMMA ViewsTold == IInv => Views
<1>. SUFFICES ASSUME IInv, NEW o \in Orders
              PROVE  /\ StockOf(o) = StockView(o)
                     /\ PaidOf(o) = PaidView(o)
                     /\ ToldOf(o) = ToldView(o)
  BY DEF Views
<1>0. Known /\ InvP!OutboxKnown /\ InvP!History(o)
  BY DEF IInv, InvP!IInv, InvP!Histories
<1>1. StockOf(o) = StockView(o)
  <2>1. (\E row \in reservations : row.order = o /\ row.status = "released")
          <=> InvP!ReleasedEvent(o) \in invOutbox
    BY <1>0 DEF InvP!History
  <2>2. (\E e \in invOutbox : e.order = o /\ e.type = "inventory.rejected")
          <=> InvP!RejectedEvent(o) \in invOutbox
    <3>1. ASSUME NEW e \in invOutbox, e.order = o, e.type = "inventory.rejected"
          PROVE  e = InvP!RejectedEvent(o)
      <4>1. PICK q \in Orders :
              e \in {Reserved(q), InvP!RejectedEvent(q), InvP!ReleasedEvent(q)}
        BY <1>0 DEF InvP!OutboxKnown, Reserved
      <4>2. q = o /\ e # Reserved(q) /\ e # InvP!ReleasedEvent(q)
        BY <3>1, <4>1, EventFacts
      <4>. QED
        BY <4>1, <4>2
    <3>2. InvP!RejectedEvent(o).order = o /\ InvP!RejectedEvent(o).type = "inventory.rejected"
      BY EventFacts
    <3>. QED
      BY <3>1, <3>2
  <2>3. /\ InvP!ReleasedEvent(o) \in invOutbox =>
             InvP!HeldRows(o) = {} /\ InvP!RejectedEvent(o) \notin invOutbox
        /\ InvP!HeldRows(o) # {} => InvP!RejectedEvent(o) \notin invOutbox
    BY <1>0 DEF InvP!History, InvP!HeldRows
  <2>4. Inv!HeldRows(o) = InvP!HeldRows(o)
    BY DEF Inv!HeldRows, InvP!HeldRows
  <2>. QED
    BY <2>1, <2>2, <2>3, <2>4 DEF StockOf, StockView
<1>2. PaidOf(o) = PaidView(o)
  <2>1. \A row \in payments : row.order = o <=> row = PaymentRow(o)
    BY <1>0, EventFacts DEF Known
  <2>2. CASE PaymentRow(o) \in payments
    <3>1. (CHOOSE row \in payments : row.order = o) = PaymentRow(o)
      BY <2>1, <2>2
    <3>. QED
      BY <2>1, <2>2, <3>1 DEF PaidOf, PaidView
  <2>3. CASE PaymentRow(o) \notin payments
    BY <2>1, <2>3 DEF PaidOf, PaidView
  <2>. QED
    BY <2>2, <2>3
<1>3. ToldOf(o) = ToldView(o)
  <2>. DEFINE notes == {n \in notifications : n.order = o}
  <2>1. \A n \in notifications : n.order = o <=> n = Note(o)
    BY <1>0, EventFacts DEF Known
  <2>2. CASE Note(o) \in notifications
    <3>1. notes = {Note(o)} /\ Cardinality(notes) = 1
      <4>1. notes = {Note(o)}
        BY <2>1, <2>2
      <4>. HIDE DEF notes
      <4>. QED
        BY <4>1, FS_Singleton
    <3>2. Note(o).type = IF Outcome(o) = "confirmed" THEN "order.confirmed"
                         ELSE "order.cancelled"
      BY EventFacts DEF Note
    <3>3. (\E n \in notes : n.type = "order.confirmed") <=> Outcome(o) = "confirmed"
      BY <3>1, <3>2
    <3>4. notes # {} /\ ~(Cardinality(notes) > 1)
      BY <3>1
    <3>5. ToldOf(o) = CASE notes = {} -> "none"
                        [] Cardinality(notes) > 1 -> "told twice"
                        [] \E n \in notes : n.type = "order.confirmed" -> "confirmed"
                        [] OTHER -> "cancelled"
      BY DEF ToldOf
    <3>. HIDE DEF notes
    <3>6. Outcome(o) \in {"confirmed", "cancelled"} /\ ToldView(o) = Outcome(o)
      BY <2>2, EventFacts DEF ToldView
    <3>. QED
      BY <3>3, <3>4, <3>5, <3>6
  <2>3. CASE Note(o) \notin notifications
    <3>1. notes = {}
      BY <2>1, <2>3
    <3>2. Cardinality(notes) = 0
      BY <3>1, FS_EmptySet
    <3>3. ~(Cardinality(notes) > 1) /\ ~(\E n \in notes : n.type = "order.confirmed")
      BY <3>1, <3>2
    <3>4. ToldOf(o) = CASE notes = {} -> "none"
                        [] Cardinality(notes) > 1 -> "told twice"
                        [] \E n \in notes : n.type = "order.confirmed" -> "confirmed"
                        [] OTHER -> "cancelled"
      BY DEF ToldOf
    <3>. HIDE DEF notes
    <3>. QED
      BY <2>3, <3>1, <3>3, <3>4 DEF ToldView
  <2>. QED
    BY <2>2, <2>3
<1>. QED
  BY <1>1, <1>2, <1>3

LEMMA ViewsToldNext == IInv' => Views'
BY ViewsTold, PTL

(* Every step of the saga is a step of the flow or leaves it alone. *)
LEMMA StepFlows ==
  ASSUME IInv, [Next]_vars
  PROVE  [Flow!CheckoutNext]_(Flow!checkoutVars)
<1>. DEFINE stock == [o \in Orders |-> StockOf(o)]
            paid == [o \in Orders |-> PaidOf(o)]
            told == [o \in Orders |-> ToldOf(o)]
<1>0. IInv' /\ Views /\ Views'
  BY StepIInv, ViewsTold, ViewsToldNext
<1>s. UNCHANGED invVars => UNCHANGED stock
  BY DEF invVars, StockOf, Inv!HeldRows
<1>p. UNCHANGED payVars => UNCHANGED paid
  BY DEF payVars, PaidOf
<1>t. UNCHANGED ntfVars => UNCHANGED told
  BY DEF ntfVars, ToldOf
<1>o. ASSUME NEW o \in Orders
      PROVE  /\ OrderInv(o) /\ StockInv(o) /\ PayInv(o) /\ NoteInv(o)
             /\ InvP!History(o) /\ InvP!History(o)'
             /\ stock[o] = StockView(o) /\ paid[o] = PaidView(o) /\ told[o] = ToldView(o)
             /\ StockOf(o)' = StockView(o)' /\ PaidOf(o)' = PaidView(o)'
             /\ ToldOf(o)' = ToldView(o)'
  BY <1>0 DEF IInv, OrdersInv, InvP!IInv, InvP!Histories, Views
<1>1. ASSUME NEW o \in Orders, ServiceStep(o), NEW q \in Orders, q # o
      PROVE  /\ StockOf(q)' = StockOf(q) /\ PaidOf(q)' = PaidOf(q) /\ ToldOf(q)' = ToldOf(q)
  <2>1. SameOrder(q)
    BY <1>1, OthersSame
  <2>2. StockView(q)' = StockView(q)
    BY <2>1 DEF SameOrder, InvP!SameOrder, StockView
  <2>3. PaidView(q)' = PaidView(q) /\ ToldView(q)' = ToldView(q)
    BY <2>1 DEF SameOrder, PaidView, ToldView
  <2>. QED
    BY <1>0, <2>2, <2>3 DEF Views
<1>2. ASSUME NEW o \in Orders, PlaceStep(o)
      PROVE  Flow!Place(o)
  BY <1>2, <1>s, <1>p, <1>t DEF PlaceStep, Flow!Place
<1>3. ASSUME NEW o \in Orders, StockStep(o)
      PROVE  Flow!ClaimStock(o) \/ Flow!GiveBack(o)
  <2>0. UNCHANGED <<orders, paid, told>> /\ stock' = [stock EXCEPT ![o] = StockView(o)']
    <3>1. UNCHANGED <<orders, paid, told>>
      BY <1>3, <1>p, <1>t DEF StockStep, ordVars
    <3>2. ServiceStep(o)
      BY <1>3 DEF ServiceStep
    <3>. QED
      BY <1>1, <1>o, <3>1, <3>2
  <2>. HIDE DEF stock, paid, told
  <2>1. CASE (InvP!Reserve(o) \/ InvP!Reject(o)) /\ orders[o] # "none"
    <3>1. /\ Reserved(o) \notin invOutbox /\ InvP!RejectedEvent(o) \notin invOutbox
          /\ InvP!ReleasedEvent(o) \notin invOutbox /\ InvP!HeldRows(o) = {}
      BY <1>o, <2>1 DEF InvP!Reserve, InvP!Reject, InvP!History, InvP!HeldRows, Reserved
    <3>2. stock[o] = "none"
      BY <1>o, <3>1 DEF StockView
    <3>3. orders[o] = "pending"
      BY <1>o, <2>1, <3>1 DEF OrderInv, PayInv
    <3>4. StockView(o)' \in {"held", "refused"}
      <4>1. CASE InvP!Reserve(o)
        <5>1. /\ Reserved(o) \in invOutbox' /\ Cancelled(o).id \notin invProcessed'
          <6>1. InvP!Created(o).id # Cancelled(o).id
            BY InvP!EventsDiffer, FiniteOrders, StockAssumption, BasketAssumption
               DEF InvP!EventsDiffer, Cancelled
          <6>2. Cancelled(o).id \notin invProcessed
            BY <1>o, <3>1 DEF InvP!History, Reserved, Cancelled
          <6>. QED
            BY <4>1, <6>1, <6>2 DEF InvP!Reserve, Reserved
        <5>2. InvP!HeldRows(o)' # {}
          <6>1. 1 \in DOMAIN Basket[o]
            BY BasketAssumption
          <6>2. InvP!LinesHeld'
            BY <1>0 DEF IInv, InvP!IInv
          <6>. QED
            BY <5>1, <6>1, <6>2 DEF InvP!LinesHeld, Reserved, Cancelled
        <5>3. InvP!ReleasedEvent(o) \notin invOutbox'
          BY <1>o, <5>1 DEF InvP!History, Cancelled
        <5>. QED
          BY <5>2, <5>3 DEF StockView
      <4>2. CASE InvP!Reject(o)
        <5>1. InvP!RejectedEvent(o) \in invOutbox' /\ InvP!HeldRows(o)' = {}
          BY <3>1, <4>2 DEF InvP!Reject, InvP!HeldRows
        <5>2. Reserved(o) \notin invOutbox'
          BY <1>o, <5>1 DEF InvP!History, Reserved
        <5>3. InvP!ReleasedEvent(o) \notin invOutbox'
          BY <1>o, <5>2 DEF InvP!History, Reserved
        <5>. QED
          BY <5>1, <5>3 DEF StockView
      <4>. QED
        BY <2>1, <4>1, <4>2
    <3>. QED
      BY <2>0, <3>2, <3>3, <3>4 DEF Flow!ClaimStock, stock, paid, told
  <2>2. CASE InvP!Release(o) /\ orders[o] = "cancelled"
    <3>1. InvP!HeldRows(o) # {} /\ InvP!ReleasedEvent(o) \notin invOutbox
      BY <1>o, <2>2 DEF InvP!Release, InvP!History
    <3>2. stock[o] = "held"
      BY <1>o, <3>1 DEF StockView
    <3>3. StockView(o)' = "freed"
      BY <2>2 DEF InvP!Release, StockView
    <3>. QED
      BY <2>0, <2>2, <3>2, <3>3 DEF Flow!GiveBack, stock, paid, told
  <2>. QED
    BY <1>3, <2>1, <2>2 DEF StockStep
<1>4. ASSUME NEW o \in Orders, PayStep(o)
      PROVE  Flow!Pay(o)
  <2>0. UNCHANGED <<orders, stock, told>> /\ paid' = [paid EXCEPT ![o] = PaidView(o)']
    <3>1. UNCHANGED <<orders, stock, told>>
      BY <1>4, <1>s, <1>t DEF PayStep, ordVars
    <3>2. ServiceStep(o)
      BY <1>4 DEF ServiceStep
    <3>. QED
      BY <1>1, <1>o, <3>1, <3>2
  <2>. HIDE DEF stock, paid, told
  <2>1. orders[o] = "pending" /\ Cancelled(o).id \notin invProcessed
    <3>1. orders[o] # "none" /\ orders[o] # Outcome(o)
      BY <1>4, <1>o DEF PayStep, OrderInv, StockInv, PayInv
    <3>. QED
      BY <1>o, <3>1 DEF OrderInv, StockInv
  <2>2. stock[o] = "held"
    <3>1. InvP!HeldRows(o) # {}
      <4>1. 1 \in DOMAIN Basket[o] /\ InvP!LinesHeld
        BY BasketAssumption DEF IInv, InvP!IInv
      <4>. QED
        BY <1>4, <2>1, <4>1 DEF PayStep, InvP!LinesHeld, Reserved, Cancelled
    <3>2. InvP!ReleasedEvent(o) \notin invOutbox
      BY <1>o, <2>1 DEF InvP!History, Cancelled
    <3>. QED
      BY <1>o, <3>1, <3>2 DEF StockView
  <2>3. paid[o] = "none"
    BY <1>4, <1>o DEF PayStep, PaidView
  <2>4. PaidView(o)' \in {"authorized", "failed"}
    <3>1. PaymentRow(o).status \in {"authorized", "failed"}
      BY DEF PaymentRow
    <3>2. PaidView(o)' = PaymentRow(o).status
      BY <1>4 DEF PayStep, PaidView
    <3>. QED
      BY <3>1, <3>2
  <2>. QED
    BY <2>0, <2>1, <2>2, <2>3, <2>4 DEF Flow!Pay, stock, paid, told
<1>5. ASSUME NEW o \in Orders, SettleStep(o)
      PROVE  Flow!Settle(o)
  <2>1. UNCHANGED <<stock, paid, told>>
    BY <1>5, <1>s, <1>p, <1>t DEF SettleStep
  <2>2. paid[o] = PaymentRow(o).status
    BY <1>5, <1>o DEF SettleStep, PayInv, PaidView
  <2>3. /\ PaymentRow(o).status # "none"
        /\ Outcome(o) = IF PaymentRow(o).status = "authorized" THEN "confirmed" ELSE "cancelled"
    BY DEF PaymentRow, Outcome
  <2>. HIDE DEF stock, paid, told
  <2>. QED
    BY <1>5, <2>1, <2>2, <2>3 DEF SettleStep, Flow!Settle, stock, paid, told
<1>6. ASSUME NEW o \in Orders, TellStep(o)
      PROVE  Flow!Tell(o)
  <2>0. UNCHANGED <<orders, stock, paid>> /\ told' = [told EXCEPT ![o] = ToldView(o)']
    <3>1. UNCHANGED <<orders, stock, paid>>
      BY <1>6, <1>s, <1>p DEF TellStep, ordVars
    <3>2. ServiceStep(o)
      BY <1>6 DEF ServiceStep
    <3>. QED
      BY <1>1, <1>o, <3>1, <3>2
  <2>. HIDE DEF stock, paid, told
  <2>1. told[o] = "none" /\ ToldView(o)' = Outcome(o)
    BY <1>6, <1>o DEF TellStep, ToldView
  <2>2. orders[o] = Outcome(o) /\ Outcome(o) \in {"confirmed", "cancelled"}
    BY <1>6, EventFacts DEF TellStep
  <2>. QED
    BY <2>0, <2>1, <2>2 DEF Flow!Tell, stock, paid, told
<1>7. CASE UNCHANGED svcVars
  BY <1>7, <1>s, <1>p, <1>t DEF svcVars, ordVars, Flow!checkoutVars
<1>. HIDE DEF stock, paid, told
<1>. QED
  BY <1>2, <1>3, <1>4, <1>5, <1>6, <1>7, StepCases DEF ServiceStep, Flow!CheckoutNext

(* The four services and the messages between them follow the business      *)
(* flows: each step of an order is taken at most once and after those it    *)
(* rests on, whatever is sent or delivered twice, late or not at all.       *)
THEOREM ImplementsCheckout == Spec => CheckoutSpec
<1>1. Init => Flow!CheckoutInit
  <2>. SUFFICES ASSUME Init PROVE Flow!CheckoutInit
    OBVIOUS
  <2>1. /\ orders = [o \in Orders |-> "none"] /\ payments = {} /\ notifications = {}
        /\ invOutbox = {} /\ reservations = {}
    BY DEF Init, Ord!Init, Inv!Init, Pay!Init, Ntf!Init
  <2>2. Views
    BY InitIInv, ViewsTold
  <2>3. \A o \in Orders : StockOf(o) = "none" /\ PaidOf(o) = "none" /\ ToldOf(o) = "none"
    BY <2>1, <2>2 DEF Views, StockView, PaidView, ToldView, InvP!HeldRows
  <2>. QED
    BY <2>1, <2>3 DEF Flow!CheckoutInit
<1>2. IInv /\ [Next]_vars => [Flow!CheckoutNext]_(Flow!checkoutVars)
  BY StepFlows
<1>. QED
  BY <1>1, <1>2, Invariance, PTL DEF Spec, CheckoutSpec, Flow!CheckoutSpec
=============================================================================
