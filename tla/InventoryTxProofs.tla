-------------------------- MODULE InventoryTxProofs --------------------------
(***************************************************************************)
(* Proofs about InventoryTx, for any finite sets of orders and replicas,   *)
(* any stock and any baskets the order service accepts, repeated lines     *)
(* included.  What InventoryService guarantees is proved in                *)
(* InventoryServiceProofs; here, its steps are what transactions commit.   *)
(***************************************************************************)
EXTENDS InventoryTx, TLAPS, FiniteSetTheorems

SvcP == INSTANCE InventoryServiceProofs

Created(o) == SvcP!Created(o)
Cancelled(o) == SvcP!CancelledEvent(o)

Points == {"idle", "lock", "update", "select", "giveback", "outbox", "finish"}
Answers == {"none", "inventory.reserved", "inventory.rejected", "inventory.released"}
Sources == {Idle.src} \cup {Created(o) : o \in Orders} \cup {Cancelled(o) : o \in Orders}

Transactions ==
  [src : Sources, pc : Points, line : Nat, moved : [Stocked -> Int],
   rows : SUBSET SvcP!Reservation, todo : SUBSET SvcP!Reservation, answer : Answers]

Types ==
  /\ tx \in [Replicas -> Transactions]
  /\ lock \in [Stocked -> Replicas \cup {NoReplica}]

(* A transaction moves only stock it has locked, and no more than there is. *)
MovedInv(r) ==
  \A p \in Stocked :
    /\ tx[r].moved[p] # 0 => lock[p] = r
    /\ tx[r].moved[p] <= available[p]
    /\ -tx[r].moved[p] <= reserved[p]

Unmoved(r) == \A p \in Stocked : tx[r].moved[p] = 0
HoldsNone(r) == \A p \in Stocked : lock[p] # r

(* Line i of the order is locked, and its stock was seen to be enough. *)
LineLocked(r, o, i) ==
  LET item == Basket[o][i] IN
  item.product \in Stocked /\ lock[item.product] = r /\ item.quantity <= available[item.product]

AllLocked(r, o) == \A i \in DOMAIN Basket[o] : LineLocked(r, o, i)

(* A line that cannot be had, as long as its row stays locked. *)
LineShort(r, o, i) ==
  LET item == Basket[o][i] IN
  item.product \in Stocked => lock[item.product] = r /\ item.quantity > available[item.product]

(* What the first k lines take, and the rows they insert. *)
Taken(o, k, p) == SvcP!Sum(SvcP!Wanted(Basket[o], p), 1..k)

Row(o, i) ==
  [order |-> o, product |-> Basket[o][i].product, quantity |-> Basket[o][i].quantity,
   status |-> "reserved"]

FirstRows(o, k) ==
  {Row(o, i) : i \in {i \in 1..k : \A j \in 1..i-1 : Basket[o][j].product # Basket[o][i].product}}

TakenInv(r, o, k) ==
  /\ \A p \in Stocked : tx[r].moved[p] = Taken(o, k, p)
  /\ Created(o).id \notin processed => tx[r].rows = FirstRows(o, k)

(* The transaction of ReserveForOrder. *)
LockInv(r, o) ==
  /\ tx[r].rows = {} /\ Unmoved(r)
  /\ \E k \in DOMAIN Basket[o] :
       /\ tx[r].line = k
       /\ \A i \in 1..k - 1 : LineLocked(r, o, i)
       /\ \A p \in Stocked : lock[p] = r => \E i \in 1..k - 1 : Basket[o][i].product = p

UpdateInv(r, o) ==
  /\ AllLocked(r, o)
  /\ \E i \in DOMAIN Basket[o] : tx[r].line = i /\ TakenInv(r, o, i - 1)

ReservedInv(r, o) ==
  /\ tx[r].answer = "inventory.reserved"
  /\ AllLocked(r, o) /\ TakenInv(r, o, Len(Basket[o]))

RejectedInv(r, o) ==
  /\ tx[r].answer = "inventory.rejected" /\ tx[r].rows = {} /\ Unmoved(r)
  /\ \E i \in DOMAIN Basket[o] : LineShort(r, o, i)

ReserveInv(r, o) ==
  /\ tx[r].src = Created(o) /\ tx[r].todo = {}
  /\ \/ tx[r].pc = "lock" /\ LockInv(r, o)
     \/ tx[r].pc = "update" /\ UpdateInv(r, o)
     \/ tx[r].pc \in {"outbox", "finish"} /\ (ReservedInv(r, o) \/ RejectedInv(r, o))

(* The transaction of ReleaseForOrder. *)
Done(r) == tx[r].rows \ tx[r].todo

GivenInv(r, o) ==
  /\ tx[r].rows = SvcP!HeldRows(o) /\ tx[r].todo \subseteq tx[r].rows
  /\ \A p \in Stocked : tx[r].moved[p] = -SvcP!QuantityIn(Done(r), p)

GiveBackInv(r) ==
  /\ tx[r].todo # {}
  /\ \A p \in Stocked : lock[p] = r => \E row \in Done(r) : row.product = p
  /\ \A row \in Done(r), other \in tx[r].todo : Position[row.product] <= Position[other.product]

ReleaseInv(r, o) ==
  /\ tx[r].src = Cancelled(o) /\ SvcP!ReservedEvent(o) \in outbox
  /\ \/ /\ tx[r].pc = "select" /\ tx[r].answer = "none" /\ HoldsNone(r) /\ Unmoved(r)
        /\ tx[r].rows = {} /\ tx[r].todo = {}
     \/ tx[r].pc = "giveback" /\ GivenInv(r, o) /\ GiveBackInv(r)
     \/ /\ tx[r].pc \in {"outbox", "finish"} /\ GivenInv(r, o)
        /\ tx[r].todo = {} /\ tx[r].rows # {} /\ tx[r].answer = "inventory.released"
     \/ /\ tx[r].pc = "finish" /\ GivenInv(r, o)
        /\ tx[r].todo = {} /\ tx[r].rows = {} /\ tx[r].answer = "none"

TxInv(r) ==
  /\ MovedInv(r)
  /\ \/ tx[r] = Idle /\ HoldsNone(r)
     \/ \E o \in Orders : ReserveInv(r, o) \/ ReleaseInv(r, o)

(* SELECT ... FOR UPDATE gives the rows of an order to one release only. *)
OneRelease ==
  \A r, q \in Replicas :
    /\ tx[r].src.type = "order.cancelled" /\ tx[r].rows # {}
    /\ tx[q].src = tx[r].src /\ tx[q].rows # {}
    => r = q

IInv == SvcP!IInv /\ Types /\ (\A r \in Replicas : TxInv(r)) /\ OneRelease

-----------------------------------------------------------------------------
LEMMA FiniteOrders == SvcP!IsFiniteSet(Orders)
BY OrdersAssumption DEF IsFiniteSet, SvcP!IsFiniteSet

LEMMA EventFacts ==
  ASSUME NEW o, NEW q
  PROVE  /\ Created(o) = CreatedEvent(o, Basket[o]) /\ Cancelled(o) = Svc!CancelledEvent(o)
         /\ Created(o).type = "order.created" /\ Created(o).order = o
         /\ Created(o).items = Basket[o]
         /\ Cancelled(o).type = "order.cancelled" /\ Cancelled(o).order = o
         /\ Created(o) = Created(q) => o = q
         /\ Cancelled(o) = Cancelled(q) => o = q
         /\ Created(o).id # Cancelled(q).id
<1>1. /\ Created(o).type = "order.created" /\ Created(o).order = o
      /\ Created(o).items = Basket[o]
      /\ Cancelled(o).type = "order.cancelled" /\ Cancelled(o).order = o
      /\ Created(q).order = q /\ Cancelled(q).order = q
      /\ Created(o).id # Cancelled(q).id
  <2>1. ASSUME NEW x, NEW y
        PROVE  /\ Created(x).type = "order.created" /\ Created(x).order = x
               /\ Created(x).items = Basket[x]
               /\ Cancelled(x).type = "order.cancelled" /\ Cancelled(x).order = x
               /\ Created(x).id # Cancelled(y).id
    <3>1. Created(x) = [id |-> <<x, "created">>, type |-> "order.created", order |-> x,
                        items |-> Basket[x]]
      BY DEF Created, SvcP!Created, SvcP!CreatedEvent
    <3>2. /\ Cancelled(x).type = "order.cancelled" /\ Cancelled(x).order = x
          /\ Cancelled(y).id = <<y, "created", "inventory", "payment", "order">>
      BY DEF Cancelled, SvcP!CancelledEvent
    <3>3. Len(<<x, "created">>) = 2
          /\ Len(<<y, "created", "inventory", "payment", "order">>) = 5
      OBVIOUS
    <3>. QED
      BY <3>1, <3>2, <3>3
  <2>. QED
    BY <2>1
<1>2. Created(o) = CreatedEvent(o, Basket[o])
  BY DEF Created, SvcP!Created, SvcP!CreatedEvent, CreatedEvent
<1>3. Cancelled(o) = Svc!CancelledEvent(o)
  BY DEF Cancelled, SvcP!CancelledEvent, Svc!CancelledEvent
<1>. QED
  BY <1>1, <1>2, <1>3

LEMMA AnswerFacts ==
  ASSUME NEW o
  PROVE  /\ SvcP!ReservedEvent(o).order = o /\ SvcP!ReservedEvent(o).type = "inventory.reserved"
         /\ SvcP!RejectedEvent(o).type = "inventory.rejected"
         /\ SvcP!ReleasedEvent(o).type = "inventory.released"
<1>1. SvcP!Created(o).order = o
  BY EventFacts DEF Created
<1>. QED
  BY <1>1 DEF SvcP!ReservedEvent, SvcP!RejectedEvent, SvcP!ReleasedEvent, SvcP!FollowUp

LEMMA BasketFacts ==
  ASSUME NEW o \in Orders
  PROVE  /\ Basket[o] \in Seq(SvcP!Lines)
         /\ Len(Basket[o]) \in Nat \ {0} /\ DOMAIN Basket[o] = 1..Len(Basket[o])
         /\ \A i \in DOMAIN Basket[o] : /\ Basket[o][i].product \in Products
                                        /\ Basket[o][i].quantity \in Nat \ {0}
<1>1. /\ Basket[o] \in Seq(SvcP!Lines) /\ Basket[o] # <<>>
      /\ \A i \in DOMAIN Basket[o] : /\ Basket[o][i].product \in Products
                                     /\ Basket[o][i].quantity \in Nat \ {0}
  BY SvcP!BasketLines, FiniteOrders, StockAssumption, BasketAssumption DEF SvcP!BasketLines
<1>. QED
  BY <1>1

LEMMA IdleFacts ==
  /\ Idle.pc = "idle" /\ Idle.src.type = "none" /\ Idle.line = 1 /\ Idle.rows = {}
  /\ Idle.todo = {} /\ Idle.answer = "none" /\ Idle.moved = [p \in Stocked |-> 0]
  /\ Idle \in Transactions
<1>1. [p \in Stocked |-> 0] \in [Stocked -> Int]
  OBVIOUS
<1>2. Idle.src \in Sources
  BY DEF Sources
<1>3. /\ Idle.pc = "idle" /\ Idle.src.type = "none" /\ Idle.line = 1 /\ Idle.rows = {}
      /\ Idle.todo = {} /\ Idle.answer = "none" /\ Idle.moved = [p \in Stocked |-> 0]
      /\ Idle = [src |-> Idle.src, pc |-> "idle", line |-> 1, moved |-> [p \in Stocked |-> 0],
                 rows |-> {}, todo |-> {}, answer |-> "none"]
  BY DEF Idle
<1>4. [src |-> Idle.src, pc |-> "idle", line |-> 1, moved |-> [p \in Stocked |-> 0],
       rows |-> {}, todo |-> {}, answer |-> "none"]
      \in Transactions
  BY <1>1, <1>2 DEF Points, Answers, Transactions
<1>. QED
  BY <1>3, <1>4

(* What a line adds to what the lines before it take. *)
LEMMA TakenFacts ==
  ASSUME NEW o \in Orders, NEW p
  PROVE  /\ Taken(o, 0, p) = 0
         /\ Taken(o, Len(Basket[o]), p) = SvcP!Demand(Basket[o], p)
         /\ \A k \in 0..Len(Basket[o]) : Taken(o, k, p) \in Nat
         /\ \A i \in 1..Len(Basket[o]) :
              Taken(o, i, p) = Taken(o, i - 1, p)
                               + IF Basket[o][i].product = p THEN Basket[o][i].quantity ELSE 0
<1>. DEFINE n == Len(Basket[o])
            w == SvcP!Wanted(Basket[o], p)
<1>1. /\ n \in Nat /\ DOMAIN Basket[o] = 1..n
      /\ SvcP!Demand(Basket[o], p) = SvcP!Sum(w, 1..n)
      /\ \A i \in 1..n : w[i] \in Nat
  BY BasketFacts, SvcP!DemandIsSum, FiniteOrders, StockAssumption, BasketAssumption
     DEF SvcP!DemandIsSum
<1>2. \A i \in 1..n : w[i] = IF Basket[o][i].product = p THEN Basket[o][i].quantity ELSE 0
  BY <1>1 DEF SvcP!Wanted
<1>. HIDE DEF w
<1>3. SvcP!Sum(w, 1..0) = 0
  <2>1. 1..0 = {}
    OBVIOUS
  <2>. QED
    BY <2>1, SvcP!SumEmpty, FiniteOrders, StockAssumption, BasketAssumption DEF SvcP!SumEmpty
<1>4. ASSUME NEW k \in 0..n
      PROVE  SvcP!Sum(w, 1..k) \in Nat
  <2>1. SvcP!IsFiniteSet(1..k)
    <3>1. k \in Int /\ IsFiniteSet(1..k)
      BY <1>1, FS_Interval
    <3>. QED
      BY <3>1 DEF SvcP!IsFiniteSet, IsFiniteSet
  <2>2. \A i \in 1..k : w[i] \in Nat
    BY <1>1
  <2>. QED
    BY <2>1, <2>2, SvcP!SumNat, FiniteOrders, StockAssumption, BasketAssumption DEF SvcP!SumNat
<1>5. ASSUME NEW i \in 1..n
      PROVE  SvcP!Sum(w, 1..i) = SvcP!Sum(w, 1..i - 1) + w[i]
  <2>0. SvcP!IsFiniteSet(1..i)
    <3>1. i \in Int /\ IsFiniteSet(1..i)
      BY <1>1, FS_Interval
    <3>. QED
      BY <3>1 DEF SvcP!IsFiniteSet, IsFiniteSet
  <2>1. i \in Nat /\ i \in 1..i /\ (1..i) \ {i} = 1..i - 1 /\ i - 1 \in 0..n
    BY <1>1
  <2>2. \A j \in 1..i : w[j] \in Int
    BY <1>1
  <2>3. SvcP!Sum(w, 1..i) = w[i] + SvcP!Sum(w, (1..i) \ {i})
    BY <2>0, <2>1, <2>2, SvcP!SumRemove, FiniteOrders, StockAssumption, BasketAssumption
       DEF SvcP!SumRemove
  <2>4. w[i] \in Nat /\ SvcP!Sum(w, 1..i - 1) \in Nat
    BY <1>1, <1>4, <2>1
  <2>5. SvcP!Sum(w, 1..i) = w[i] + SvcP!Sum(w, 1..i - 1)
    BY <2>1, <2>3
  <2>. DEFINE before == SvcP!Sum(w, 1..i - 1)
              here == w[i]
  <2>6. before \in Nat /\ here \in Nat /\ SvcP!Sum(w, 1..i) = here + before
    BY <2>4, <2>5
  <2>. HIDE DEF before, here
  <2>7. here + before = before + here
    BY <2>6
  <2>8. SvcP!Sum(w, 1..i) = before + here
    BY <2>6, <2>7
  <2>. QED
    BY <2>8 DEF before, here
<1>. QED
  BY <1>1, <1>2, <1>3, <1>4, <1>5 DEF Taken, w

(* A line inserts a row unless one before it names its product. *)
LEMMA RowsFacts ==
  ASSUME NEW o \in Orders
  PROVE  /\ FirstRows(o, 0) = {}
         /\ \A i \in 1..Len(Basket[o]) :
              FirstRows(o, i) =
                IF \E row \in FirstRows(o, i - 1) : row.product = Basket[o][i].product
                THEN FirstRows(o, i - 1) ELSE FirstRows(o, i - 1) \cup {Row(o, i)}
         /\ (\A row \in reservations : row.order # o) =>
              SvcP!NewReservations(o, Basket[o]) = FirstRows(o, Len(Basket[o]))
<1>. DEFINE n == Len(Basket[o])
            New(i) == \A j \in 1..i-1 : Basket[o][j].product # Basket[o][i].product
<1>0. n \in Nat /\ DOMAIN Basket[o] = 1..n
  BY BasketFacts
<1>1. FirstRows(o, 0) = {}
  BY DEF FirstRows
<1>2. ASSUME NEW i \in 1..n
      PROVE  FirstRows(o, i) =
               IF \E row \in FirstRows(o, i - 1) : row.product = Basket[o][i].product
               THEN FirstRows(o, i - 1) ELSE FirstRows(o, i - 1) \cup {Row(o, i)}
  <2>1. /\ FirstRows(o, i) = {Row(o, k) : k \in {k \in 1..i : New(k)}}
        /\ FirstRows(o, i - 1) = {Row(o, k) : k \in {k \in 1..i - 1 : New(k)}}
    BY DEF FirstRows
  <2>2. 1..i = (1..i - 1) \cup {i} /\ i \in Nat /\ i \in 1..i
    OBVIOUS
  <2>3. \A k : Row(o, k).product = Basket[o][k].product
    BY DEF Row
  <2>4. (\E row \in FirstRows(o, i - 1) : row.product = Basket[o][i].product) <=> ~New(i)
    <3>1. ASSUME NEW row \in FirstRows(o, i - 1), row.product = Basket[o][i].product
          PROVE  ~New(i)
      <4>1. PICK k \in 1..i - 1 : row = Row(o, k)
        BY <2>1
      <4>. QED
        BY <2>3, <3>1, <4>1
    <3>2. ASSUME ~New(i)
          PROVE  \E row \in FirstRows(o, i - 1) : row.product = Basket[o][i].product
      <4>. DEFINE same == {j \in 1..i - 1 : Basket[o][j].product = Basket[o][i].product}
      <4>1. same \in SUBSET Nat /\ same # {}
        BY <3>2
      <4>2. PICK k \in same : \A j \in same : k <= j
        <5>. HIDE DEF same
        <5>. QED
          BY <4>1, SvcP!LeastNatural, FiniteOrders, StockAssumption, BasketAssumption
             DEF SvcP!LeastNatural
      <4>3. k \in 1..i - 1 /\ Basket[o][k].product = Basket[o][i].product
        OBVIOUS
      <4>4. ASSUME NEW j \in 1..k-1
            PROVE  Basket[o][j].product # Basket[o][k].product
        <5>1. j \in 1..i - 1 /\ ~(k <= j)
          BY <4>3
        <5>. QED
          BY <4>2, <4>3, <5>1
      <4>5. Row(o, k) \in FirstRows(o, i - 1)
        BY <2>1, <4>3, <4>4
      <4>. QED
        BY <2>3, <4>3, <4>5
    <3>. QED
      BY <3>1, <3>2
  <2>. HIDE DEF New
  <2>5. CASE New(i)
    <3>1. {k \in 1..i : New(k)} = {k \in 1..i - 1 : New(k)} \cup {i}
      BY <2>2, <2>5
    <3>. QED
      BY <2>1, <2>4, <2>5, <3>1
  <2>6. CASE ~New(i)
    <3>1. {k \in 1..i : New(k)} = {k \in 1..i - 1 : New(k)}
      BY <2>2, <2>6
    <3>. QED
      BY <2>1, <2>4, <2>6, <3>1
  <2>. QED
    BY <2>5, <2>6
<1>3. ASSUME \A row \in reservations : row.order # o
      PROVE  SvcP!NewReservations(o, Basket[o]) = FirstRows(o, n)
  <2>1. {i \in DOMAIN Basket[o] :
           /\ \A j \in 1..i-1 : Basket[o][j].product # Basket[o][i].product
           /\ \A row \in reservations : ~(row.order = o /\ row.product = Basket[o][i].product)}
        = {i \in 1..n : New(i)}
    BY <1>0, <1>3
  <2>. QED
    BY <2>1 DEF SvcP!NewReservations, FirstRows, Row
<1>. QED
  BY <1>1, <1>2, <1>3

-----------------------------------------------------------------------------
(* What the invariant of the service says of the tables. *)
LEMMA TableFacts ==
  ASSUME SvcP!IInv
  PROVE  /\ available \in [Stocked -> Nat] /\ reserved \in [Stocked -> Nat]
         /\ Stocked \subseteq Products /\ reservations \subseteq SvcP!Reservation
         /\ \A row \in SvcP!Reservation : /\ row.product \in Stocked
                                         /\ row.quantity \in Nat \ {0}
         /\ \A o : /\ SvcP!HeldRows(o) \subseteq reservations
                   /\ \A row \in SvcP!HeldRows(o) : row.order = o /\ row.status = "reserved"
                   /\ \A row, other \in SvcP!HeldRows(o) :
                        row.product = other.product => row = other
         /\ \A o \in Orders :
              /\ \A row \in reservations :
                   row.order = o => Created(o).id \in processed
              /\ SvcP!ReservedEvent(o) \in outbox => Created(o).id \in processed
<1>1. available \in [Stocked -> Nat] /\ reserved \in [Stocked -> Nat]
      /\ reservations \subseteq SvcP!Reservation
  BY DEF SvcP!IInv, SvcP!TypeOK, Stocked, SvcP!Stocked
<1>2. Stocked \subseteq Products
  BY StockAssumption DEF Stocked
<1>3. \A row \in SvcP!Reservation : row.product \in Stocked /\ row.quantity \in Nat \ {0}
  BY DEF SvcP!Reservation, Stocked, SvcP!Stocked
<1>4. ASSUME NEW o
      PROVE  /\ SvcP!HeldRows(o) \subseteq reservations
             /\ \A row \in SvcP!HeldRows(o) : row.order = o /\ row.status = "reserved"
  BY DEF SvcP!HeldRows
<1>5. \A row, other \in reservations :
        row.order = other.order /\ row.product = other.product => row = other
  BY DEF SvcP!IInv, SvcP!RowKeys
<1>6. ASSUME NEW o \in Orders
      PROVE  /\ \A row \in reservations : row.order = o => Created(o).id \in processed
             /\ SvcP!ReservedEvent(o) \in outbox => Created(o).id \in processed
  BY DEF SvcP!IInv, SvcP!Histories, SvcP!History, Created
<1>. QED
  BY <1>1, <1>2, <1>3, <1>4, <1>5, <1>6

LEMMA TableFactsNext ==
  SvcP!IInv' => available' \in [Stocked -> Nat] /\ reserved' \in [Stocked -> Nat]
BY DEF SvcP!IInv, SvcP!TypeOK, Stocked, SvcP!Stocked

(* A step keeps what is known of a transaction when it touches neither the  *)
(* transaction, nor the rows it has locked.                                 *)
LEMMA Untouched ==
  ASSUME NEW q \in Replicas, TxInv(q), SvcP!IInv', tx'[q] = tx[q],
         \A p \in Stocked : lock'[p] = q <=> lock[p] = q,
         \A p \in Stocked :
           lock[p] = q => available'[p] = available[p] /\ reserved'[p] = reserved[p],
         processed \subseteq processed', outbox \subseteq outbox',
         \A o \in Orders : tx[q].src = Cancelled(o) /\ tx[q].pc # "select"
                            => SvcP!HeldRows(o)' = SvcP!HeldRows(o)
  PROVE  TxInv(q)'
<1>0. available' \in [Stocked -> Nat] /\ reserved' \in [Stocked -> Nat]
  BY TableFactsNext
<1>1. MovedInv(q)'
  BY <1>0 DEF TxInv, MovedInv
<1>2. CASE tx[q] = Idle /\ HoldsNone(q)
  BY <1>1, <1>2 DEF TxInv, HoldsNone, Idle
<1>3. ASSUME NEW o \in Orders, ReserveInv(q, o)
      PROVE  ReserveInv(q, o)'
  <2>0. Unmoved(q)' <=> Unmoved(q)
    BY DEF Unmoved
  <2>1. ASSUME NEW i, LineLocked(q, o, i)
        PROVE  LineLocked(q, o, i)'
    BY <2>1 DEF LineLocked
  <2>2. AllLocked(q, o) => AllLocked(q, o)'
    BY <2>1 DEF AllLocked
  <2>3. ASSUME NEW k, TakenInv(q, o, k)
        PROVE  TakenInv(q, o, k)'
    BY <2>3 DEF TakenInv
  <2>4. RejectedInv(q, o) => RejectedInv(q, o)'
    BY <2>0 DEF RejectedInv, LineShort
  <2>5. ReservedInv(q, o) => ReservedInv(q, o)'
    BY <2>2, <2>3 DEF ReservedInv
  <2>6. UpdateInv(q, o) => UpdateInv(q, o)'
    BY <2>2, <2>3 DEF UpdateInv
  <2>7. LockInv(q, o) => LockInv(q, o)'
    BY <2>0, <2>1 DEF LockInv
  <2>. QED
    BY <1>3, <2>4, <2>5, <2>6, <2>7 DEF ReserveInv
<1>4. ASSUME NEW o \in Orders, ReleaseInv(q, o)
      PROVE  ReleaseInv(q, o)'
  <2>0. /\ Unmoved(q)' <=> Unmoved(q)
        /\ HoldsNone(q)' <=> HoldsNone(q)
    BY DEF Unmoved, HoldsNone
  <2>1. /\ tx[q].pc # "select" /\ GivenInv(q, o) => GivenInv(q, o)'
        /\ GiveBackInv(q) => GiveBackInv(q)'
    BY <1>4 DEF GivenInv, GiveBackInv, Done, ReleaseInv
  <2>. QED
    BY <1>4, <2>0, <2>1 DEF ReleaseInv
<1>. QED
  BY <1>1, <1>2, <1>3, <1>4 DEF TxInv

LEMMA TablesKept ==
  ASSUME SvcP!IInv, UNCHANGED tables
  PROVE  /\ SvcP!IInv'
         /\ \A o : SvcP!HeldRows(o)' = SvcP!HeldRows(o)
<1>1. UNCHANGED SvcP!vars
  BY DEF tables, SvcP!vars
<1>2. SvcP!IInv'
  BY <1>1, SvcP!NextIInv, FiniteOrders, StockAssumption, BasketAssumption DEF SvcP!NextIInv
<1>. QED
  BY <1>2 DEF tables, SvcP!HeldRows

(* No other release of the same order has found rows. *)
AloneWith(r, t) ==
  \A q \in Replicas \ {r} :
    t.src.type = "order.cancelled" /\ t.rows # {} /\ tx[q].src = t.src => tx[q].rows = {}

(* A statement of replica r that commits nothing and leaves t of its        *)
(* transaction.                                                             *)
LEMMA Statement ==
  ASSUME IInv, NEW r \in Replicas, NEW t \in Transactions, UNCHANGED tables,
         tx' = [tx EXCEPT ![r] = t], lock' \in [Stocked -> Replicas \cup {NoReplica}],
         \A p \in Stocked : lock'[p] = lock[p] \/ (lock[p] \in {NoReplica, r} /\ lock'[p] \in {NoReplica, r}),
         TxInv(r)', AloneWith(r, t)
  PROVE  IInv'
<1>1. /\ SvcP!IInv /\ SvcP!IInv' /\ Types /\ OneRelease
      /\ \A o : SvcP!HeldRows(o)' = SvcP!HeldRows(o)
  BY TablesKept DEF IInv
<1>2. /\ tx' \in [Replicas -> Transactions] /\ tx'[r] = t
      /\ \A q \in Replicas \ {r} : tx'[q] = tx[q]
  BY <1>1 DEF Types
<1>3. ASSUME NEW q \in Replicas \ {r}
      PROVE  TxInv(q)'
  <2>1. TxInv(q) /\ tx'[q] = tx[q] /\ q # NoReplica
    BY <1>2, PositionAssumption DEF IInv
  <2>2. \A p \in Stocked : lock'[p] = q <=> lock[p] = q
    BY <2>1
  <2>. QED
    BY <1>1, <2>1, <2>2, Untouched DEF tables
<1>4. OneRelease'
  <2>. SUFFICES ASSUME NEW a \in Replicas, NEW b \in Replicas, a # b,
                       tx'[a].src.type = "order.cancelled", tx'[a].rows # {},
                       tx'[b].src = tx'[a].src, tx'[b].rows # {}
                PROVE  FALSE
    BY DEF OneRelease
  <2>1. CASE a = r
    BY <1>2, <2>1 DEF AloneWith
  <2>2. CASE b = r
    BY <1>2, <2>2 DEF AloneWith
  <2>3. CASE a # r /\ b # r
    BY <1>1, <1>2, <2>3 DEF OneRelease
  <2>. QED
    BY <2>1, <2>2, <2>3
<1>5. Types'
  BY <1>2 DEF Types
<1>. QED
  BY <1>1, <1>3, <1>4, <1>5 DEF IInv

LEMMA Stutter ==
  ASSUME IInv, UNCHANGED vars
  PROVE  IInv'
<1>1. UNCHANGED tables /\ tx' = tx /\ lock' = lock
  BY DEF vars
<1>2. SvcP!IInv' /\ \A o : SvcP!HeldRows(o)' = SvcP!HeldRows(o)
  BY <1>1, TablesKept DEF IInv
<1>3. ASSUME NEW q \in Replicas
      PROVE  TxInv(q)'
  BY <1>1, <1>2, Untouched DEF IInv, tables
<1>4. Types' /\ OneRelease'
  BY <1>1 DEF IInv, Types, OneRelease
<1>. QED
  BY <1>2, <1>3, <1>4 DEF IInv

(* A transaction that keeps its rows is still the only one with them. *)
LEMMA StillAlone ==
  ASSUME IInv, NEW r \in Replicas, NEW t, t.src = tx[r].src, t.rows = tx[r].rows
  PROVE  AloneWith(r, t)
BY DEF AloneWith, IInv, OneRelease

LEMMA CreatedAlone ==
  ASSUME NEW r, NEW t, NEW o, t.src = Created(o) \/ t.rows = {}
  PROVE  AloneWith(r, t)
BY EventFacts DEF AloneWith

(* What is known of a transaction at each statement. *)
LEMMA AtPoint ==
  ASSUME IInv, NEW r \in Replicas
  PROVE  /\ tx[r] \in Transactions /\ tx \in [Replicas -> Transactions] /\ MovedInv(r)
         /\ lock \in [Stocked -> Replicas \cup {NoReplica}]
         /\ tx[r].pc = "idle" => tx[r] = Idle /\ HoldsNone(r)
         /\ tx[r].pc = "lock" =>
              \E o \in Orders : tx[r].src = Created(o) /\ tx[r].todo = {} /\ LockInv(r, o)
         /\ tx[r].pc = "update" =>
              \E o \in Orders : tx[r].src = Created(o) /\ tx[r].todo = {} /\ UpdateInv(r, o)
         /\ tx[r].pc = "select" =>
              /\ tx[r].answer = "none" /\ HoldsNone(r) /\ Unmoved(r)
              /\ tx[r].rows = {} /\ tx[r].todo = {}
              /\ \E o \in Orders : tx[r].src = Cancelled(o) /\ ReleaseInv(r, o)
         /\ tx[r].pc = "giveback" =>
              \E o \in Orders : /\ tx[r].src = Cancelled(o) /\ ReleaseInv(r, o)
                                /\ GivenInv(r, o) /\ GiveBackInv(r)
         /\ tx[r].pc \in {"outbox", "finish"} => \E o \in Orders : ReserveInv(r, o) \/ ReleaseInv(r, o)
<1>1. /\ tx[r] \in Transactions /\ tx \in [Replicas -> Transactions] /\ MovedInv(r)
      /\ lock \in [Stocked -> Replicas \cup {NoReplica}]
  BY DEF IInv, Types, TxInv
<1>2. (tx[r] = Idle /\ HoldsNone(r)) \/ \E o \in Orders : ReserveInv(r, o) \/ ReleaseInv(r, o)
  BY DEF IInv, TxInv
<1>3. CASE tx[r] = Idle /\ HoldsNone(r)
  BY <1>1, <1>3, IdleFacts
<1>4. ASSUME NEW o \in Orders, ReserveInv(r, o)
      PROVE  /\ tx[r].src = Created(o) /\ tx[r].todo = {}
             /\ tx[r].pc \in {"lock", "update", "outbox", "finish"}
             /\ tx[r].pc = "lock" => LockInv(r, o)
             /\ tx[r].pc = "update" => UpdateInv(r, o)
  BY <1>4 DEF ReserveInv
<1>5. ASSUME NEW o \in Orders, ReleaseInv(r, o)
      PROVE  /\ tx[r].src = Cancelled(o) /\ tx[r].pc \in {"select", "giveback", "outbox", "finish"}
             /\ tx[r].pc = "giveback" => GivenInv(r, o) /\ GiveBackInv(r)
             /\ tx[r].pc = "select" => /\ tx[r].answer = "none" /\ HoldsNone(r) /\ Unmoved(r)
                                       /\ tx[r].rows = {} /\ tx[r].todo = {}
  BY <1>5 DEF ReleaseInv
<1>. QED
  BY <1>1, <1>2, <1>3, <1>4, <1>5

LEMMA BeginStep ==
  ASSUME IInv, NEW r \in Replicas, NEW src \in Deliverable, Begin(r, src)
  PROVE  IInv'
<1>1. CASE UNCHANGED tx
  BY <1>1, Stutter DEF Begin, vars, tables
<1>. DEFINE t == [Idle EXCEPT !.src = src,
                              !.pc = IF src.type = "order.created" THEN "lock" ELSE "select"]
<1>2. CASE tx' = [tx EXCEPT ![r] = t]
  <2>0. UNCHANGED tables /\ lock' = lock /\ tx[r].pc = "idle"
    BY DEF Begin, Open
  <2>1. PICK o \in Orders : \/ src = Created(o)
                            \/ src = Cancelled(o) /\ Svc!WasReserved(o)
    BY EventFacts DEF Deliverable
  <2>2. /\ t.src = src /\ t.pc = IF src.type = "order.created" THEN "lock" ELSE "select"
        /\ t.line = 1 /\ t.rows = {} /\ t.todo = {} /\ t.answer = "none"
        /\ t.moved = [p \in Stocked |-> 0] /\ t \in Transactions
    <3>1. src \in Sources
      BY <2>1 DEF Sources
    <3>. QED
      BY <3>1, IdleFacts DEF Transactions, Points
  <2>. HIDE DEF t
  <2>3. tx'[r] = t /\ HoldsNone(r) /\ lock \in [Stocked -> Replicas \cup {NoReplica}]
    BY <1>2, <2>0, AtPoint
  <2>4. /\ Unmoved(r)' /\ HoldsNone(r)'
        /\ MovedInv(r)'
    <3>1. available' \in [Stocked -> Nat] /\ reserved' \in [Stocked -> Nat]
      BY <2>0, TablesKept, TableFactsNext DEF IInv
    <3>. QED
      BY <2>0, <2>2, <2>3, <3>1 DEF Unmoved, HoldsNone, MovedInv
  <2>5. TxInv(r)'
    <3>1. CASE src = Created(o)
      <4>1. 1 \in DOMAIN Basket[o]
        BY BasketFacts
      <4>2. t.pc = "lock"
        BY <2>2, <3>1, EventFacts
      <4>3. ReserveInv(r, o)'
        BY <2>2, <2>3, <2>4, <3>1, <4>1, <4>2 DEF ReserveInv, LockInv, HoldsNone
      <4>. QED
        BY <2>4, <4>3 DEF TxInv
    <3>2. CASE src = Cancelled(o) /\ Svc!WasReserved(o)
      <4>1. t.pc = "select"
        BY <2>2, <3>2, EventFacts
      <4>2. SvcP!ReservedEvent(o) \in outbox
        <5>1. PICK e \in outbox : e.order = o /\ e.type = "inventory.reserved"
          BY <3>2 DEF Svc!WasReserved
        <5>2. PICK q \in Orders : e \in {SvcP!ReservedEvent(q), SvcP!RejectedEvent(q), SvcP!ReleasedEvent(q)}
          BY <5>1 DEF IInv, SvcP!IInv, SvcP!OutboxKnown
        <5>. QED
          BY <5>1, <5>2, AnswerFacts
      <4>3. ReleaseInv(r, o)'
        BY <2>0, <2>2, <2>3, <2>4, <3>2, <4>1, <4>2 DEF ReleaseInv, tables
      <4>. QED
        BY <2>4, <4>3 DEF TxInv
    <3>. QED
      BY <2>1, <3>1, <3>2
  <2>6. AloneWith(r, t)
    BY <2>2, CreatedAlone
  <2>. QED
    BY <1>2, <2>0, <2>2, <2>3, <2>5, <2>6, Statement
<1>. QED
  BY <1>1, <1>2 DEF Begin

LEMMA BlockersAt ==
  ASSUME NEW r
  PROVE  /\ tx[r].pc = "lock" =>
              Blockers(r) = IF Line(r).product \in Stocked THEN RowHolder(r, Line(r).product) ELSE {}
         /\ tx[r].pc = "select" =>
              Blockers(r) = {q \in Replicas \ {r} :
                               tx[q].src.type = "order.cancelled" /\ tx[q].rows # {}
                                 /\ tx[q].src.order = tx[r].src.order}
         /\ tx[r].pc = "giveback" => Blockers(r) = RowHolder(r, NextRow(r).product)
         /\ tx[r].pc = "outbox" =>
              Blockers(r) = {q \in Replicas \ {r} : tx[q].pc = "finish" /\ tx[q].answer # "none"
                                                       /\ tx[q].src.id = tx[r].src.id}
         /\ tx[r].pc \notin {"lock", "select", "giveback", "outbox"} => Blockers(r) = {}
BY DEF Blockers

(* A row that nobody else has locked. *)
LEMMA FreeRow ==
  ASSUME NEW r, NEW p, RowHolder(r, p) = {}
  PROVE  lock[p] \in {NoReplica, r}
BY DEF RowHolder

LEMMA RejectStep ==
  ASSUME IInv, NEW r \in Replicas, NEW o \in Orders, tx[r].src = Created(o), tx[r].todo = {},
         tx[r].rows = {}, Unmoved(r), Reject(r), UNCHANGED tables,
         lock' \in [Stocked -> Replicas \cup {NoReplica}],
         \A p \in Stocked :
           lock'[p] = lock[p] \/ (lock[p] \in {NoReplica, r} /\ lock'[p] \in {NoReplica, r}),
         NEW i \in DOMAIN Basket[o], LineShort(r, o, i)'
  PROVE  IInv'
<1>. DEFINE t == [tx[r] EXCEPT !.answer = "inventory.rejected", !.pc = "outbox"]
<1>0. tx[r] \in Transactions /\ tx \in [Replicas -> Transactions]
  BY AtPoint
<1>1. tx' = [tx EXCEPT ![r] = t]
  BY <1>0 DEF Reject
<1>2. /\ t \in Transactions /\ t.pc = "outbox" /\ t.answer = "inventory.rejected"
      /\ t.src = tx[r].src /\ t.rows = tx[r].rows /\ t.todo = tx[r].todo
      /\ t.moved = tx[r].moved
  BY <1>0 DEF Transactions, Points, Answers
<1>. HIDE DEF t
<1>3. tx'[r] = t
  BY <1>0, <1>1
<1>4. Unmoved(r)' /\ MovedInv(r)'
  <2>1. available' \in [Stocked -> Nat] /\ reserved' \in [Stocked -> Nat]
    BY TablesKept, TableFactsNext DEF IInv
  <2>. QED
    BY <1>2, <1>3, <2>1 DEF Unmoved, MovedInv
<1>5. RejectedInv(r, o)'
  BY <1>2, <1>3, <1>4 DEF RejectedInv
<1>6. TxInv(r)'
  BY <1>2, <1>3, <1>4, <1>5 DEF TxInv, ReserveInv
<1>7. AloneWith(r, t)
  BY <1>2, CreatedAlone
<1>. QED
  BY <1>1, <1>2, <1>6, <1>7, Statement

LEMMA LockLineStep ==
  ASSUME IInv, NEW r \in Replicas, LockLine(r)
  PROVE  IInv'
<1>0. /\ tx[r].pc = "lock" /\ Blockers(r) = {} /\ UNCHANGED tables
      /\ tx[r] \in Transactions /\ tx \in [Replicas -> Transactions]
      /\ lock \in [Stocked -> Replicas \cup {NoReplica}]
  BY AtPoint DEF LockLine, At
<1>1. PICK o \in Orders : tx[r].src = Created(o) /\ tx[r].todo = {} /\ LockInv(r, o)
  BY <1>0, AtPoint
<1>2. PICK k \in DOMAIN Basket[o] :
        /\ tx[r].line = k
        /\ \A i \in 1..k - 1 : LineLocked(r, o, i)
        /\ \A p \in Stocked : lock[p] = r => \E i \in 1..k - 1 : Basket[o][i].product = p
  BY <1>1 DEF LockInv
<1>3. tx[r].rows = {} /\ Unmoved(r)
  BY <1>1 DEF LockInv
<1>. DEFINE p == Basket[o][k].product
<1>4. /\ Line(r) = Basket[o][k] /\ tx[r].src.items = Basket[o]
      /\ Len(Basket[o]) \in Nat /\ k \in 1..Len(Basket[o]) /\ DOMAIN Basket[o] = 1..Len(Basket[o])
      /\ Basket[o][k].quantity \in Nat
  <2>1. tx[r].src.items = Basket[o]
    BY <1>1, EventFacts
  <2>2. /\ Len(Basket[o]) \in Nat /\ DOMAIN Basket[o] = 1..Len(Basket[o])
        /\ Basket[o][k].quantity \in Nat
    BY <1>2, BasketFacts
  <2>. QED
    BY <1>2, <2>1, <2>2 DEF Line
<1>5. CASE p \notin Stocked /\ Reject(r) /\ UNCHANGED lock
  <2>1. LineShort(r, o, k)'
    BY <1>5 DEF LineShort
  <2>. QED
    BY <1>0, <1>1, <1>2, <1>3, <1>5, <2>1, RejectStep
<1>6. CASE p \in Stocked /\ lock' = [lock EXCEPT ![p] = r]
  <2>1. lock[p] \in {NoReplica, r}
    BY <1>0, <1>4, <1>6, BlockersAt, FreeRow
  <2>2. /\ lock' \in [Stocked -> Replicas \cup {NoReplica}]
        /\ lock'[p] = r /\ \A x \in Stocked : x # p => lock'[x] = lock[x]
        /\ \A x \in Stocked :
             lock'[x] = lock[x] \/ (lock[x] \in {NoReplica, r} /\ lock'[x] \in {NoReplica, r})
    BY <1>0, <1>6, <2>1
  <2>3. available \in [Stocked -> Nat]
    BY TableFacts DEF IInv
  <2>4. CASE ~(Basket[o][k].quantity <= available[p])
    <3>1. Reject(r)
      BY <1>4, <1>6, <2>4 DEF LockLine
    <3>2. LineShort(r, o, k)'
      BY <1>0, <1>4, <1>6, <2>2, <2>3, <2>4 DEF LineShort, tables
    <3>. QED
      BY <1>0, <1>1, <1>2, <1>3, <2>2, <3>1, <3>2, RejectStep
  <2>5. CASE Basket[o][k].quantity <= available[p]
    <3>. DEFINE t == AfterLine(r, "update")
    <3>1. tx' = [tx EXCEPT ![r] = t]
      BY <1>4, <1>6, <2>5 DEF LockLine
    <3>2. /\ t \in Transactions /\ t.answer = tx[r].answer /\ t.src = tx[r].src
          /\ t.rows = {} /\ t.todo = {} /\ t.moved = tx[r].moved
          /\ k < Len(Basket[o]) => t.line = k + 1 /\ t.pc = "lock"
          /\ ~(k < Len(Basket[o])) => t.line = 1 /\ t.pc = "update"
      <4>1. CASE k < Len(Basket[o])
        <5>1. t = [tx[r] EXCEPT !.line = k + 1] /\ k + 1 \in Nat /\ tx[r].pc = "lock"
          BY <1>0, <1>2, <1>4, <4>1 DEF AfterLine
        <5>. QED
          BY <1>0, <1>1, <1>3, <4>1, <5>1 DEF Transactions
      <4>2. CASE ~(k < Len(Basket[o]))
        <5>1. t = [tx[r] EXCEPT !.line = 1, !.pc = "update"]
          BY <1>2, <1>4, <4>2 DEF AfterLine
        <5>2. 1 \in Nat /\ "update" \in Points
          BY DEF Points
        <5>. HIDE DEF t
        <5>3. PICK x \in Transactions : x = tx[r]
          BY <1>0
        <5>4. t = [x EXCEPT !.line = 1, !.pc = "update"]
          BY <5>1, <5>3
        <5>5. /\ t \in Transactions /\ t.line = 1 /\ t.pc = "update" /\ t.src = x.src
              /\ t.rows = x.rows /\ t.todo = x.todo /\ t.moved = x.moved /\ t.answer = x.answer
          BY <5>2, <5>4 DEF Transactions
        <5>. QED
          BY <1>1, <1>3, <4>2, <5>3, <5>5
      <4>. QED
        BY <4>1, <4>2
    <3>. HIDE DEF t
    <3>3. tx'[r] = t
      BY <1>0, <3>1
    <3>4. Unmoved(r)' /\ MovedInv(r)'
      <4>1. available' \in [Stocked -> Nat] /\ reserved' \in [Stocked -> Nat]
        BY <1>0, TablesKept, TableFactsNext DEF IInv
      <4>. QED
        BY <1>3, <3>2, <3>3, <4>1 DEF Unmoved, MovedInv
    <3>5. \A i \in 1..k : LineLocked(r, o, i)'
      <4>1. ASSUME NEW i \in 1..k - 1
            PROVE  LineLocked(r, o, i)'
        BY <1>0, <1>2, <2>2 DEF LineLocked, tables
      <4>2. LineLocked(r, o, k)'
        BY <1>0, <1>6, <2>2, <2>5 DEF LineLocked, tables
      <4>. QED
        BY <1>4, <4>1, <4>2
    <3>6. \A x \in Stocked : lock'[x] = r => \E i \in 1..k : Basket[o][i].product = x
      BY <1>2, <1>4, <2>2
    <3>7. ASSUME k < Len(Basket[o])
          PROVE  TxInv(r)'
      <4>1. k + 1 \in DOMAIN Basket[o] /\ (k + 1) - 1 = k
        BY <1>4, <3>7
      <4>2. LockInv(r, o)'
        BY <3>2, <3>3, <3>4, <3>5, <3>6, <3>7, <4>1 DEF LockInv
      <4>. QED
        <5>1. ReserveInv(r, o)'
          BY <1>1, <3>2, <3>3, <3>7, <4>2 DEF ReserveInv
        <5>. QED
          BY <3>4, <5>1 DEF TxInv
    <3>8. ASSUME ~(k < Len(Basket[o]))
          PROVE  TxInv(r)'
      <4>1. k = Len(Basket[o]) /\ 1 \in DOMAIN Basket[o] /\ 1 - 1 = 0
        BY <1>4, <3>8
      <4>2. AllLocked(r, o)'
        BY <1>4, <3>5, <4>1 DEF AllLocked
      <4>3. TakenInv(r, o, 0)'
        BY <3>2, <3>3, <3>4, TakenFacts, RowsFacts DEF TakenInv, Unmoved
      <4>4. UpdateInv(r, o)'
        BY <3>2, <3>3, <3>8, <4>1, <4>2, <4>3 DEF UpdateInv
      <4>. QED
        <5>1. ReserveInv(r, o)'
          BY <1>1, <3>2, <3>3, <3>8, <4>4 DEF ReserveInv
        <5>. QED
          BY <3>4, <5>1 DEF TxInv
    <3>9. AloneWith(r, t)
      BY <3>2, CreatedAlone
    <3>. QED
      BY <1>0, <2>2, <3>1, <3>2, <3>7, <3>8, <3>9, Statement
  <2>. QED
    BY <2>4, <2>5
<1>. QED
  BY <1>4, <1>5, <1>6 DEF LockLine

LEMMA UpdateLineStep ==
  ASSUME IInv, NEW r \in Replicas, UpdateLine(r)
  PROVE  IInv'
<1>0. /\ tx[r].pc = "update" /\ UNCHANGED tables /\ lock' = lock /\ CheckHolds(r)
      /\ tx[r] \in Transactions /\ tx \in [Replicas -> Transactions]
      /\ lock \in [Stocked -> Replicas \cup {NoReplica}] /\ MovedInv(r)
      /\ available \in [Stocked -> Nat] /\ reserved \in [Stocked -> Nat]
  BY AtPoint, TableFacts DEF UpdateLine, At, IInv
<1>1. PICK o \in Orders : tx[r].src = Created(o) /\ tx[r].todo = {} /\ UpdateInv(r, o)
  BY <1>0, AtPoint
<1>2. PICK i \in DOMAIN Basket[o] : tx[r].line = i /\ TakenInv(r, o, i - 1)
  BY <1>1 DEF UpdateInv
<1>3. AllLocked(r, o) /\ LineLocked(r, o, i)
  BY <1>1, <1>2 DEF UpdateInv, AllLocked
<1>. DEFINE n == Len(Basket[o])
            p == Basket[o][i].product
            quantity == Basket[o][i].quantity
            conflict == \E other \in reservations \cup tx[r].rows :
                          other.order = o /\ other.product = p
            rows == IF conflict THEN tx[r].rows ELSE tx[r].rows \cup {Row(o, i)}
            moved == [tx[r].moved EXCEPT ![p] = @ + quantity]
            t == [AfterLine(r, "outbox") EXCEPT !.moved = moved, !.rows = rows,
                                                !.answer = "inventory.reserved"]
<1>4. /\ Line(r) = Basket[o][i] /\ tx[r].src.items = Basket[o] /\ tx[r].src.order = o
      /\ n \in Nat /\ i \in 1..n /\ DOMAIN Basket[o] = 1..n
      /\ quantity \in Nat \ {0} /\ p \in Stocked
  <2>1. tx[r].src.items = Basket[o] /\ tx[r].src.order = o
    BY <1>1, EventFacts
  <2>2. n \in Nat /\ DOMAIN Basket[o] = 1..n /\ quantity \in Nat \ {0}
    BY <1>2, BasketFacts
  <2>. QED
    BY <1>2, <1>3, <2>1, <2>2 DEF Line, LineLocked
<1>5. tx' = [tx EXCEPT ![r] = t]
  <2>. DEFINE next == AfterLine(r, "outbox")
  <2>1. next.moved = tx[r].moved /\ next.rows = tx[r].rows
    BY <1>0 DEF AfterLine, Transactions
  <2>2. tx' = [tx EXCEPT ![r] = [next EXCEPT !.moved[p] = @ + quantity,
                                             !.rows = IF conflict THEN @ ELSE @ \cup {Row(o, i)},
                                             !.answer = "inventory.reserved"]]
    BY <1>4 DEF UpdateLine, Row
  <2>. HIDE DEF next
  <2>3. [next EXCEPT !.moved[p] = @ + quantity,
                     !.rows = IF conflict THEN @ ELSE @ \cup {Row(o, i)},
                     !.answer = "inventory.reserved"]
        = [next EXCEPT !.moved = [next.moved EXCEPT ![p] = @ + quantity],
                       !.rows = IF conflict THEN next.rows ELSE next.rows \cup {Row(o, i)},
                       !.answer = "inventory.reserved"]
    OBVIOUS
  <2>4. t = [next EXCEPT !.moved = moved, !.rows = rows, !.answer = "inventory.reserved"]
    BY DEF next
  <2>. QED
    BY <2>1, <2>2, <2>3, <2>4
<1>6. /\ moved \in [Stocked -> Int] /\ moved[p] = tx[r].moved[p] + quantity
      /\ \A x \in Stocked : x # p => moved[x] = tx[r].moved[x]
      /\ \A x \in Stocked : tx[r].moved[x] \in Int
  BY <1>0, <1>4 DEF Transactions
<1>7. rows \in SUBSET SvcP!Reservation
  <2>1. Row(o, i) \in SvcP!Reservation
    BY <1>4 DEF Row, SvcP!Reservation, Stocked, SvcP!Stocked
  <2>. QED
    BY <1>0, <2>1 DEF Transactions
<1>. HIDE DEF moved, rows, conflict
<1>8. /\ t \in Transactions /\ t.answer = "inventory.reserved" /\ t.src = tx[r].src
      /\ t.rows = rows /\ t.todo = {} /\ t.moved = moved
      /\ i < n => t.line = i + 1 /\ t.pc = "update"
      /\ ~(i < n) => t.line = 1 /\ t.pc = "outbox"
  <2>1. PICK x \in Transactions : x = tx[r]
    BY <1>0
  <2>2. CASE i < n
    <3>1. AfterLine(r, "outbox") = [x EXCEPT !.line = i + 1]
      BY <1>2, <1>4, <2>1, <2>2 DEF AfterLine
    <3>2. t = [x EXCEPT !.line = i + 1, !.moved = moved, !.rows = rows,
                        !.answer = "inventory.reserved"]
      BY <3>1
    <3>. HIDE DEF t
    <3>3. i + 1 \in Nat
      BY <1>4
    <3>. QED
      BY <1>0, <1>1, <1>6, <1>7, <2>1, <2>2, <3>2, <3>3 DEF Transactions, Answers
  <2>3. CASE ~(i < n)
    <3>1. AfterLine(r, "outbox") = [x EXCEPT !.line = 1, !.pc = "outbox"]
      BY <1>2, <1>4, <2>1, <2>3 DEF AfterLine
    <3>2. t = [x EXCEPT !.line = 1, !.pc = "outbox", !.moved = moved, !.rows = rows,
                        !.answer = "inventory.reserved"]
      BY <3>1
    <3>. HIDE DEF t
    <3>. QED
      BY <1>0, <1>1, <1>6, <1>7, <2>1, <2>3, <3>2 DEF Transactions, Answers, Points
  <2>. QED
    BY <2>2, <2>3
<1>. HIDE DEF t
<1>9. tx'[r] = t
  BY <1>0, <1>5
<1>10. MovedInv(r)'
  <2>1. moved[p] <= available[p] /\ lock[p] = r /\ available[p] \in Nat /\ reserved[p] \in Nat
    <3>1. available[p] - tx[r].moved[p] >= quantity /\ lock[p] = r
      BY <1>0, <1>3, <1>4 DEF CheckHolds, LineLocked
    <3>. QED
      BY <1>0, <1>4, <1>6, <3>1
  <2>2. -moved[p] <= reserved[p]
    <3>1. -tx[r].moved[p] <= reserved[p]
      BY <1>0, <1>4 DEF MovedInv
    <3>. QED
      <4>. DEFINE m == tx[r].moved[p]
                  v == reserved[p]
      <4>1. m \in Int /\ v \in Nat /\ -m <= v /\ moved[p] = m + quantity /\ quantity \in Nat
        BY <1>4, <1>6, <2>1, <3>1
      <4>. HIDE DEF m, v, quantity
      <4>2. -(m + quantity) <= v
        BY <4>1
      <4>. QED
        BY <4>1, <4>2 DEF v
  <2>3. \A x \in Stocked : /\ moved[x] # 0 => lock[x] = r
                            /\ moved[x] <= available[x] /\ -moved[x] <= reserved[x]
    BY <1>0, <1>6, <2>1, <2>2 DEF MovedInv
  <2>. QED
    BY <1>0, <1>8, <1>9, <2>3 DEF MovedInv, tables
<1>11. AllLocked(r, o)'
  BY <1>0, <1>3 DEF AllLocked, LineLocked, tables
<1>12. TakenInv(r, o, i)'
  <2>1. \A x \in Stocked : moved[x] = Taken(o, i, x)
    <3>. SUFFICES ASSUME NEW x \in Stocked PROVE moved[x] = Taken(o, i, x)
      OBVIOUS
    <3>1. tx[r].moved[x] = Taken(o, i - 1, x)
      BY <1>2 DEF TakenInv
    <3>2. Taken(o, i, x) = Taken(o, i - 1, x)
                           + IF Basket[o][i].product = x THEN Basket[o][i].quantity ELSE 0
      BY <1>4, TakenFacts
    <3>. QED
      BY <1>4, <1>6, <3>1, <3>2
  <2>2. ASSUME Created(o).id \notin processed
        PROVE  rows = FirstRows(o, i)
    <3>1. tx[r].rows = FirstRows(o, i - 1)
      BY <1>2, <2>2 DEF TakenInv
    <3>2. \A row \in reservations : row.order # o
      BY <2>2, TableFacts DEF IInv
    <3>3. \A row \in FirstRows(o, i - 1) : row.order = o
      BY DEF FirstRows, Row
    <3>4. conflict <=> \E row \in FirstRows(o, i - 1) : row.product = p
      BY <3>1, <3>2, <3>3 DEF conflict
    <3>. QED
      BY <1>4, <3>1, <3>4, RowsFacts DEF rows
  <2>. QED
    BY <1>0, <1>8, <1>9, <2>1, <2>2 DEF TakenInv, tables
<1>13. ASSUME i < n
       PROVE  ReserveInv(r, o)'
  <2>1. i + 1 \in DOMAIN Basket[o] /\ (i + 1) - 1 = i
    BY <1>4, <1>13
  <2>2. UpdateInv(r, o)'
    BY <1>8, <1>9, <1>11, <1>12, <1>13, <2>1 DEF UpdateInv
  <2>. QED
    BY <1>1, <1>8, <1>9, <1>13, <2>2 DEF ReserveInv
<1>14. ASSUME ~(i < n)
       PROVE  ReserveInv(r, o)'
  <2>1. i = n
    BY <1>4, <1>14
  <2>2. ReservedInv(r, o)'
    BY <1>8, <1>9, <1>11, <1>12, <2>1 DEF ReservedInv
  <2>. QED
    BY <1>1, <1>8, <1>9, <1>14, <2>2 DEF ReserveInv
<1>15. TxInv(r)'
  BY <1>10, <1>13, <1>14 DEF TxInv
<1>16. AloneWith(r, t)
  BY <1>1, <1>8, CreatedAlone
<1>. QED
  BY <1>0, <1>5, <1>8, <1>15, <1>16, Statement

LEMMA SelectRowsStep ==
  ASSUME IInv, NEW r \in Replicas, SelectRows(r)
  PROVE  IInv'
<1>. DEFINE rows == Svc!HeldRows(tx[r].src.order)
            t == [tx[r] EXCEPT !.rows = rows, !.todo = rows,
                               !.pc = IF rows = {} THEN "finish" ELSE "giveback"]
<1>0. /\ tx[r].pc = "select" /\ Blockers(r) = {} /\ UNCHANGED tables /\ lock' = lock
      /\ tx[r] \in Transactions /\ tx \in [Replicas -> Transactions]
      /\ lock \in [Stocked -> Replicas \cup {NoReplica}]
      /\ tx[r].answer = "none" /\ HoldsNone(r) /\ Unmoved(r)
  BY AtPoint DEF SelectRows, At
<1>1. PICK o \in Orders : tx[r].src = Cancelled(o) /\ ReleaseInv(r, o)
  BY <1>0, AtPoint
<1>2. tx[r].src.order = o /\ tx[r].src.type = "order.cancelled"
  BY <1>1, EventFacts
<1>3. rows = SvcP!HeldRows(o) /\ rows \in SUBSET SvcP!Reservation
  BY <1>2, TableFacts DEF Svc!HeldRows, SvcP!HeldRows, IInv
<1>4. tx' = [tx EXCEPT ![r] = t]
  BY <1>0 DEF SelectRows
<1>. HIDE DEF rows
<1>5. /\ t \in Transactions /\ t.src = tx[r].src /\ t.rows = rows /\ t.todo = rows
      /\ t.moved = tx[r].moved /\ t.answer = "none"
      /\ t.pc = IF rows = {} THEN "finish" ELSE "giveback"
  <2>1. PICK x \in Transactions : x = tx[r]
    BY <1>0
  <2>2. PICK pc \in Points : pc = IF rows = {} THEN "finish" ELSE "giveback"
    BY DEF Points
  <2>3. t = [x EXCEPT !.rows = rows, !.todo = rows, !.pc = pc]
    BY <2>1, <2>2
  <2>. HIDE DEF t
  <2>. QED
    BY <1>0, <1>3, <2>1, <2>2, <2>3 DEF Transactions
<1>. HIDE DEF t
<1>6. tx'[r] = t
  BY <1>0, <1>4
<1>7. MovedInv(r)'
  <2>1. available' \in [Stocked -> Nat] /\ reserved' \in [Stocked -> Nat]
    BY <1>0, TablesKept, TableFactsNext DEF IInv
  <2>. QED
    BY <1>0, <1>5, <1>6, <2>1 DEF Unmoved, MovedInv
<1>8. GivenInv(r, o)' /\ (rows # {} => GiveBackInv(r)')
  <2>1. SvcP!HeldRows(o)' = rows
    BY <1>0, <1>3, TablesKept DEF IInv
  <2>2. Done(r)' = {}
    BY <1>5, <1>6 DEF Done
  <2>3. \A p : SvcP!QuantityIn({}, p) = 0
    BY DEF SvcP!QuantityIn
  <2>4. GivenInv(r, o)'
    <3>1. \A p \in Stocked : tx'[r].moved[p] = -SvcP!QuantityIn(Done(r)', p)
      BY <1>0, <1>5, <1>6, <2>2, <2>3 DEF Unmoved
    <3>. QED
      BY <1>5, <1>6, <2>1, <3>1 DEF GivenInv
  <2>5. rows # {} => GiveBackInv(r)'
    BY <1>0, <1>5, <1>6, <2>2 DEF GiveBackInv, HoldsNone
  <2>. QED
    BY <2>4, <2>5
<1>9. ReleaseInv(r, o)'
  <2>1. (SvcP!ReservedEvent(o) \in outbox)'
    BY <1>0, <1>1 DEF ReleaseInv, tables
  <2>. QED
    BY <1>1, <1>5, <1>6, <1>8, <2>1 DEF ReleaseInv
<1>10. TxInv(r)'
  BY <1>7, <1>9 DEF TxInv
<1>11. AloneWith(r, t)
  <2>. SUFFICES ASSUME NEW q \in Replicas \ {r}, tx[q].src = tx[r].src, tx[q].rows # {}
                PROVE  FALSE
    BY <1>5 DEF AloneWith
  <2>1. q \in Blockers(r)
    BY <1>0, <1>2, BlockersAt
  <2>. QED
    BY <1>0, <2>1
<1>. QED
  BY <1>0, <1>4, <1>5, <1>10, <1>11, Statement

(* Some row comes first in the order of the products. *)
LEMMA NextRowFirst ==
  ASSUME NEW r, tx[r].todo # {}, \A row \in tx[r].todo : row.product \in Products
  PROVE  /\ NextRow(r) \in tx[r].todo
         /\ \A other \in tx[r].todo :
              Position[NextRow(r).product] <= Position[other.product]
<1>. DEFINE T == {Position[row.product] : row \in tx[r].todo}
<1>1. T \in SUBSET Nat /\ T # {}
  BY PositionAssumption
<1>2. PICK n \in T : \A m \in T : n <= m
  <2>. HIDE DEF T
  <2>. QED
    BY <1>1, SvcP!LeastNatural, FiniteOrders, StockAssumption, BasketAssumption
       DEF SvcP!LeastNatural
<1>3. PICK row \in tx[r].todo : n = Position[row.product]
  BY <1>2
<1>4. \A other \in tx[r].todo : Position[row.product] <= Position[other.product]
  BY <1>2, <1>3
<1>. QED
  BY <1>3, <1>4 DEF NextRow

LEMMA HeldRowsOf ==
  ASSUME IInv, NEW r \in Replicas, tx[r].pc = "giveback"
  PROVE  /\ GiveBackInv(r) /\ NextRow(r) \in tx[r].todo /\ NextRow(r).product \in Stocked
<1>1. PICK o \in Orders : GivenInv(r, o) /\ GiveBackInv(r)
  BY AtPoint
<1>2. /\ tx[r].todo \subseteq SvcP!HeldRows(o) /\ tx[r].todo # {}
      /\ \A row \in SvcP!HeldRows(o) : row.product \in Stocked /\ row.product \in Products
  BY <1>1, TableFacts DEF IInv, GivenInv, GiveBackInv
<1>. QED
  BY <1>1, <1>2, NextRowFirst

(* What the rows of one order hold, with one more of them. *)
LEMMA QuantityAdded ==
  ASSUME NEW R, NEW row \in R, NEW S, S = R \ {row},
         \A x, y \in R : x.product = y.product => x = y,
         \A x \in R : x.quantity \in Nat
  PROVE  /\ SvcP!QuantityIn(S, row.product) = 0
         /\ SvcP!QuantityIn(R, row.product) = row.quantity
         /\ \A p : p # row.product => SvcP!QuantityIn(R, p) = SvcP!QuantityIn(S, p)
         /\ \A p : SvcP!QuantityIn(R, p) \in Nat /\ SvcP!QuantityIn(S, p) \in Nat
<1>1. {x \in S : x.product = row.product} = {}
  OBVIOUS
<1>2. {x \in R : x.product = row.product} = {row}
  OBVIOUS
<1>3. ASSUME NEW p, p # row.product
      PROVE  {x \in R : x.product = p} = {x \in S : x.product = p}
  BY <1>3
<1>4. ASSUME NEW Q \in SUBSET R, NEW p
      PROVE  SvcP!QuantityIn(Q, p) \in Nat
  <2>1. CASE {x \in Q : x.product = p} = {}
    BY <2>1 DEF SvcP!QuantityIn
  <2>2. CASE {x \in Q : x.product = p} # {}
    <3>1. (CHOOSE x \in {x \in Q : x.product = p} : TRUE) \in {x \in Q : x.product = p}
      BY <2>2
    <3>. QED
      BY <2>2, <3>1 DEF SvcP!QuantityIn
  <2>. QED
    BY <2>1, <2>2
<1>5. SvcP!QuantityIn(S, row.product) = 0
  BY <1>1 DEF SvcP!QuantityIn
<1>6. SvcP!QuantityIn(R, row.product) = row.quantity
  BY <1>2 DEF SvcP!QuantityIn
<1>7. ASSUME NEW p, p # row.product
      PROVE  SvcP!QuantityIn(R, p) = SvcP!QuantityIn(S, p)
  BY <1>3, <1>7 DEF SvcP!QuantityIn
<1>. QED
  BY <1>4, <1>5, <1>6, <1>7

LEMMA GiveBackRowStep ==
  ASSUME IInv, NEW r \in Replicas, GiveBackRow(r)
  PROVE  IInv'
<1>. DEFINE row == NextRow(r)
            p == row.product
            moved == [tx[r].moved EXCEPT ![p] = @ - row.quantity]
            todo == tx[r].todo \ {row}
            t == [tx[r] EXCEPT !.todo = todo, !.moved = moved, !.answer = "inventory.released",
                               !.pc = IF tx[r].todo = {row} THEN "outbox" ELSE tx[r].pc]
<1>0. /\ tx[r].pc = "giveback" /\ Blockers(r) = {} /\ UNCHANGED tables /\ Releasable(r)
      /\ lock' = [lock EXCEPT ![p] = r]
      /\ tx[r] \in Transactions /\ tx \in [Replicas -> Transactions]
      /\ lock \in [Stocked -> Replicas \cup {NoReplica}] /\ MovedInv(r)
      /\ available \in [Stocked -> Nat] /\ reserved \in [Stocked -> Nat]
  BY AtPoint, TableFacts DEF GiveBackRow, At, IInv
<1>1. PICK o \in Orders : /\ tx[r].src = Cancelled(o) /\ ReleaseInv(r, o)
                          /\ GivenInv(r, o) /\ GiveBackInv(r)
  BY <1>0, AtPoint
<1>2. /\ tx[r].rows = SvcP!HeldRows(o) /\ tx[r].todo \subseteq tx[r].rows /\ tx[r].todo # {}
      /\ \A x \in tx[r].rows : /\ x.product \in Stocked /\ x.product \in Products
                                /\ x.quantity \in Nat \ {0}
      /\ \A x, y \in tx[r].rows : x.product = y.product => x = y
  BY <1>1, TableFacts DEF IInv, GivenInv, GiveBackInv
<1>3. /\ row \in tx[r].todo /\ p \in Stocked /\ row.quantity \in Nat \ {0}
      /\ \A other \in tx[r].todo : Position[p] <= Position[other.product]
  BY <1>2, NextRowFirst
<1>4. tx' = [tx EXCEPT ![r] = t]
  <2>1. tx' = [tx EXCEPT ![r].todo = @ \ {row}, ![r].moved[p] = @ - row.quantity,
                         ![r].answer = "inventory.released",
                         ![r].pc = IF tx[r].todo = {row} THEN "outbox" ELSE @]
    BY DEF GiveBackRow
  <2>. HIDE DEF row, p
  <2>. QED
    BY <1>0, <2>1
<1>5. /\ moved \in [Stocked -> Int] /\ moved[p] = tx[r].moved[p] - row.quantity
      /\ \A x \in Stocked : x # p => moved[x] = tx[r].moved[x]
      /\ \A x \in Stocked : tx[r].moved[x] \in Int
  BY <1>0, <1>3 DEF Transactions
<1>. HIDE DEF row, moved, todo
<1>6. /\ t \in Transactions /\ t.src = tx[r].src /\ t.rows = tx[r].rows /\ t.todo = todo
      /\ t.moved = moved /\ t.answer = "inventory.released"
      /\ t.pc = IF tx[r].todo = {row} THEN "outbox" ELSE "giveback"
  <2>1. PICK x \in Transactions : x = tx[r]
    BY <1>0
  <2>2. PICK pc \in Points : pc = IF tx[r].todo = {row} THEN "outbox" ELSE tx[r].pc
    BY <1>0 DEF Points
  <2>3. t = [x EXCEPT !.todo = todo, !.moved = moved, !.answer = "inventory.released", !.pc = pc]
    BY <2>1, <2>2
  <2>4. todo \in SUBSET SvcP!Reservation
    BY <1>0 DEF Transactions, todo
  <2>. HIDE DEF t
  <2>. QED
    BY <1>0, <1>5, <2>1, <2>2, <2>3, <2>4 DEF Transactions, Answers
<1>. HIDE DEF t
<1>7. tx'[r] = t
  BY <1>0, <1>4
<1>8. /\ Done(r)' = Done(r) \cup {row} /\ Done(r) = Done(r)' \ {row} /\ row \notin Done(r)
      /\ Done(r)' \subseteq tx[r].rows
  BY <1>2, <1>3, <1>6, <1>7 DEF Done, todo
<1>9. GivenInv(r, o)'
  <2>1. /\ SvcP!QuantityIn(Done(r), p) = 0
        /\ SvcP!QuantityIn(Done(r)', p) = row.quantity
        /\ \A x : x # p => SvcP!QuantityIn(Done(r)', x) = SvcP!QuantityIn(Done(r), x)
    <3>. DEFINE R == Done(r)'
                S == Done(r)
    <3>1. row \in R /\ S = R \ {row} /\ R \subseteq tx[r].rows
      BY <1>8
    <3>2. /\ \A x, y \in R : x.product = y.product => x = y
          /\ \A x \in R : x.quantity \in Nat
      BY <1>2, <3>1
    <3>. HIDE DEF R, S
    <3>3. /\ SvcP!QuantityIn(S, p) = 0 /\ SvcP!QuantityIn(R, p) = row.quantity
          /\ \A x : x # p => SvcP!QuantityIn(R, x) = SvcP!QuantityIn(S, x)
      BY <3>1, <3>2, QuantityAdded
    <3>. QED
      BY <3>3 DEF R, S
  <2>2. \A x \in Stocked : tx[r].moved[x] = -SvcP!QuantityIn(Done(r), x)
    BY <1>1 DEF GivenInv
  <2>3. \A x \in Stocked : moved[x] = -SvcP!QuantityIn(Done(r)', x)
    <3>. SUFFICES ASSUME NEW x \in Stocked PROVE moved[x] = -SvcP!QuantityIn(Done(r)', x)
      OBVIOUS
    <3>1. CASE x = p
      <4>1. tx[r].moved[x] = 0
        BY <2>1, <2>2, <3>1
      <4>. QED
        BY <1>3, <1>5, <2>1, <3>1, <4>1
    <3>2. CASE x # p
      BY <1>5, <2>1, <2>2, <3>2
    <3>. QED
      BY <3>1, <3>2
  <2>4. SvcP!HeldRows(o)' = SvcP!HeldRows(o)
    BY <1>0, TablesKept DEF IInv
  <2>. QED
    BY <1>2, <1>6, <1>7, <2>3, <2>4 DEF GivenInv, todo
<1>10. lock[p] \in {NoReplica, r}
  BY <1>0, BlockersAt, FreeRow DEF row
<1>11. /\ lock' \in [Stocked -> Replicas \cup {NoReplica}]
       /\ lock'[p] = r /\ \A x \in Stocked : x # p => lock'[x] = lock[x]
       /\ \A x \in Stocked :
            lock'[x] = lock[x] \/ (lock[x] \in {NoReplica, r} /\ lock'[x] \in {NoReplica, r})
  BY <1>0, <1>3, <1>10
<1>12. MovedInv(r)'
  <2>1. moved[p] <= available[p] /\ -moved[p] <= reserved[p]
    <3>. DEFINE m == tx[r].moved[p]
                a == available[p]
                v == reserved[p]
                n == row.quantity
    <3>1. /\ m \in Int /\ a \in Nat /\ v \in Nat /\ n \in Nat /\ m <= a
          /\ v + m >= n /\ moved[p] = m - n
      BY <1>0, <1>3, <1>5 DEF MovedInv, Releasable, row
    <3>. HIDE DEF m, a, v, n
    <3>2. m - n <= a /\ -(m - n) <= v
      BY <3>1
    <3>. QED
      BY <3>1, <3>2 DEF a, v
  <2>2. \A x \in Stocked : /\ moved[x] # 0 => lock'[x] = r
                            /\ moved[x] <= available[x] /\ -moved[x] <= reserved[x]
    BY <1>0, <1>5, <1>11, <2>1 DEF MovedInv
  <2>. QED
    BY <1>0, <1>6, <1>7, <2>2 DEF MovedInv, tables
<1>13. ASSUME tx[r].todo # {row}
       PROVE  GiveBackInv(r)'
  <2>1. todo # {}
    BY <1>3, <1>13 DEF todo
  <2>2. \A x \in Stocked : lock'[x] = r => \E y \in Done(r)' : y.product = x
    BY <1>1, <1>8, <1>11 DEF GiveBackInv
  <2>3. \A x \in Done(r)', y \in todo : Position[x.product] <= Position[y.product]
    BY <1>1, <1>3, <1>8 DEF GiveBackInv, todo
  <2>. QED
    BY <1>6, <1>7, <2>1, <2>2, <2>3 DEF GiveBackInv
<1>14. ReleaseInv(r, o)'
  <2>1. (SvcP!ReservedEvent(o) \in outbox)'
    BY <1>0, <1>1 DEF ReleaseInv, tables
  <2>2. tx[r].todo = {row} => todo = {}
    BY DEF todo
  <2>. QED
    BY <1>1, <1>2, <1>6, <1>7, <1>9, <1>13, <2>1, <2>2 DEF ReleaseInv
<1>15. TxInv(r)'
  BY <1>12, <1>14 DEF TxInv
<1>16. AloneWith(r, t)
  BY <1>6, StillAlone
<1>. QED
  BY <1>0, <1>4, <1>6, <1>11, <1>15, <1>16, Statement

LEMMA InsertOutboxStep ==
  ASSUME IInv, NEW r \in Replicas, InsertOutbox(r)
  PROVE  IInv'
<1>. DEFINE t == [tx[r] EXCEPT !.pc = "finish"]
<1>0. /\ tx[r].pc = "outbox" /\ UNCHANGED tables /\ lock' = lock /\ TxInv(r)
      /\ tx[r] \in Transactions /\ tx \in [Replicas -> Transactions]
      /\ lock \in [Stocked -> Replicas \cup {NoReplica}]
  BY AtPoint DEF InsertOutbox, At, IInv
<1>1. tx' = [tx EXCEPT ![r] = t]
  BY <1>0 DEF InsertOutbox
<1>2. /\ t \in Transactions /\ t.src = tx[r].src /\ t.rows = tx[r].rows /\ t.todo = tx[r].todo
      /\ t.moved = tx[r].moved /\ t.answer = tx[r].answer /\ t.pc = "finish"
  BY <1>0 DEF Transactions, Points
<1>. HIDE DEF t
<1>3. tx'[r] = t
  BY <1>0, <1>1
<1>4. MovedInv(r)'
  BY <1>0, <1>2, <1>3 DEF TxInv, MovedInv, tables
<1>5. PICK o \in Orders : ReserveInv(r, o) \/ ReleaseInv(r, o)
  BY <1>0, AtPoint
<1>6. ASSUME ReserveInv(r, o)
      PROVE  TxInv(r)'
  <2>1. /\ AllLocked(r, o)' <=> AllLocked(r, o)
        /\ \A k : TakenInv(r, o, k)' <=> TakenInv(r, o, k)
        /\ RejectedInv(r, o)' <=> RejectedInv(r, o)
    BY <1>0, <1>2, <1>3 DEF AllLocked, LineLocked, TakenInv, RejectedInv, Unmoved, LineShort, tables
  <2>2. ReservedInv(r, o)' <=> ReservedInv(r, o)
    BY <1>2, <1>3, <2>1 DEF ReservedInv
  <2>3. ReserveInv(r, o)'
    BY <1>0, <1>2, <1>3, <1>6, <2>1, <2>2 DEF ReserveInv
  <2>. QED
    BY <1>4, <2>3 DEF TxInv
<1>7. ASSUME ReleaseInv(r, o)
      PROVE  TxInv(r)'
  <2>1. GivenInv(r, o)' <=> GivenInv(r, o)
    <3>1. SvcP!HeldRows(o)' = SvcP!HeldRows(o)
      BY <1>0, TablesKept DEF IInv
    <3>. QED
      BY <1>2, <1>3, <3>1 DEF GivenInv, Done
  <2>2. ReleaseInv(r, o)'
    BY <1>0, <1>2, <1>3, <1>7, <2>1 DEF ReleaseInv, tables
  <2>. QED
    BY <1>4, <2>2 DEF TxInv
<1>8. TxInv(r)'
  BY <1>5, <1>6, <1>7
<1>9. AloneWith(r, t)
  BY <1>2, StillAlone
<1>. QED
  BY <1>0, <1>1, <1>2, <1>8, <1>9, Statement

(* A transaction ends, committed or not, and unlocks its rows. *)
LEMMA TransactionEnds ==
  ASSUME IInv, NEW r \in Replicas, SvcP!IInv',
         tx' = [tx EXCEPT ![r] = Idle], lock' = Unlocked(r),
         processed \subseteq processed', outbox \subseteq outbox',
         \A p \in Stocked :
           lock[p] # r => available'[p] = available[p] /\ reserved'[p] = reserved[p],
         \A q \in Replicas \ {r}, o \in Orders :
           tx[q].src = Cancelled(o) /\ tx[q].pc # "select"
             => SvcP!HeldRows(o)' = SvcP!HeldRows(o)
  PROVE  IInv'
<1>0. /\ tx \in [Replicas -> Transactions] /\ lock \in [Stocked -> Replicas \cup {NoReplica}]
      /\ available' \in [Stocked -> Nat] /\ reserved' \in [Stocked -> Nat]
      /\ NoReplica \notin Replicas
  BY AtPoint, TableFactsNext, PositionAssumption
<1>1. tx'[r] = Idle /\ \A q \in Replicas \ {r} : tx'[q] = tx[q]
  BY <1>0
<1>2. \A p \in Stocked : lock'[p] = IF lock[p] = r THEN NoReplica ELSE lock[p]
  BY DEF Unlocked
<1>3. TxInv(r)'
  <2>1. HoldsNone(r)'
    BY <1>0, <1>2 DEF HoldsNone
  <2>2. MovedInv(r)'
    BY <1>0, <1>1, IdleFacts DEF MovedInv
  <2>3. (tx[r] = Idle)'
    BY <1>1 DEF Idle
  <2>. QED
    BY <2>1, <2>2, <2>3 DEF TxInv
<1>4. ASSUME NEW q \in Replicas \ {r}
      PROVE  TxInv(q)'
  <2>1. TxInv(q) /\ tx'[q] = tx[q] /\ q # NoReplica /\ q # r
    BY <1>0, <1>1 DEF IInv
  <2>2. \A p \in Stocked : lock'[p] = q <=> lock[p] = q
    BY <1>2, <2>1
  <2>3. \A p \in Stocked :
          lock[p] = q => available'[p] = available[p] /\ reserved'[p] = reserved[p]
    BY <2>1
  <2>. QED
    BY <2>1, <2>2, <2>3, Untouched
<1>5. OneRelease'
  <2>1. tx'[r].rows = {}
    BY <1>1, IdleFacts
  <2>. QED
    BY <1>1, <2>1 DEF OneRelease, IInv
<1>6. Types'
  <2>1. tx' \in [Replicas -> Transactions]
    BY <1>0, IdleFacts
  <2>2. lock' \in [Stocked -> Replicas \cup {NoReplica}]
    BY <1>0 DEF Unlocked
  <2>. QED
    BY <2>1, <2>2 DEF Types
<1>. QED
  BY <1>3, <1>4, <1>5, <1>6 DEF IInv

LEMMA RollbackStep ==
  ASSUME IInv, NEW r \in Replicas, Rollback(r)
  PROVE  IInv'
<1>1. UNCHANGED tables /\ tx' = [tx EXCEPT ![r] = Idle] /\ lock' = Unlocked(r)
  BY DEF Rollback
<1>2. SvcP!IInv' /\ \A o : SvcP!HeldRows(o)' = SvcP!HeldRows(o)
  BY <1>1, TablesKept DEF IInv
<1>. QED
  BY <1>1, <1>2, TransactionEnds DEF tables

-----------------------------------------------------------------------------
(* What COMMIT does to the tables: the same as one step of the service. *)
LEMMA ReservedCommit ==
  ASSUME IInv, NEW r \in Replicas, Finish(r), NEW o \in Orders, ReserveInv(r, o),
         ReservedInv(r, o)
  PROVE  SvcP!Reserve(o)
<1>0. /\ tx[r].src = Created(o) /\ tx[r].answer = "inventory.reserved"
      /\ AllLocked(r, o) /\ TakenInv(r, o, Len(Basket[o])) /\ MovedInv(r)
  BY DEF ReserveInv, ReservedInv, IInv, TxInv
<1>1. Created(o).id \notin processed /\ processed' = processed \cup {Created(o).id}
  BY <1>0 DEF Finish
<1>2. SvcP!LinesAvailable(Basket[o])
  BY <1>0 DEF AllLocked, LineLocked, SvcP!LinesAvailable, Stocked, SvcP!Stocked
<1>3. \A p \in Stocked : tx[r].moved[p] = SvcP!Demand(Basket[o], p)
  BY <1>0, TakenFacts DEF TakenInv
<1>4. SvcP!DemandFits(Basket[o])
  BY <1>0, <1>3 DEF MovedInv, SvcP!DemandFits, Stocked, SvcP!Stocked
<1>5. /\ available' = [p \in SvcP!Stocked |-> available[p] - SvcP!Demand(Basket[o], p)]
      /\ reserved' = [p \in SvcP!Stocked |-> reserved[p] + SvcP!Demand(Basket[o], p)]
  BY <1>3 DEF Finish, Stocked, SvcP!Stocked
<1>6. reservations' = reservations \cup SvcP!NewReservations(o, Basket[o])
  <2>1. tx[r].rows = FirstRows(o, Len(Basket[o]))
    BY <1>0, <1>1 DEF TakenInv
  <2>2. \A row \in reservations : row.order # o
    BY <1>1, TableFacts DEF IInv
  <2>3. tx[r].rows = SvcP!NewReservations(o, Basket[o])
    BY <2>1, <2>2, RowsFacts
  <2>4. reservations' = reservations \cup tx[r].rows
    BY <1>0 DEF Finish
  <2>. QED
    BY <2>3, <2>4
<1>7. outbox' = outbox \cup {SvcP!ReservedEvent(o)}
  <2>1. Answer(r) = SvcP!ReservedEvent(o)
    <3>1. Answer(r) = FollowUp(Created(o), "inventory", "inventory.reserved", Created(o).items)
      BY <1>0 DEF Answer
    <3>2. Created(o).items = Basket[o]
      BY EventFacts
    <3>. QED
      BY <3>1, <3>2 DEF FollowUp, SvcP!ReservedEvent, SvcP!FollowUp, Created
  <2>. QED
    BY <1>0, <2>1 DEF Finish
<1>. QED
  BY <1>1, <1>2, <1>4, <1>5, <1>6, <1>7 DEF SvcP!Reserve, Created

(* A transaction that moved nothing leaves the inventory as it was. *)
LEMMA NothingMoved ==
  ASSUME IInv, NEW r \in Replicas, Finish(r), Unmoved(r)
  PROVE  available' = available /\ reserved' = reserved
<1>1. available \in [Stocked -> Nat] /\ reserved \in [Stocked -> Nat]
  BY TableFacts DEF IInv
<1>2. /\ available' = [p \in Stocked |-> available[p] - tx[r].moved[p]]
      /\ reserved' = [p \in Stocked |-> reserved[p] + tx[r].moved[p]]
  BY DEF Finish
<1>3. \A p \in Stocked : available'[p] = available[p] /\ reserved'[p] = reserved[p]
  BY <1>1, <1>2 DEF Unmoved
<1>. QED
  BY <1>1, <1>2, <1>3

LEMMA RejectedCommit ==
  ASSUME IInv, NEW r \in Replicas, Finish(r), NEW o \in Orders, ReserveInv(r, o),
         RejectedInv(r, o)
  PROVE  SvcP!Reject(o)
<1>0. /\ tx[r].src = Created(o) /\ tx[r].answer = "inventory.rejected"
      /\ tx[r].rows = {} /\ Unmoved(r)
  BY DEF ReserveInv, RejectedInv
<1>1. Created(o).id \notin processed /\ processed' = processed \cup {Created(o).id}
  BY <1>0 DEF Finish
<1>2. ~SvcP!LinesAvailable(Basket[o])
  <2>1. PICK i \in DOMAIN Basket[o] : LineShort(r, o, i)
    BY DEF RejectedInv
  <2>2. available \in [Stocked -> Nat] /\ Basket[o][i].quantity \in Nat
    BY TableFacts, BasketFacts DEF IInv
  <2>. QED
    BY <2>1, <2>2 DEF LineShort, SvcP!LinesAvailable, Stocked, SvcP!Stocked
<1>3. available' = available /\ reserved' = reserved /\ reservations' = reservations
  BY <1>0, NothingMoved DEF Finish
<1>4. outbox' = outbox \cup {SvcP!RejectedEvent(o)}
  <2>1. Answer(r) = SvcP!RejectedEvent(o)
    BY <1>0, EventFacts
       DEF Answer, FollowUp, SvcP!RejectedEvent, SvcP!FollowUp, Created
  <2>. QED
    BY <1>0, <2>1 DEF Finish
<1>. QED
  BY <1>1, <1>2, <1>3, <1>4 DEF SvcP!Reject, Created

LEMMA ReleasedCommit ==
  ASSUME IInv, NEW r \in Replicas, Finish(r), NEW o \in Orders, ReleaseInv(r, o)
  PROVE  IF tx[r].rows = {} THEN SvcP!Cancel(o) ELSE SvcP!Release(o)
<1>0. tx[r].pc = "finish" /\ MovedInv(r) /\ tx[r] \in Transactions
  BY AtPoint DEF Finish, At
<1>1. /\ tx[r].src = Cancelled(o) /\ SvcP!ReservedEvent(o) \in outbox
      /\ GivenInv(r, o) /\ tx[r].todo = {}
      /\ tx[r].rows = {} => tx[r].answer = "none"
      /\ tx[r].rows # {} => tx[r].answer = "inventory.released"
  BY <1>0 DEF ReleaseInv
<1>2. Cancelled(o).id \notin processed /\ processed' = processed \cup {Cancelled(o).id}
  BY <1>1 DEF Finish
<1>3. SvcP!WasReserved(o)
  BY <1>1, AnswerFacts DEF SvcP!WasReserved
<1>4. /\ tx[r].rows = SvcP!HeldRows(o)
      /\ \A p \in Stocked : tx[r].moved[p] = -SvcP!QuantityIn(SvcP!HeldRows(o), p)
  BY <1>1 DEF GivenInv, Done
<1>5. CASE tx[r].rows = {}
  <2>1. Unmoved(r)
    BY <1>4, <1>5 DEF Unmoved, SvcP!QuantityIn
  <2>2. available' = available /\ reserved' = reserved
    BY <2>1, NothingMoved
  <2>3. reservations' = reservations /\ outbox' = outbox
    BY <1>1, <1>5 DEF Finish
  <2>. QED
    BY <1>2, <1>3, <1>4, <1>5, <2>2, <2>3 DEF SvcP!Cancel, Cancelled
<1>6. CASE tx[r].rows # {}
  <2>0. /\ available \in [Stocked -> Nat] /\ reserved \in [Stocked -> Nat]
        /\ \A row \in SvcP!HeldRows(o) : row.product \in Stocked /\ row.quantity \in Nat
        /\ \A x, y \in SvcP!HeldRows(o) : x.product = y.product => x = y
    BY TableFacts DEF IInv
  <2>1. \A p : SvcP!HeldQuantity(o, p) = SvcP!QuantityIn(SvcP!HeldRows(o), p)
    BY DEF SvcP!HeldQuantity, SvcP!QuantityIn
  <2>2. \A row \in SvcP!HeldRows(o) :
          SvcP!QuantityIn(SvcP!HeldRows(o), row.product) = row.quantity
    BY <2>0, QuantityAdded
  <2>3. \A p : SvcP!HeldQuantity(o, p) \in Nat
    <3>1. PICK row \in SvcP!HeldRows(o) : TRUE
      BY <1>4, <1>6
    <3>. QED
      <4>. DEFINE R == SvcP!HeldRows(o)
                  S == R \ {row}
      <4>1. \A p : SvcP!QuantityIn(R, p) \in Nat
        <5>. HIDE DEF R
        <5>. QED
          BY <2>0, <3>1, QuantityAdded DEF R
      <4>. QED
        BY <2>1, <4>1
  <2>4. \A row \in SvcP!HeldRows(o) : reserved[row.product] >= row.quantity
    <3>. SUFFICES ASSUME NEW row \in SvcP!HeldRows(o)
                  PROVE  reserved[row.product] >= row.quantity
      OBVIOUS
    <3>1. tx[r].moved[row.product] = -row.quantity /\ -tx[r].moved[row.product] <= reserved[row.product]
      BY <1>0, <1>4, <2>0, <2>2 DEF MovedInv
    <3>. QED
      BY <2>0, <3>1
  <2>5. /\ available' = [p \in SvcP!Stocked |-> available[p] + SvcP!HeldQuantity(o, p)]
        /\ reserved' = [p \in SvcP!Stocked |-> reserved[p] - SvcP!HeldQuantity(o, p)]
    <3>1. /\ available' = [p \in Stocked |-> available[p] - tx[r].moved[p]]
          /\ reserved' = [p \in Stocked |-> reserved[p] + tx[r].moved[p]]
      BY DEF Finish
    <3>2. ASSUME NEW p \in Stocked
          PROVE  /\ available[p] - tx[r].moved[p] = available[p] + SvcP!HeldQuantity(o, p)
                 /\ reserved[p] + tx[r].moved[p] = reserved[p] - SvcP!HeldQuantity(o, p)
      <4>1. tx[r].moved[p] = -SvcP!HeldQuantity(o, p)
        BY <1>4, <2>1
      <4>2. /\ available[p] \in Nat /\ reserved[p] \in Nat
            /\ SvcP!HeldQuantity(o, p) \in Nat
        BY <2>0, <2>3
      <4>. QED
        BY <4>1, <4>2
    <3>. QED
      BY <3>1, <3>2 DEF Stocked, SvcP!Stocked
  <2>6. reservations' = (reservations \ SvcP!HeldRows(o))
                          \cup {[row EXCEPT !.status = "released"] : row \in SvcP!HeldRows(o)}
    BY <1>1, <1>4, <1>6 DEF Finish
  <2>7. outbox' = outbox \cup {SvcP!ReleasedEvent(o)}
    <3>1. Answer(r) = SvcP!ReleasedEvent(o)
      BY <1>1, <1>6 DEF Answer, FollowUp, SvcP!ReleasedEvent, SvcP!FollowUp, Cancelled
    <3>. QED
      BY <1>1, <1>6, <3>1 DEF Finish
  <2>. QED
    BY <1>2, <1>3, <1>4, <1>6, <2>4, <2>5, <2>6, <2>7 DEF SvcP!Release, Cancelled
<1>. QED
  BY <1>5, <1>6

(* The module's own instance of the service takes the same steps. *)
LEMMA DemandSame ==
  ASSUME NEW items, NEW p
  PROVE  Svc!Demand(items, p) = SvcP!Demand(items, p)
BY DEF Svc!Demand, SvcP!Demand, Svc!FoldSeq, SvcP!FoldSeq, Svc!FoldFunction, SvcP!FoldFunction,
       Svc!FoldFunctionOnSet, SvcP!FoldFunctionOnSet, Svc!MapThenFoldSet, SvcP!MapThenFoldSet

LEMMA SameService ==
  /\ SvcP!Next => Svc!Next
  /\ Svc!Init <=> SvcP!Init
<1>1. ASSUME NEW o \in Orders, SvcP!ReserveForOrder(SvcP!CreatedEvent(o, Basket[o]))
      PROVE  Svc!ReserveForOrder(Svc!CreatedEvent(o, Basket[o]))
  <2>. DEFINE e == SvcP!CreatedEvent(o, Basket[o])
  <2>1. e = Svc!CreatedEvent(o, Basket[o])
    BY DEF Svc!CreatedEvent, SvcP!CreatedEvent
  <2>. HIDE DEF e
  <2>2. /\ Svc!LinesAvailable(e.items) <=> SvcP!LinesAvailable(e.items)
        /\ Svc!DemandFits(e.items) <=> SvcP!DemandFits(e.items)
        /\ Svc!NewReservations(e.order, e.items) = SvcP!NewReservations(e.order, e.items)
        /\ \A p : Svc!Demand(e.items, p) = SvcP!Demand(e.items, p)
    BY DemandSame DEF Svc!LinesAvailable, SvcP!LinesAvailable, Svc!DemandFits, SvcP!DemandFits,
       Svc!NewReservations, SvcP!NewReservations, Svc!Stocked, SvcP!Stocked
  <2>3. /\ Svc!FollowUp(e, "inventory", "inventory.reserved", e.items)
             = SvcP!FollowUp(e, "inventory", "inventory.reserved", e.items)
        /\ Svc!FollowUp(e, "inventory", "inventory.rejected", <<>>)
             = SvcP!FollowUp(e, "inventory", "inventory.rejected", <<>>)
    BY DEF Svc!FollowUp, SvcP!FollowUp
  <2>4. SvcP!ReserveForOrder(e)
    BY <1>1 DEF e
  <2>5. Svc!ReserveForOrder(e)
    BY <2>2, <2>3, <2>4 DEF Svc!ReserveForOrder, SvcP!ReserveForOrder, Svc!Remember,
       SvcP!Remember, Svc!Stocked, SvcP!Stocked, Svc!vars, SvcP!vars
  <2>. QED
    BY <2>1, <2>5
<1>2. ASSUME NEW o \in Orders, SvcP!WasReserved(o), SvcP!ReleaseForOrder(SvcP!CancelledEvent(o))
      PROVE  Svc!WasReserved(o) /\ Svc!ReleaseForOrder(Svc!CancelledEvent(o))
  <2>. DEFINE e == SvcP!CancelledEvent(o)
  <2>1. e = Svc!CancelledEvent(o)
    BY DEF Svc!CancelledEvent, SvcP!CancelledEvent
  <2>2. SvcP!ReleaseForOrder(e)
    BY <1>2
  <2>. HIDE DEF e
  <2>3. Svc!ReleaseForOrder(e)
    BY <2>2 DEF Svc!ReleaseForOrder, SvcP!ReleaseForOrder, Svc!HeldRows, SvcP!HeldRows,
                Svc!HeldQuantity, SvcP!HeldQuantity, Svc!Remember, SvcP!Remember, Svc!Stocked,
                SvcP!Stocked, Svc!vars, SvcP!vars, Svc!FollowUp, SvcP!FollowUp
  <2>4. Svc!WasReserved(o)
    BY <1>2 DEF Svc!WasReserved, SvcP!WasReserved
  <2>. QED
    BY <2>1, <2>3, <2>4
<1>. QED
  BY <1>1, <1>2 DEF Svc!Next, SvcP!Next, Svc!Init, SvcP!Init

LEMMA CommitIsStep ==
  ASSUME NEW o \in Orders,
         SvcP!Reserve(o) \/ SvcP!Reject(o) \/ SvcP!Cancel(o) \/ SvcP!Release(o)
  PROVE  SvcP!Next
<1>1. /\ SvcP!Created(o) = SvcP!CreatedEvent(o, Basket[o])
      /\ SvcP!Created(o).type = "order.created" /\ SvcP!Created(o).order = o
      /\ SvcP!Created(o).items = Basket[o]
      /\ SvcP!CancelledEvent(o).type = "order.cancelled" /\ SvcP!CancelledEvent(o).order = o
  BY EventFacts DEF Created, Cancelled, SvcP!Created
<1>2. CASE SvcP!Reserve(o) \/ SvcP!Reject(o)
  <2>1. SvcP!ReserveForOrder(SvcP!Created(o))
    BY <1>1, <1>2 DEF SvcP!Reserve, SvcP!Reject, SvcP!ReserveForOrder, SvcP!Remember,
                      SvcP!ReservedEvent, SvcP!RejectedEvent
  <2>. QED
    BY <1>1, <2>1 DEF SvcP!Next
<1>3. CASE SvcP!Cancel(o) \/ SvcP!Release(o)
  <2>1. SvcP!ReleaseForOrder(SvcP!CancelledEvent(o)) /\ SvcP!WasReserved(o)
    BY <1>1, <1>3 DEF SvcP!Cancel, SvcP!Release, SvcP!ReleaseForOrder, SvcP!Remember,
                      SvcP!ReleasedEvent
  <2>. QED
    BY <2>1 DEF SvcP!Next
<1>. QED
  BY <1>2, <1>3

(* A commit is one step of the service, and leaves alone what the other     *)
(* transactions rely on.                                                    *)
LEMMA FinishStep ==
  ASSUME IInv, NEW r \in Replicas, Finish(r)
  PROVE  IInv' /\ SvcP!Next
<1>0. /\ tx[r].pc = "finish" /\ SvcP!IInv /\ MovedInv(r) /\ tx[r] \in Transactions
      /\ tx' = [tx EXCEPT ![r] = Idle] /\ lock' = Unlocked(r)
      /\ processed \subseteq processed' /\ outbox \subseteq outbox'
      /\ available \in [Stocked -> Nat] /\ reserved \in [Stocked -> Nat]
  BY AtPoint, TableFacts DEF Finish, At, IInv
<1>1. PICK o \in Orders : ReserveInv(r, o) \/ ReleaseInv(r, o)
  BY <1>0, AtPoint
<1>2. \/ ReserveInv(r, o) /\ SvcP!Reserve(o)
      \/ ReserveInv(r, o) /\ SvcP!Reject(o)
      \/ ReleaseInv(r, o) /\ tx[r].rows = {} /\ SvcP!Cancel(o)
      \/ ReleaseInv(r, o) /\ tx[r].rows # {} /\ SvcP!Release(o)
  <2>1. CASE ReserveInv(r, o)
    <3>1. ReservedInv(r, o) \/ RejectedInv(r, o)
      BY <1>0, <2>1 DEF ReserveInv
    <3>. QED
      BY <2>1, <3>1, ReservedCommit, RejectedCommit
  <2>2. CASE ReleaseInv(r, o)
    BY <2>2, ReleasedCommit
  <2>. QED
    BY <1>1, <2>1, <2>2
<1>3. SvcP!Next
  BY <1>2, CommitIsStep
<1>4. SvcP!IInv'
  BY <1>0, <1>3, SvcP!NextIInv, FiniteOrders, StockAssumption, BasketAssumption DEF SvcP!NextIInv
<1>5. ASSUME NEW p \in Stocked, lock[p] # r
      PROVE  available'[p] = available[p] /\ reserved'[p] = reserved[p]
  <2>1. tx[r].moved[p] = 0
    BY <1>0, <1>5 DEF MovedInv
  <2>2. available'[p] = available[p] - tx[r].moved[p] /\ reserved'[p] = reserved[p] + tx[r].moved[p]
    BY DEF Finish
  <2>. QED
    BY <1>0, <2>1, <2>2
<1>6. ASSUME NEW q \in Replicas \ {r}, NEW x \in Orders, tx[q].src = Cancelled(x),
             tx[q].pc # "select"
      PROVE  SvcP!HeldRows(x)' = SvcP!HeldRows(x)
  <2>1. ReleaseInv(q, x)
    <3>1. \/ tx[q] = Idle
          \/ \E y \in Orders : ReserveInv(q, y) \/ ReleaseInv(q, y)
      BY DEF IInv, TxInv
    <3>2. tx[q] # Idle
      BY <1>6, IdleFacts, EventFacts
    <3>3. \A y \in Orders : /\ ReserveInv(q, y) => tx[q].src.type = "order.created"
                            /\ ReleaseInv(q, y) => tx[q].src.order = y
      BY EventFacts DEF ReserveInv, ReleaseInv
    <3>. QED
      BY <1>6, <3>1, <3>2, <3>3, EventFacts
  <2>2. /\ SvcP!ReservedEvent(x) \in outbox /\ Created(x).id \in processed
        /\ tx[q].rows = SvcP!HeldRows(x)
    BY <1>0, <1>6, <2>1, TableFacts DEF ReleaseInv, GivenInv
  <2>3. CASE SvcP!Reserve(o)
    <3>1. x # o
      BY <2>2, <2>3 DEF SvcP!Reserve, Created
    <3>2. \A row \in SvcP!NewReservations(o, Basket[o]) : row.order = o
      BY DEF SvcP!NewReservations
    <3>3. reservations' = reservations \cup SvcP!NewReservations(o, Basket[o])
      BY <2>3 DEF SvcP!Reserve
    <3>. QED
      BY <3>1, <3>2, <3>3 DEF SvcP!HeldRows
  <2>4. CASE SvcP!Reject(o) \/ SvcP!Cancel(o)
    BY <2>4 DEF SvcP!Reject, SvcP!Cancel, SvcP!HeldRows
  <2>5. CASE ReleaseInv(r, o) /\ tx[r].rows # {} /\ SvcP!Release(o)
    <3>1. tx[r].src = Cancelled(o) /\ tx[r].rows = SvcP!HeldRows(o)
      BY <1>0, <2>5 DEF ReleaseInv, GivenInv
    <3>2. x # o
      <4>. SUFFICES ASSUME x = o PROVE FALSE
        OBVIOUS
      <4>1. tx[q].src = tx[r].src /\ tx[r].src.type = "order.cancelled" /\ tx[q].rows # {}
        BY <1>6, <2>2, <2>5, <3>1, EventFacts
      <4>. QED
        BY <2>5, <4>1 DEF IInv, OneRelease
    <3>3. reservations' = (reservations \ SvcP!HeldRows(o))
                            \cup {[row EXCEPT !.status = "released"] : row \in SvcP!HeldRows(o)}
      BY <2>5 DEF SvcP!Release
    <3>4. \A row \in SvcP!HeldRows(o) :
            /\ row.order = o
            /\ [row EXCEPT !.status = "released"].order = o
      <4>. SUFFICES ASSUME NEW row \in SvcP!HeldRows(o)
                    PROVE  row.order = o /\ [row EXCEPT !.status = "released"].order = o
        OBVIOUS
      <4>1. row \in SvcP!Reservation /\ row.order = o
        BY <1>0, TableFacts
      <4>. QED
        BY <4>1 DEF SvcP!Reservation
    <3>. QED
      BY <3>2, <3>3, <3>4 DEF SvcP!HeldRows
  <2>. QED
    BY <1>2, <2>3, <2>4, <2>5
<1>7. IInv'
  BY <1>0, <1>4, <1>5, <1>6, TransactionEnds
<1>. QED
  BY <1>3, <1>7

-----------------------------------------------------------------------------
LEMMA InitIInv == Init => IInv
<1>. SUFFICES ASSUME Init PROVE IInv
  OBVIOUS
<1>0. Svc!Init /\ tx = [r \in Replicas |-> Idle] /\ lock = [p \in Stocked |-> NoReplica]
  BY DEF Init
<1>1. SvcP!IInv
  BY <1>0, SameService, SvcP!InitIInv, FiniteOrders, StockAssumption, BasketAssumption
     DEF SvcP!InitIInv
<1>2. Types
  BY <1>0, IdleFacts DEF Types
<1>3. ASSUME NEW r \in Replicas
      PROVE  TxInv(r)
  <2>1. tx[r] = Idle /\ HoldsNone(r)
    BY <1>0, PositionAssumption DEF HoldsNone
  <2>2. MovedInv(r)
    BY <1>1, <2>1, IdleFacts, TableFacts DEF MovedInv
  <2>. QED
    BY <2>1, <2>2 DEF TxInv
<1>4. OneRelease
  BY <1>0, IdleFacts DEF OneRelease
<1>. QED
  BY <1>1, <1>2, <1>3, <1>4 DEF IInv

(* Every step keeps the invariant; every step but COMMIT leaves the tables  *)
(* alone, and COMMIT is a step of the service.                              *)
LEMMA EveryStep ==
  ASSUME IInv, [Next]_vars
  PROVE  /\ IInv'
         /\ UNCHANGED tables \/ SvcP!Next
<1>1. CASE UNCHANGED vars
  BY <1>1, Stutter DEF vars
<1>2. ASSUME NEW r \in Replicas, NEW src \in Deliverable, Begin(r, src)
      PROVE  IInv' /\ UNCHANGED tables
  BY <1>2, BeginStep DEF Begin
<1>3. ASSUME NEW r \in Replicas, LockLine(r) \/ UpdateLine(r)
      PROVE  IInv' /\ UNCHANGED tables
  BY <1>3, LockLineStep, UpdateLineStep DEF LockLine, UpdateLine
<1>4. ASSUME NEW r \in Replicas, SelectRows(r) \/ GiveBackRow(r)
      PROVE  IInv' /\ UNCHANGED tables
  BY <1>4, SelectRowsStep, GiveBackRowStep DEF SelectRows, GiveBackRow
<1>5. ASSUME NEW r \in Replicas, InsertOutbox(r)
      PROVE  IInv' /\ UNCHANGED tables
  BY <1>5, InsertOutboxStep DEF InsertOutbox
<1>6. ASSUME NEW r \in Replicas, StatementFails(r) \/ DeadlockVictim(r) \/ Abort(r)
      PROVE  IInv' /\ UNCHANGED tables
  <2>1. Rollback(r)
    BY <1>6 DEF StatementFails, DeadlockVictim, Abort
  <2>. QED
    BY <2>1, RollbackStep DEF Rollback
<1>7. ASSUME NEW r \in Replicas, Finish(r)
      PROVE  IInv' /\ SvcP!Next
  BY <1>7, FinishStep
<1>. QED
  BY <1>1, <1>2, <1>3, <1>4, <1>5, <1>6, <1>7 DEF Next, Step

THEOREM Invariance == Spec => []IInv
BY InitIInv, EveryStep, PTL DEF Spec

(* Transactions and locks are well formed, and the tables stay those of the *)
(* service: no CHECK is violated by what commits, however the statements of *)
(* the replicas interleave.                                                 *)
THEOREM TypeCorrect == Spec => []TypeOK
<1>1. IInv => TypeOK
  <2>. SUFFICES ASSUME IInv PROVE TypeOK
    OBVIOUS
  <2>1. Svc!TypeOK
    BY DEF IInv, SvcP!IInv, SvcP!TypeOK, Svc!TypeOK, SvcP!Stocked, Svc!Stocked,
           SvcP!Reservation, Svc!Reservation
  <2>2. ASSUME NEW r \in Replicas
        PROVE  /\ tx[r].pc \in Points /\ tx[r].moved \in [Stocked -> Int]
               /\ tx[r].rows \subseteq SvcP!Reservation /\ tx[r].todo \subseteq tx[r].rows
    <3>1. tx[r] \in Transactions /\ TxInv(r)
      BY AtPoint DEF IInv
    <3>2. tx[r].todo \subseteq tx[r].rows
      BY <3>1, IdleFacts DEF TxInv, ReserveInv, ReleaseInv, GivenInv
    <3>. QED
      BY <3>1, <3>2 DEF Transactions
  <2>3. lock \in [Stocked -> Replicas \cup {NoReplica}]
    BY DEF IInv, Types
  <2>. QED
    BY <2>1, <2>2, <2>3 DEF TypeOK, Points, SvcP!Reservation, Svc!Reservation, SvcP!Stocked,
                            Svc!Stocked
<1>. QED
  BY <1>1, Invariance, PTL

(* The stock the first loop of ReserveForOrder has seen is there when the   *)
(* second loop takes it: the row locks of SELECT ... FOR UPDATE keep every  *)
(* other replica from it.                                                   *)
THEOREM SeenStockStays == Spec => []StockSeenIsThere
<1>1. IInv => StockSeenIsThere
  <2>. SUFFICES ASSUME IInv, NEW r \in Replicas, tx[r].pc = "update",
                       NEW i \in tx[r].line..Len(tx[r].src.items)
                PROVE  tx[r].src.items[i].quantity <= available[tx[r].src.items[i].product]
    BY DEF StockSeenIsThere
  <2>1. PICK o \in Orders : tx[r].src = Created(o) /\ UpdateInv(r, o)
    BY AtPoint
  <2>2. tx[r].src.items = Basket[o] /\ tx[r].line \in DOMAIN Basket[o] /\ AllLocked(r, o)
    BY <2>1, EventFacts DEF UpdateInv
  <2>3. i \in DOMAIN Basket[o]
    BY <2>2, BasketFacts
  <2>. QED
    BY <2>2, <2>3 DEF AllLocked, LineLocked
<1>. QED
  BY <1>1, Invariance, PTL

(* The transactions of all replicas, statement by statement, implement the  *)
(* service whose transactions are one step each.                            *)
THEOREM ImplementsService == Spec => ServiceSpec
<1>1. Init => Svc!Init
  BY DEF Init
<1>2. IInv /\ [Next]_vars => [Svc!Next]_(Svc!vars)
  BY EveryStep, SameService DEF tables, Svc!vars
<1>. QED
  BY <1>1, <1>2, Invariance, PTL DEF Spec, ServiceSpec, Svc!Spec

LEMMA CommitsAreSteps == Spec => SvcP!Spec
<1>1. Init => SvcP!Init
  BY SameService DEF Init
<1>2. IInv /\ [Next]_vars => [SvcP!Next]_(SvcP!vars)
  BY EveryStep DEF tables, SvcP!vars
<1>. QED
  BY <1>1, <1>2, Invariance, PTL DEF Spec, SvcP!Spec

(* So what the service guarantees holds of the tables at every moment, with *)
(* any number of transactions half done: no unit of stock is lost or made;  *)
(* an order whose order.created was committed has one answer, and the rows  *)
(* that answer speaks of; one whose cancellation was committed holds        *)
(* nothing.                                                                 *)
THEOREM GuaranteesCarryOver ==
  Spec => [](SvcP!StockConserved /\ SvcP!CancelledHoldsNothing /\ SvcP!AnswersMatchRows)
<1>1. SvcP!Spec => []SvcP!StockConserved
  BY SvcP!StockIsConserved, FiniteOrders, StockAssumption, BasketAssumption
     DEF SvcP!StockIsConserved
<1>2. SvcP!Spec => []SvcP!CancelledHoldsNothing
  BY SvcP!NothingHeldAfterCancel, FiniteOrders, StockAssumption, BasketAssumption
     DEF SvcP!NothingHeldAfterCancel
<1>3. SvcP!Spec => []SvcP!AnswersMatchRows
  BY SvcP!AnswersAreRows, FiniteOrders, StockAssumption, BasketAssumption
     DEF SvcP!AnswersAreRows
<1>. QED
  BY <1>1, <1>2, <1>3, CommitsAreSteps, PTL

(* And when no basket names a product twice, the interleaved statements     *)
(* implement the ledger: nobody sees an order's demand held or freed in     *)
(* part.                                                                    *)
THEOREM TransactionsImplementLedger == SvcP!DistinctLines => (Spec => SvcP!LedgerSpec)
<1>. SUFFICES ASSUME SvcP!DistinctLines PROVE Spec => SvcP!LedgerSpec
  OBVIOUS
<1>1. SvcP!Spec => SvcP!LedgerSpec
  BY SvcP!ImplementsLedger, FiniteOrders, StockAssumption, BasketAssumption
     DEF SvcP!ImplementsLedger
<1>. QED
  BY <1>1, CommitsAreSteps, PTL

-----------------------------------------------------------------------------
(* The row a replica's next statement needs. *)
Wanted(r) == IF tx[r].pc = "lock" THEN Line(r).product ELSE NextRow(r).product

InOrder(r) == tx[r].src.type = "order.created" => InProductOrder(tx[r].src.items)

(* A replica waits for a lock, or for another release of its order.         *)
LEMMA WaitsFor ==
  ASSUME IInv, NEW r \in Replicas, NEW q \in Blockers(r), q \in Replicas, Blockers(q) # {}
  PROVE  /\ q # r
         /\ \/ /\ tx[r].pc \in {"lock", "giveback"} /\ Wanted(r) \in Stocked
               /\ lock[Wanted(r)] = q
            \/ tx[r].pc = "select" /\ tx[q].rows # {}
<1>1. CASE tx[r].pc = "lock"
  <2>1. q \in RowHolder(r, Line(r).product) /\ Line(r).product \in Stocked
    BY <1>1, BlockersAt
  <2>. QED
    BY <1>1, <2>1 DEF RowHolder, Wanted
<1>2. CASE tx[r].pc = "giveback"
  <2>1. q \in RowHolder(r, NextRow(r).product)
    BY <1>2, BlockersAt
  <2>2. NextRow(r).product \in Stocked
    BY <1>2, HeldRowsOf
  <2>. QED
    BY <1>2, <2>1, <2>2 DEF RowHolder, Wanted
<1>3. CASE tx[r].pc = "select"
  BY <1>3, BlockersAt
<1>4. CASE tx[r].pc \notin {"lock", "giveback", "select"}
  <2>1. tx[r].pc = "outbox" /\ tx[q].pc = "finish"
    BY <1>4, BlockersAt
  <2>. QED
    BY <2>1, BlockersAt
<1>. QED
  BY <1>1, <1>2, <1>3, <1>4

(* A replica that has locked a row and waits for another has locked it      *)
(* before in the order of the products.                                     *)
LEMMA LocksInOrder ==
  ASSUME IInv, NEW r \in Replicas, InOrder(r), tx[r].pc \in {"lock", "giveback"},
         Wanted(r) \in Stocked, NEW p \in Stocked, lock[p] = r
  PROVE  /\ Position[p] \in Nat /\ Position[Wanted(r)] \in Nat
         /\ Position[p] <= Position[Wanted(r)]
<1>0. /\ Stocked \subseteq Products
      /\ Position[p] \in Nat /\ Position[Wanted(r)] \in Nat
  BY TableFacts, PositionAssumption DEF IInv
<1>1. CASE tx[r].pc = "lock"
  <2>1. PICK o \in Orders : tx[r].src = Created(o) /\ LockInv(r, o)
    BY <1>1, AtPoint
  <2>2. PICK k \in DOMAIN Basket[o] :
          /\ tx[r].line = k
          /\ \A x \in Stocked : lock[x] = r => \E i \in 1..k - 1 : Basket[o][i].product = x
    BY <2>1 DEF LockInv
  <2>3. PICK i \in 1..k - 1 : Basket[o][i].product = p
    BY <2>2
  <2>4. InProductOrder(Basket[o]) /\ tx[r].src.items = Basket[o]
    BY <2>1, EventFacts DEF InOrder
  <2>5. i \in DOMAIN Basket[o] /\ i < k
    <3>1. DOMAIN Basket[o] = 1..Len(Basket[o]) /\ Len(Basket[o]) \in Nat
      BY BasketFacts
    <3>. QED
      BY <3>1
  <2>6. Wanted(r) = Basket[o][k].product
    BY <1>1, <2>2, <2>4 DEF Wanted, Line
  <2>. QED
    BY <1>0, <2>3, <2>4, <2>5, <2>6 DEF InProductOrder
<1>2. CASE tx[r].pc = "giveback"
  <2>1. GiveBackInv(r) /\ NextRow(r) \in tx[r].todo
    BY <1>2, HeldRowsOf
  <2>2. PICK row \in Done(r) : row.product = p
    BY <2>1 DEF GiveBackInv
  <2>3. Wanted(r) = NextRow(r).product
    BY <1>2 DEF Wanted
  <2>. QED
    BY <1>0, <2>1, <2>2, <2>3 DEF GiveBackInv
<1>. QED
  BY <1>1, <1>2

(* In a circle in which baskets follow the order of the products, every     *)
(* replica waits for one that waits for a row further on in that order.     *)
LEMMA WaitsFurtherOn ==
  ASSUME IInv, NEW S \in SUBSET Replicas, Deadlocked(S), \A r \in S : InOrder(r), NEW r \in S
  PROVE  /\ Position[Wanted(r)] \in Nat
         /\ \E q \in S : Position[Wanted(q)] \in Nat /\ Position[Wanted(r)] < Position[Wanted(q)]
<1>1. \A q \in S : q \in Replicas /\ Blockers(q) # {} /\ Blockers(q) \cap S # {}
  BY DEF Deadlocked
<1>2. ASSUME NEW q \in S
      PROVE  tx[q].pc \in {"lock", "giveback"} /\ Wanted(q) \in Stocked
  <2>1. PICK w \in S : q \in Blockers(w)
    BY DEF Deadlocked
  <2>2. tx[q].pc # "select"
    <3>. SUFFICES ASSUME tx[q].pc = "select" PROVE FALSE
      OBVIOUS
    <3>1. HoldsNone(q) /\ tx[q].rows = {}
      BY <1>1, AtPoint
    <3>. QED
      BY <1>1, <2>1, <3>1, WaitsFor DEF HoldsNone
  <2>3. PICK u \in S : u \in Blockers(q)
    BY <1>1
  <2>. QED
    BY <1>1, <2>2, <2>3, WaitsFor
<1>3. PICK q \in S : q \in Blockers(r)
  BY <1>1
<1>4. q # r /\ lock[Wanted(r)] = q
  BY <1>1, <1>2, <1>3, WaitsFor
<1>5. /\ Position[Wanted(r)] \in Nat /\ Position[Wanted(q)] \in Nat
      /\ Position[Wanted(r)] <= Position[Wanted(q)]
  BY <1>1, <1>2, <1>4, LocksInOrder
<1>6. Wanted(r) # Wanted(q)
  <2>1. PICK u \in S : u \in Blockers(q)
    BY <1>1
  <2>2. u # q /\ lock[Wanted(q)] = u
    BY <1>1, <1>2, <2>1, WaitsFor
  <2>. QED
    BY <1>4, <2>2
<1>7. Position[Wanted(r)] # Position[Wanted(q)]
  <2>1. Wanted(r) \in Products /\ Wanted(q) \in Products
    BY <1>2, TableFacts DEF IInv
  <2>. QED
    BY <1>6, <2>1, PositionAssumption DEF IsInjective
<1>. QED
  BY <1>5, <1>7

(* Replicas wait for one another in a circle only when one of them reserves *)
(* a basket that is not in the order in which a release takes its rows.     *)
THEOREM CirclesNeedDisorder == Spec => []NoDeadlock
<1>1. IInv => NoDeadlock
  <2>. SUFFICES ASSUME IInv, NEW S \in SUBSET Replicas, Deadlocked(S), \A r \in S : InOrder(r)
                PROVE  FALSE
    BY DEF NoDeadlock, InOrder
  <2>. DEFINE W(r) == Position[Wanted(r)]
              Up(r) == {q \in S : W(r) < W(q)}
              T == {Cardinality(Up(r)) : r \in S}
  <2>1. \A r \in S : W(r) \in Nat /\ \E q \in S : W(r) < W(q)
    BY WaitsFurtherOn
  <2>. HIDE DEF W
  <2>2. \A r \in S : IsFiniteSet(Up(r)) /\ Cardinality(Up(r)) \in Nat
    BY PositionAssumption, FS_Subset, FS_CardinalityType
  <2>3. T \in SUBSET Nat /\ T # {}
    BY <2>2 DEF Deadlocked
  <2>4. PICK n \in T : \A m \in T : n <= m
    <3>. HIDE DEF T
    <3>. QED
      BY <2>3, SvcP!LeastNatural, FiniteOrders, StockAssumption, BasketAssumption
         DEF SvcP!LeastNatural
  <2>5. PICK r \in S : n = Cardinality(Up(r))
    OBVIOUS
  <2>6. PICK q \in S : W(r) < W(q)
    BY <2>1
  <2>7. Up(q) \subseteq Up(r) /\ q \in Up(r) /\ q \notin Up(q)
    BY <2>1, <2>6
  <2>8. Cardinality(Up(q)) < Cardinality(Up(r))
    <3>1. Up(q) # Up(r)
      BY <2>7
    <3>. HIDE DEF Up
    <3>. QED
      BY <2>2, <2>7, <3>1, FS_Subset
  <2>9. n <= Cardinality(Up(q))
    <3>1. Cardinality(Up(q)) \in T
      OBVIOUS
    <3>. HIDE DEF T
    <3>. QED
      BY <2>4, <3>1
  <2>10. Cardinality(Up(q)) \in Nat /\ Cardinality(Up(r)) \in Nat
    BY <2>2
  <2>. HIDE DEF Up, T
  <2>. QED
    BY <2>5, <2>8, <2>9, <2>10
<1>. QED
  BY <1>1, Invariance, PTL

=============================================================================
