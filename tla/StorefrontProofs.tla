-------------------------- MODULE StorefrontProofs --------------------------
(***************************************************************************)
(* Proofs about Storefront, for any tabs, products, quantities and bounds. *)
(***************************************************************************)
EXTENDS Storefront, FiniteSetTheorems, TLAPS

Changes == {"add", "change", "remove", "clear"}

OrderView == [id : Nat, status : {"none", "pending", "settled"}]

CallType ==
  [tab : Tabs, click : Nat, op : Changes \cup {"load", "order", "refresh"},
   items : Cart!Carts, shown : OrderView, state : {"sent", "ok", "failed"}]

LateType == {c \in CallType : Writes(c) /\ c.state = "sent"}

OrderType == [tab : Tabs, click : Nat, items : Cart!Carts, status : {"pending", "settled"}]

(* What a tab may show as its order: none, or one that is stored. *)
Known(shown) == shown = NoOrder \/ shown.id \in 1..Len(orders)

Types ==
  /\ hash \in Cart!Carts
  /\ orders \in Seq(OrderType)
  /\ view \in [Tabs -> Cart!Carts] /\ order \in [Tabs -> OrderView] /\ busy \in [Tabs -> BOOLEAN]
  /\ calls \subseteq CallType /\ late \subseteq LateType
  /\ clicks \in [Tabs -> Nat] /\ \A t \in Tabs : clicks[t] <= MaxClicks[t]
  /\ faults \in 0..MaxFaults /\ disturbed \subseteq Tabs

ShownInv ==
  /\ \A t \in Tabs : Known(order[t])
  /\ \A c \in calls \cup late : Known(c.shown) /\ (c.op = "refresh" => c.shown # NoOrder)

-----------------------------------------------------------------------------
SameClick(c, d) == c.tab = d.tab /\ c.click = d.click

(* A click has one call at a time; while a write of it is carried out late, *)
(* the tab knows nothing better than that it failed.                        *)
ClickInv ==
  /\ \A c, d \in calls : SameClick(c, d) => c = d
  /\ \A c, d \in late : SameClick(c, d) => c = d
  /\ \A c \in calls, d \in late : SameClick(c, d) => c.state = "failed"
  /\ \A c \in calls \cup late : c.click <= clicks[c.tab]

Ordered(c) == \E i \in 1..Len(orders) : SameClick(orders[i], c)

(* A call that may still make an order has made none, one that was answered *)
(* has, and only then the cart is cleared.                                  *)
OrderInv ==
  /\ \A i \in 1..Len(orders) : orders[i].click <= clicks[orders[i].tab]
  /\ \A i, j \in 1..Len(orders) : SameClick(orders[i], orders[j]) => i = j
  /\ \A c \in calls \cup late :
       /\ c.op = "order" /\ c.state = "sent" => ~Ordered(c)
       /\ c.op = "order" /\ c.state = "ok" => Ordered(c)
       /\ c.op = "clear" => Ordered(c)

(* A busy tab waits for one call, the others for none. *)
BusyInv ==
  \A t \in Tabs :
    /\ ~busy[t] => Waits(t, {"add", "order"}) = {}
    /\ busy[t] => \E c \in calls : Waits(t, {"add", "order"}) = {c}

(* What tabs show, load and order has been the cart. *)
PastInv ==
  /\ hash \in past
  /\ \A t \in Tabs : view[t] \in past \cup {Cart!Empty}
  /\ \A i \in 1..Len(orders) : orders[i].items \in past
  /\ \A c \in calls \cup late :
       c.op = "order" \/ (c.op = "load" /\ c.state = "ok") => c.items \in past

(* The tab will load the cart again, or has, or shows it. *)
CatchesUp(t) ==
  \/ \E c \in CallsOf(t) : c.op \in Changes /\ c.state = "ok"
  \/ \E c \in CallsOf(t) : c.op = "load" /\ (c.state = "ok" => c.items = hash)
  \/ Waits(t, {"load"}) = {} /\ view[t] = hash

ViewInv ==
  \A t \in Tabs \ disturbed :
    /\ \A c \in CallsOf(t) : c.state # "failed"
    /\ \A c \in late : c.tab # t
    /\ \A c, d \in Waits(t, {"load"}) : c = d
    /\ CatchesUp(t)

IInv == Types /\ ShownInv /\ ClickInv /\ OrderInv /\ BusyInv /\ PastInv /\ ViewInv

-----------------------------------------------------------------------------
(* Calls are records of the type above, when they are sent, answered and    *)
(* given up.                                                                *)
LEMMA Calls ==
  /\ Cart!Empty \in Cart!Carts /\ Cart!Lines(Cart!Empty) = {} /\ NoOrder \in OrderView
  /\ \A p \in Products, q \in 0..MaxQuantity : One(p, q) \in Cart!Carts
  /\ 1 \in 0..MaxQuantity
  /\ \A c \in CallType :
       /\ c.tab \in Tabs /\ c.click \in Nat /\ c.items \in Cart!Carts /\ c.shown \in OrderView
       /\ c.op \in Changes \cup {"load", "order", "refresh"}
<1>1. 0 \in 0..MaxQuantity /\ 1 \in 0..MaxQuantity
  BY StorefrontAssumption
<1>2. Cart!Empty \in Cart!Carts /\ Cart!Lines(Cart!Empty) = {}
  BY <1>1 DEF Cart!Empty, Cart!Carts, Cart!Lines
<1>3. \A p \in Products, q \in 0..MaxQuantity : One(p, q) \in Cart!Carts
  BY <1>2 DEF One, Cart!Carts
<1>. QED
  BY <1>1, <1>2, <1>3 DEF NoOrder, OrderView, CallType

LEMMA NewCall ==
  ASSUME NEW t \in Tabs, NEW n \in Nat, NEW op \in Changes \cup {"load", "order", "refresh"},
         NEW items \in Cart!Carts, NEW shown \in OrderView
  PROVE  LET c == Call(t, n, op, items, shown)
         IN  /\ c \in CallType /\ c.tab = t /\ c.click = n /\ c.op = op
             /\ c.items = items /\ c.shown = shown /\ c.state = "sent"
BY DEF Call, CallType

(* The next call of a click. *)
LEMMA NextCall ==
  ASSUME NEW c \in CallType, NEW op \in {"load", "clear"}
  PROVE  LET e == Call(c.tab, c.click, op, Cart!Empty, NoOrder)
         IN  /\ e \in CallType /\ SameClick(e, c) /\ e.state = "sent" /\ e.shown = NoOrder
             /\ e.op = op /\ e.tab = c.tab
<1>1. /\ c.tab \in Tabs /\ c.click \in Nat /\ op \in Changes \cup {"load", "order", "refresh"}
      /\ Cart!Empty \in Cart!Carts /\ NoOrder \in OrderView
  BY Calls DEF Changes
<1>. QED
  BY <1>1, NewCall DEF SameClick

Replied(c, items, shown) == [c EXCEPT !.items = items, !.shown = shown, !.state = "ok"]
Failed(c) == [c EXCEPT !.state = "failed"]

LEMMA CallEnds ==
  ASSUME NEW c \in CallType, NEW items \in Cart!Carts, NEW shown \in OrderView
  PROVE  /\ Replied(c, items, shown) \in CallType
         /\ SameClick(Replied(c, items, shown), c) /\ Replied(c, items, shown).op = c.op
         /\ Replied(c, items, shown).items = items /\ Replied(c, items, shown).shown = shown
         /\ Replied(c, items, shown).state = "ok"
         /\ Failed(c) \in CallType /\ SameClick(Failed(c), c) /\ Failed(c).op = c.op
         /\ Failed(c).items = c.items /\ Failed(c).shown = c.shown /\ Failed(c).state = "failed"
<1>1. Replied(c, items, shown) \in CallType /\ Failed(c) \in CallType
  BY DEF Replied, Failed, CallType
<1>. QED
  BY <1>1 DEF Replied, Failed, CallType, SameClick

-----------------------------------------------------------------------------
(* A call that takes the place of another one of the same click keeps the   *)
(* clicks apart.                                                            *)
LEMMA ClicksKept ==
  ASSUME Types, ClickInv, NEW c \in calls \cup late, NEW e \in CallType, SameClick(e, c),
         NEW N \in SUBSET {e}, NEW L \in SUBSET {c},
         calls' = (calls \ {c}) \cup N, late' = (late \ {c}) \cup L, clicks' = clicks,
         N # {} => c \in calls /\ c.state # "failed",
         L # {} => c \in calls /\ c.state # "failed" /\ e.state = "failed"
  PROVE  ClickInv'
<1>0. N \subseteq {e} /\ L \subseteq {c}
  OBVIOUS
<1>1. \A d \in calls' : d \in calls \ {c} \/ (d = e /\ N # {})
  BY <1>0
<1>2. \A d \in late' : d \in late \ {c} \/ (d = c /\ L # {})
  BY <1>0
<1>3. \A d \in calls, l \in late : SameClick(d, l) => d.state = "failed"
  BY DEF ClickInv
<1>4. \A d \in calls' \cup late' : d.click <= clicks'[d.tab]
  BY <1>1, <1>2 DEF ClickInv, SameClick
<1>5. ASSUME NEW d \in calls', NEW f \in calls', SameClick(d, f)
      PROVE  d = f
  BY <1>1, <1>5 DEF ClickInv, SameClick
<1>6. ASSUME NEW d \in late', NEW f \in late', SameClick(d, f)
      PROVE  d = f
  BY <1>2, <1>6 DEF ClickInv, SameClick
<1>7. ASSUME NEW d \in calls', NEW f \in late', SameClick(d, f)
      PROVE  d.state = "failed"
  <2>1. CASE d \in calls \ {c} /\ f \in late \ {c}
    BY <1>3, <1>7, <2>1
  <2>2. CASE d = e /\ N # {} /\ f \in late \ {c}
    BY <1>3, <1>7, <2>2 DEF SameClick
  <2>3. CASE d \in calls \ {c} /\ f = c /\ L # {}
    BY <1>7, <2>3 DEF ClickInv, SameClick
  <2>4. CASE d = e /\ f = c /\ L # {}
    BY <2>4
  <2>. QED
    BY <1>1, <1>2, <2>1, <2>2, <2>3, <2>4
<1>. QED
  BY <1>4, <1>5, <1>6, <1>7 DEF ClickInv

(* A call that stays of the same kind leaves the tabs as busy as they were. *)
LEMMA BusyKept ==
  ASSUME BusyInv, busy' = busy, NEW c \in calls, NEW e, e.tab = c.tab, e.op = c.op,
         calls' = (calls \ {c}) \cup {e}
  PROVE  BusyInv'
<1>. SUFFICES ASSUME NEW t \in Tabs
              PROVE  /\ ~busy[t] => Waits(t, {"add", "order"})' = {}
                     /\ busy[t] => \E d \in calls' : Waits(t, {"add", "order"})' = {d}
  BY DEF BusyInv
<1>. DEFINE W == Waits(t, {"add", "order"})
<1>1. W' = IF c \in W THEN (W \ {c}) \cup {e} ELSE W
  BY DEF Waits, CallsOf
<1>2. c \notin W => W \subseteq calls'
  BY DEF Waits, CallsOf
<1>. HIDE DEF W
<1>3. (~busy[t] => W = {}) /\ (busy[t] => \E d \in calls : W = {d})
  BY DEF BusyInv, W
<1>4. (~busy[t] => W' = {}) /\ (busy[t] => \E d \in calls' : W' = {d})
  BY <1>1, <1>2, <1>3
<1>. QED
  BY <1>4 DEF W

-----------------------------------------------------------------------------
(* A click that sends a call.                                               *)
LEMMA ClickIsNew ==
  ASSUME Types, ClickInv, OrderInv, NEW t \in Tabs, Click(t)
  PROVE  /\ clicks' \in [Tabs -> Nat] /\ clicks'[t] = clicks[t] + 1
         /\ \A u \in Tabs : clicks[u] <= clicks'[u] /\ clicks'[u] <= MaxClicks[u]
         /\ \A c \in calls \cup late : c.tab = t => c.click < clicks'[t]
         /\ \A i \in 1..Len(orders) : orders[i].tab = t => orders[i].click < clicks'[t]
<1>1. clicks \in [Tabs -> Nat] /\ MaxClicks \in [Tabs -> Nat]
  BY StorefrontAssumption DEF Types
<1>2. /\ clicks' \in [Tabs -> Nat] /\ clicks'[t] = clicks[t] + 1
      /\ \A u \in Tabs \ {t} : clicks'[u] = clicks[u]
      /\ clicks'[t] <= MaxClicks[t]
  BY <1>1 DEF Click
<1>3. \A u \in Tabs : clicks[u] <= clicks'[u] /\ clicks'[u] <= MaxClicks[u]
  <2>1. \A u \in Tabs : clicks[u] \in Nat /\ MaxClicks[u] \in Nat /\ clicks[u] <= MaxClicks[u]
    BY <1>1 DEF Types
  <2>. QED
    BY <1>2, <2>1
<1>4. \A c \in calls \cup late : c.tab = t => c.click < clicks'[t]
  <2>1. \A c \in calls \cup late : c.click \in Nat /\ c.click <= clicks[c.tab]
    BY Calls DEF Types, LateType, ClickInv
  <2>. QED
    BY <1>1, <1>2, <2>1
<1>5. \A i \in 1..Len(orders) : orders[i].tab = t => orders[i].click < clicks'[t]
  <2>1. \A i \in 1..Len(orders) : orders[i].click \in Nat /\ orders[i].click <= clicks[orders[i].tab]
    <3>1. \A i \in 1..Len(orders) : orders[i] \in OrderType
      BY DEF Types
    <3>. QED
      BY <3>1 DEF OrderType, OrderInv
  <2>. QED
    BY <1>1, <1>2, <2>1
<1>. QED
  BY <1>2, <1>3, <1>4, <1>5

LEMMA ClickSends ==
  ASSUME IInv, NEW t \in Tabs, Click(t),
         NEW d \in CallType, d.tab = t, d.click = clicks'[t], d.state = "sent",
         d.op \notin {"load", "clear"}, calls' = calls \cup {d},
         Known(d.shown), d.op = "refresh" => d.shown # NoOrder,
         d.op = "order" => d.items \in past,
         UNCHANGED <<hash, orders, view, order, late, faults, past, disturbed>>,
         IF d.op \in {"add", "order"} THEN ~busy[t] /\ busy' = [busy EXCEPT ![t] = TRUE]
                                      ELSE busy' = busy
  PROVE  IInv'
<1>0. Types /\ ShownInv /\ ClickInv /\ OrderInv /\ BusyInv /\ PastInv /\ ViewInv
  BY DEF IInv
<1>1. /\ clicks' \in [Tabs -> Nat] /\ clicks'[t] = clicks[t] + 1
      /\ \A u \in Tabs : clicks[u] <= clicks'[u] /\ clicks'[u] <= MaxClicks[u]
      /\ \A c \in calls \cup late : c.tab = t => c.click < clicks'[t]
      /\ \A i \in 1..Len(orders) : orders[i].tab = t => orders[i].click < clicks'[t]
  BY <1>0, ClickIsNew
<1>2. \A c \in calls \cup late : /\ ~SameClick(c, d) /\ ~SameClick(d, c)
                                 /\ c.tab \in Tabs /\ c.click \in Nat /\ c.click <= clicks[c.tab]
  BY <1>0, <1>1, Calls DEF SameClick, Types, LateType, ClickInv
<1>3. /\ \A i \in 1..Len(orders) : /\ ~SameClick(orders[i], d)
                                   /\ orders[i].tab \in Tabs /\ orders[i].click \in Nat
                                   /\ orders[i].click <= clicks[orders[i].tab]
      /\ ~Ordered(d)
  <2>1. \A i \in 1..Len(orders) : orders[i] \in OrderType
    BY <1>0 DEF Types
  <2>. QED
    BY <1>0, <1>1, <2>1 DEF SameClick, OrderType, OrderInv, Ordered
<1>4. Types'
  BY <1>0, <1>1 DEF Types
<1>5. ShownInv'
  BY <1>0 DEF ShownInv, Known
<1>6. ClickInv'
  <2>1. \A c \in calls' \cup late' : c.click <= clicks'[c.tab]
    BY <1>0, <1>1, <1>2 DEF Types
  <2>. QED
    BY <1>0, <1>2, <2>1 DEF ClickInv
<1>7. OrderInv'
  <2>1. \A i \in 1..Len(orders) : orders[i].click <= clicks'[orders[i].tab]
    BY <1>0, <1>1, <1>3 DEF Types
  <2>. QED
    BY <1>0, <1>3, <2>1 DEF OrderInv, Ordered
<1>8. BusyInv'
  <2>. SUFFICES ASSUME NEW u \in Tabs
                PROVE  /\ ~busy'[u] => Waits(u, {"add", "order"})' = {}
                       /\ busy'[u] => \E c \in calls' : Waits(u, {"add", "order"})' = {c}
    BY DEF BusyInv
  <2>1. Waits(u, {"add", "order"})' =
          IF u = t /\ d.op \in {"add", "order"} THEN Waits(u, {"add", "order"}) \cup {d}
                                                ELSE Waits(u, {"add", "order"})
    BY DEF Waits, CallsOf
  <2>2. /\ ~busy[u] => Waits(u, {"add", "order"}) = {}
        /\ busy[u] => \E c \in calls : Waits(u, {"add", "order"}) = {c}
    BY <1>0 DEF BusyInv
  <2>3. busy \in [Tabs -> BOOLEAN]
    BY <1>0 DEF Types
  <2>4. CASE d.op \in {"add", "order"} /\ u = t
    BY <2>1, <2>2, <2>3, <2>4
  <2>5. CASE ~(d.op \in {"add", "order"} /\ u = t)
    <3>1. busy'[u] = busy[u]
      BY <2>3, <2>5
    <3>2. Waits(u, {"add", "order"})' = Waits(u, {"add", "order"})
      BY <2>1, <2>5
    <3>. QED
      BY <2>2, <3>1, <3>2
  <2>. QED
    BY <2>4, <2>5
<1>9. PastInv'
  BY <1>0 DEF PastInv
<1>10. ViewInv'
  <2>. SUFFICES ASSUME NEW u \in Tabs \ disturbed
                PROVE  /\ \A c \in CallsOf(u)' : c.state # "failed"
                       /\ \A c \in late' : c.tab # u
                       /\ \A c, e \in Waits(u, {"load"})' : c = e
                       /\ CatchesUp(u)'
    BY DEF ViewInv
  <2>1. /\ CallsOf(u)' = IF u = t THEN CallsOf(u) \cup {d} ELSE CallsOf(u)
        /\ Waits(u, {"load"})' = Waits(u, {"load"})
    BY DEF Waits, CallsOf
  <2>2. CatchesUp(u)'
    BY <1>0, <2>1 DEF ViewInv, CatchesUp
  <2>. QED
    BY <1>0, <2>1, <2>2 DEF ViewInv
<1>. QED
  BY <1>4, <1>5, <1>6, <1>7, <1>8, <1>9, <1>10 DEF IInv

(* The clicks that send a call keep the invariant. *)
LEMMA ClicksKeep ==
  ASSUME IInv, NEW t \in Tabs,
         \/ \E p \in Products :
              Add(t, p) \/ Remove(t, p) \/ \E quantity \in 0..MaxQuantity : Change(t, p, quantity)
         \/ Checkout(t) \/ RefreshOrder(t)
  PROVE  IInv'
<1>0. Types /\ ShownInv /\ ClickInv /\ OrderInv /\ PastInv
  BY DEF IInv
<1>1. Click(t)
  BY DEF Add, Remove, Change, Checkout, RefreshOrder
<1>2. clicks'[t] \in Nat /\ Known(NoOrder) /\ Known(order[t])
  BY <1>0, <1>1, ClickIsNew DEF ShownInv, Known
<1>3. ASSUME NEW op \in Changes \cup {"order", "refresh"}, NEW items \in Cart!Carts,
             NEW shown \in OrderView, Send(t, op, items, shown)
      PROVE  \E d \in CallType : /\ d.tab = t /\ d.click = clicks'[t] /\ d.state = "sent"
                                 /\ d.op = op /\ d.items = items /\ d.shown = shown
                                 /\ calls' = calls \cup {d}
  <2>. DEFINE d == Call(t, clicks'[t], op, items, shown)
  <2>1. /\ d \in CallType /\ d.tab = t /\ d.click = clicks'[t] /\ d.state = "sent"
        /\ d.op = op /\ d.items = items /\ d.shown = shown
    BY <1>2, NewCall
  <2>2. calls' = calls \cup {d}
    BY <1>3 DEF Send
  <2>. QED
    BY <2>1, <2>2
<1>4. ASSUME NEW p \in Products, Add(t, p)
      PROVE  IInv'
  <2>1. One(p, 1) \in Cart!Carts /\ NoOrder \in OrderView
    BY Calls
  <2>2. PICK d \in CallType : /\ d.tab = t /\ d.click = clicks'[t] /\ d.state = "sent"
                              /\ d.op = "add" /\ d.shown = NoOrder /\ calls' = calls \cup {d}
    BY <1>3, <1>4, <2>1 DEF Add, Changes
  <2>. QED
    BY <1>1, <1>2, <1>4, <2>2, ClickSends DEF Add
<1>5. ASSUME NEW op \in {"change", "remove"}, NEW p \in Products, NEW q \in 0..MaxQuantity,
             Send(t, op, One(p, q), NoOrder),
             UNCHANGED <<hash, orders, tab, late, faults, past, disturbed>>
      PROVE  IInv'
  <2>1. One(p, q) \in Cart!Carts /\ NoOrder \in OrderView
    BY Calls
  <2>2. PICK d \in CallType : /\ d.tab = t /\ d.click = clicks'[t] /\ d.state = "sent"
                              /\ d.op = op /\ d.shown = NoOrder /\ calls' = calls \cup {d}
    BY <1>3, <1>5, <2>1 DEF Changes
  <2>. QED
    BY <1>1, <1>2, <1>5, <2>2, ClickSends DEF tab
<1>6. ASSUME NEW p \in Products, Remove(t, p)
      PROVE  IInv'
  BY <1>5, <1>6, Calls DEF Remove
<1>7. ASSUME NEW p \in Products, NEW q \in 0..MaxQuantity, Change(t, p, q)
      PROVE  IInv'
  BY <1>5, <1>7, Calls DEF Change
<1>8. CASE Checkout(t)
  <2>1. view[t] \in Cart!Carts /\ NoOrder \in OrderView
    BY <1>0, Calls DEF Types
  <2>2. view[t] \in past
    BY <1>0, <1>8, Calls DEF PastInv, Checkout
  <2>3. PICK d \in CallType : /\ d.tab = t /\ d.click = clicks'[t] /\ d.state = "sent"
                              /\ d.op = "order" /\ d.items = view[t] /\ d.shown = NoOrder
                              /\ calls' = calls \cup {d}
    BY <1>3, <1>8, <2>1 DEF Checkout
  <2>. QED
    BY <1>1, <1>2, <1>8, <2>2, <2>3, ClickSends DEF Checkout
<1>9. CASE RefreshOrder(t)
  <2>1. order[t] \in OrderView /\ Cart!Empty \in Cart!Carts
    BY <1>0, Calls DEF Types
  <2>2. PICK d \in CallType : /\ d.tab = t /\ d.click = clicks'[t] /\ d.state = "sent"
                              /\ d.op = "refresh" /\ d.shown = order[t]
                              /\ calls' = calls \cup {d}
    BY <1>3, <1>9, <2>1 DEF RefreshOrder
  <2>. QED
    BY <1>1, <1>2, <1>9, <2>2, ClickSends DEF RefreshOrder, tab
<1>. QED
  BY <1>4, <1>6, <1>7, <1>8, <1>9

(* Loading the page again keeps it: what was under way is late. *)
LEMMA ReloadKeeps ==
  ASSUME IInv, NEW t \in Tabs, Reload(t)
  PROVE  IInv'
<1>0. Types /\ ShownInv /\ ClickInv /\ OrderInv /\ BusyInv /\ PastInv /\ ViewInv
  BY DEF IInv
<1>. DEFINE d == Load(t, clicks'[t])
            Left == {c \in CallsOf(t) : Writes(c) /\ c.state = "sent"}
<1>1. /\ clicks' \in [Tabs -> Nat] /\ clicks'[t] = clicks[t] + 1
      /\ \A u \in Tabs : clicks[u] <= clicks'[u] /\ clicks'[u] <= MaxClicks[u]
      /\ \A c \in calls \cup late : c.tab = t => c.click < clicks'[t]
      /\ \A i \in 1..Len(orders) : orders[i].tab = t => orders[i].click < clicks'[t]
  BY <1>0, ClickIsNew DEF Reload
<1>2. /\ d \in CallType /\ d.tab = t /\ d.click = clicks'[t] /\ d.op = "load"
      /\ d.shown = NoOrder /\ d.state = "sent"
  BY <1>1, NewCall, Calls DEF Load
<1>3. /\ calls' = (calls \ CallsOf(t)) \cup {d} /\ late' = late \cup Left
      /\ Loading(t)
      /\ view' = [view EXCEPT ![t] = Cart!Empty] /\ order' = [order EXCEPT ![t] = NoOrder]
      /\ busy' = [busy EXCEPT ![t] = FALSE]
      /\ UNCHANGED <<hash, orders, faults, past>>
  BY DEF Reload
<1>4. /\ Left \subseteq calls /\ Left \subseteq LateType /\ CallsOf(t) \subseteq calls
      /\ \A c \in Left : c.state = "sent" /\ c.tab = t
  BY <1>0 DEF CallsOf, LateType, Types
<1>5. \A c \in calls : c \in calls' <=> c.tab # t
  <2>1. d \notin calls
    BY <1>1, <1>2 DEF Types
  <2>. QED
    BY <1>3, <2>1 DEF CallsOf
<1>. HIDE DEF d, Left
<1>6. \A c \in calls \cup late : /\ ~SameClick(c, d) /\ ~SameClick(d, c)
                                 /\ c.tab \in Tabs /\ c.click \in Nat /\ c.click <= clicks[c.tab]
  BY <1>0, <1>1, <1>2, Calls DEF SameClick, Types, LateType, ClickInv
<1>7. \A c \in calls' : (c \in calls /\ c.tab # t) \/ c = d
  BY <1>3, <1>5
<1>8. Types'
  BY <1>0, <1>1, <1>2, <1>3, <1>4, Calls DEF Types, Loading
<1>9. ShownInv'
  BY <1>0, <1>2, <1>3, <1>4, <1>7 DEF ShownInv, Known, Types
<1>10. ClickInv'
  <2>1. \A c \in calls' \cup late' : c.click <= clicks'[c.tab]
    BY <1>0, <1>1, <1>2, <1>3, <1>4, <1>6, <1>7 DEF Types
  <2>2. \A c, e \in calls' : SameClick(c, e) => c = e
    BY <1>0, <1>6, <1>7 DEF ClickInv
  <2>3. \A c \in late, e \in Left : ~SameClick(c, e) /\ ~SameClick(e, c)
    BY <1>0, <1>4 DEF ClickInv, SameClick
  <2>4. \A c, e \in late' : SameClick(c, e) => c = e
    BY <1>0, <1>3, <1>4, <2>3 DEF ClickInv
  <2>5. \A c \in calls', e \in late' : SameClick(c, e) => c.state = "failed"
    BY <1>0, <1>3, <1>4, <1>6, <1>7 DEF ClickInv, SameClick
  <2>. QED
    BY <2>1, <2>2, <2>4, <2>5 DEF ClickInv
<1>11. OrderInv'
  <2>1. \A i \in 1..Len(orders) : orders[i].click <= clicks'[orders[i].tab]
    <3>1. \A i \in 1..Len(orders) : orders[i] \in OrderType
      BY <1>0 DEF Types
    <3>2. \A i \in 1..Len(orders) : /\ orders[i].tab \in Tabs /\ orders[i].click \in Nat
                                    /\ orders[i].click <= clicks[orders[i].tab]
      BY <1>0, <3>1 DEF OrderType, OrderInv
    <3>. QED
      BY <1>0, <1>1, <3>2 DEF Types
  <2>. QED
    BY <1>0, <1>2, <1>3, <1>4, <1>7, <2>1 DEF OrderInv, Ordered
<1>12. BusyInv'
  <2>. SUFFICES ASSUME NEW u \in Tabs
                PROVE  /\ ~busy'[u] => Waits(u, {"add", "order"})' = {}
                       /\ busy'[u] => \E c \in calls' : Waits(u, {"add", "order"})' = {c}
    BY DEF BusyInv
  <2>1. CASE u = t
    <3>1. Waits(u, {"add", "order"})' = {}
      BY <1>2, <1>7, <2>1 DEF Waits, CallsOf
    <3>2. ~busy'[u]
      BY <1>0, <1>3, <2>1 DEF Types
    <3>. QED
      BY <3>1, <3>2
  <2>2. CASE u # t
    <3>1. /\ Waits(u, {"add", "order"})' = Waits(u, {"add", "order"})
          /\ Waits(u, {"add", "order"}) \subseteq calls'
      BY <1>2, <1>5, <1>7, <2>2 DEF Waits, CallsOf
    <3>2. busy'[u] = busy[u]
      BY <1>0, <1>3, <2>2 DEF Types
    <3>3. /\ ~busy[u] => Waits(u, {"add", "order"}) = {}
          /\ busy[u] => \E c \in calls : Waits(u, {"add", "order"}) = {c}
      BY <1>0 DEF BusyInv
    <3>. QED
      BY <3>1, <3>2, <3>3
  <2>. QED
    BY <2>1, <2>2
<1>13. PastInv'
  BY <1>0, <1>2, <1>3, <1>4, <1>7 DEF PastInv, Types
<1>14. ViewInv'
  <2>. SUFFICES ASSUME NEW u \in Tabs \ disturbed'
                PROVE  /\ \A c \in CallsOf(u)' : c.state # "failed"
                       /\ \A c \in late' : c.tab # u
                       /\ \A c, e \in Waits(u, {"load"})' : c = e
                       /\ CatchesUp(u)'
    BY DEF ViewInv
  <2>3. CASE u = t
    <3>1. LoadsAlone(u)'
      BY <1>3, <2>3 DEF Loading
    <3>2. d \in CallsOf(u)'
      BY <1>2, <1>3, <2>3 DEF CallsOf
    <3>. QED
      BY <1>2, <3>1, <3>2 DEF LoadsAlone, CatchesUp
  <2>4. CASE u # t
    <3>. u \in Tabs \ disturbed
      BY <1>3, <2>4 DEF Loading
    <3>0. /\ \A c \in CallsOf(u) : c.state # "failed"
          /\ \A c \in late : c.tab # u
          /\ \A c, e \in Waits(u, {"load"}) : c = e
          /\ CatchesUp(u)
      BY <1>0 DEF ViewInv
    <3>1. CallsOf(u)' = CallsOf(u) /\ Waits(u, {"load"})' = Waits(u, {"load"})
      BY <1>2, <1>5, <1>7, <2>4 DEF CallsOf, Waits
    <3>2. view'[u] = view[u] /\ hash' = hash
      BY <1>0, <1>3, <2>4 DEF Types
    <3>3. \A c \in late' : c.tab # u
      BY <1>3, <1>4, <2>4, <3>0
    <3>4. CatchesUp(u)'
      BY <3>0, <3>1, <3>2 DEF CatchesUp
    <3>. QED
      BY <3>0, <3>1, <3>3, <3>4
  <2>. QED
    BY <2>3, <2>4
<1>. QED
  BY <1>8, <1>9, <1>10, <1>11, <1>12, <1>13, <1>14 DEF IInv

-----------------------------------------------------------------------------
(* A call under way was sent, and is not answered; a late one is nobody's.  *)
LEMMA UnderwayCalls ==
  ASSUME Types, ClickInv, NEW c \in Underway
  PROVE  /\ c \in CallType /\ c.state = "sent" /\ c \in calls \cup late
         /\ c \in late => c \notin calls /\ \A d \in calls : SameClick(d, c) => d.state = "failed"
BY DEF Types, ClickInv, Underway, LateType, SameClick

(* What an answer does to the calls, whichever service gives it: the orders *)
(* and the cart apart, the invariant is kept.                               *)
LEMMA ReplyKeeps ==
  ASSUME IInv, NEW c \in Underway, NEW items \in Cart!Carts, NEW shown \in OrderView,
         Reply(c, items, shown), UNCHANGED <<tab, clicks>>
  PROVE  LET r == Replied(c, items, shown)
         IN  /\ calls' = (calls \ {c}) \cup (IF c \in late THEN {} ELSE {r})
             /\ late' = late \ {c}
             /\ calls' \subseteq CallType /\ late' \subseteq LateType
             /\ ClickInv' /\ BusyInv'
<1>. DEFINE r == Replied(c, items, shown)
<1>0. Types /\ ClickInv /\ BusyInv
  BY DEF IInv
<1>1. /\ c \in CallType /\ c.state = "sent" /\ c \in calls \cup late
      /\ c \in late => c \notin calls /\ \A d \in calls : SameClick(d, c) => d.state = "failed"
  BY <1>0, UnderwayCalls
<1>2. r \in CallType /\ SameClick(r, c) /\ r.op = c.op
  <2>1. r \in CallType
    BY <1>1, CallEnds
  <2>2. SameClick(r, c) /\ r.op = c.op
    BY <1>1, CallEnds
  <2>. QED
    BY <2>1, <2>2
<1>3. /\ calls' = (calls \ {c}) \cup (IF c \in late THEN {} ELSE {r})
      /\ late' = late \ {c}
  BY <1>1 DEF Reply, Replied
<1>. HIDE DEF r
<1>4. calls' \subseteq CallType /\ late' \subseteq LateType
  BY <1>0, <1>2, <1>3 DEF Types
<1>5. ClickInv'
  <2>. DEFINE N == IF c \in late THEN {} ELSE {r}
              L == {}
  <2>1. /\ N \in SUBSET {r} /\ L \in SUBSET {c} /\ clicks' = clicks
        /\ calls' = (calls \ {c}) \cup N /\ late' = (late \ {c}) \cup L
        /\ N # {} => c \in calls /\ c.state # "failed"
        /\ L = {}
    BY <1>1, <1>3
  <2>. HIDE DEF N, L
  <2>. QED
    BY <1>0, <1>1, <1>2, <2>1, ClicksKept
<1>6. BusyInv'
  <2>1. busy' = busy
    BY DEF tab
  <2>2. CASE c \in late
    <3>1. calls' = calls
      BY <1>1, <1>3, <2>2
    <3>. QED
      BY <1>0, <2>1, <3>1 DEF BusyInv, Waits, CallsOf
  <2>3. CASE c \notin late
    <3>1. c \in calls /\ calls' = (calls \ {c}) \cup {r} /\ r.tab = c.tab
      BY <1>1, <1>2, <1>3, <2>3 DEF SameClick
    <3>. QED
      BY <1>0, <1>2, <2>1, <3>1, BusyKept
  <2>. QED
    BY <2>2, <2>3
<1>. QED
  BY <1>3, <1>4, <1>5, <1>6 DEF r

(* A step that answers a call and changes the orders, if at all, in a way   *)
(* that keeps which clicks have ordered what.                               *)
SameOrders ==
  /\ orders' \in Seq(OrderType) /\ Len(orders') = Len(orders)
  /\ \A i \in 1..Len(orders) : SameClick(orders'[i], orders[i]) /\ orders'[i].items = orders[i].items

LEMMA ReplyKeepsOrders ==
  ASSUME IInv, NEW c \in Underway, NEW items \in Cart!Carts, NEW shown \in OrderView,
         Reply(c, items, shown), UNCHANGED <<tab, clicks>>, SameOrders,
         c.op # "order", Known(shown), c.op = "refresh" => shown # NoOrder
  PROVE  ShownInv' /\ OrderInv'
<1>. DEFINE r == Replied(c, items, shown)
<1>0. Types /\ ShownInv /\ OrderInv /\ ClickInv
  BY DEF IInv
<1>1. c \in CallType /\ c.state = "sent" /\ c \in calls \cup late
  BY <1>0, UnderwayCalls
<1>2. SameClick(r, c) /\ r.op = c.op /\ r.shown = shown /\ r.items = items
  BY <1>1, CallEnds
<1>3. \A d \in calls' \cup late' : d \in calls \cup late \/ d = r
  BY ReplyKeeps
<1>. HIDE DEF r
<1>4. \A i \in 1..Len(orders) : SameClick(orders'[i], orders[i])
  BY DEF SameOrders
<1>5. Len(orders') = Len(orders) /\ order' = order /\ clicks' = clicks
  BY DEF SameOrders, tab
<1>6. ShownInv'
  BY <1>0, <1>1, <1>2, <1>3, <1>5 DEF ShownInv, Known
<1>7. \A d : Ordered(d)' <=> Ordered(d)
  BY <1>4, <1>5 DEF Ordered, SameClick
<1>8. OrderInv'
  <2>1. Ordered(r) <=> Ordered(c)
    BY <1>2 DEF Ordered, SameClick
  <2>2. \A d \in calls' \cup late' :
          /\ d.op = "order" /\ d.state = "sent" => ~Ordered(d)'
          /\ d.op = "order" /\ d.state = "ok" => Ordered(d)'
          /\ d.op = "clear" => Ordered(d)'
    BY <1>0, <1>1, <1>2, <1>3, <1>7, <2>1 DEF OrderInv
  <2>3. \A i \in 1..Len(orders') : orders'[i].click <= clicks'[orders'[i].tab]
    BY <1>0, <1>4, <1>5 DEF OrderInv, SameClick
  <2>4. \A i, j \in 1..Len(orders') : SameClick(orders'[i], orders'[j]) => i = j
    BY <1>0, <1>4, <1>5 DEF OrderInv, SameClick
  <2>. QED
    BY <2>2, <2>3, <2>4 DEF OrderInv
<1>. QED
  BY <1>6, <1>8

(* The services that write the cart. *)
LEMMA HashWrittenKeeps ==
  ASSUME IInv, NEW c \in Underway, c.op \in Changes, hash' \in Cart!Carts, HashWritten(c)
  PROVE  IInv'
<1>0. Types /\ ShownInv /\ ClickInv /\ OrderInv /\ PastInv /\ ViewInv
  BY DEF IInv
<1>. DEFINE r == Replied(c, c.items, c.shown)
<1>1. /\ c \in CallType /\ c.state = "sent" /\ c \in calls \cup late
      /\ c.items \in Cart!Carts /\ c.shown \in OrderView /\ c.tab \in Tabs
  BY <1>0, UnderwayCalls, Calls
<1>2. /\ Reply(c, c.items, c.shown) /\ past' = past \cup {hash'}
      /\ disturbed' = IF hash' = hash THEN disturbed ELSE disturbed \cup (Tabs \ {c.tab})
      /\ UNCHANGED <<orders, view, order, busy, clicks, faults>>
  BY DEF HashWritten, tab
<1>3. r.tab = c.tab /\ r.op = c.op /\ r.state = "ok"
  BY <1>1, CallEnds DEF SameClick
<1>4. /\ calls' = (calls \ {c}) \cup (IF c \in late THEN {} ELSE {r})
      /\ late' = late \ {c}
      /\ calls' \subseteq CallType /\ late' \subseteq LateType
      /\ ClickInv' /\ BusyInv'
  BY <1>1, <1>2, ReplyKeeps DEF tab
<1>. HIDE DEF r
<1>5. ShownInv' /\ OrderInv'
  <2>1. SameOrders
    BY <1>0, <1>2 DEF SameOrders, Types, SameClick
  <2>2. c.op # "order" /\ c.op # "refresh" /\ Known(c.shown)
    BY <1>0, <1>1 DEF Changes, ShownInv
  <2>. QED
    BY <1>1, <1>2, <2>1, <2>2, ReplyKeepsOrders DEF tab
<1>6. Types'
  BY <1>0, <1>1, <1>2, <1>4 DEF Types
<1>7. PastInv'
  <2>1. \A d \in calls' \cup late' : d \in calls \cup late \/ d.op \in Changes
    BY <1>1, <1>3, <1>4
  <2>. QED
    BY <1>0, <1>2, <2>1 DEF PastInv, Changes
<1>8. ViewInv'
  <2>. SUFFICES ASSUME NEW u \in Tabs \ disturbed'
                PROVE  /\ \A d \in CallsOf(u)' : d.state # "failed"
                       /\ \A d \in late' : d.tab # u
                       /\ \A d, e \in Waits(u, {"load"})' : d = e
                       /\ CatchesUp(u)'
    BY DEF ViewInv
  <2>1. u \in Tabs \ disturbed /\ (u # c.tab => hash' = hash)
    BY <1>2
  <2>2. /\ \A d \in CallsOf(u) : d.state # "failed"
        /\ \A d \in late : d.tab # u
        /\ \A d, e \in Waits(u, {"load"}) : d = e
        /\ CatchesUp(u)
    BY <1>0, <2>1 DEF ViewInv
  <2>3. \A d \in calls' : d.tab = u => d = r \/ d \in CallsOf(u)
    BY <1>4 DEF CallsOf
  <2>4. Waits(u, {"load"})' = Waits(u, {"load"})
    BY <1>3, <1>4 DEF Waits, CallsOf, Changes
  <2>5. CASE u = c.tab
    <3>1. c \notin late /\ r \in CallsOf(u)'
      BY <1>3, <1>4, <2>2, <2>5 DEF CallsOf
    <3>2. CatchesUp(u)'
      BY <1>3, <3>1 DEF CatchesUp
    <3>. QED
      BY <1>3, <1>4, <2>2, <2>3, <2>4, <3>2 DEF CallsOf
  <2>6. CASE u # c.tab
    <3>1. CallsOf(u)' = CallsOf(u)
      BY <1>3, <1>4, <2>6 DEF CallsOf
    <3>2. CatchesUp(u)'
      BY <1>2, <2>1, <2>2, <2>4, <2>6, <3>1 DEF CatchesUp
    <3>. QED
      BY <1>4, <2>2, <2>4, <3>1, <3>2
  <2>. QED
    BY <2>5, <2>6
<1>. QED
  BY <1>4, <1>5, <1>6, <1>7, <1>8 DEF IInv

(* The cart service and the order service. *)
LEMMA CartWritesKeep ==
  ASSUME IInv, NEW c \in Underway, SetItem(c) \/ RemoveItem(c) \/ ClearCart(c)
  PROVE  IInv'
<1>0. Types /\ ClickInv
  BY DEF IInv
<1>1. hash \in [Products -> 0..MaxQuantity] /\ c.items \in [Products -> 0..MaxQuantity]
  BY <1>0, UnderwayCalls, Calls DEF Types, Cart!Carts
<1>2. hash' \in Cart!Carts
  <2>1. 0 \in 0..MaxQuantity
    BY StorefrontAssumption
  <2>. QED
    BY <1>1, <2>1, Calls DEF SetItem, RemoveItem, ClearCart, Cart!SetItem, Cart!RemoveItem,
                             Cart!Clear, Cart!Lines, Cart!Carts
<1>. QED
  BY <1>2, HashWrittenKeeps DEF SetItem, RemoveItem, ClearCart, Changes

LEMMA GetCartKeeps ==
  ASSUME IInv, NEW c \in Underway, GetCart(c)
  PROVE  IInv'
<1>0. Types /\ ShownInv /\ ClickInv /\ OrderInv /\ PastInv /\ ViewInv
  BY DEF IInv
<1>. DEFINE r == Replied(c, hash, c.shown)
<1>1. /\ c \in CallType /\ c.state = "sent" /\ c \in calls \cup late /\ c.op = "load"
      /\ hash \in Cart!Carts /\ c.shown \in OrderView /\ c.tab \in Tabs
  BY <1>0, UnderwayCalls, Calls DEF Types, GetCart
<1>2. Reply(c, hash, c.shown)
      /\ UNCHANGED <<hash, orders, view, order, busy, clicks, faults, past, disturbed>>
  BY DEF GetCart, tab
<1>3. r.tab = c.tab /\ r.op = "load" /\ r.state = "ok" /\ r.items = hash
  BY <1>1, CallEnds DEF SameClick
<1>4. /\ calls' = (calls \ {c}) \cup (IF c \in late THEN {} ELSE {r})
      /\ late' = late \ {c}
      /\ calls' \subseteq CallType /\ late' \subseteq LateType
      /\ ClickInv' /\ BusyInv'
  BY <1>1, <1>2, ReplyKeeps DEF tab
<1>. HIDE DEF r
<1>5. ShownInv' /\ OrderInv'
  <2>1. SameOrders
    BY <1>0, <1>2 DEF SameOrders, Types, SameClick
  <2>2. Known(c.shown)
    BY <1>0, <1>1 DEF ShownInv
  <2>. QED
    BY <1>1, <1>2, <2>1, <2>2, ReplyKeepsOrders DEF tab
<1>6. Types'
  BY <1>0, <1>2, <1>4 DEF Types
<1>7. PastInv'
  <2>1. \A d \in calls' \cup late' : d \in calls \cup late \/ d = r
    BY <1>4
  <2>. QED
    BY <1>0, <1>2, <1>3, <2>1 DEF PastInv
<1>8. ViewInv'
  <2>. SUFFICES ASSUME NEW u \in Tabs \ disturbed
                PROVE  /\ \A d \in CallsOf(u)' : d.state # "failed"
                       /\ \A d \in late' : d.tab # u
                       /\ \A d, e \in Waits(u, {"load"})' : d = e
                       /\ CatchesUp(u)'
    BY <1>2 DEF ViewInv
  <2>1. /\ \A d \in CallsOf(u) : d.state # "failed"
        /\ \A d \in late : d.tab # u
        /\ \A d, e \in Waits(u, {"load"}) : d = e
        /\ CatchesUp(u)
    BY <1>0 DEF ViewInv
  <2>2. c \notin late
    <3>1. \A d \in late : d.op # "load"
      BY <1>0 DEF Types, LateType, Writes
    <3>. QED
      BY <1>1, <3>1
  <2>3. CASE u = c.tab
    <3>1. c \in Waits(u, {"load"}) /\ Waits(u, {"load"})' = {r}
      BY <1>1, <1>3, <1>4, <2>1, <2>2, <2>3 DEF Waits, CallsOf
    <3>2. CatchesUp(u)'
      BY <1>2, <1>3, <3>1 DEF CatchesUp, Waits
    <3>. QED
      BY <1>3, <1>4, <2>1, <3>1, <3>2 DEF CallsOf
  <2>4. CASE u # c.tab
    <3>1. CallsOf(u)' = CallsOf(u) /\ Waits(u, {"load"})' = Waits(u, {"load"})
      BY <1>3, <1>4, <2>4 DEF CallsOf, Waits
    <3>2. CatchesUp(u)'
      BY <1>2, <2>1, <3>1 DEF CatchesUp
    <3>. QED
      BY <1>4, <2>1, <3>1, <3>2
  <2>. QED
    BY <2>3, <2>4
<1>. QED
  BY <1>4, <1>5, <1>6, <1>7, <1>8 DEF IInv

(* An answer about orders changes nothing of the cart. *)
LEMMA ReplyKeepsCart ==
  ASSUME IInv, NEW c \in Underway, c.op \in {"order", "refresh"}, NEW shown \in OrderView,
         Reply(c, c.items, shown), UNCHANGED <<hash, tab, clicks, past, disturbed>>,
         \A i \in 1..Len(orders') : orders'[i].items \in past
  PROVE  PastInv' /\ ViewInv'
<1>0. Types /\ ClickInv /\ PastInv /\ ViewInv
  BY DEF IInv
<1>. DEFINE r == Replied(c, c.items, shown)
<1>1. c \in CallType /\ c.state = "sent" /\ c \in calls \cup late /\ c.items \in Cart!Carts
  BY <1>0, UnderwayCalls, Calls
<1>2. r.tab = c.tab /\ r.op = c.op /\ r.items = c.items /\ r.state = "ok"
  BY <1>1, CallEnds DEF SameClick
<1>3. /\ calls' = (calls \ {c}) \cup (IF c \in late THEN {} ELSE {r})
      /\ late' = late \ {c}
  BY <1>1, ReplyKeeps
<1>. HIDE DEF r
<1>4. PastInv'
  <2>1. \A d \in calls' \cup late' : d \in calls \cup late \/ d = r
    BY <1>3
  <2>. QED
    BY <1>0, <1>1, <1>2, <2>1 DEF PastInv, tab
<1>5. ViewInv'
  <2>. SUFFICES ASSUME NEW u \in Tabs \ disturbed
                PROVE  /\ \A d \in CallsOf(u)' : d.state # "failed"
                       /\ \A d \in late' : d.tab # u
                       /\ \A d, e \in Waits(u, {"load"})' : d = e
                       /\ CatchesUp(u)'
    BY DEF ViewInv
  <2>1. /\ \A d \in CallsOf(u) : d.state # "failed"
        /\ \A d \in late : d.tab # u
        /\ \A d, e \in Waits(u, {"load"}) : d = e
        /\ CatchesUp(u)
    BY <1>0 DEF ViewInv
  <2>2. Waits(u, {"load"})' = Waits(u, {"load"})
    BY <1>2, <1>3 DEF Waits, CallsOf
  <2>3. \A d \in CallsOf(u)' : d \in CallsOf(u) \/ d = r
    BY <1>3 DEF CallsOf
  <2>4. \A d \in CallsOf(u) : d.op \notin {"order", "refresh"} => d \in CallsOf(u)'
    BY <1>3 DEF CallsOf
  <2>5. CatchesUp(u)'
    <3>1. view' = view /\ hash' = hash
      BY DEF tab
    <3>2. \A d \in CallsOf(u) : d.op \in Changes \cup {"load"} => d \in CallsOf(u)'
      BY <2>4 DEF Changes
    <3>. QED
      BY <2>1, <2>2, <3>1, <3>2 DEF CatchesUp
  <2>. QED
    BY <1>2, <1>3, <2>1, <2>2, <2>3, <2>5
<1>. QED
  BY <1>4, <1>5

LEMMA GetOrderKeeps ==
  ASSUME IInv, NEW c \in Underway, GetOrder(c)
  PROVE  IInv'
<1>0. Types /\ ShownInv /\ ClickInv /\ OrderInv /\ PastInv
  BY DEF IInv
<1>. DEFINE i == c.shown.id
            shown == [id |-> i, status |-> orders'[i].status]
<1>1. /\ c \in CallType /\ c.op = "refresh" /\ c \in calls \cup late /\ c.items \in Cart!Carts
      /\ orders' \in {orders, [orders EXCEPT ![i].status = "settled"]}
      /\ Reply(c, c.items, shown)
      /\ UNCHANGED <<hash, tab, view, order, busy, clicks, faults, past, disturbed>>
  BY <1>0, UnderwayCalls, Calls DEF GetOrder, tab
<1>2. i \in 1..Len(orders)
  BY <1>0, <1>1 DEF ShownInv, Known
<1>. HIDE DEF i
<1>3. SameOrders
  <2>1. orders \in Seq(OrderType) /\ \A k \in 1..Len(orders) : orders[k] \in OrderType
    BY <1>0 DEF Types
  <2>2. [orders[i] EXCEPT !.status = "settled"] \in OrderType
    BY <1>2, <2>1 DEF OrderType
  <2>3. CASE orders' = orders
    BY <2>1, <2>3 DEF SameOrders, SameClick
  <2>4. CASE orders' = [orders EXCEPT ![i].status = "settled"]
    <3>1. orders' = [orders EXCEPT ![i] = [orders[i] EXCEPT !.status = "settled"]]
      BY <2>4
    <3>2. orders' \in Seq(OrderType) /\ Len(orders') = Len(orders)
      BY <1>2, <2>1, <2>2, <3>1
    <3>3. \A k \in 1..Len(orders) :
            orders'[k] = IF k = i THEN [orders[i] EXCEPT !.status = "settled"] ELSE orders[k]
      BY <1>2, <2>1, <3>1
    <3>4. /\ SameClick([orders[i] EXCEPT !.status = "settled"], orders[i])
          /\ [orders[i] EXCEPT !.status = "settled"].items = orders[i].items
      BY <1>2, <2>1 DEF OrderType, SameClick
    <3>. QED
      BY <3>2, <3>3, <3>4 DEF SameOrders, SameClick
  <2>. QED
    BY <1>1, <2>3, <2>4
<1>4. shown \in OrderView /\ shown # NoOrder /\ shown.id = i
  <2>1. orders'[i] \in OrderType /\ i \in Nat \ {0}
    BY <1>2, <1>3 DEF SameOrders
  <2>. QED
    BY <2>1 DEF OrderType, OrderView, NoOrder
<1>. HIDE DEF shown
<1>5. /\ calls' \subseteq CallType /\ late' \subseteq LateType /\ ClickInv' /\ BusyInv'
  BY <1>1, <1>4, ReplyKeeps
<1>6. ShownInv' /\ OrderInv'
  <2>1. Known(shown)
    BY <1>2, <1>4 DEF Known
  <2>. QED
    BY <1>1, <1>3, <1>4, <2>1, ReplyKeepsOrders
<1>7. PastInv' /\ ViewInv'
  <2>1. \A k \in 1..Len(orders') : orders'[k].items \in past
    BY <1>0, <1>3 DEF SameOrders, PastInv
  <2>. QED
    BY <1>1, <1>4, <2>1, ReplyKeepsCart
<1>8. Types'
  BY <1>0, <1>1, <1>3, <1>5 DEF Types, SameOrders
<1>. QED
  BY <1>5, <1>6, <1>7, <1>8 DEF IInv

LEMMA CreateOrderKeeps ==
  ASSUME IInv, NEW c \in Underway, CreateOrder(c)
  PROVE  IInv'
<1>0. Types /\ ShownInv /\ ClickInv /\ OrderInv /\ PastInv
  BY DEF IInv
<1>. DEFINE n == Len(orders) + 1
            shown == [id |-> n, status |-> "pending"]
            new == [tab |-> c.tab, click |-> c.click, items |-> c.items, status |-> "pending"]
            r == Replied(c, c.items, shown)
<1>1. /\ c \in CallType /\ c.op = "order" /\ c.state = "sent" /\ c \in calls \cup late
      /\ c.tab \in Tabs /\ c.click \in Nat /\ c.items \in Cart!Carts
      /\ orders' = Append(orders, new) /\ Reply(c, c.items, shown)
      /\ UNCHANGED <<hash, tab, view, order, busy, clicks, faults, past, disturbed>>
  BY <1>0, UnderwayCalls, Calls DEF CreateOrder, tab
<1>2. orders \in Seq(OrderType) /\ new \in OrderType
  BY <1>0, <1>1 DEF Types, OrderType
<1>3. /\ orders' \in Seq(OrderType) /\ Len(orders') = n /\ n \in Nat
      /\ \A i \in 1..Len(orders) : orders'[i] = orders[i]
      /\ orders'[n] = new
  <2>. HIDE DEF new
  <2>1. \A s \in Seq(OrderType), x \in OrderType :
          /\ Append(s, x) \in Seq(OrderType) /\ Len(Append(s, x)) = Len(s) + 1
          /\ \A i \in 1..Len(s) : Append(s, x)[i] = s[i]
          /\ Append(s, x)[Len(s) + 1] = x
    OBVIOUS
  <2>. QED
    BY <1>1, <1>2, <2>1
<1>4. new.items = c.items /\ SameClick(new, c)
  BY DEF SameClick
<1>5. shown \in OrderView /\ shown.id = n
  BY <1>3 DEF OrderView
<1>6. /\ SameClick(r, c) /\ r.op = "order" /\ r.state = "ok" /\ r.shown = shown
  BY <1>1, <1>5, CallEnds
<1>7. /\ calls' = (calls \ {c}) \cup (IF c \in late THEN {} ELSE {r})
      /\ late' = late \ {c}
      /\ calls' \subseteq CallType /\ late' \subseteq LateType /\ ClickInv' /\ BusyInv'
  BY <1>1, <1>5, ReplyKeeps
<1>. HIDE DEF shown, new, r
<1>a. PICK a : a = r
  OBVIOUS
<1>8. \A i \in 1..Len(orders') : i \in 1..Len(orders) \/ i = n
  BY <1>2, <1>3 DEF n
<1>9. Len(orders) \in Nat /\ n \notin 1..Len(orders) /\ n \in 1..Len(orders')
      /\ \A i \in 1..Len(orders) : i \in 1..Len(orders')
  BY <1>2, <1>3 DEF n
<1>. HIDE DEF n
<1>10. PastInv' /\ ViewInv'
  <2>1. c.items \in past
    BY <1>0, <1>1 DEF PastInv
  <2>2. \A i \in 1..Len(orders') : orders'[i].items \in past
    BY <1>0, <1>3, <1>4, <1>8, <2>1 DEF PastInv
  <2>. QED
    BY <1>1, <1>5, <2>2, ReplyKeepsCart
<1>11. Types'
  BY <1>0, <1>1, <1>3, <1>7 DEF Types
<1>12. ShownInv'
  <2>1. \A d \in calls' \cup late' : d \in calls \cup late \/ d = a
    BY <1>7, <1>a
  <2>2. \A v : Known(v) => Known(v)'
    BY <1>9 DEF Known
  <2>3. Known(a.shown)' /\ a.op = "order"
    BY <1>5, <1>6, <1>9, <1>a DEF Known
  <2>. QED
    BY <1>0, <1>1, <2>1, <2>2, <2>3 DEF ShownInv
<1>13. \A d : Ordered(d)' <=> Ordered(d) \/ SameClick(new, d)
  BY <1>3, <1>8, <1>9 DEF Ordered
<1>14. ~Ordered(c)
  BY <1>0, <1>1 DEF OrderInv
<1>15. OrderInv'
  <2>1. \A i \in 1..Len(orders') : orders'[i].click <= clicks'[orders'[i].tab]
    <3>1. new.click <= clicks[new.tab]
      BY <1>0, <1>1, <1>4 DEF ClickInv, SameClick
    <3>. QED
      BY <1>0, <1>1, <1>3, <1>8, <3>1 DEF OrderInv
  <2>2. \A i, j \in 1..Len(orders') : SameClick(orders'[i], orders'[j]) => i = j
    <3>1. \A i \in 1..Len(orders) : ~SameClick(orders[i], new) /\ ~SameClick(new, orders[i])
      BY <1>4, <1>14 DEF Ordered, SameClick
    <3>. QED
      BY <1>0, <1>3, <1>8, <3>1 DEF OrderInv
  <2>3. \A d \in calls' \cup late' : (d \in calls \cup late /\ d # c) \/ d = a
    BY <1>6, <1>7, <1>1, <1>a
  <2>4. Ordered(a)' /\ a.state = "ok"
    BY <1>4, <1>6, <1>13, <1>a DEF SameClick
  <2>5. ASSUME NEW d \in calls \cup late, d # c, d.op = "order", d.state = "sent"
        PROVE  ~Ordered(d)'
    <3>1. ~SameClick(c, d) /\ ~SameClick(d, c)
      BY <1>0, <1>1, <2>5 DEF ClickInv, SameClick, Types, LateType
    <3>2. ~SameClick(new, d)
      BY <1>4, <3>1 DEF SameClick
    <3>. QED
      BY <1>0, <1>13, <2>5, <3>2 DEF OrderInv
  <2>6. \A d \in calls' \cup late' :
          /\ d.op = "order" /\ d.state = "sent" => ~Ordered(d)'
          /\ d.op = "order" /\ d.state = "ok" => Ordered(d)'
          /\ d.op = "clear" => Ordered(d)'
    BY <1>0, <1>13, <2>3, <2>4, <2>5 DEF OrderInv
  <2>. QED
    BY <2>1, <2>2, <2>6 DEF OrderInv
<1>. QED
  BY <1>7, <1>10, <1>11, <1>12, <1>15 DEF IInv

LEMMA ServeKeeps ==
  ASSUME IInv, NEW c \in Underway, Serve(c)
  PROVE  IInv'
BY CartWritesKeep, GetCartKeeps, GetOrderKeeps, CreateOrderKeeps DEF Serve

-----------------------------------------------------------------------------
(* The BFF gives up, a late write is dropped, the cart expires.             *)
LEMMA GiveUpKeeps ==
  ASSUME IInv, NEW c \in Underway \ late, GiveUp(c)
  PROVE  IInv'
<1>0. Types /\ ShownInv /\ ClickInv /\ OrderInv /\ BusyInv /\ PastInv /\ ViewInv
  BY DEF IInv
<1>. DEFINE e == Failed(c)
            L == {d \in {c} : Writes(d)}
<1>1. c \in CallType /\ c.state = "sent" /\ c \in calls /\ c \notin late /\ c.tab \in Tabs
      /\ c.items \in Cart!Carts /\ c.shown \in OrderView
  BY <1>0, UnderwayCalls, Calls
<1>2. /\ e \in CallType /\ SameClick(e, c) /\ e.tab = c.tab /\ e.op = c.op
      /\ e.items = c.items /\ e.shown = c.shown /\ e.state = "failed"
  BY <1>1, CallEnds DEF SameClick
<1>3. /\ calls' = (calls \ {c}) \cup {e} /\ late' = late \cup L
      /\ disturbed' = disturbed \cup {c.tab} /\ faults < MaxFaults /\ faults' = faults + 1
      /\ UNCHANGED <<hash, orders, view, order, busy, clicks, past>>
  BY DEF GiveUp, Failed, tab
<1>4. L \subseteq {c} /\ L \subseteq LateType
  BY <1>1 DEF LateType
<1>. HIDE DEF e, L
<1>5. Types'
  <2>1. faults' \in 0..MaxFaults
    BY <1>0, <1>3, StorefrontAssumption DEF Types
  <2>. QED
    BY <1>0, <1>1, <1>2, <1>3, <1>4, <2>1 DEF Types
<1>6. ClickInv'
  <2>1. late' = (late \ {c}) \cup L
    BY <1>1, <1>3
  <2>. QED
    BY <1>0, <1>1, <1>2, <1>3, <1>4, <2>1, ClicksKept
<1>7. BusyInv'
  BY <1>0, <1>1, <1>2, <1>3, BusyKept
<1>8. \A d \in calls' \cup late' : d \in calls \cup late \/ d = e
  BY <1>1, <1>3, <1>4
<1>9. ShownInv'
  BY <1>0, <1>1, <1>2, <1>3, <1>8 DEF ShownInv, Known
<1>10. OrderInv'
  <2>1. Ordered(e) <=> Ordered(c)
    BY <1>2 DEF Ordered, SameClick
  <2>2. \A d : Ordered(d)' <=> Ordered(d)
    BY <1>3 DEF Ordered
  <2>. QED
    BY <1>0, <1>1, <1>2, <1>3, <1>8, <2>1, <2>2 DEF OrderInv
<1>11. PastInv'
  BY <1>0, <1>1, <1>2, <1>3, <1>8 DEF PastInv
<1>12. ViewInv'
  <2>. SUFFICES ASSUME NEW u \in Tabs \ disturbed'
                PROVE  /\ \A d \in CallsOf(u)' : d.state # "failed"
                       /\ \A d \in late' : d.tab # u
                       /\ \A d, f \in Waits(u, {"load"})' : d = f
                       /\ CatchesUp(u)'
    BY DEF ViewInv
  <2>1. u \in Tabs \ disturbed /\ u # c.tab
    BY <1>3
  <2>2. CallsOf(u)' = CallsOf(u) /\ Waits(u, {"load"})' = Waits(u, {"load"})
    BY <1>2, <1>3, <2>1 DEF CallsOf, Waits
  <2>3. /\ \A d \in CallsOf(u) : d.state # "failed"
        /\ \A d \in late' : d.tab # u
        /\ \A d, f \in Waits(u, {"load"}) : d = f
        /\ CatchesUp(u)
    BY <1>0, <1>3, <1>4, <2>1 DEF ViewInv
  <2>4. CatchesUp(u)'
    BY <1>3, <2>2, <2>3 DEF CatchesUp
  <2>. QED
    BY <2>2, <2>3, <2>4
<1>. QED
  BY <1>5, <1>6, <1>7, <1>9, <1>10, <1>11, <1>12 DEF IInv

LEMMA DropKeeps ==
  ASSUME IInv, NEW c \in late, Drop(c)
  PROVE  IInv'
<1>1. /\ late' \subseteq late
      /\ UNCHANGED <<hash, orders, view, order, busy, calls, clicks, faults, past, disturbed>>
  BY DEF Drop, tab
<1>2. Types' /\ ClickInv' /\ PastInv'
  BY <1>1 DEF IInv, Types, ClickInv, PastInv
<1>3. ShownInv' /\ OrderInv'
  BY <1>1 DEF IInv, ShownInv, Known, OrderInv, Ordered
<1>4. BusyInv' /\ ViewInv'
  BY <1>1 DEF IInv, BusyInv, Waits, CallsOf, ViewInv, CatchesUp
<1>. QED
  BY <1>2, <1>3, <1>4 DEF IInv

LEMMA ExpireKeeps ==
  ASSUME IInv, Expire
  PROVE  IInv'
<1>1. /\ hash' = Cart!Empty /\ past' = past \cup {hash'} /\ disturbed' = Tabs
      /\ faults < MaxFaults /\ faults' = faults + 1
      /\ UNCHANGED <<orders, view, order, busy, calls, late, clicks>>
  BY DEF Expire, Cart!Expire, tab, net
<1>2. Types'
  <2>1. faults' \in 0..MaxFaults
    BY <1>1, StorefrontAssumption DEF IInv, Types
  <2>. QED
    BY <1>1, <2>1, Calls DEF IInv, Types
<1>3. ClickInv' /\ PastInv'
  BY <1>1 DEF IInv, ClickInv, PastInv
<1>4. ShownInv' /\ OrderInv'
  BY <1>1 DEF IInv, ShownInv, Known, OrderInv, Ordered
<1>5. BusyInv' /\ ViewInv'
  BY <1>1 DEF IInv, BusyInv, Waits, CallsOf, ViewInv
<1>. QED
  BY <1>2, <1>3, <1>4, <1>5 DEF IInv

-----------------------------------------------------------------------------
(* A tab handles an answer and may send the next call of the same click.    *)
LEMMA HandledKeeps ==
  ASSUME IInv, NEW c \in calls, c.state # "sent",
         NEW e \in CallType, SameClick(e, c), e.state = "sent", e.shown = NoOrder,
         e.op \in {"load", "clear"}, e.op = "clear" => c.op = "order",
         NEW N \in SUBSET {e}, N # {} => c.state = "ok",
         calls' = (calls \ {c}) \cup N,
         UNCHANGED <<hash, orders, late, clicks, faults, past>>,
         order' \in {order, [order EXCEPT ![c.tab] = c.shown]}
  PROVE  /\ calls' \subseteq CallType /\ order' \in [Tabs -> OrderView]
         /\ ShownInv' /\ ClickInv' /\ OrderInv'
         /\ \A d \in calls' : d \in calls \/ (d = e /\ c.state = "ok")
<1>0. Types /\ ShownInv /\ ClickInv /\ OrderInv
  BY DEF IInv
<1>1. c \in CallType /\ c \notin late /\ c.tab \in Tabs /\ c.shown \in OrderView
  BY <1>0, Calls DEF Types, LateType
<1>2. N \subseteq {e}
  OBVIOUS
<1>3. \A d \in calls' : d \in calls \/ (d = e /\ c.state = "ok")
  BY <1>2
<1>4. order' \in [Tabs -> OrderView]
  BY <1>0, <1>1 DEF Types
<1>5. ShownInv'
  <2>1. \A t \in Tabs : Known(order'[t])
    BY <1>0, <1>1 DEF Types, ShownInv
  <2>2. \A v : Known(v)' <=> Known(v)
    BY DEF Known
  <2>3. \A t \in Tabs : Known(order[t])'
    BY <2>1, <2>2
  <2>4. \A d \in calls' \cup late' : Known(d.shown)' /\ (d.op = "refresh" => d.shown # NoOrder)
    BY <1>0, <1>3 DEF ShownInv, Known
  <2>. QED
    BY <2>3, <2>4 DEF ShownInv
<1>6. ClickInv'
  <2>. DEFINE L == {}
  <2>1. late' = (late \ {c}) \cup L /\ L \in SUBSET {c} /\ L = {} /\ clicks' = clicks
    BY <1>1
  <2>2. N # {} => c \in calls /\ c.state # "failed"
    OBVIOUS
  <2>. HIDE DEF L
  <2>. QED
    BY <1>0, <2>1, <2>2, ClicksKept
<1>7. OrderInv'
  <2>1. \A d : Ordered(d)' <=> Ordered(d)
    BY DEF Ordered
  <2>2. Ordered(e) <=> Ordered(c)
    BY DEF Ordered, SameClick
  <2>3. \A d \in calls' \cup late' :
          /\ d.op = "order" /\ d.state = "sent" => ~Ordered(d)'
          /\ d.op = "order" /\ d.state = "ok" => Ordered(d)'
          /\ d.op = "clear" => Ordered(d)'
    BY <1>0, <1>3, <2>1, <2>2 DEF OrderInv
  <2>. QED
    BY <1>0, <2>3 DEF OrderInv
<1>. QED
  BY <1>0, <1>2, <1>3, <1>4, <1>5, <1>6, <1>7 DEF Types

(* One call less of the kinds a busy tab waits for.                         *)
LEMMA NoLongerBusy ==
  ASSUME Types, BusyInv, NEW c \in calls, c.op \in {"add", "order"},
         NEW N, \A d \in N : d.op \notin {"add", "order"}, calls' = (calls \ {c}) \cup N,
         busy' = [busy EXCEPT ![c.tab] = FALSE]
  PROVE  BusyInv'
<1>. SUFFICES ASSUME NEW t \in Tabs
              PROVE  /\ ~busy'[t] => Waits(t, {"add", "order"})' = {}
                     /\ busy'[t] => \E d \in calls' : Waits(t, {"add", "order"})' = {d}
  BY DEF BusyInv
<1>1. Waits(t, {"add", "order"})' = Waits(t, {"add", "order"}) \ {c}
  BY DEF Waits, CallsOf
<1>2. /\ ~busy[t] => Waits(t, {"add", "order"}) = {}
      /\ busy[t] => \E d \in calls : Waits(t, {"add", "order"}) = {d}
  BY DEF BusyInv
<1>3. CASE t = c.tab
  <2>1. c \in Waits(t, {"add", "order"})
    BY <1>3 DEF Waits, CallsOf
  <2>2. Waits(t, {"add", "order"})' = {}
    BY <1>1, <1>2, <2>1
  <2>3. ~busy'[t]
    BY <1>3 DEF Types
  <2>. QED
    BY <2>2, <2>3
<1>4. CASE t # c.tab
  <2>1. c \notin Waits(t, {"add", "order"})
    BY <1>4 DEF Waits, CallsOf
  <2>2. busy'[t] = busy[t]
    BY <1>4 DEF Types
  <2>3. Waits(t, {"add", "order"})' = Waits(t, {"add", "order"})
    BY <1>1, <2>1
  <2>4. Waits(t, {"add", "order"})' \subseteq calls'
    BY DEF Waits, CallsOf
  <2>. QED
    BY <1>2, <2>2, <2>3, <2>4
<1>. QED
  BY <1>3, <1>4

LEMMA AsBusyAsBefore ==
  ASSUME BusyInv, NEW c \in calls, c.op \notin {"add", "order"},
         NEW N, \A d \in N : d.op \notin {"add", "order"}, calls' = (calls \ {c}) \cup N,
         busy' = busy
  PROVE  BusyInv'
<1>. SUFFICES ASSUME NEW t \in Tabs
              PROVE  /\ ~busy[t] => Waits(t, {"add", "order"})' = {}
                     /\ busy[t] => \E d \in calls' : Waits(t, {"add", "order"})' = {d}
  BY DEF BusyInv
<1>1. /\ Waits(t, {"add", "order"})' = Waits(t, {"add", "order"})
      /\ Waits(t, {"add", "order"})' \subseteq calls'
  BY DEF Waits, CallsOf
<1>. QED
  BY <1>1 DEF BusyInv

(* What a tab shows after it has handled an answer: its own view must catch *)
(* up, and those of the other tabs do as before.                            *)
LEMMA HandledKeepsView ==
  ASSUME IInv, NEW c \in calls, NEW e \in CallType, SameClick(e, c), e.state = "sent",
         NEW N \in SUBSET {e}, calls' = (calls \ {c}) \cup N,
         UNCHANGED <<hash, late>>, disturbed \subseteq disturbed',
         \A u \in Tabs \ {c.tab} : view'[u] = view[u],
         c.tab \notin disturbed' =>
           /\ CatchesUp(c.tab)'
           /\ e.op = "load" /\ N # {} => Waits(c.tab, {"load"}) = {}
  PROVE  ViewInv'
<1>. SUFFICES ASSUME NEW u \in Tabs \ disturbed'
              PROVE  /\ \A d \in CallsOf(u)' : d.state # "failed"
                     /\ \A d \in late' : d.tab # u
                     /\ \A d, f \in Waits(u, {"load"})' : d = f
                     /\ CatchesUp(u)'
  BY DEF ViewInv
<1>1. /\ \A d \in CallsOf(u) : d.state # "failed"
      /\ \A d \in late : d.tab # u
      /\ \A d, f \in Waits(u, {"load"}) : d = f
      /\ CatchesUp(u)
  BY DEF IInv, ViewInv
<1>2. N \subseteq {e} /\ e.tab = c.tab
  BY DEF SameClick
<1>3. CASE u = c.tab
  <2>1. \A d \in CallsOf(u)' : d \in CallsOf(u) \/ d = e
    BY <1>2 DEF CallsOf
  <2>2. \A d, f \in Waits(u, {"load"})' : d = f
    <3>1. CASE e.op = "load" /\ N # {}
      <4>1. Waits(u, {"load"}) = {}
        BY <1>3, <3>1
      <4>2. Waits(u, {"load"})' \subseteq {e}
        BY <1>2, <4>1 DEF Waits, CallsOf
      <4>. QED
        BY <4>2
    <3>2. CASE ~(e.op = "load" /\ N # {})
      <4>1. Waits(u, {"load"})' \subseteq Waits(u, {"load"})
        BY <1>2, <3>2 DEF Waits, CallsOf
      <4>. QED
        BY <1>1, <4>1
    <3>. QED
      BY <3>1, <3>2
  <2>. QED
    BY <1>1, <1>3, <2>1, <2>2
<1>4. CASE u # c.tab
  <2>1. CallsOf(u)' = CallsOf(u) /\ Waits(u, {"load"})' = Waits(u, {"load"})
    BY <1>2, <1>4 DEF CallsOf, Waits
  <2>2. CatchesUp(u)'
    BY <1>1, <1>4, <2>1 DEF CatchesUp
  <2>. QED
    BY <1>1, <2>1, <2>2
<1>. QED
  BY <1>3, <1>4

LEMMA CartAnsweredKeeps ==
  ASSUME IInv, NEW c \in calls, CartAnswered(c)
  PROVE  IInv'
<1>0. Types /\ BusyInv /\ PastInv /\ ViewInv
  BY DEF IInv
<1>. DEFINE e == Load(c.tab, c.click)
            N == {}
<1>1. /\ c \in CallType /\ c.tab \in Tabs /\ c.click \in Nat /\ c.items \in Cart!Carts
      /\ c.op = "load" /\ c.state # "sent"
      /\ view' = (IF c.state = "ok" THEN [view EXCEPT ![c.tab] = c.items] ELSE view)
      /\ calls' = (calls \ {c}) \cup N
      /\ UNCHANGED <<hash, orders, order, busy, late, clicks, faults, past, disturbed>>
  BY <1>0, Calls DEF CartAnswered, Done, Answered, Ok, Types
<1>2. /\ e \in CallType /\ SameClick(e, c) /\ e.state = "sent" /\ e.shown = NoOrder
      /\ e.op = "load"
  BY <1>1, NextCall DEF Load
<1>. HIDE DEF e
<1>3. calls' \subseteq CallType /\ ShownInv' /\ ClickInv' /\ OrderInv'
  <2>1. N \in SUBSET {e} /\ (N # {} => c.state = "ok")
    OBVIOUS
  <2>. HIDE DEF N
  <2>. QED
    BY <1>1, <1>2, <2>1, HandledKeeps
<1>4. BusyInv'
  <2>1. \A d \in N : d.op \notin {"add", "order"}
    OBVIOUS
  <2>. HIDE DEF N
  <2>. QED
    BY <1>0, <1>1, <2>1, AsBusyAsBefore
<1>5. Types'
  BY <1>0, <1>1, <1>3 DEF Types
<1>6. PastInv'
  BY <1>0, <1>1 DEF PastInv, Types
<1>7. c.tab \notin disturbed => CatchesUp(c.tab)'
  <2>. SUFFICES ASSUME c.tab \notin disturbed PROVE CatchesUp(c.tab)'
    OBVIOUS
  <2>1. /\ c \in CallsOf(c.tab) /\ c \in Waits(c.tab, {"load"})
        /\ \A d, f \in Waits(c.tab, {"load"}) : d = f
        /\ c.state # "failed" /\ CatchesUp(c.tab)
    BY <1>0, <1>1 DEF ViewInv, CallsOf, Waits
  <2>2. c.state = "ok"
    BY <1>1, <2>1 DEF CallType
  <2>3. view'[c.tab] = c.items
    BY <1>0, <1>1, <2>2 DEF Types
  <2>4. CASE \E d \in CallsOf(c.tab) : d.op \in Changes /\ d.state = "ok"
    <3>1. \A d \in CallsOf(c.tab) : d.op \in Changes => d \in CallsOf(c.tab)'
      BY <1>1 DEF CallsOf, Changes
    <3>. QED
      BY <2>4, <3>1 DEF CatchesUp
  <2>5. CASE \E d \in CallsOf(c.tab) : d.op = "load" /\ (d.state = "ok" => d.items = hash)
    <3>1. c.items = hash
      BY <2>1, <2>2, <2>5 DEF Waits
    <3>2. Waits(c.tab, {"load"})' = {}
      BY <1>1, <2>1 DEF Waits, CallsOf
    <3>. QED
      BY <1>1, <2>3, <3>1, <3>2 DEF CatchesUp
  <2>. QED
    BY <2>1, <2>4, <2>5 DEF CatchesUp
<1>8. ViewInv'
  <2>1. \A u \in Tabs \ {c.tab} : view'[u] = view[u]
    BY <1>0, <1>1 DEF Types
  <2>2. N \in SUBSET {e} /\ N = {}
    OBVIOUS
  <2>. HIDE DEF N
  <2>. QED
    BY <1>1, <1>2, <1>7, <2>1, <2>2, HandledKeepsView
<1>. QED
  BY <1>3, <1>4, <1>5, <1>6, <1>8 DEF IInv

LEMMA ChangeAnsweredKeeps ==
  ASSUME IInv, NEW c \in calls, AddAnswered(c) \/ ChangeAnswered(c)
  PROVE  IInv'
<1>0. Types /\ BusyInv /\ PastInv /\ ViewInv
  BY DEF IInv
<1>. DEFINE e == Load(c.tab, c.click)
            N == {d \in {e} : Ok(c)}
<1>1. /\ c \in CallType /\ c.tab \in Tabs /\ c.click \in Nat
      /\ c.op \in Changes /\ c.state # "sent" /\ ThenLoad(c)
      /\ UNCHANGED <<view, order>>
      /\ c.op = "add" => busy' = [busy EXCEPT ![c.tab] = FALSE]
      /\ c.op # "add" => busy' = busy
  BY <1>0, Calls DEF AddAnswered, ChangeAnswered, Answered, Types, Changes, tab
<1>2. /\ e \in CallType /\ SameClick(e, c) /\ e.state = "sent" /\ e.shown = NoOrder
      /\ e.op = "load" /\ e.tab = c.tab
  BY <1>1, NextCall DEF Load
<1>3. /\ calls' = (calls \ {c}) \cup N
      /\ IF Ok(c) THEN Loading(c.tab) ELSE UNCHANGED disturbed
      /\ UNCHANGED <<hash, orders, late, clicks, faults, past>>
  BY <1>1 DEF ThenLoad
<1>4. N \in SUBSET {e} /\ (N # {} <=> c.state = "ok") /\ \A d \in N : d.op = "load"
  BY <1>2 DEF Ok
<1>. HIDE DEF e, N
<1>5. /\ calls' \subseteq CallType /\ ShownInv' /\ ClickInv' /\ OrderInv'
      /\ \A d \in calls' : d \in calls \/ (d = e /\ c.state = "ok")
  BY <1>1, <1>2, <1>3, <1>4, HandledKeeps
<1>6. BusyInv'
  <2>1. CASE c.op = "add"
    BY <1>0, <1>1, <1>3, <1>4, <2>1, NoLongerBusy
  <2>2. CASE c.op # "add"
    BY <1>0, <1>1, <1>3, <1>4, <2>2, AsBusyAsBefore DEF Changes
  <2>. QED
    BY <2>1, <2>2
<1>7. Types'
  <2>1. busy' \in [Tabs -> BOOLEAN]
    BY <1>0, <1>1 DEF Types
  <2>. QED
    BY <1>0, <1>1, <1>3, <1>5, <2>1 DEF Types, Loading
<1>8. PastInv'
  BY <1>0, <1>1, <1>2, <1>3, <1>5 DEF PastInv
<1>9. ASSUME Ok(c) PROVE ViewInv'
  <2>. SUFFICES ASSUME NEW u \in Tabs \ disturbed'
                PROVE  /\ \A d \in CallsOf(u)' : d.state # "failed"
                       /\ \A d \in late' : d.tab # u
                       /\ \A d, f \in Waits(u, {"load"})' : d = f
                       /\ CatchesUp(u)'
    BY DEF ViewInv
  <2>1. CASE u = c.tab
    <3>1. LoadsAlone(u)'
      BY <1>3, <1>9, <2>1 DEF Loading
    <3>2. e \in CallsOf(u)'
      BY <1>2, <1>3, <1>4, <1>9, <2>1 DEF CallsOf, Ok
    <3>. QED
      BY <1>2, <3>1, <3>2 DEF LoadsAlone, CatchesUp
  <2>2. CASE u # c.tab
    <3>1. u \in Tabs \ disturbed
      BY <1>3, <1>9, <2>2 DEF Loading
    <3>2. /\ \A d \in CallsOf(u) : d.state # "failed"
          /\ \A d \in late : d.tab # u
          /\ \A d, f \in Waits(u, {"load"}) : d = f
          /\ CatchesUp(u)
      BY <1>0, <3>1 DEF ViewInv
    <3>3. CallsOf(u)' = CallsOf(u) /\ Waits(u, {"load"})' = Waits(u, {"load"})
      BY <1>2, <1>3, <1>4, <2>2 DEF CallsOf, Waits
    <3>4. CatchesUp(u)'
      BY <1>1, <1>3, <3>2, <3>3 DEF CatchesUp
    <3>. QED
      BY <1>3, <3>2, <3>3, <3>4
  <2>. QED
    BY <2>1, <2>2
<1>10. ASSUME ~Ok(c) PROVE ViewInv'
  <2>1. c.state = "failed" /\ disturbed' = disturbed /\ N = {}
    BY <1>1, <1>3, <1>4, <1>10 DEF CallType, Ok
  <2>2. c.tab \in disturbed'
    BY <1>0, <1>1, <2>1 DEF ViewInv, CallsOf
  <2>. QED
    BY <1>1, <1>2, <1>3, <1>4, <2>1, <2>2, HandledKeepsView
<1>. QED
  BY <1>5, <1>6, <1>7, <1>8, <1>9, <1>10 DEF IInv

LEMMA OrderAnsweredKeeps ==
  ASSUME IInv, NEW c \in calls, CheckoutAnswered(c) \/ RefreshAnswered(c)
  PROVE  IInv'
<1>0. Types /\ BusyInv /\ PastInv /\ ViewInv
  BY DEF IInv
<1>. DEFINE e == Call(c.tab, c.click, "clear", Cart!Empty, NoOrder)
            N == {d \in {e} : Ok(c) /\ c.op = "order"}
<1>1. /\ c \in CallType /\ c.tab \in Tabs /\ c.click \in Nat
      /\ c.op \in {"order", "refresh"} /\ c.state # "sent"
      /\ order' \in {order, [order EXCEPT ![c.tab] = c.shown]}
      /\ calls' = (calls \ {c}) \cup N
      /\ UNCHANGED <<hash, orders, view, late, clicks, faults, past, disturbed>>
      /\ c.op = "order" => busy' = [busy EXCEPT ![c.tab] = FALSE]
      /\ c.op # "order" => busy' = busy
  BY <1>0, Calls DEF CheckoutAnswered, RefreshAnswered, Done, Answered, Types
<1>2. /\ e \in CallType /\ SameClick(e, c) /\ e.state = "sent" /\ e.shown = NoOrder
      /\ e.op = "clear" /\ e.tab = c.tab
  BY <1>1, NextCall
<1>3. /\ N \in SUBSET {e} /\ (N # {} => c.state = "ok" /\ c.op = "order")
      /\ \A d \in N : d.op = "clear"
  BY <1>2 DEF Ok
<1>. HIDE DEF e, N
<1>4. /\ calls' \subseteq CallType /\ order' \in [Tabs -> OrderView]
      /\ ShownInv' /\ ClickInv' /\ OrderInv'
      /\ \A d \in calls' : d \in calls \/ d \in N
  <2>1. CASE c.op = "order"
    BY <1>1, <1>2, <1>3, <2>1, HandledKeeps
  <2>2. CASE c.op = "refresh"
    <3>. DEFINE f == Load(c.tab, c.click)
                M == {}
    <3>1. /\ f \in CallType /\ SameClick(f, c) /\ f.state = "sent" /\ f.shown = NoOrder
          /\ f.op = "load"
      BY <1>1, NextCall DEF Load
    <3>2. N = {} /\ M \in SUBSET {f} /\ calls' = (calls \ {c}) \cup M /\ (M # {} => c.state = "ok")
      BY <1>1, <1>3, <2>2
    <3>. HIDE DEF f, M
    <3>3. /\ calls' \subseteq CallType /\ order' \in [Tabs -> OrderView]
          /\ ShownInv' /\ ClickInv' /\ OrderInv'
      BY <1>1, <3>1, <3>2, HandledKeeps
    <3>. QED
      BY <1>1, <3>2, <3>3
  <2>. QED
    BY <1>1, <2>1, <2>2
<1>5. BusyInv'
  <2>1. CASE c.op = "order"
    BY <1>0, <1>1, <1>3, <2>1, NoLongerBusy
  <2>2. CASE c.op # "order"
    BY <1>0, <1>1, <1>3, <2>2, AsBusyAsBefore
  <2>. QED
    BY <2>1, <2>2
<1>6. Types'
  <2>1. busy' \in [Tabs -> BOOLEAN]
    BY <1>0, <1>1 DEF Types
  <2>. QED
    BY <1>0, <1>1, <1>4, <2>1 DEF Types
<1>7. PastInv'
  BY <1>0, <1>1, <1>3, <1>4 DEF PastInv
<1>8. c.tab \notin disturbed' => CatchesUp(c.tab)'
  <2>. SUFFICES ASSUME c.tab \notin disturbed PROVE CatchesUp(c.tab)'
    BY <1>1
  <2>1. CatchesUp(c.tab)
    BY <1>0, <1>1 DEF ViewInv
  <2>2. \A d \in CallsOf(c.tab) : d.op \in Changes \cup {"load"} => d \in CallsOf(c.tab)'
    BY <1>1 DEF CallsOf, Changes
  <2>3. Waits(c.tab, {"load"})' = Waits(c.tab, {"load"})
    BY <1>1, <1>3 DEF Waits, CallsOf
  <2>. QED
    BY <1>1, <2>1, <2>2, <2>3 DEF CatchesUp
<1>9. ViewInv'
  BY <1>1, <1>2, <1>3, <1>8, HandledKeepsView
<1>. QED
  BY <1>4, <1>5, <1>6, <1>7, <1>9 DEF IInv

LEMMA HandleKeeps ==
  ASSUME IInv, NEW c \in calls, Handle(c)
  PROVE  IInv'
BY CartAnsweredKeeps, ChangeAnsweredKeeps, OrderAnsweredKeeps DEF Handle

-----------------------------------------------------------------------------
LEMMA InitIInv == Init => IInv
<1>. SUFFICES ASSUME Init PROVE IInv
  OBVIOUS
<1>1. Types
  <2>1. 0 \in Nat /\ 0 \in 0..MaxFaults /\ \A t \in Tabs : 0 <= MaxClicks[t]
    BY StorefrontAssumption
  <2>. QED
    BY <2>1, Calls DEF Init, Types, Cart!Init, Cart!Carts
<1>2. ShownInv /\ ClickInv /\ OrderInv /\ PastInv
  BY <1>1 DEF Init, Types, ShownInv, Known, ClickInv, OrderInv, PastInv
<1>3. BusyInv /\ ViewInv
  BY <1>1 DEF Init, Types, BusyInv, Waits, CallsOf, ViewInv, CatchesUp
<1>. QED
  BY <1>1, <1>2, <1>3 DEF IInv

LEMMA StepIInv == IInv /\ [Next]_vars => IInv'
<1>. SUFFICES ASSUME IInv, [Next]_vars PROVE IInv'
  OBVIOUS
<1>1. ASSUME NEW t \in Tabs, User(t)
      PROVE  IInv'
  BY <1>1, ClicksKeep, ReloadKeeps DEF User
<1>2. CASE UNCHANGED vars
  <2>1. UNCHANGED <<hash, orders, view, order, busy, calls, late, clicks, faults, past, disturbed>>
    BY <1>2 DEF vars, tab, net
  <2>2. Types' /\ ClickInv' /\ PastInv'
    BY <2>1 DEF IInv, Types, ClickInv, PastInv
  <2>3. ShownInv' /\ OrderInv' /\ BusyInv' /\ ViewInv'
    BY <2>1 DEF IInv, ShownInv, Known, OrderInv, Ordered, BusyInv, Waits, CallsOf, ViewInv, CatchesUp
  <2>. QED
    BY <2>2, <2>3 DEF IInv
<1>. QED
  BY <1>1, <1>2, ServeKeeps, GiveUpKeeps, DropKeeps, HandleKeeps, ExpireKeeps DEF Next

(* The inductive invariant holds in every reachable state. *)
THEOREM Invariance == Spec => []IInv
BY InitIInv, StepIInv, PTL DEF Spec

(* Carts, orders, calls and the signals of the tabs keep their types.       *)
THEOREM TypeCorrect == Spec => []TypeOK
<1>1. IInv => TypeOK
  <2>. SUFFICES ASSUME Types, ShownInv PROVE TypeOK
    BY DEF IInv
  <2>1. \A i \in DOMAIN orders : orders[i] \in OrderType
    BY DEF Types
  <2>2. \A i \in DOMAIN orders :
          orders[i].items \in Cart!Carts /\ orders[i].status \in {"pending", "settled"}
    BY <2>1 DEF OrderType
  <2>3. \A t \in Tabs : order[t].id \in 0..Len(orders)
    <3>1. Len(orders) \in Nat /\ NoOrder.id = 0
      BY DEF Types, NoOrder
    <3>. QED
      BY <3>1 DEF ShownInv, Known
  <2>4. \A c \in calls \cup late : c.tab \in Tabs /\ c.items \in Cart!Carts
    BY Calls DEF Types, LateType
  <2>5. \A t \in Tabs : clicks[t] \in 0..MaxClicks[t]
    BY StorefrontAssumption DEF Types
  <2>. QED
    BY <2>2, <2>3, <2>4, <2>5 DEF Types, TypeOK
<1>. QED
  BY <1>1, Invariance, PTL

(* However answers are lost, late or out of order, a click on Place order   *)
(* makes at most one order, and a cart is cleared only for a stored order.  *)
THEOREM OneOrder == Spec => []OneOrderPerClick
<1>1. IInv => OneOrderPerClick
  <2>. SUFFICES ASSUME Types, OrderInv PROVE OneOrderPerClick
    BY DEF IInv
  <2>1. DOMAIN orders = 1..Len(orders)
    BY DEF Types
  <2>. QED
    BY <2>1 DEF OrderInv, Ordered, SameClick, OneOrderPerClick
<1>. QED
  BY <1>1, Invariance, PTL

(* A busy tab waits for exactly one addition or checkout, the others for    *)
(* none.                                                                    *)
THEOREM BusyIsExact == Spec => []BusyWhileWaiting
<1>1. IInv => BusyWhileWaiting
  <2>. SUFFICES ASSUME BusyInv, NEW t \in Tabs
                PROVE  Cardinality(Waits(t, {"add", "order"})) = IF busy[t] THEN 1 ELSE 0
    BY DEF IInv, BusyWhileWaiting
  <2>1. CASE busy[t]
    <3>1. PICK c \in calls : Waits(t, {"add", "order"}) = {c}
      BY <2>1 DEF BusyInv
    <3>. QED
      BY <2>1, <3>1, FS_Singleton
  <2>2. CASE ~busy[t]
    <3>1. Waits(t, {"add", "order"}) = {}
      BY <2>2 DEF BusyInv
    <3>. QED
      BY <2>2, <3>1, FS_EmptySet
  <2>. QED
    BY <2>1, <2>2
<1>. QED
  BY <1>1, Invariance, PTL

(* What is ordered was in the cart at some time. *)
THEOREM OrdersWereCarts == Spec => []OrderedWasCart
<1>1. IInv => OrderedWasCart
  BY DEF IInv, Types, PastInv, OrderedWasCart
<1>. QED
  BY <1>1, Invariance, PTL

(* A tab that waits for nothing shows the cart, unless something has        *)
(* disturbed it since it last loaded the cart with no other load under way. *)
THEOREM ViewsAreCurrent == Spec => []ViewIsCart
<1>1. IInv => ViewIsCart
  BY DEF IInv, ViewInv, CatchesUp, ViewIsCart
<1>. QED
  BY <1>1, Invariance, PTL
=============================================================================
