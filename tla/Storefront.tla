----------------------------- MODULE Storefront -----------------------------
(***************************************************************************)
(* The storefront of one customer in several browser tabs, the web BFF, and *)
(* the services behind it as far as the storefront sees them: the cart     *)
(* service, and the orders.  All tabs have the same customer id.           *)
(*                                                                         *)
(* A call is a request of a tab until the tab has handled its answer.  The *)
(* services take calls in any order and the answers arrive in any order.   *)
(* The BFF gives up on a call after its timeout or when the service        *)
(* answers an error; a write it has given up on may still be carried out.  *)
(* Prices, texts and the error banner are left out; the saga behind an     *)
(* order (CheckoutSaga) is its final outcome here.                         *)
(***************************************************************************)
EXTENDS Integers, Sequences, FiniteSets

CONSTANTS
  Tabs, Products, MaxQuantity,
  MaxClicks,     \* bound on what the user does in each tab
  MaxFaults      \* bound on calls the BFF gives up on, and on expiries

ASSUME StorefrontAssumption ==
  /\ MaxQuantity \in Nat \ {0}
  /\ MaxClicks \in [Tabs -> Nat] /\ MaxFaults \in Nat

VARIABLES
  hash,          \* the cart in Redis
  orders,        \* the orders the order service has stored
  view,          \* the signal cart of each tab
  order,         \* the signal order of each tab
  busy,          \* the signal busy of each tab
  calls,         \* requests whose answer the tab has not handled
  late,          \* writes nobody waits for any more
  clicks, faults,
  past,          \* history: the contents the cart has had
  disturbed      \* history: tabs whose view is excused from being current

tab == <<view, order, busy>>
net == <<calls, late>>
vars == <<hash, orders, tab, net, clicks, faults, past, disturbed>>

Cart == INSTANCE CartService

NoOrder == [id |-> 0, status |-> "none"]

(* items and shown are what is sent, and then what is answered. *)
Call(t, n, op, items, shown) ==
  [tab |-> t, click |-> n, op |-> op, items |-> items, shown |-> shown, state |-> "sent"]

Load(t, n) == Call(t, n, "load", Cart!Empty, NoOrder)
One(p, quantity) == [Cart!Empty EXCEPT ![p] = quantity]

CallsOf(t) == {c \in calls : c.tab = t}
Waits(t, ops) == {c \in CallsOf(t) : c.op \in ops}

(* Every tab is open and has loaded the cart. *)
Init ==
  /\ Cart!Init
  /\ orders = <<>>
  /\ view = [t \in Tabs |-> hash]
  /\ order = [t \in Tabs |-> NoOrder]
  /\ busy = [t \in Tabs |-> FALSE]
  /\ calls = {}
  /\ late = {}
  /\ clicks = [t \in Tabs |-> 0] /\ faults = 0
  /\ past = {hash}
  /\ disturbed = {}

-----------------------------------------------------------------------------
(* What the user does.                                                      *)
Click(t) == clicks[t] < MaxClicks[t] /\ clicks' = [clicks EXCEPT ![t] = @ + 1]

Send(t, op, items, shown) == calls' = calls \cup {Call(t, clicks'[t], op, items, shown)}

(* Mutants of Add and Change: the button does not look at busy; the         *)
(* quantity on the page changes before the answer.                          *)
AddAnyTime(t, p) ==
  /\ Click(t)
  /\ busy' = [busy EXCEPT ![t] = TRUE]
  /\ Send(t, "add", One(p, 1), NoOrder)
  /\ UNCHANGED <<hash, orders, view, order, late, faults, past, disturbed>>

ChangeAtOnce(t, p, quantity) ==
  /\ Click(t)
  /\ view[t][p] > 0 /\ quantity \in {view[t][p] - 1, view[t][p] + 1}
  /\ view' = [view EXCEPT ![t][p] = quantity]
  /\ IF quantity = 0 THEN Send(t, "remove", One(p, 1), NoOrder)
                     ELSE Send(t, "change", One(p, quantity), NoOrder)
  /\ UNCHANGED <<hash, orders, order, busy, late, faults, past, disturbed>>

(* The Add button, disabled while busy: the quantity becomes 1. *)
Add(t, p) ==
  /\ Click(t)
  /\ ~busy[t]
  /\ busy' = [busy EXCEPT ![t] = TRUE]
  /\ Send(t, "add", One(p, 1), NoOrder)
  /\ UNCHANGED <<hash, orders, view, order, late, faults, past, disturbed>>

(* The - and + buttons. *)
Change(t, p, quantity) ==
  /\ Click(t)
  /\ view[t][p] > 0 /\ quantity \in {view[t][p] - 1, view[t][p] + 1}
  /\ IF quantity = 0 THEN Send(t, "remove", One(p, 1), NoOrder)
                     ELSE Send(t, "change", One(p, quantity), NoOrder)
  /\ UNCHANGED <<hash, orders, tab, late, faults, past, disturbed>>

Remove(t, p) ==
  /\ Click(t)
  /\ view[t][p] > 0
  /\ Send(t, "remove", One(p, 1), NoOrder)
  /\ UNCHANGED <<hash, orders, tab, late, faults, past, disturbed>>

(* Place order, disabled while busy. *)
Checkout(t) ==
  /\ Click(t)
  /\ Cart!Lines(view[t]) # {} /\ ~busy[t]
  /\ busy' = [busy EXCEPT ![t] = TRUE]
  /\ Send(t, "order", view[t], NoOrder)
  /\ UNCHANGED <<hash, orders, view, order, late, faults, past, disturbed>>

RefreshOrder(t) ==
  /\ Click(t)
  /\ order[t] # NoOrder
  /\ Send(t, "refresh", Cart!Empty, order[t])
  /\ UNCHANGED <<hash, orders, tab, late, faults, past, disturbed>>

-----------------------------------------------------------------------------
(* The services, called through proxy.                                      *)
Writes(c) == c.op \notin {"load", "refresh"}
Underway == {c \in calls : c.state = "sent"} \cup late

(* The answer goes back, unless nobody waits for it. *)
Reply(c, items, shown) ==
  IF c \in late
  THEN late' = late \ {c} /\ UNCHANGED calls
  ELSE /\ calls' = (calls \ {c}) \cup
                     {[c EXCEPT !.items = items, !.shown = shown, !.state = "ok"]}
       /\ UNCHANGED late

HashWritten(c) ==
  /\ Reply(c, c.items, c.shown)
  /\ past' = past \cup {hash'}
  /\ disturbed' = IF hash' = hash THEN disturbed ELSE disturbed \cup (Tabs \ {c.tab})
  /\ UNCHANGED <<orders, tab, clicks, faults>>

SetItem(c) ==
  /\ c.op \in {"add", "change"}
  /\ \E p \in Cart!Lines(c.items) : Cart!SetItem(p, c.items[p])
  /\ HashWritten(c)

RemoveItem(c) ==
  /\ c.op = "remove"
  /\ \E p \in Cart!Lines(c.items) : Cart!RemoveItem(p)
  /\ HashWritten(c)

ClearCart(c) == c.op = "clear" /\ Cart!Clear /\ HashWritten(c)

(* POST /orders: every call makes an order with an id of its own. *)
CreateOrder(c) ==
  LET created == [id |-> Len(orders) + 1, status |-> "pending"] IN
  /\ c.op = "order"
  /\ orders' = Append(orders, [tab |-> c.tab, click |-> c.click, items |-> c.items, status |-> "pending"])
  /\ Reply(c, c.items, created)
  /\ UNCHANGED <<hash, tab, clicks, faults, past, disturbed>>

GetCart(c) ==
  /\ c.op = "load"
  /\ Reply(c, hash, c.shown)
  /\ UNCHANGED <<hash, orders, tab, clicks, faults, past, disturbed>>

(* GET /orders/{id}: the saga may have settled the order since it was read  *)
(* last.  (Nothing else looks at its status.)                               *)
GetOrder(c) ==
  LET i == c.shown.id IN
  /\ c.op = "refresh"
  /\ orders' \in {orders, [orders EXCEPT ![i].status = "settled"]}
  /\ Reply(c, c.items, [id |-> i, status |-> orders'[i].status])
  /\ UNCHANGED <<hash, tab, clicks, faults, past, disturbed>>

Serve(c) ==
  \/ GetCart(c) \/ SetItem(c) \/ RemoveItem(c) \/ ClearCart(c)
  \/ CreateOrder(c) \/ GetOrder(c)

(* Mutant of GiveUp: the BFF tries again.                                   *)
TryAgain(c) ==
  /\ faults < MaxFaults /\ faults' = faults + 1
  /\ late' = late \cup {d \in {c} : Writes(d)}
  /\ disturbed' = disturbed \cup {c.tab}
  /\ UNCHANGED <<hash, orders, tab, calls, clicks, past>>

(* A timeout, a service that cannot be reached, or an answer with an error: *)
(* the tab gets an error status, and a write may still be under way.        *)
GiveUp(c) ==
  /\ faults < MaxFaults /\ faults' = faults + 1
  /\ calls' = (calls \ {c}) \cup {[c EXCEPT !.state = "failed"]}
  /\ late' = late \cup {d \in {c} : Writes(d)}
  /\ disturbed' = disturbed \cup {c.tab}
  /\ UNCHANGED <<hash, orders, tab, clicks, past>>

(* The service sees the cancelled context before it writes. *)
Drop(c) ==
  /\ late' = late \ {c}
  /\ UNCHANGED <<hash, orders, tab, calls, clicks, faults, past, disturbed>>

Expire ==
  /\ faults < MaxFaults /\ faults' = faults + 1
  /\ Cart!Expire
  /\ past' = past \cup {hash'}
  /\ disturbed' = Tabs
  /\ UNCHANGED <<orders, tab, net, clicks>>

-----------------------------------------------------------------------------
(* A tab that has just asked for the cart is excused no longer, unless that *)
(* load overlaps another, or a write of the tab was given up and may still  *)
(* be carried out, or is yet to be handled.                                 *)
LoadsAlone(t) ==
  /\ \A c, d \in Waits(t, {"load"}) : c = d
  /\ \A c \in CallsOf(t) : c.state # "failed"
  /\ \A c \in late : c.tab # t

Loading(t) == disturbed' = IF LoadsAlone(t)' THEN disturbed \ {t} ELSE disturbed \cup {t}

-----------------------------------------------------------------------------
(* The tab handles an answer, and may send the next call.                   *)
Answered(c, op) == c.op \in op /\ c.state # "sent"
Ok(c) == c.state = "ok"

Done(c) ==
  /\ calls' = calls \ {c}
  /\ UNCHANGED <<hash, orders, late, clicks, faults, past, disturbed>>

(* loadCart() *)
ThenLoad(c) ==
  /\ calls' = (calls \ {c}) \cup {d \in {Load(c.tab, c.click)} : Ok(c)}
  /\ UNCHANGED <<hash, orders, late, clicks, faults, past>>
  /\ IF Ok(c) THEN Loading(c.tab) ELSE UNCHANGED disturbed

CartAnswered(c) ==
  /\ Answered(c, {"load"})
  /\ view' = IF Ok(c) THEN [view EXCEPT ![c.tab] = c.items] ELSE view
  /\ Done(c)
  /\ UNCHANGED <<order, busy>>

(* Mutants of AddAnswered and ChangeAnswered: an error leaves busy set; the  *)
(* cart is not loaded again.                                                *)
AddAnsweredBusy(c) ==
  /\ Answered(c, {"add"})
  /\ busy' = [busy EXCEPT ![c.tab] = ~Ok(c)]
  /\ ThenLoad(c)
  /\ UNCHANGED <<view, order>>

ChangeAnsweredOnly(c) ==
  /\ Answered(c, {"change", "remove", "clear"})
  /\ Done(c)
  /\ UNCHANGED tab

AddAnswered(c) ==
  /\ Answered(c, {"add"})
  /\ busy' = [busy EXCEPT ![c.tab] = FALSE]
  /\ ThenLoad(c)
  /\ UNCHANGED <<view, order>>

ChangeAnswered(c) ==
  /\ Answered(c, {"change", "remove", "clear"})
  /\ ThenLoad(c)
  /\ UNCHANGED tab

CheckoutAnswered(c) ==
  /\ Answered(c, {"order"})
  /\ busy' = [busy EXCEPT ![c.tab] = FALSE]
  /\ order' = IF Ok(c) THEN [order EXCEPT ![c.tab] = c.shown] ELSE order
  /\ calls' = (calls \ {c}) \cup {d \in {Call(c.tab, c.click, "clear", Cart!Empty, NoOrder)} : Ok(c)}
  /\ UNCHANGED <<hash, orders, view, late, clicks, faults, past, disturbed>>

RefreshAnswered(c) ==
  /\ Answered(c, {"refresh"})
  /\ order' = IF Ok(c) THEN [order EXCEPT ![c.tab] = c.shown] ELSE order
  /\ Done(c)
  /\ UNCHANGED <<view, busy>>

Handle(c) ==
  \/ CartAnswered(c) \/ AddAnswered(c) \/ ChangeAnswered(c) \/ CheckoutAnswered(c) \/ RefreshAnswered(c)

(* The user loads the page again: answers to it are lost. *)
Reload(t) ==
  /\ Click(t)
  /\ view' = [view EXCEPT ![t] = Cart!Empty]
  /\ order' = [order EXCEPT ![t] = NoOrder]
  /\ busy' = [busy EXCEPT ![t] = FALSE]
  /\ calls' = (calls \ CallsOf(t)) \cup {Load(t, clicks'[t])}
  /\ late' = late \cup {c \in CallsOf(t) : Writes(c) /\ c.state = "sent"}
  /\ Loading(t)
  /\ UNCHANGED <<hash, orders, faults, past>>

User(t) ==
  \/ \E p \in Products :
       Add(t, p) \/ Remove(t, p) \/ \E quantity \in 0..MaxQuantity : Change(t, p, quantity)
  \/ Checkout(t) \/ RefreshOrder(t) \/ Reload(t)

Next ==
  \/ \E t \in Tabs : User(t)
  \/ \E c \in Underway : Serve(c)
  \/ \E c \in Underway \ late : GiveUp(c)
  \/ \E c \in late : Drop(c)
  \/ \E c \in calls : Handle(c)
  \/ Expire

Spec == Init /\ [][Next]_vars

(* Services answer or the BFF's timeout does, and the browser handles what  *)
(* it is answered.                                                          *)
Fairness ==
  \A t \in Tabs :
    /\ WF_vars(\E c \in CallsOf(t) : c.state = "sent" /\ (Serve(c) \/ GiveUp(c)))
    /\ WF_vars(\E c \in CallsOf(t) : Handle(c))

FairSpec == Spec /\ Fairness

-----------------------------------------------------------------------------
TypeOK ==
  /\ hash \in Cart!Carts
  /\ \A i \in DOMAIN orders :
       orders[i].items \in Cart!Carts /\ orders[i].status \in {"pending", "settled"}
  /\ disturbed \subseteq Tabs
  /\ view \in [Tabs -> Cart!Carts]
  /\ \A t \in Tabs : order[t].id \in 0..Len(orders)
  /\ busy \in [Tabs -> BOOLEAN]
  /\ \A c \in calls \cup late : c.tab \in Tabs /\ c.items \in Cart!Carts
  /\ \A t \in Tabs : clicks[t] \in 0..MaxClicks[t]
  /\ faults \in 0..MaxFaults

(* A click on Place order makes at most one order, though the BFF may give  *)
(* up on it and its order appear afterwards; and the cart is cleared only   *)
(* for a click whose order is stored, however late the call to clear it is  *)
(* carried out.                                                             *)
OneOrderPerClick ==
  /\ \A i, j \in DOMAIN orders :
       orders[i].tab = orders[j].tab /\ orders[i].click = orders[j].click => i = j
  /\ \A c \in calls \cup late :
       c.op = "clear" =>
         \E i \in DOMAIN orders : orders[i].tab = c.tab /\ orders[i].click = c.click

(* A tab is busy exactly while it waits for one addition or one checkout,   *)
(* so that it never has two checkouts under way, whichever other calls it   *)
(* has and in whatever order they are answered.                             *)
BusyWhileWaiting ==
  \A t \in Tabs : Cardinality(Waits(t, {"add", "order"})) = IF busy[t] THEN 1 ELSE 0

(* What is ordered was at some time what the cart held, and not what a tab  *)
(* made up before its changes were stored.                                  *)
OrderedWasCart == \A i \in DOMAIN orders : orders[i].items \in past

(* A tab that waits for nothing shows the cart as it is, however its calls  *)
(* and their answers overlapped.  Excused is a tab since whose last load    *)
(* another tab or the expiry changed the cart or a call failed, or whose    *)
(* last load overlapped another, so that the older answer may have come     *)
(* last; the next load that overlaps none makes good for all of these.      *)
ViewIsCart ==
  \A t \in Tabs : t \notin disturbed /\ CallsOf(t) = {} => view[t] = hash

(* The buttons come back. *)
BusyEnds == \A t \in Tabs : busy[t] ~> ~busy[t]
=============================================================================
