# CloudMart: a TLA+ verification project

CloudMart is a small shop built from seven Go services, a storefront and three
Kafka topics. A checkout is a saga: four services, each with its own PostgreSQL
database, pass events about an order to one another through a transactional
outbox and a polling consumer loop. This directory holds TLA+ modules of that
machinery, the TLC configurations that check them on small instances, and
proofs, checked by TLAPS, that hold for every instance. Paths below are relative
to `src/`; `services/X-service` is written `X`.

Run `tlc -config <name>.cfg <Module>.tla` for a run and `tlapm <Module>Proofs.tla`
for the proofs about a module. `PROJECT.json` lists the runs, the line of code each
definition translates, the hazards, and for every checked property a mutation of
the model that breaks it.

## 1. The system

| Component | State | Operations | Talks to |
|---|---|---|---|
| Order service (`order`) | `orders`, `order_items`, `processed_events`, `outbox_events` | `POST /orders` (`CreateOrder`/`Create`), payment events (`HandleEvent`/`ApplyPaymentEvent`), two queries | writes topic `orders`, reads `payments` |
| Inventory service (`inventory`) | `inventory`, `inventory_reservations`, `processed_events`, `outbox_events` | `ReserveForOrder` on `order.created`, `ReleaseForOrder` on `order.cancelled` | writes `inventory`, reads `orders` |
| Payment service (`payment`) | `payments`, `processed_events`, `outbox_events` | `ProcessPayment` on `inventory.reserved` | writes `payments`, reads `inventory` |
| Notification service (`notification`) | `notifications`, `delivery_log`, `processed_events` | `StoreDelivered` on `order.confirmed` and `order.cancelled` | reads `orders` |
| Transactional outbox (one copy in order, inventory, payment) | the `outbox_events` rows, the batch in the memory of each replica | `Run`/`publishBatch`, `ClaimBatch`, `MarkPublished`, `RecordFailure` | database, Kafka writer |
| Kafka consumer loop (one copy in each of the four services) | the group's committed offset, each reader's position and current message | `Run`: `FetchMessage`, handler, `CommitMessages` | Kafka, the service |
| Cart service (`cart`) | a Redis hash and expiry for each customer | add, set, remove, clear, get | storefront through the BFF |
| Storefront (`apps/storefront`) | products, cart, orders, `busy` in the browser | load, add, checkout | BFF |
| Web BFF (`web-bff`) | none | proxy with a 10 s timeout | cart, catalog, order |
| Catalog service (`catalog`) | a fixed table | queries | BFF |
| Metrics collector (one copy per service, `internal/metrics`) | counters, histogram buckets, business counters | observe, count, print | every handler |
| Service process (`cmd/*/main.go`) | what `main` has opened, its context, the HTTP server | start, serve, shut down, crash | everything in the process |
| Release scripts (`scripts/cd`) | revisions of the storefront and their traffic | candidate, split, promote, roll back | Azure |
| Infrastructure, configuration | declarative | none over time | |

How a checkout runs (`README.md:27-43`): `POST /orders` stores the order as
pending with an `order.created` row in the outbox. The inventory service
reserves every line or rejects the order. The payment service authorizes a
reserved order up to a limit. The order service confirms or cancels. A
cancellation makes the inventory service release the stock, and either outcome
makes the notification service tell the customer. Every service writes business
state, its mark in `processed_events` and its outbox row in one transaction.

What is hard here:

* **Interleaving.** `platform/terraform/environments/training/backend-apps.tf:31-32`
  scales workers to three replicas. Every replica runs a publisher whose
  `ClaimBatch` locks nothing, and a consumer whose check of
  `processed_events` is separated from its writes.
* **Crashes and partial failure.** Between the Kafka write and the mark, between
  a handler's commit and the offset's commit, in the middle of a batch.
* **Duplicates, late and skipped messages.** Both loops deliver at least once on
  the way to a handler that runs, and a handler that fails is not run again:
  `Run` goes on with the next message.
* **The process around it.** SIGTERM at any line of `main`, a shutdown with a limit
  while requests and workers hold connections, locks held while a client reads.
* **Limits.** The batch's `LIMIT`, the last units of stock, baskets that name a
  product twice, the width of the totals.

What makes each part correct:

* Outbox: the topic and the database never diverge, duplicates are bounded,
  everything that can be published is published.
* Consumer loop: an event takes effect once and in order, and an offset passes
  only messages that were handled.
* Inventory: no unit of stock appears or disappears; an order whose creation was
  handled is answered once, `reserved` if it has a row for each line and `rejected`
  if it has none; the reservation rows account for every reserved unit; a
  cancellation gives everything back exactly once.
* Order, payment, notification: the outcome of an order is decided once, follows
  the payment, and is announced once.
* Order service in detail: a query's answer is true though it is read in several
  statements, and the payment service charges the total that was stored.
* Process: it ends when told, leaves nothing half done when it ends in order, no
  request waits for ever, and `/metrics` does not contradict itself.
* All together: each order follows one of the two documented flows, however
  messages are repeated, delayed or skipped; a confirmed order is paid and its
  stock held; an order is settled and its customer told.

## 2. The modules

| Module | Models | Code |
|---|---|---|
| `OutboxRelay` | abstract: what the outbox promises (insert, send a committed row, mark a sent row) | |
| `OutboxPublisher` | the polling publisher, several replicas | `order/internal/outbox/publisher.go`, `.../postgres/outbox_repository.go`, and the copies in payment and inventory |
| `KafkaConsumer` | the consumer loop, several members of one group on one partition | `*/internal/infrastructure/kafka/*.go` |
| `Events` | envelopes and the ids derived from their parents | `*/internal/domain`, the constructors in the services |
| `StockLedger` | abstract: an order's demand is held or refused whole, and freed once | |
| `InventoryService` | reserve and release | `inventory/internal/service`, `.../postgres/inventory_repository.go`, the migrations' constraints |
| `InventoryTx` | the two transactions of the inventory service statement by statement, several replicas | `.../postgres/inventory_repository.go`, the migrations' constraints |
| `Money` | sums of money in integers of bounded width, which wrap round | `order/internal/service/order_service.go`, `payment/internal/service/payment_service.go` |
| `OrderTx` | the two transactions of the order service statement by statement, and its two queries | `.../postgres/order_repository.go`, `order/internal/transport/http/order_handler.go` |
| `MetricsCollector` | the counters of a process and their scrape | `*/internal/metrics/http.go` |
| `ServiceProcess` | a process of each service, from start to end | `cmd/api/main.go`, `cmd/worker/main.go` of the seven services |
| `OrderService` | order creation, reaction to payments | `order/internal/service`, `.../postgres/order_repository.go` |
| `PaymentService` | authorization | `payment/internal/service`, `.../postgres/payment_repository.go` |
| `NotificationService` | notifications | `notification/internal/service`, `.../postgres/notification_repository.go` |
| `Checkout` | abstract: the business flows of `README.md`, order by order | |
| `CheckoutSaga` | the four services joined by the topics | `cmd/api/main.go`, `cmd/worker/main.go` of the services |
| `CartService` | the cart of a customer in Redis | `cart/internal/infrastructure/redis/cart_repository.go`, `.../transport/http/cart_handler.go` |
| `Storefront` | browser tabs, the BFF's proxy, the cart service and the orders as a tab sees them | `apps/storefront/src/app/app.ts`, `app.html`, `web-bff/internal/httpapi/handler.go` |
| `OutboxPublisherProofs`, `KafkaConsumerProofs`, `InventoryServiceProofs`, `InventoryTxProofs`, `OrderTxProofs`, `CheckoutSagaProofs`, `ServiceProcessProofs`, `StorefrontProofs` | theorems about the module of that name (section 5) | |
| `MC*` | constants for TLC | |

**`OutboxPublisher`.** `row[e]` is `absent` until the business transaction
commits, then `pending` (`published_at IS NULL`), then `published`. `pc[r]` is
the point of replica `r` in the loop body of `publishBatch`; every call to Kafka
or the database is a step of its own (`PublishOk`/`PublishError`,
`MarkPublished`/`MarkError`, `RecordFailure`), and other replicas move between
any two of them. `Batches` is every answer the query may give: distinct rows,
oldest first, ties in any order, at most the limit. A failed write may have
reached the broker, and within one `Publish` the Kafka client writes again when an
acknowledgement is lost (`PublishRetries`): each is a fault, and `CopiesBounded`
counts it. Left out: the topic of a row (one topic is modelled), the
text of the log, the poll interval.

**`KafkaConsumer`.** `phase[m]` is the point of member `m` in `Run`. A member
that lost the partition carries on with the message it holds, so two members can
handle the same event, or neighbours in the wrong order. The reader and the
coordinator belong to kafka-go and Kafka and are modelled as the loop relies on
them: a reader goes forward and returns to the committed offset only when the
partition is assigned again. In particular a handler error does not make the
reader go back. The service behind the loop is reduced to what its transaction
contributes here: it looks at `processed_events`, then commits or fails on a
unique key.

**Services.** Each transaction is one step: handlers of the same order are
serialized by row locks and unique keys, and a handler that fails rolls back.
`HandleEvent(src)` is the handler returning nil; `HandleEventFails(src)` says
when the data make it return an error. Identifiers such as
`<order>-created-inventory-payment` are sequences of suffixes, so that handling
an event twice makes the same identifier twice, as in the code. Amounts are those
of `Money`: the order service stores `Total` in the column `totals`, the payment
service authorizes and records `ChargedAmount`, both wrapped round where the sum
does not fit; `Storable` and `Acceptable` are what the tables of each refuse (a
negative sum, a quantity beyond `INTEGER`, a second payment of an order).

**`InventoryTx`.** Justifies the one-step transactions of `InventoryService`
where that is least obvious, with the stock shared by all orders. `tx[r]` is the
transaction replica `r` has open, `lock[p]` the replica that has locked the row
of product `p`. Both loops of `ReserveForOrder` are there: the first locks and
reads line after line (`LockLine`), the second updates (`UpdateLine`, under the
`CHECK`); `ReleaseForOrder` selects the rows of the order `FOR UPDATE`
(`SelectRows`) and updates them in product order (`GiveBackRow`). `Blockers(r)`
is whom the next statement of `r` waits for: the holder of a row, a release of
the same order, an uncommitted insert of the same key. PostgreSQL is modelled as
READ COMMITTED, its default, which the code does not change: a statement that
waited sees what was committed meanwhile; a circle of waits loses one member
(`DeadlockVictim`). `Abort` is a broken connection at any statement. Statements
that follow one another without waiting are one step (the module's head names
them). The refinement `ServiceSpec` says that every interleaving amounts to the
steps of `InventoryService`.

Carts are read in product order (`cart/internal/infrastructure/redis/cart_repository.go:46-48`)
and the storefront orders what it read, so that its baskets lock rows in the
order a release does. `POST /orders` takes lines in any order, and such baskets
do deadlock: `NoDeadlock` says that a circle of waits has one of them. The
victim's handler returns an error and, as finding 1 says, its message is passed:
the order stays pending.

**`OrderTx`.** Does for `OrderService` what `InventoryTx` does for
`InventoryService`. A `session` is a connection of some replica, idle or at a
statement of `Create`, of `ApplyPaymentEvent`, or of one of the queries. What a
transaction writes appears when it commits; an `INSERT` waits for an uncommitted
row of the same key, `SELECT ... FOR UPDATE` for the lock of the order
(`Blockers`). The queries run without a transaction: `SelectOrders` takes the
rows, `LoadItems` the lines of one order at a time, and others commit in between.
`acked` is a history variable, the orders a client was told of. All orders have
one customer, as queries of others never see them. `SettleOrder` and
`CommitCreate` each stand for the statements up to `COMMIT` that cannot wait.
`StatementFails` covers a taken key, a negative total and a quantity that does
not fit `INTEGER`.

**`Money`.** `Total` and `ChargedAmount` are the loops of the two services, in
integers up to `MaxCents` that wrap round (`int64` in the code). `OrderService` and
`PaymentService` extend it, and with them the saga. `ExactTotal` is what the items
cost.

**`ServiceProcess` and `MetricsCollector`.** `service` is chosen at the start and
never changes. Each `...Main` lists what that `main` opens, line by line:
`OpenNext` opens the next, `CloseLast` runs the deferred calls backwards, and
`Die` skips them, as `log.Fatal`, a crash and an unhandled SIGTERM do. A `job` is
an HTTP request or an event of the consumer on its way through a transaction
(which holds a connection), the business counter, the request counter and the
answer. `polling` is the outbox worker at a statement, which holds a connection
too. `ShutdownReturns` and `CloseLast` carry what is relied on of `net/http`
and `pgxpool`: `Shutdown` waits for all requests, a scrape included, and `Close`
of the pool for all connections. What else is closed waits for a bounded time at
most (the Kafka writer for its writes, the telemetry for its flush), and its
`Close` is one step. A counter is the set of what it has counted.
`scrape.at` is the loop of `Collector.write` under way; the read lock of the
collector is held through all three, since a write to a client that does not read
does not return and no server has a write timeout. Durations, buckets, labels and
the text are abstracted. A deployed process starts, works and ends several times;
the counters begin anew, the database does not.

**`CheckoutSaga`.** Instantiates the four services with their own variables and
joins them by one log per topic and order: the message key is the order id
everywhere, so messages of one order share a partition and messages of different
orders are not ordered. `Send`/`SendAgain` are what `OutboxRelay` allows.
`next[group][order]` is the position of the group; `Redeliver` moves it back as
a restart or a rebalance does; `HandlerError` passes a message unhandled, as the
loop does. The members of a group and their races are in `KafkaConsumer`: they
end in one application of an event, or none (`AppliedOnce`).

**`Storefront`.** The signals `cart`, `order` and `busy` of each tab are `view`,
`order` and `busy`; all tabs act for the one customer of the page. A member of
`calls` is a request from the click to the handling of its answer. Services take
the calls in any order and answers arrive in any order, as concurrent requests
of a browser do. `GiveUp` is the BFF's answer 502 after its timeout, or an error
of the service; the write may still be carried out (`late`) or not (`Drop`).
Follow-up requests (`loadCart` after a change, `DELETE /api/cart` after an order)
are sent by the step that handles the answer. `Reload` is a fresh page, for which
answers to the old one are lost. Clicks see the buttons as they are rendered. An
order's status becomes `settled` when the saga has decided, which matters only
when somebody reads it. The catalog, prices and the error banner are left out.
`past` and `disturbed` are history variables: the contents the cart has had, and
the tabs whose view is excused from being current. A tab is excused when another
changes the cart, a call fails, or two of its loads overlap, until it loads the
cart again with no other load under way and no write of its own given up
(`Loading`).

## 3. The runs

| Run | Instance | What it shows |
|---|---|---|
| `outbox` (`OutboxPublisher.cfg`) | 2 replicas, 3 rows of which the oldest is always refused and two share `created_at`, batch 2, 2 faults | rows and topic agree in both directions, at most one copy per replica and fault, every acceptable row is published, and the publisher implements `OutboxRelay` |
| `outbox_jam` (`OutboxJam.cfg`) | batch 1, no faults | *violation*: refused rows that fill the batch block every newer row |
| `consumer` (`KafkaConsumer.cfg`) | 2 members, 2 events and one ignored message, log of 3, 2 handler errors, 2 rebalances, crashes or failed commits | an event is applied at most once, in order while no handler fails; the number of messages passed unhandled is at most the number of failed handlers; without one, every event takes effect |
| `consumer_offsets` (`KafkaOffsets.cfg`) | one handler error | *violation* of `README.md:45`: the offset passes a message that was not handled |
| `inventory` (`InventoryService.cfg`) | 5 orders, 2 scarce products and one unknown, distinct products per basket | stock is conserved, rows account for reserved units, every handled order is answered once and as its rows are (each line a row when reserved, none when rejected, released when announced), a cancellation holds nothing; the service implements `StockLedger` |
| `inventory_rows` (`InventoryRows.cfg`) | baskets with a product on two lines | *violation* of `inventory/README.md:15` |
| `inventory_tx` (`InventoryTx.cfg`) | 3 replicas, 2 orders that name 2 products in opposite orders, one of them with a product twice; they fit line by line but not in sum; any abort | statements interleave to the transactions of `InventoryService`; stock the first loop saw is there for the second; only reservations out of product order wait in a circle; every handler returns |
| `checkout` (`CheckoutSaga.cfg`) | 2 orders for 3 units, one above the payment limit, one with two lines for the product that cost 33 cents, which wrap to 1 (`int64` shrunk to -16..15); 2 repeated messages, 1 handler error | every order follows the business flows of `Checkout`; the payment of a confirmed order is what the order service stored, and its stock is set aside and exists |
| `checkout_progress` (`CheckoutProgress.cfg`) | no handler errors, 1 repeated message, distinct lines | every order is seen through unless its stock is refused: settled, the customer told, the stock of a cancelled one given back |
| `storefront` (`Storefront.cfg`) | 2 tabs, 2 clicks in one and 1 in the other, a product in quantities up to 2, carts left from earlier visits, 1 call given up on or 1 expiry | one order per click, however late it is stored; one addition or checkout at a time in a tab; clearing only after the order; orders of carts that existed; a view that is current unless something happened since the last load without another beside it; the buttons come back |
| `order_tx` (`OrderTx.cfg`) | 2 sessions, 5 orders: two lines, one above the payment limit, a quantity that does not fit, a total that wraps to a negative and one that wraps to a positive sum; `int64` shrunk to -32..31 and `INTEGER` to 7; any abort | statements interleave to the transactions of `OrderService`; every answer is true of the orders in it and leaves out none the client knows of; what is charged is what is stored |
| `service` (`ServiceProcess.cfg`) | each of the 7 services, 2 starts, 1 request, 1 event, 1 scraper that may stop reading | one scrape is consistent in itself; an orderly exit cuts nothing; a process told to stop ends; requests complete |

**Why the bounds are enough to be interesting.** Two replicas or members are the
fewest that race. Two faults let one fault hit the recovery from another (a lost
mark and then a crash; a rebalance and then a stale commit). Three messages let
one event be duplicated on both sides of another. In the inventory instance
every order fits alone and no three fit together, so the answer depends on the
order of arrival. In the saga, the dear order holds the stock and then gives it
back, so that the cheap one is confirmed, refused, or fails on the sum of its
lines; when confirmed, it was authorized for its wrapped total, 1 cent. In the storefront, two clicks in a tab overlap in every way one `busy` flag
has to keep apart, and the other tab's click changes the cart under them; the
cart never exceeds quantity 2 because `+` is not clicked at the bound. A tab that
another has disturbed loads the cart again there; a third load after two that
overlapped needs a third click, beyond TLC's reach with two tabs, and is covered
by `ViewsAreCurrent` (section 5).
In `order_tx`, a reader or a second handler can stand between any two statements
of a writer, and the orders cover every way a statement fails on its data; a
third session would only add another of the same. In `service`, one request and
one event are two holders of connections and the two kinds of job, one scrape is
what a reader-writer lock needs to be held, and the second start shows what the
first has left. `CHECK_DEADLOCK FALSE` is set where logs are bounded and the system stops
at the bound; in the outbox and the inventory the pollers and the redeliveries
never stop.

**Fairness.** `OutboxPublisher`: weak fairness of `publishBatch(r)`: the ticker
fires again and again, `Publish` and the statements return. Nothing is assumed
about their success, but there are finitely many faults besides refused rows.
`OrderTx` has no liveness property. `InventoryTx`: strong fairness of each replica's statements: PostgreSQL queues
those who wait for a lock, so that one whose turn comes again and again gets it;
deadlock detection is among the statements' outcomes, aborts are never fair.
`KafkaConsumer`: weak fairness of each member's loop and of the assignment of a
partition nobody has, which the coordinator guarantees; moves are bounded.
`Storefront`: every call is answered, by the service or by the BFF's timeout, and
the browser handles the answer; users and late writes are not fair.
`ServiceProcess`: `main` and every goroutine run on, statements return, the limit
of a shutdown passes; strong fairness for whoever waits for a `sync.RWMutex`,
which lets no new reader overtake a waiting writer. Nothing makes the client of a
scrape read: where a property needs it, it says so (`RequestsComplete`, and
`StopsWhenTold` for the inventory service, whose `Shutdown` has no limit). SIGTERM,
crashes, requests and starts are never fair.
`CheckoutSaga`: publishers send what is committed and every group goes on;
partitions do not wait for one another. Creating an order, repeated messages and
errors are never fair.

## 4. What was found

1. **Offsets pass failed messages** (`consumer_offsets`). `README.md:45` says
   offsets are committed only after successful handling. `Run` logs the error of
   the handler and fetches the next message; the next commit covers the failed
   one. `LossesBounded` shows that this is the only way to lose a message.
2. **Two lines for one product lose stock** (`inventory_rows`).
   `ReserveForOrder` takes the quantity of both lines; `ON CONFLICT DO NOTHING`
   keeps the first row only; the release gives only that back. The order service
   accepts such a basket. When the lines fit one by one but not together, the
   `CHECK` fails the transaction instead, the message is passed, and the order
   stays pending for ever.
3. **Refused rows jam the outbox** (`outbox_jam`). `attempts` is counted and never
   used; the oldest rows are always tried first. `BatchSize` rows that can never
   be published stop the service's publication.

An order whose stock is refused stays pending: no service consumes
`inventory.rejected`. `README.md` documents no flow for it, so it is not counted
as a disagreement; `OrdersSeenThrough` states the exception.

Seen on the way, without a run of its own: `cloudmart_inventory_reserved_total` is
shown as "Inventory reserved"
(`platform/observability/grafana/dashboards/cloudmart-business.json:318-322`) but
counts every `order.created` handled without an error
(`inventory/internal/service/inventory_service.go:29-33`), rejected and repeated
ones included; the counters of the payment and order services count repeated
events in the same way, and only the notification service asks whether it has done
anything. A total beyond `int64` wraps; it is refused when negative. When not, it is
stored, and the payment service, which adds up the same items in the same way,
authorizes the wrapped amount: such an order is confirmed for a fraction of its
price. The run `checkout` contains one; `TotalIsCharged` and `ConfirmedIsBacked`
say that the two services at least agree. The catalog service handles no signal
and drops what it is serving.

## 5. The proofs

Every theorem holds for every value of the constants that satisfies the named
assumptions; the runs of section 3 check the same properties on one instance.

| Module | Proved | From |
|---|---|---|
| `OutboxPublisherProofs` | `TypeOK`, `OutboxMatchesTopic`, `CopiesBounded`, refinement `RelaySpec` | `Poison` are events; finitely many replicas; types of the bounds |
| `KafkaConsumerProofs` | `TypeOK`, `AppliedOnce`, `LossesBounded`, `HandledInOrder` | `NoMember` is no member; types of the bounds |
| `InventoryServiceProofs` | `TypeOK`, `StockConserved`, `CancelledHoldsNothing`, `AnswersMatchRows`; with `DistinctLines` also `RowsAccountForReserved` and the refinement `LedgerSpec` | finitely many orders; stock of natural numbers; baskets are not empty and quantities positive, as the order service demands |
| `InventoryTxProofs` | `TypeOK`, `StockSeenIsThere`, `NoDeadlock`, refinement `ServiceSpec`; through it `StockConserved`, `CancelledHoldsNothing`, `AnswersMatchRows` and, with `DistinctLines`, `LedgerSpec` of the committed tables | those of `InventoryService`; finitely many replicas; products are ordered by distinct natural numbers |
| `OrderTxProofs` | `TypeOK`, `AnswersAreTrue`, `TotalIsCharged`, refinement `ServiceSpec` | baskets are sequences of lines with integer quantities and prices, any of which the service may refuse; `MaxCents` and `MaxQuantity` are natural numbers |
| `CheckoutSagaProofs` | `TypeOK`, `ConfirmedIsBacked`, refinement `CheckoutSpec` | those of `InventoryService`; `MaxCents` and `MaxQuantity` are natural numbers |
| `ServiceProcessProofs` | `TypeOK`, `ExpositionConsistent`, `CleanExit` | requests are not events; the type of the bound |
| `StorefrontProofs` | `TypeOK`, `OneOrderPerClick`, `BusyWhileWaiting`, `OrderedWasCart`, `ViewIsCart` | types of the constants |

Each proof has the same shape: an inductive invariant `IInv` whose conjuncts have
names, `Init => IInv`, a lemma for each action or group of actions that it
preserves `IInv`, `THEOREM Invariance`, and the properties as consequences. A
refinement theorem uses `Invariance` and a lemma that maps each step to a step of
the abstract specification or to none. TLC checked each `IInv` on the instances of
the runs before it was proved. What the invariants add to the properties is the
reason why the code is right:

* **`OutboxPublisher`.** That `MarkPublished` marks a row whose event is on the
  topic depends on where the replica is, and that `PublishOk` sends only committed
  rows on what it loaded earlier. `BatchInv`: a replica that is not idle has a
  batch of committed rows, and one about to mark has its row on the topic.
  `CopiesBounded` needs to know who may still send a row (`CopiesInv`): until it is
  marked, each copy is on account of a fault or of a replica about to mark it;
  afterwards only the replicas that still hold the row can send it, each once, as
  no batch holds it twice.
* **`KafkaConsumer`.** `LossesBounded` is about the committed offset, which
  replicas with an outdated view move: `MemberInv` says it of the message each
  member works on (behind it no more was lost than handlers have failed, and at
  the commit it is itself settled), `ReaderInv` of what the owner's reader has
  passed.
* **`InventoryService`.** `Histories` ties the ids in `processed_events`, the
  outbox and the rows of an order together; `RowKeys` is the primary key;
  `LinesHeld` says that a reserved order has a row for each line until it is
  cancelled, `LinesRecorded` that it keeps one for good and that every row is that
  of some line; `AnswersMatchRows` follows from these. `RowsAccountForReserved` and `LedgerSpec` have the hypothesis
  `DistinctLines`, that no basket names a product twice. It is a hypothesis and
  not an assumption of the module because the code accepts other baskets, for
  which run `inventory_rows` shows the property false. Two facts carry the
  counting: `Demand` is the sum of what the lines ask, and a step changes one
  order's term of the sum over all.
* **`InventoryTx`.** The invariant has a part for each statement a transaction may be
  at: `ReserveInv` and `ReleaseInv` say which rows it has locked, what it has seen
  of them, and what it has written so far. `MovedInv` makes this stable while others
  run: a transaction moves only stock of rows it has locked, and nobody else changes
  those. Hence `StockSeenIsThere`. `UpdateInv` counts: before line `i` the
  transaction has moved what the lines before `i` ask of each product together, and
  has inserted a row for each product they name, so that at `COMMIT` it has moved
  `Demand`, as `Reserve` of the service does, and has failed at the `CHECK` if the
  lines fit one by one but not in sum. A refusal rests on `LineShort`: the row that
  was too low is still locked when the refusal commits. `OneRelease`: `FOR UPDATE` on
  `reservations` gives the rows of an order to one release at a time; the other
  finds none afterwards. `EveryStep` puts this together: `COMMIT` is a step of the
  service, every other statement leaves the tables alone. So all that
  `InventoryServiceProofs` proves of the service holds of the tables here, by
  instantiation.
  `NoDeadlock` is an argument by order. In a circle in which every reserved basket
  is in product order, whoever is waited for has locked the row the other wants, and
  has locked it before the row it now wants itself (`LocksInOrder`). So each waits
  for one whose wanted row comes further on (`WaitsFurtherOn`), which a finite
  circle cannot do. A release that waits for another release of its order has locked
  nothing, so that nobody in the circle waits for it.
* **`OrderTx`.** `OneHolder` says that two transactions that have inserted or
  locked the same order do not exist; `StoredInv` ties a stored order to its
  lines, total and event; `QueryInv` says what a query under way has read and what
  has become of it since. `TotalIsCharged` rests on a lemma about the width of
  integers: wrapping at each addition is wrapping the exact sum once.
* **`CheckoutSaga`.** No service knows what another has stored; it only has its
  messages. `OrdersInv` says what a service may conclude from an event: whose rows
  and events must exist for this one to exist. `LogInv` says that what is in a log
  was in an outbox, and outboxes only grow, so that repeated, late and skipped
  messages change nothing in the argument. That the payment is the stored total
  rests on the items being the same in all messages of an order, and on the two
  loops over them being the same, wrapping included (`SameSum`). What the inventory service contributes
  is not proved again: its steps within the saga are steps of `InventoryService`,
  and its `IInv` and lemmas are taken from `InventoryServiceProofs` by
  instantiation. `StepCases` reduces the actions of the saga to five changes of the
  business state (placed, stock moved, paid, settled, told) or none, and these
  are the steps of `Checkout`.
* **`ServiceProcess`.** `JobInv` says what the collector holds about a request
  from the point it has reached; `ScrapeInv` that what a lock protects is what the
  scrape has printed; `SetupInv` that a server that listens has everything open.
  `CleanExit` is about requests and the pool: an orderly end leaves no request
  unanswered unless the limit passed, and no connection in use once the pool is
  closed. It says nothing of the consumer, the publisher or the Redis client.
* **`Storefront`.** `ClickInv` (a click has one call at a time, and a write that
  is carried out late belongs to a click whose tab has given it up), `OrderInv`
  (a call that may still make an order has made none), `PastInv`, and `ViewInv`
  with `CatchesUp`: an undisturbed tab shows the cart, or has a call under way
  after which it will.

The prover cannot instantiate an induction theorem of the library, so the modules
that count do induction by hand: a set of naturals has a least element
(`LeastNatural`), a family of finite sets a minimal one (`MinimalSubset`), and the
least counterexample is contradicted. From there `InventoryServiceProofs` shows that
the equation behind the community modules' folds has exactly one solution, and the
laws of finite sums, which `InventoryTxProofs` and `CheckoutSagaProofs` take from it
by instantiation; `OrderTxProofs` does the same for sums that wrap round.

Only model-checked:

* the liveness properties (`EventuallyPublished`, `EventuallyHandled`,
  `OrdersSeenThrough`, `HandlersReturn`, `BusyEnds`, `StopsWhenTold`,
  `RequestsComplete`): fairness is about `ENABLED`, which the prover does not reason
  about;
* the three violations, which are counterexamples.

## 6. Not modelled, and why

* Statement-level interleavings inside the transactions of the payment and
  notification services: one step here. They insert under keys of one order and
  lock nothing, so that two of them meet only over the same event, as in
  `KafkaConsumer`.
* In `ServiceProcess`, the effect of the outbox worker's statements: a stop between
  two of them is the `Crash` of `OutboxPublisher`. Probes are requests like
  others. Two requests at once are not checked there: the liveness properties are
  out of TLC's reach with them.
* Release scripts (`scripts/cd`): shell around the Azure command line; an operator
  runs them one at a time and the state they change is Azure's, of which the
  repository shows nothing. The BFF's readiness and CORS answers: no state.
* Two weaknesses of the checkout in the browser are possible in the module and
  no property excludes them, as no document does: a second click orders the same
  cart again before it is cleared, and clearing deletes what another tab has
  added meanwhile (`PROJECT.json`, hazards).
* Queries of the catalog service (they read a fixed table), configuration (read once), Terraform
  (declarative): no state over time.
* The seeds in `platform/postgres/seed` reset stock when applied again; no
  script of the repository does so while services run.

## 7. Plan

What is modelled is complete as far as section 6 goes, and every safety property
the passing runs check is also a theorem. When the code changes:

1. a change to a handler is made in the module of its service; the statement-level
   modules (`InventoryTx`, `OrderTx`) follow, and `ServiceSpec` says whether the two
   still agree;
2. an invariant is checked on the runs before its proof is repaired; most steps of
   the proofs name one action, so that a change breaks those of its action;
3. payment and notification would get statement-level modules if they began to lock
   or to update shared rows.
