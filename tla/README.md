# Formal models of orders-stock-service

TLA+ modules that model the service in `src/orders_stock`, TLC configurations that
check them on small instances, and TLAPS proofs of the results that should hold for
every instance. `PROJECT.json` lists the components, the runs, the mutants, the lines
of code each definition stands for, the findings, the hazards and the theorems.

## 1. The system

One PostgreSQL database and three kinds of long-running process, which talk to each
other only through the database (or, for the consumer, through HTTP):

| Part | State | Operations | Talks to |
| --- | --- | --- | --- |
| Order intake, `POST /orders` (`orders/`) | `orders`, `order_items`, `order_events`, the `event_id` sequence; per request: the statement it is at and the order it has read or built | receive and validate, take a pooled connection, `accept_order` (seven statements), answer | catalogue (reads prices), other submissions (through row and advisory locks) |
| Stock applier, `stock-worker` (`inventory/`) | `orders.status`, `stock_levels`, `consumer_offsets`; per process: its transaction, the offset and head it remembers | `apply_next_batch` (five steps), the loop around it | reads the event log that intake writes, moves the orders' status |
| Event feed, `GET /order-events` (`orders/routes.py`) | none | read one page | the event log |
| Feed consumer, `consume-feed` (`demo/feed_consumer.py`) | a cursor file, stdout; per process: page and cursor | fetch a page, print an event, save the cursor | the feed, over HTTP |
| Catalogue and `seed` | `products`, `stock_levels` | insert what is missing | intake (prices), applier (levels) |
| Stock and order reads | none | one statement (stock), two statements over immutable rows (order) | the applier's and intake's tables |
| Burst client, `burst` (`demo/burst.py`) | the tallies and their lock, a barrier; per thread: the attempt and the outcome; the exit status | submit with retries, record, two phases, exit | intake, over HTTP |
| API shell, problem documents, CLI, settings, migrations, scripts | pool; none | start-up, formatting, supervision | all |

What is hard here:

- **Concurrency.** Submissions of one `order_ref` race; the unique index and not the
  first read decides. Event ids are drawn before commit, so id order is commit order
  only because of the append lock. Workers may overlap; the row lock on the offset
  makes one of them the applier.
- **Failure.** Any statement may fail. A process may die and leave a PostgreSQL session
  that keeps its locks for a while and may even carry out a COMMIT nobody sees.
- **Retries.** Clients repeat requests whose outcome they do not know, workers repeat
  batches, operators set offsets back, consumers restart from a cursor.
- **Ordering.** Poison events and events of other types lie between the ones to apply.
- **Composition.** Seeds, acceptances, batches and reads are transactions of different
  components on the same rows: catalogue and levels, two clocks in one orders row, an
  offset that a client remembers.

What makes each part correct is written down as the properties below; the hazards they
are aimed at are in `PROJECT.json`, each at its line.

## 2. Modules

```text
OrderBook            orders and events appear together, at the end of the log
  ^ implemented by   Intake
  ^ instantiated by  FeedConsumer and Inventory

Submission           what one submission does to the orders, and its answer
  ^ extended by      OrderServer     all requests, each in one step
      ^ implemented by   Intake
  ^ instantiated by  Burst           the client

Inventory            whole batches, each in one step
  ^ implemented by   StockApplier    its statements, overlapping workers
                     StockWorker     the loop and its log lines
                     OrdersStock     with seed, pricing, times and reads
```

Each module with results for all instances has them in `<module>Proofs`: `Intake`,
`Inventory`, `StockApplier`, `StockWorker`, `OrdersStock`, `FeedConsumer`, `Burst`. Those of
`StockApplier`, `StockWorker` and `OrdersStock` extend `InventoryProofs`.

`MC*.tla` give each specification its small values; `MC<module>_<run>.cfg` are the runs.

### OrderBook

What everyone who reads the database may rely on. One action, `Accept`: an order and
its event appear in one step, the event above all visible events. `ReadEvents` is
`events.py read_events`. `Inventory` and `FeedConsumer` instantiate it for the log they
read, with the order payloads that matter to them, so what is proved of intake is what
they assume.

### Submission, OrderServer

What `POST /orders` promises to a client. `Submission` is one request as if it were alone:
`Answer` and `CarryOut`. `OrderServer` has many requests: `Receive`; `Reply` carries a request
out and answers it in one step; `Refuse` leaves no trace; `CarryOutLate` is a request whose
client got 503 or nothing, and only such a request has an effect after its end. `Intake`
implements it (`ImplementsOrderServer`; the mapping takes an order to its content, customer
and set of SKU and quantity, and hides prices, events, locks and dead sessions). `Burst` uses
the same `Submission` for its server, so what is proved of the burst rests on what is proved of
intake.

### Intake

`create_order` and `accept_order`, one action per SQL statement (`FindOrder`,
`GetPrices`, `InsertOrder`, `RefindOrder`, `InsertItems`, `TakeAppendLock`,
`AppendEvent`, `Commit`) plus `Receive` (validation), `Checkout` (the pool) and
`CompareContent`. `append_event` is one Python call and two statements, and the lock is
a place to wait and to fail at, so it is two actions. Failures:

- `Fail`: an `OperationalError` that leaves nothing behind (pool or statement timeout,
  refused connection), answered 503;
- `Abandon`: the connection breaks (503) or the process dies (no answer) while
  PostgreSQL still runs the session, which keeps its locks;
- `Reap`: PostgreSQL ends such a session; if it stood at COMMIT, the COMMIT may have
  happened.

The variables hold committed data. What a transaction has written and not committed is
a function of its control state: between `InsertOrder` and `Commit` it owns the
uncommitted row of its `order_ref` (`HoldsClaim`), and others wait there as PostgreSQL
makes them wait on the unique index. `InsertOrder` decides by the committed row after
the wait: READ COMMITTED and ON CONFLICT DO NOTHING.

A client retry is another request with the same body; requests are therefore retries,
duplicates and conflicts of each other, in any order.

A total that the bigint of `total_cents` cannot hold fails in `InsertOrder`, before the
statement waits or claims anything, with an error that is not an `OperationalError`: 500. The
same holds of the id sequence at its end, in `AppendEvent`.

Left out: `find_order` is two statements over rows that never change once committed, so
it is one step; identifiers' lengths and the strict
schema are validation of one request without state; `accepted_at` (see section 7).

### Inventory, StockApplier

`Inventory` is the abstract promise: `Apply(es)` moves status, stock and offset for the
events that follow the offset, all or nothing, and is refused while a poison event or a
missing or exhausted stock level is among them. The quantity of a SKU in a batch is the
number of its units, pairs of an event and a number, which is what the sum over items is
and what can be reasoned about without induction (section 5). Around it the log grows (`AcceptOrder`,
`AppendOtherType`), `seed` inserts, in one statement, the missing levels of its release (any
non-empty part of `Missing`, because releases differ), an operator sets the offset back.

`StockApplier` is `apply_next_batch` statement by statement for any number of workers:
`LockOffset` (waits for the offset row), `ReadBatch`, `MarkStockCommitted`,
`DecrementStock` per SKU, `AdvanceOffset`, `Commit`; `Fail`, `Stop`, `Kill` and `Reap` as
above. The order of the SKUs is free in the model (the code sorts them): every order the
code takes is covered. A session that lingers after its worker lost the connection and went
on, with a COMMIT that is carried out late, is covered under another name: the model has
it as a worker that is killed and reaped, next to another worker. `moved` and `todo` are a transaction's uncommitted work.
Orders and stock levels are locked only under the offset lock, so the row locks of these
statements are never waited for and are not modelled. The log may grow between the
statements of a transaction, as it does under READ COMMITTED.

An event is of this release, of a later version of `order.accepted`, or of another type.
The schema of this release admits only the first type
(`order_events_type_known`); the code handles the others for a later release that widens
it, and so does the model.

### StockWorker

`run_stock_worker`: the variables that live across batches (`offset`, `head`) and the log
lines operators and scripts read. A batch is one step here, which is what
`StockApplierImplementsInventory` proves; the loop in turn implements `Inventory`. Waits have no length; a failed step goes back
to the top of the loop, the one place where `stop` is looked at.

### FeedConsumer

`run_feed_consumer` and the page it polls. One consumer process at a time over one cursor
file. It may die between any two steps: between the line and the cursor, and in the
middle of a page. `write_cursor` replaces the file atomically, so it is one step. Output
that reached stdout counts as printed; what the reader of the pipe loses is its own.

### OrdersStock

The components around one database, as far as they meet there: `seed` with its two
inserts in one transaction, of two releases that overlap, wait for each other's rows and
die (`demo/seed.py`, `catalog/repository.py`, `inventory/repository.py`); the transaction
that wins an order_ref, from pricing to commit, with `accepted_at`; the transaction of the
active stock applier with the time of its UPDATE, which becomes `stock_committed_at`; and
one client that remembers its last `GET /orders/{order_ref}` and `GET /stock/{sku}`. It
extends `Inventory` and uses its actions `AcceptOrder` and `Apply` for what a commit makes
visible. The clock is PostgreSQL's; `Tick` lets it pass between any two steps. Competing
submissions of one ref and overlapping workers are left to the modules that have shown
that only one of them gets through.

### Burst

`run_burst`, `submit` and `record`: a thread per submission, the barrier and its timeout,
up to `MAX_ATTEMPTS` posts of one body, the lock around the tallies (`Record` takes it and
looks the tally up, `Update` writes it back), phase two by the main thread, and the exit
status. The server is `Submission`, in one step; a request whose answer never
came may still be carried out at any later time, also after the process has died or has
been run again (`late`). `Die` and `Rerun` are the ends and starts of the command with one
prefix.

## 3. Runs

| Run | Bounds | Shows |
| --- | --- | --- |
| `intake_safety` | 3 requests, 2 refs, 2 SKUs (one not in the catalogue), 5 bodies, 2 event ids, 1 later price, totals up to 3 | the safety of intake, log order and implementation of `OrderBook` and `OrderServer`, including an exhausted sequence and a total that does not fit |
| `intake_liveness` | 3 requests, 2 bodies, pool of 2, 2 event ids | every request ends |
| `applier_safety` | 2 workers, 2 orders, 2 SKUs (one without a level), 3 event ids, batches of 2, 2 faults, 1 rewind, poison, a narrow column | what readers of stock and offset rely on, when a worker process ends with an error, implementation of `Inventory` |
| `applier_liveness` | batches of 1, 1 fault, a missing level | every order is applied |
| `applier_overflow` | a column that two orders exhaust | **finding 1** |
| `worker_safety` | 2 workers, 1 SKU, 3 event ids, a level to be seeded, a narrow column | lag and log lines, implementation of `Inventory` |
| `worker_liveness` | 1 worker, poison, 1 rewind | stop ends the process |
| `worker_start` | 2 workers | **finding 2** |
| `feed` | 3 orders, 4 event ids, pages of 2, 3 starts | the consumer's obligations, and that it reaches the head |
| `orders_stock` | 2 seeds (1 and 2 products), 2 orders, 2 SKUs, 3 event ids, 2 moments | what the components' transactions and a client's reads make of each other, implementation of `Inventory` |
| `burst` | 3 submissions in phase one (2 of one ref) and the conflicting one, 2 attempts, 2 runs | the summary and the exit status, the counts when no answer is lost, and that the command ends |
| `burst_counts` | the same, 1 run | **finding 3** |

Why these bounds are enough. Three requests are the least with a winner, a loser that
waits for it and a third that holds the append lock or retries later. Two refs make
requests meet at the append lock only, one ref makes them meet at the index. Two workers
are one that died in a transaction and one that takes over. Three event ids hold two
orders and a gap or an event of another type; with batches of two this gives full, short
and empty batches and a poison event in the first and second place. Pages of two and four
ids give full, short, empty and exactly full pages. Two seeds of which one knows a product
more are the least with a row to wait for and a row that is new. Two moments tell the start
of a transaction from a statement in it. A burst needs a copy, a ref without a copy and the
reuse; two attempts give a retry that is answered and one that is given up; a second run
meets what the first has left. `SYMMETRY` permutes requests, workers
or refs, never in a run with fairness. Column widths, the largest total and the id sequence are constants, so
their ends are within reach; their real values are in the comments.

`CHECK_DEADLOCK FALSE` stands where the system may really stop: in `intake_liveness`, all
requests answered (prices do not change there); in `feed`, the consumer down for the last
time and the log full; in the burst runs, the command ended for the last time and nothing
late. In the other runs something can always happen.

Every property has a mutant: a plausible wrong version of one definition, kept next to
it with a comment `Mutant:`, under which TLC finds the property violated.

### Fairness

- Intake: weak fairness of each request's handler and of `Reap`. Handlers run in a thread
  pool and take their next step when it is possible; a statement that waits, waits only
  while it is disabled. Nothing is assumed of timeouts: that a waiter may time out is
  allowed and not needed, so the liveness result is about locks and pool, not about the
  5 seconds of `statement_timeout`. Weak fairness suffices because requests are finitely
  many: nobody can overtake a waiter for ever.
- Stock applier: weak fairness of each worker's work, including its `Start`. `start.sh`
  does not restart a worker, so a start is what the operator (or the supervisor of a
  deployment) does after an outage. `InsertMissingStockLevels` is the operator's data fix
  of 05-reliability.md; faults are bounded by `MaxFaults`, which says that outages end.
- Worker loop: weak fairness of "the next step, or its failure". No bound on failures.
- Feed consumer: weak fairness of the process; a 5xx or a lost answer changes nothing and
  is not a step, so fairness says that a page is answered in the end.
- Burst: weak fairness of the process as a whole, "some thread that can run does". An
  attempt ends because every request has a timeout (`REQUEST_TIMEOUT`). Nothing is assumed
  of which thread runs, of the barrier's timeout or of late requests.
- `OrdersStock` states safety only and no fairness.

## 4. Findings

1. **`on_hand` has a lower bound** (`applier_overflow`, `NoLowerBound`). The column is a
   32-bit integer. A backorder below -2^31 is a `DataError`, which the loop does not catch:
   the process ends with status 1, and so does every restart at the same batch. INV-STK-3
   says there is no lower bound, and 05-reliability.md that an event fails only if an
   invariant was broken outside the application. With at most 10000 units per item it
   takes more than 200000 such items of one SKU. What does hold, and is proved, is
   `ExitsOnlyOnOverflow`: no process ends this way unless the orders accepted for one SKU
   are together more than its column can hold, whatever was retried, rewound or crashed.
2. **The start line can be lost** (`worker_start`, `StartIsAnnounced`). `offset` is
   assigned before the head is read; if the head read fails, the block is skipped for the
   rest of the process's life. 03-architecture.md promises the line on the first successful
   connection, and `start.sh` waits for it.

3. **The counts of a burst depend on lost answers** (`burst_counts`,
   `CountsAreDeterministic`). A request that was carried out and whose answer was lost is
   sent again and answered 200; the tally counts a duplicate and no created order, with
   `failed=0` and exit status 0. 03-architecture.md says that the counts are deterministic
   and prints `created=6 duplicate=4`. What does hold, and is proved, is `SuccessIsTrue` (at
   most one created per ref, and created plus duplicate are all its copies) and
   `CountsWithoutLoss`: the lost answer is all there is to it, and as long as the server has no
   request that was given up, the counts are those of the document.

Smaller observations, not stated as findings: if the head read after a batch fails, that
batch is never logged, and a stop right after reports an offset older than the committed
one. A poison event in the middle of a batch holds up the good events before it too, until
the operator's fix (`ReadBatch` refuses the whole batch); `OffsetMatchesStatus` and
`EveryOrderIsApplied` say exactly what is and is not promised there.

## 5. Proofs

Every safety property of every passing run, and `OffsetOnlyIncreases`, which no run checks
because every run of `ImplementsInventory` implies it, is a theorem, proved by TLAPS for every value of
the constants that satisfies the named assumptions (`IntakeAssumption`,
`InventoryAssumption`, `StockApplierAssumption`, `StockWorkerAssumption`,
`OrdersStockAssumption`, `FeedConsumerAssumption`, `BurstAssumption`): values that stand for
"none" are none of the real ones, bounds are positive, and a burst is finite and its
conflicting submission disagrees with one it shares the ref with. Nothing else is assumed of
finiteness: that the log is finite is part of the invariants.

**Intake.** `OneEventPerOrder`, `AnswersMatchTheStore` and the rest are not inductive:
they do not say why the draft of a committing request is what will be stored. The
inductive invariant `IndInv` adds:

- two requests that hold a claim have different refs, and a claimed ref has no committed
  order; this is the unique index, and it makes `Publish` insert and never overwrite;
- the request at `append` or `commit` is the holder of the append lock, so there is one;
- every visible event id, and the id drawn by the request at `commit`, is below
  `nextEventId`, and the drawn one is above all visible ids; this is where id order
  becomes commit order;
- the draft of a request that is past pricing is an order with the content of its body;
  stored orders never change.

`NoAssertionFailure` needs one more: a request at `refind` has a committed order to find.
It holds because `InsertOrder` waits for the claim of another to be committed or gone.
`NeverAWaitCycle` follows from the order of the two locks: a request that waits at the
claim can be waited for by nobody, so a set in which everyone waits has its members at the
append lock, and the holder of that lock waits for nothing.
`LogIsCommitOrdered` and `IntakeImplementsOrderBook` have one step per action; all but
`Commit` and the committing half of `Reap` leave the book unchanged.

`IntakeImplementsOrderServer` says more: the answers too. `Commit` is a `Reply` that creates;
its claim says that the ref was free until this step (`PublishCarriesOut`). `CompareContent` is
a `Reply` that creates nothing: it compares what was read some steps ago, and the invariant
that stored orders never change makes this the comparison with the present
(`CompareContentSimulates`). The committing half of `Reap` is a `CarryOutLate`; its request is
one whose client got 503 or nothing, because only those leave a session behind. Everything that
is answered otherwise is a `Refuse`, and all other steps are stutters. A request that was
received is told from one that was not because no content of a body is `NoBody`.

**Inventory.** `InventoryInv` says that the log is sound (finite, all of stored orders, one
accepted event for each), that the offset is not ahead of it, and `OffsetMatchesStatus`; it
is kept by everything but a `Publish` whose batch has gaps or poison.
`LevelsAreExact` adds the arithmetic: `StockConserved`, and that nothing was taken of a level
that is missing, without which an inserted level would be wrong. A quantity is the
cardinality of a set of units. The units of disjoint sets of orders are disjoint
(`QuantityOfMore`), the units a batch takes are those its moving orders have in the whole
log, because each has one accepted event (`BatchHasTheOrders`), and a new event has none of
an order that is committed; so each action adds to both sides the same.
`AsOfIsExact` follows: without a rewind, the events at or below the offset are those of the
committed orders. `InventoryMovesForward` (INV-OFF-2, `OffsetOnlyIncreases`) needs only that a
batch follows the offset. The lemmas are per action, and the three modules that extend
`Inventory` cite them.

**Stock applier.** `IndInv` adds that a worker past `LockOffset` holds the offset row and therefore knows the
committed offset, that its batch is the next part of the log without gaps and without
poison, and that the orders it moved are the still `accepted` ones of the batch; with these,
`Publish` keeps `OffsetMatchesStatus`. For the refinement a further invariant,
`DecrementsAreChecked`, says that an SKU of the batch is either still to be decremented or
was found decrementable; it holds because stock levels change only under the offset lock,
or are inserted where there were none. `Commit` and the committing half of `Reap` are
`Apply(batch)`, every other step of a worker is a stutter. `StockAlwaysConserved` and
`AsOfAlwaysExact` are then the theorems about `Inventory`, carried over by the refinement.

`ExitsMeanOverflow` is arithmetic over the whole history. A process that ends found that the
decrement of some SKU does not fit; by `LevelsAreExact` the level it started from is what the
committed orders have left, the batch's moving orders are others than those
(`RefusedForLackOfRoom`), and the units of both are among the units of all orders
(`MoreUnits`). That sum can only grow afterwards, because orders stay and a new one adds to it
(`OrderedNeverDecreases`).

`OffsetMatchesStatus` is stronger than INV-OFF-1 of the documentation in one way (no poison
event is below the offset) and weaker in another: after an operator has set the offset back,
committed orders may lie above it.

**Stock worker.** What a process remembers is a position in the log as it was at some
moment, and the log only grows: a head read later than an offset is not below it
(`PositionsAreInTheLog`, `LagIsNeverNegative`), also after a rewind. For `LoggedOnce` the
invariant says that the batches in the hands of different processes are disjoint from each
other and from what is logged, as long as there is no rewind; a new batch lies above the
offset, all others at or below it. `StockWorkerImplementsInventory`: `ApplyNextBatch` reads the
events that follow the committed offset, not the remembered one, and is `Apply`; all other
steps of the loop leave the database alone. What is proved of `Inventory` therefore holds of
the loop, and likewise of `OrdersStock` (`StockWorkerKeepsThePromise`,
`OrdersStockKeepsThePromise`).

**OrdersStock.** `SeedsAreDisjoint` says that the uncommitted rows of a seed are what its
release adds to the catalogue, and no two seeds hold the same row: this is what the waiting
of `ON CONFLICT DO NOTHING` gives, and it keeps products and levels equal
(`EveryProductHasALevel`). `TimesInv` bounds `accepted_at` of every order in a marked batch by
the time of the mark. `ReadsAreOldTruths` says what an answer keeps of the moment it was read:
a committed order stays committed, an offset stays behind. `ReadsAgree` and
`StockReadStaysExact` follow; for the latter, a new event lies above every offset that was
ever told (`CommitDraftKeepsStockExact`). `OrdersStockImplementsInventory` maps each COMMIT to
one step: of a draft to `AcceptOrder`, of a batch to `Apply`, of a seed to
`InsertMissingStockLevels`, whose set is what its uncommitted rows are by `SeedsAreDisjoint`.

**Burst.** `CountsAreExact` ties each count to the set of submissions recorded with that
outcome; who updates a tally holds the lock and has seen it as it is (`LockIsHeld`), so no
update is lost. `FirstRunIsTrue` says why success can be trusted although requests may be
late: until phase two begins the server has phase-one content only and no conflicting request
is on its way, and then every ref with an answer is taken. `SuccessIsKept` says what a
successful run leaves for all later ones. For `CountsAreRightWithoutLoss` the invariant
`NothingLost` holds as long as nothing was ever late: in the first run a ref that is taken has a
submission that was answered 201, and by `CreatedAtMostOnce` no more than one. The results count sets: the four outcomes of a ref
are disjoint and are all its submissions (`AllAreCounted`).

**Feed consumer.** `NothingSkipped` speaks of the file only. `IndInv` says it of the cursor
in memory too, and adds why a step of the cursor keeps it: what is left of a page is the
part of the log that follows the cursor, without gaps (`FeedPageIsNext`, from the
definition of the page query), and the event whose cursor is about to be saved was
understood and printed. A cursor is never ahead of the log, so an event that arrives later
has a larger id (`InTheLog`). For `OneLineAhead` the invariant says that a line ahead of the
file can only be that of the first event after it. The first event of a page exists by
well-foundedness of strict inclusion of finite sets, not by induction
(`FirstEventExists`). `HasMoreIsExact` is `ExtraRowDecides`: rows of which each has fewer than
`limit` before it are `limit` at most, and the first missing event has more than `limit`.

## 6. Model-checked only

- Liveness, under the fairness above: `EveryRequestEnds`, `EveryOrderIsApplied`,
  `StopEndsTheProcess`, `ReachesTheHead`, `BurstEnds`. What needs ENABLED or fairness is out
  of the provers' reach.
- That the findings' statements fail.

## 7. Not modelled

- The length of waits, backoff and poll intervals. `accepted_at` and `stock_committed_at` are
  in `OrdersStock`; `updated_at` columns are read by nobody.
- Money beyond the total's overflow: amounts are what the stored prices make of them, and the
  arithmetic of a total is the code's own sum (`TotalCents`).
- The jump of the id sequence after a PostgreSQL crash: ids are only required to grow.
- A burst thread that cannot be started: the exception leaves `run_burst` with the started
  threads at the barrier, which breaks after its timeout; that is `Die` with nothing sent.
- Formatting: the shape of problem documents, JSON pointers of validation errors, OpenAPI,
  CLI output, tables, log levels. Settings and logging set-up, connection parameters.
- yoyo's migration lock and the scripts' supervision of processes.

What is left has no state that two actors or two moments could disagree about, or is a
library's.

## 8. Order of reading

`OrderBook`, `Submission`, `OrderServer`, `Intake`; `Inventory`, `StockApplier`, `StockWorker`; `OrdersStock`;
`FeedConsumer`; `Burst`. Proof modules follow the module they are about; `InventoryProofs`
comes before those that extend it. Possible extensions: liveness of overlapping workers with
batches of two under faults (the state space grows with the product of both).
