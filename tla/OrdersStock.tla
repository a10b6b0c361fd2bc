----------------------------- MODULE OrdersStock -----------------------------
(***************************************************************************)
(* The components around one database, and what their transactions and a   *)
(* client's reads make of each other: demo/seed.py and catalog, the        *)
(* acceptance transaction from pricing to commit, the transaction of the   *)
(* active stock applier with its timestamps, GET /orders/{order_ref} and   *)
(* GET /stock/{sku}.                                                       *)
(*                                                                         *)
(* Each component's own statements and competitors are in its own module:  *)
(* Intake for submissions of one ref, StockApplier for overlapping workers.*)
(* The variables of Inventory hold what is committed.                      *)
(***************************************************************************)
EXTENDS Inventory

CONSTANTS Seeders,    \* `seed` processes, of one release or of two
          DemoOf,     \* seeder -> the SKUs of DEMO_PRODUCTS in its release
          BatchSize,
          MaxTime,    \* bound: the last moment of the clock
          NoTime, NoRead

ASSUME OrdersStockAssumption ==
    /\ DemoOf \in [Seeders -> SUBSET Skus]
    /\ BatchSize \in Nat \ {0}
    /\ MaxTime \in Nat
    /\ NoTime \notin Nat

VARIABLES
    products,          \* SKUs in the catalogue
    seed,              \* per seeder: the next statement of its transaction
    newProducts,       \* per seeder: products it inserted and has not committed
    newLevels,         \* per seeder: the same of stock levels
    clock,             \* PostgreSQL's clock
    draft,             \* ref -> the order priced for it, not committed
    begunAt,           \* ref -> when the transaction of its draft began
    acceptedAt, stockCommittedAt,  \* of the orders rows
    applying,          \* where the applier's transaction is
    applierNow,        \* now() in that transaction: when it began
    batch,             \* the events it read
    markedAt,          \* statement_timestamp() of its UPDATE of orders
    orderRead,         \* the client's last GET /orders/{order_ref}
    stockRead          \* the client's last GET /stock/{sku}

seeding == <<products, seed, newProducts, newLevels>>
accepting == <<draft, begunAt, acceptedAt>>
applier == <<applying, applierNow, batch, markedAt, stockCommittedAt>>
reads == <<orderRead, stockRead>>
vars == <<inventoryVars, seeding, clock, accepting, applier, reads>>

Time == 0..MaxTime
OrderRead == [ref: Refs, status: {"none", "accepted", "stock_committed"},
              acceptedAt: Time \cup {NoTime}, stockCommittedAt: Time \cup {NoTime}]
StockRead == [sku: Skus, onHand: Int, asOf: 0..MaxEventId]

OrdersStockTypeOK ==
    /\ InventoryTypeOK
    /\ products \subseteq Skus
    /\ seed \in [Seeders -> {"products", "levels", "commit"}]
    /\ newProducts \in [Seeders -> SUBSET Skus]
    /\ newLevels \in [Seeders -> SUBSET Skus]
    /\ clock \in Time
    /\ draft \in [Refs -> Payloads \cup {NoOrder}]
    /\ begunAt \in [Refs -> Time \cup {NoTime}]
    /\ acceptedAt \in [Refs -> Time \cup {NoTime}]
    /\ stockCommittedAt \in [Refs -> Time \cup {NoTime}]
    /\ applying \in {"idle", "begun", "marked"}
    /\ applierNow \in Time \cup {NoTime} /\ markedAt \in Time \cup {NoTime}
    /\ batch \subseteq events
    /\ orderRead \in OrderRead \cup {NoRead}
    /\ stockRead \in StockRead \cup {NoRead}

Init ==
    /\ InventoryInit
    /\ products = SeededSkus
    /\ seed = [k \in Seeders |-> "products"]
    /\ newProducts = [k \in Seeders |-> {}]
    /\ newLevels = [k \in Seeders |-> {}]
    /\ clock = 0
    /\ draft = [ref \in Refs |-> NoOrder]
    /\ begunAt = [ref \in Refs |-> NoTime]
    /\ acceptedAt = [ref \in Refs |-> NoTime]
    /\ stockCommittedAt = [ref \in Refs |-> NoTime]
    /\ applying = "idle" /\ applierNow = NoTime /\ batch = {} /\ markedAt = NoTime
    /\ orderRead = NoRead /\ stockRead = NoRead

Tick ==
    /\ clock < MaxTime
    /\ clock' = clock + 1
    /\ UNCHANGED <<inventoryVars, seeding, accepting, applier, reads>>

-----------------------------------------------------------------------------
(* seed: insert_demo_catalogue, one transaction of two statements.         *)

\* Mutant: each INSERT is a transaction of its own.
InsertAndCommitProducts(k) ==
    /\ seed[k] = "products"
    /\ products' = products \cup DemoOf[k]
    /\ seed' = [seed EXCEPT ![k] = "levels"]
    /\ UNCHANGED <<inventoryVars, clock, newProducts, newLevels, accepting, applier, reads>>

\* ON CONFLICT DO NOTHING waits for another seed's uncommitted row of a SKU.
InsertMissingProducts(k) ==
    /\ seed[k] = "products"
    /\ \A j \in Seeders \ {k} : newProducts[j] \cap DemoOf[k] = {}
    /\ newProducts' = [newProducts EXCEPT ![k] = DemoOf[k] \ products]
    /\ seed' = [seed EXCEPT ![k] = "levels"]
    /\ UNCHANGED <<inventoryVars, products, newLevels, clock, accepting, applier, reads>>

InsertMissingLevels(k) ==
    /\ seed[k] = "levels"
    /\ \A j \in Seeders \ {k} : newLevels[j] \cap DemoOf[k] = {}
    /\ newLevels' = [newLevels EXCEPT ![k] = {sku \in DemoOf[k] : onHand[sku] = NoLevel}]
    /\ seed' = [seed EXCEPT ![k] = "commit"]
    /\ UNCHANGED <<inventoryVars, products, newProducts, clock, accepting, applier, reads>>

EndSeed(k) ==
    /\ seed' = [seed EXCEPT ![k] = "products"]
    /\ newProducts' = [newProducts EXCEPT ![k] = {}]
    /\ newLevels' = [newLevels EXCEPT ![k] = {}]
    /\ UNCHANGED <<book, status, lastEventId, rewinds, clock, accepting, applier, reads>>

CommitSeed(k) ==
    /\ seed[k] = "commit"
    /\ products' = products \cup newProducts[k]
    /\ onHand' = [sku \in Skus |-> IF sku \in newLevels[k] THEN InitialOnHand[sku] ELSE onHand[sku]]
    /\ EndSeed(k)

\* The command fails or is killed; it can be run again.
RollbackSeed(k) ==
    /\ seed[k] # "products"
    /\ EndSeed(k)
    /\ UNCHANGED <<products, onHand>>

-----------------------------------------------------------------------------
(* Intake: the transaction that is going to win its ref.                   *)

\* accept_order up to the claim.  accepted_at is now(), the start of the
\* transaction; that it began a little earlier makes no difference here.
Price(ref, payload) ==
    /\ ~Book!Stored(ref) /\ draft[ref] = NoOrder
    /\ \A sku \in Skus : payload.qty[sku] > 0 => sku \in products
    /\ draft' = [draft EXCEPT ![ref] = payload]
    /\ begunAt' = [begunAt EXCEPT ![ref] = clock]
    /\ UNCHANGED <<inventoryVars, seeding, clock, acceptedAt, applier, reads>>

EndDraft(ref) ==
    /\ draft' = [draft EXCEPT ![ref] = NoOrder]
    /\ begunAt' = [begunAt EXCEPT ![ref] = NoTime]
    /\ UNCHANGED <<seeding, clock, applier, reads>>

CommitDraft(ref, id) ==
    /\ draft[ref] # NoOrder
    /\ AcceptOrder(ref, draft[ref], id)
    /\ acceptedAt' = [acceptedAt EXCEPT ![ref] = begunAt[ref]]
    /\ EndDraft(ref)

RollbackDraft(ref) ==
    /\ draft[ref] # NoOrder
    /\ EndDraft(ref)
    /\ UNCHANGED <<inventoryVars, acceptedAt>>

-----------------------------------------------------------------------------
(* The stock applier: apply_next_batch of the worker that holds the offset.*)

BeginBatch ==
    /\ applying = "idle"
    /\ applying' = "begun"
    /\ applierNow' = clock
    /\ UNCHANGED <<inventoryVars, seeding, clock, accepting, batch, markedAt,
                   stockCommittedAt, reads>>

NextBatch == Book!ReadEvents(lastEventId, BatchSize)

\* Mutant: stock_committed_at is now(), as every other time in the schema.
MarkBatchNow ==
    /\ applying = "begun" /\ NextBatch # {}
    /\ applying' = "marked"
    /\ batch' = NextBatch
    /\ markedAt' = applierNow
    /\ UNCHANGED <<inventoryVars, seeding, clock, accepting, applierNow, stockCommittedAt, reads>>

\* Mutant: the UPDATE of orders is a transaction of its own.
MarkBatchVisibly ==
    /\ applying = "begun" /\ NextBatch # {}
    /\ applying' = "marked"
    /\ batch' = NextBatch
    /\ markedAt' = clock
    /\ status' = [ref \in Refs |-> IF ref \in Moving(NextBatch) THEN "stock_committed"
                                                              ELSE status[ref]]
    /\ UNCHANGED <<book, onHand, lastEventId, rewinds, seeding, clock, accepting, applierNow,
                   stockCommittedAt, reads>>

\* The batch is read and its orders are updated, which others cannot see yet.
MarkBatch ==
    /\ applying = "begun" /\ NextBatch # {}
    /\ applying' = "marked"
    /\ batch' = NextBatch
    /\ markedAt' = clock
    /\ UNCHANGED <<inventoryVars, seeding, clock, accepting, applierNow, stockCommittedAt, reads>>

EndBatch ==
    /\ applying' = "idle" /\ applierNow' = NoTime /\ batch' = {} /\ markedAt' = NoTime
    /\ UNCHANGED <<seeding, clock, accepting, reads>>

CommitBatch ==
    /\ applying = "marked"
    /\ Apply(batch)
    /\ stockCommittedAt' = [ref \in Refs |-> IF ref \in Moving(batch) THEN markedAt
                                                                    ELSE stockCommittedAt[ref]]
    /\ EndBatch

\* Nothing to apply, a StockInvariantViolation, an error of the database, or
\* the end of the process.
RollbackBatch ==
    /\ applying # "idle"
    /\ EndBatch
    /\ UNCHANGED <<inventoryVars, stockCommittedAt>>

-----------------------------------------------------------------------------
(* The client's reads; "none" and NoRead stand for a 404.                  *)

\* find_order: the row of the order; its items are as old as the row.
GetOrder(ref) ==
    /\ orderRead' = [ref |-> ref, status |-> status[ref], acceptedAt |-> acceptedAt[ref],
                     stockCommittedAt |-> stockCommittedAt[ref]]
    /\ UNCHANGED <<inventoryVars, seeding, clock, accepting, applier, stockRead>>

\* Mutant: the offset is remembered from the read before.
GetStockWithOldOffset(sku) ==
    /\ onHand[sku] # NoLevel
    /\ stockRead' = [sku |-> sku, onHand |-> onHand[sku],
                     asOf |-> IF stockRead = NoRead THEN lastEventId ELSE stockRead.asOf]
    /\ UNCHANGED <<inventoryVars, seeding, clock, accepting, applier, orderRead>>

\* get_stock: the level and the offset in one statement.
GetStock(sku) ==
    /\ stockRead' = IF onHand[sku] = NoLevel THEN NoRead
                    ELSE [sku |-> sku, onHand |-> onHand[sku], asOf |-> lastEventId]
    /\ UNCHANGED <<inventoryVars, seeding, clock, accepting, applier, orderRead>>

-----------------------------------------------------------------------------
Next ==
    \/ \E k \in Seeders :
          InsertMissingProducts(k) \/ InsertMissingLevels(k) \/ CommitSeed(k) \/ RollbackSeed(k)
    \/ \E ref \in Refs :
          \/ \E payload \in Payloads : Price(ref, payload)
          \/ \E id \in Book!EventIds : CommitDraft(ref, id)
          \/ RollbackDraft(ref)
          \/ GetOrder(ref)
    \/ BeginBatch \/ MarkBatch \/ CommitBatch \/ RollbackBatch
    \/ \E sku \in Skus : GetStock(sku)
    \/ Tick

Spec == Init /\ [][Next]_vars

-----------------------------------------------------------------------------
\* Intake, seeds of two releases, the active applier and the clients' reads
\* together do what the abstract inventory says: none of the transactions
\* shows a part of itself (insert_demo_catalogue, accept_order and
\* apply_next_batch are one transaction each).
ImplementsInventory == InventorySpec

\* INV-STK-1: every product has a stock level, and so has every SKU of an
\* order that was priced, whichever seeds of whichever releases overlapped or
\* died (insert_demo_catalogue, one transaction).
EveryProductHasALevel ==
    /\ products = {sku \in Skus : onHand[sku] # NoLevel}
    /\ \A ref \in Refs : \A order \in {orders[ref], draft[ref]} \ {NoOrder} :
          {sku \in Skus : order.qty[sku] > 0} \subseteq products

\* 02-domain-model.md, Order: stock_committed_at is set if and only if the
\* order is stock_committed (INV-ORD-7) and is "never earlier than
\* accepted_at", although both are the times of something before the commit
\* and the two transactions overlap (update_stock_committed uses
\* statement_timestamp(), not now()).
TimesInOrder ==
    \A ref \in Refs :
       /\ Committed(ref) <=> stockCommittedAt[ref] # NoTime
       /\ Committed(ref) => acceptedAt[ref] <= stockCommittedAt[ref]

\* 04-api.md, GET /stock: the answer a client holds includes "exactly those
\* order.accepted events whose event_id is at most as_of_event_id".  It stays
\* true while the client holds it: no event ever comes to lie below.
StockReadStaysExact ==
    stockRead # NoRead =>
       stockRead.onHand = InitialOnHand[stockRead.sku]
          - Ordered({e.ref : e \in {e \in Accepted(events) : e.id <= stockRead.asOf}},
                    stockRead.sku)

\* What one client reads one after the other, of the two resources, fits
\* together, whatever happens between the reads: an order it saw
\* stock_committed is within the as_of_event_id of its next stock read; an
\* order within the as_of_event_id it saw is stock_committed in its next order
\* read; no status, no time and no as_of_event_id goes back (INV-OFF-1 and
\* INV-ORD-8 as the two routes show them).
EventOf(ref) == CHOOSE e \in events : e.ref = ref
ReadsAgree ==
    [][/\ stockRead' # stockRead /\ stockRead' # NoRead =>
             /\ stockRead # NoRead => stockRead'.asOf >= stockRead.asOf
             /\ orderRead # NoRead /\ orderRead.status = "stock_committed" =>
                   EventOf(orderRead.ref).id <= stockRead'.asOf
       /\ orderRead' # orderRead =>
             /\ stockRead # NoRead /\ Book!Stored(orderRead'.ref)
                  /\ EventOf(orderRead'.ref).id <= stockRead.asOf =>
                   orderRead'.status = "stock_committed"
             /\ orderRead # NoRead /\ orderRead.ref = orderRead'.ref =>
                   /\ orderRead.status # "none" => orderRead.acceptedAt = orderRead'.acceptedAt
                   /\ orderRead.status = "stock_committed" => orderRead' = orderRead
      ]_reads
=============================================================================
