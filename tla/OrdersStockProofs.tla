------------------------- MODULE OrdersStockProofs -------------------------
(***************************************************************************)
(* Proofs about OrdersStock for every number of seeds, orders and SKUs,    *)
(* every catalogue, batch size and clock.                                  *)
(***************************************************************************)
EXTENDS OrdersStock, InventoryProofs

\* The part of the types that the other parts of the invariant rest on.
ControlTypeOK ==
    /\ products \subseteq Skus
    /\ seed \in [Seeders -> {"products", "levels", "commit"}]
    /\ newProducts \in [Seeders -> SUBSET Skus]
    /\ newLevels \in [Seeders -> SUBSET Skus]
    /\ clock \in Time
    /\ draft \in [Refs -> Payloads \cup {NoOrder}]
    /\ begunAt \in [Refs -> Time \cup {NoTime}]
    /\ acceptedAt \in [Refs -> Time \cup {NoTime}]
    /\ stockCommittedAt \in [Refs -> Time \cup {NoTime}]
    /\ applying \in {"idle", "begun", "marked"}
    /\ applierNow \in Time \cup {NoTime} /\ markedAt \in Time \cup {NoTime}
    /\ batch \subseteq events

-----------------------------------------------------------------------------
(* The catalogue.                                                          *)

Levels == {sku \in Skus : onHand[sku] # NoLevel}

\* What a seed has inserted and not committed is what its release adds to the
\* catalogue, and no two seeds hold the same row.
SeedsAreDisjoint ==
    /\ \A k \in Seeders :
          /\ seed[k] # "products" => newProducts[k] = DemoOf[k] \ products
          /\ seed[k] = "products" => newProducts[k] = {}
          /\ newLevels[k] = IF seed[k] = "commit" THEN newProducts[k] ELSE {}
    /\ \A j, k \in Seeders : j # k => newProducts[j] \cap newProducts[k] = {}

\* Every line of an order names a product, which is never removed.
OrdersAreOfProducts ==
    \A ref \in Refs : \A order \in {orders[ref], draft[ref]} \ {NoOrder} :
       {sku \in Skus : order.qty[sku] > 0} \subseteq products

CatalogueInv ==
    /\ onHand \in [Skus -> Int \cup {NoLevel}]
    /\ products = Levels
    /\ SeedsAreDisjoint
    /\ OrdersAreOfProducts

-----------------------------------------------------------------------------
(* The times.                                                              *)

TimesInv ==
    /\ \A ref \in Refs :
          /\ draft[ref] # NoOrder => begunAt[ref] \in 0..clock
          /\ Book!Stored(ref) => acceptedAt[ref] \in 0..clock
    /\ applying = "marked" =>
          /\ markedAt \in 0..clock
          /\ \A e \in batch : acceptedAt[e.ref] <= markedAt
    /\ TimesInOrder

-----------------------------------------------------------------------------
(* The reads.                                                              *)

\* The instance has no event of another type, and nobody sets the offset back.
LogIsOfOrders ==
    /\ rewinds = 0
    /\ Accepted(events) = events
    /\ \A ref \in Refs : Book!Stored(ref) => \E e \in events : e.ref = ref

\* What a client read is an old truth.
ReadsAreOldTruths ==
    /\ orderRead # NoRead =>
          /\ orderRead \in OrderRead
          /\ orderRead.status # "none" =>
                Book!Stored(orderRead.ref) /\ acceptedAt[orderRead.ref] = orderRead.acceptedAt
          /\ orderRead.status = "stock_committed" =>
                /\ Committed(orderRead.ref)
                /\ stockCommittedAt[orderRead.ref] = orderRead.stockCommittedAt
    /\ stockRead # NoRead => stockRead \in StockRead /\ stockRead.asOf <= lastEventId

IndInv ==
    /\ InventoryInv
    /\ ControlTypeOK
    /\ CatalogueInv
    /\ TimesInv
    /\ LogIsOfOrders
    /\ ReadsAreOldTruths

LEMMA InitEstablishes ==
    ASSUME Init
    PROVE  IndInv
<1>1. InventoryInv
  BY InventoryInitEstablishes DEF Init
<1>2. ControlTypeOK
  BY InventoryAssumption, OrdersStockAssumption DEF Init, InventoryInit, Book!Init, ControlTypeOK,
     Time
<1>3. CatalogueInv
  BY InventoryAssumption DEF Init, InventoryInit, Book!Init, CatalogueInv, Levels,
     SeedsAreDisjoint, OrdersAreOfProducts
<1>4. TimesInv
  BY DEF Init, InventoryInit, Book!Init, Book!Stored, TimesInv, TimesInOrder, Committed
<1>5. LogIsOfOrders
  BY DEF Init, InventoryInit, Book!Init, Book!Stored, LogIsOfOrders, Accepted
<1>6. ReadsAreOldTruths
  BY DEF Init, ReadsAreOldTruths
<1>7. QED
  BY <1>1, <1>2, <1>3, <1>4, <1>5, <1>6 DEF IndInv

-----------------------------------------------------------------------------
(* Steps that leave the rows of orders, events and statuses alone.         *)

\* What rests on them and on the times recorded with them.
LEMMA RowsUnchanged ==
    ASSUME IndInv, UNCHANGED <<book, status, lastEventId, rewinds, acceptedAt, stockCommittedAt>>
    PROVE  /\ InventoryInv' /\ LogIsOfOrders' /\ TimesInOrder'
           /\ UNCHANGED reads => ReadsAreOldTruths'
<1>1. InventoryInv'
  BY InventoryUnchanged DEF IndInv
<1>2. LogIsOfOrders'
  BY DEF IndInv, LogIsOfOrders, Book!Stored, Accepted, book
<1>3. TimesInOrder'
  BY DEF IndInv, TimesInv, TimesInOrder, Committed
<1>4. UNCHANGED reads => ReadsAreOldTruths'
  BY DEF IndInv, ReadsAreOldTruths, Book!Stored, Committed, book, reads
<1>5. QED
  BY <1>1, <1>2, <1>3, <1>4

LEMMA TickPreserves ==
    ASSUME IndInv, Tick
    PROVE  IndInv'
<1>1. /\ clock' = clock + 1 /\ clock' \in Time /\ clock \in Nat
      /\ UNCHANGED <<inventoryVars, seeding, accepting, applier, reads>>
  BY OrdersStockAssumption DEF Tick, IndInv, ControlTypeOK, Time
<1>2. InventoryInv' /\ LogIsOfOrders' /\ TimesInOrder' /\ ReadsAreOldTruths'
  BY <1>1, RowsUnchanged DEF inventoryVars, stock, accepting, applier
<1>3. ControlTypeOK'
  BY <1>1 DEF IndInv, ControlTypeOK, inventoryVars, book, seeding, accepting, applier
<1>4. CatalogueInv'
  BY <1>1 DEF IndInv, CatalogueInv, Levels, SeedsAreDisjoint, OrdersAreOfProducts,
     inventoryVars, book, stock, seeding, accepting
<1>5. TimesInv'
  <2>1. 0..clock \subseteq 0..clock'
    BY <1>1
  <2>2. QED
    BY <1>1, <1>2, <2>1 DEF IndInv, TimesInv, Book!Stored, inventoryVars, book, accepting, applier
<1>6. QED
  BY <1>2, <1>3, <1>4, <1>5 DEF IndInv

-----------------------------------------------------------------------------
(* Seeds.                                                                  *)

\* A step of a seed touches nothing but the catalogue.
LEMMA SeedStepPreserves ==
    ASSUME IndInv, UNCHANGED <<book, status, lastEventId, rewinds, clock, accepting, applier, reads>>,
           /\ products' \subseteq Skus
           /\ seed' \in [Seeders -> {"products", "levels", "commit"}]
           /\ newProducts' \in [Seeders -> SUBSET Skus]
           /\ newLevels' \in [Seeders -> SUBSET Skus],
           CatalogueInv'
    PROVE  IndInv'
<1>1. InventoryInv' /\ LogIsOfOrders' /\ TimesInOrder' /\ ReadsAreOldTruths'
  BY RowsUnchanged DEF accepting, applier
<1>2. ControlTypeOK'
  BY DEF IndInv, ControlTypeOK, book, accepting, applier
<1>3. TimesInv'
  BY <1>1 DEF IndInv, TimesInv, Book!Stored, book, accepting, applier
<1>4. QED
  BY <1>1, <1>2, <1>3 DEF IndInv

LEMMA InsertMissingProductsPreserves ==
    ASSUME IndInv, NEW k \in Seeders, InsertMissingProducts(k)
    PROVE  IndInv'
<1>1. /\ seed[k] = "products" /\ \A j \in Seeders \ {k} : newProducts[j] \cap DemoOf[k] = {}
      /\ newProducts' = [newProducts EXCEPT ![k] = DemoOf[k] \ products]
      /\ seed' = [seed EXCEPT ![k] = "levels"]
      /\ UNCHANGED <<book, onHand, status, lastEventId, rewinds, products, newLevels, clock,
                     accepting, applier, reads>>
  BY DEF InsertMissingProducts, inventoryVars, stock
<1>2. /\ products' \subseteq Skus
      /\ seed' \in [Seeders -> {"products", "levels", "commit"}]
      /\ newProducts' \in [Seeders -> SUBSET Skus]
      /\ newLevels' \in [Seeders -> SUBSET Skus]
  BY <1>1, OrdersStockAssumption DEF IndInv, ControlTypeOK
<1>3. SeedsAreDisjoint'
  BY <1>1 DEF IndInv, ControlTypeOK, CatalogueInv, SeedsAreDisjoint
<1>4. CatalogueInv'
  BY <1>1, <1>3 DEF IndInv, CatalogueInv, Levels, OrdersAreOfProducts, book, accepting
<1>5. QED
  BY <1>1, <1>2, <1>4, SeedStepPreserves

LEMMA InsertMissingLevelsPreserves ==
    ASSUME IndInv, NEW k \in Seeders, InsertMissingLevels(k)
    PROVE  IndInv'
<1> DEFINE missing == {sku \in DemoOf[k] : onHand[sku] = NoLevel}
<1>1. /\ seed[k] = "levels" /\ newLevels' = [newLevels EXCEPT ![k] = missing]
      /\ seed' = [seed EXCEPT ![k] = "commit"]
      /\ UNCHANGED <<book, onHand, status, lastEventId, rewinds, products, newProducts, clock,
                     accepting, applier, reads>>
  BY DEF InsertMissingLevels, inventoryVars, stock
<1>2. missing = DemoOf[k] \ products /\ missing \subseteq Skus
  BY OrdersStockAssumption DEF IndInv, CatalogueInv, Levels
<1> HIDE DEF missing
<1>3. /\ products' \subseteq Skus
      /\ seed' \in [Seeders -> {"products", "levels", "commit"}]
      /\ newProducts' \in [Seeders -> SUBSET Skus]
      /\ newLevels' \in [Seeders -> SUBSET Skus]
  BY <1>1, <1>2 DEF IndInv, ControlTypeOK
<1>4. SeedsAreDisjoint'
  BY <1>1, <1>2 DEF IndInv, ControlTypeOK, CatalogueInv, SeedsAreDisjoint
<1>5. CatalogueInv'
  BY <1>1, <1>4 DEF IndInv, CatalogueInv, Levels, OrdersAreOfProducts, book, accepting
<1>6. QED
  BY <1>1, <1>3, <1>5, SeedStepPreserves

LEMMA CommitSeedPreserves ==
    ASSUME IndInv, NEW k \in Seeders, CommitSeed(k)
    PROVE  IndInv'
<1>1. /\ seed[k] = "commit" /\ newLevels[k] = newProducts[k]
      /\ newProducts[k] = DemoOf[k] \ products /\ newProducts[k] \subseteq Skus
  BY DEF CommitSeed, IndInv, ControlTypeOK, CatalogueInv, SeedsAreDisjoint
<1>2. /\ products' = products \cup newProducts[k]
      /\ onHand' = [sku \in Skus |-> IF sku \in newLevels[k] THEN InitialOnHand[sku]
                                                            ELSE onHand[sku]]
      /\ seed' = [seed EXCEPT ![k] = "products"]
      /\ newProducts' = [newProducts EXCEPT ![k] = {}]
      /\ newLevels' = [newLevels EXCEPT ![k] = {}]
      /\ UNCHANGED <<book, status, lastEventId, rewinds, clock, accepting, applier, reads>>
  BY DEF CommitSeed, EndSeed
<1>3. /\ products' \subseteq Skus
      /\ seed' \in [Seeders -> {"products", "levels", "commit"}]
      /\ newProducts' \in [Seeders -> SUBSET Skus]
      /\ newLevels' \in [Seeders -> SUBSET Skus]
  BY <1>1, <1>2 DEF IndInv, ControlTypeOK
<1>4. onHand' \in [Skus -> Int \cup {NoLevel}] /\ products' = Levels'
  BY <1>1, <1>2, InventoryAssumption DEF IndInv, CatalogueInv, Levels
<1>5. SeedsAreDisjoint'
  <2>1. \A j \in Seeders \ {k} :
           /\ seed'[j] = seed[j] /\ newProducts'[j] = newProducts[j] /\ newLevels'[j] = newLevels[j]
           /\ newProducts[j] \cap newProducts[k] = {}
    BY <1>2 DEF IndInv, ControlTypeOK, CatalogueInv, SeedsAreDisjoint
  <2>2. /\ seed'[k] = "products" /\ newProducts'[k] = {} /\ newLevels'[k] = {}
    BY <1>2 DEF IndInv, ControlTypeOK
  <2>3. \A j \in Seeders \ {k} : seed[j] # "products" =>
           newProducts[j] = DemoOf[j] \ (products \cup newProducts[k])
    BY <2>1 DEF IndInv, CatalogueInv, SeedsAreDisjoint
  <2>4. QED
    BY <1>2, <2>1, <2>2, <2>3 DEF IndInv, CatalogueInv, SeedsAreDisjoint
<1>6. OrdersAreOfProducts'
  BY <1>2 DEF IndInv, CatalogueInv, OrdersAreOfProducts, book, accepting
<1>7. CatalogueInv'
  BY <1>4, <1>5, <1>6 DEF CatalogueInv
<1>8. QED
  BY <1>2, <1>3, <1>7, SeedStepPreserves

LEMMA RollbackSeedPreserves ==
    ASSUME IndInv, NEW k \in Seeders, RollbackSeed(k)
    PROVE  IndInv'
<1>1. /\ seed' = [seed EXCEPT ![k] = "products"]
      /\ newProducts' = [newProducts EXCEPT ![k] = {}]
      /\ newLevels' = [newLevels EXCEPT ![k] = {}]
      /\ UNCHANGED <<products, onHand, book, status, lastEventId, rewinds, clock, accepting,
                     applier, reads>>
  BY DEF RollbackSeed, EndSeed
<1>2. /\ products' \subseteq Skus
      /\ seed' \in [Seeders -> {"products", "levels", "commit"}]
      /\ newProducts' \in [Seeders -> SUBSET Skus]
      /\ newLevels' \in [Seeders -> SUBSET Skus]
  BY <1>1 DEF IndInv, ControlTypeOK
<1>3. SeedsAreDisjoint'
  BY <1>1 DEF IndInv, ControlTypeOK, CatalogueInv, SeedsAreDisjoint
<1>4. CatalogueInv'
  BY <1>1, <1>3 DEF IndInv, CatalogueInv, Levels, OrdersAreOfProducts, book, accepting
<1>5. QED
  BY <1>1, <1>2, <1>4, SeedStepPreserves

-----------------------------------------------------------------------------
(* Acceptance transactions.                                                *)

LEMMA PricePreserves ==
    ASSUME IndInv, NEW ref \in Refs, NEW payload \in Payloads, Price(ref, payload)
    PROVE  IndInv'
<1>1. /\ \A sku \in Skus : payload.qty[sku] > 0 => sku \in products
      /\ draft' = [draft EXCEPT ![ref] = payload] /\ begunAt' = [begunAt EXCEPT ![ref] = clock]
      /\ UNCHANGED <<inventoryVars, seeding, clock, acceptedAt, applier, reads>>
  BY DEF Price
<1>2. InventoryInv' /\ LogIsOfOrders' /\ TimesInOrder' /\ ReadsAreOldTruths'
  BY <1>1, RowsUnchanged DEF inventoryVars, stock, applier
<1>3. ControlTypeOK'
  BY <1>1 DEF IndInv, ControlTypeOK, inventoryVars, book, seeding, applier
<1>4. OrdersAreOfProducts'
  <2>1. \A r \in Refs : draft'[r] = IF r = ref THEN payload ELSE draft[r]
    BY <1>1 DEF IndInv, ControlTypeOK
  <2>2. {sku \in Skus : payload.qty[sku] > 0} \subseteq products
    BY <1>1
  <2>3. QED
    BY <1>1, <2>1, <2>2 DEF IndInv, CatalogueInv, OrdersAreOfProducts, inventoryVars, book, seeding
<1>5. CatalogueInv'
  BY <1>1, <1>4 DEF IndInv, CatalogueInv, Levels, SeedsAreDisjoint, inventoryVars, stock, seeding
<1>6. TimesInv'
  <2>1. clock \in 0..clock
    BY OrdersStockAssumption DEF IndInv, ControlTypeOK, Time
  <2>2. QED
    BY <1>1, <1>2, <2>1 DEF IndInv, ControlTypeOK, TimesInv, Book!Stored, inventoryVars, book,
       applier
<1>7. QED
  BY <1>2, <1>3, <1>5, <1>6 DEF IndInv

LEMMA RollbackDraftPreserves ==
    ASSUME IndInv, NEW ref \in Refs, RollbackDraft(ref)
    PROVE  IndInv'
<1>1. /\ draft' = [draft EXCEPT ![ref] = NoOrder] /\ begunAt' = [begunAt EXCEPT ![ref] = NoTime]
      /\ UNCHANGED <<inventoryVars, seeding, clock, acceptedAt, applier, reads>>
  BY DEF RollbackDraft, EndDraft
<1>2. InventoryInv' /\ LogIsOfOrders' /\ TimesInOrder' /\ ReadsAreOldTruths'
  BY <1>1, RowsUnchanged DEF inventoryVars, stock, applier
<1>3. ControlTypeOK'
  BY <1>1 DEF IndInv, ControlTypeOK, inventoryVars, book, seeding, applier
<1>4. \A r \in Refs : draft'[r] \in {draft[r], NoOrder}
  BY <1>1 DEF IndInv, ControlTypeOK
<1>5. CatalogueInv'
  BY <1>1, <1>4 DEF IndInv, CatalogueInv, Levels, SeedsAreDisjoint, OrdersAreOfProducts,
     inventoryVars, book, stock, seeding
<1>6. TimesInv'
  BY <1>1, <1>2 DEF IndInv, ControlTypeOK, TimesInv, Book!Stored, inventoryVars, book, applier
<1>7. QED
  BY <1>2, <1>3, <1>5, <1>6 DEF IndInv

\* The order appears with the time its transaction began at, which every batch
\* in progress is later than or has nothing to do with.
LEMMA CommitDraftPreserves ==
    ASSUME IndInv, NEW ref \in Refs, NEW id \in Book!EventIds, CommitDraft(ref, id)
    PROVE  IndInv'
<1> DEFINE new == [id |-> id, ref |-> ref, data |-> draft[ref]]
<1>1. /\ draft[ref] # NoOrder /\ draft[ref] \in Payloads /\ AcceptOrder(ref, draft[ref], id)
      /\ orders[ref] = NoOrder /\ orders' = [orders EXCEPT ![ref] = draft[ref]]
      /\ events' = events \cup {new} /\ new.ref = ref /\ new.data = draft[ref]
      /\ status' = [status EXCEPT ![ref] = "accepted"]
      /\ acceptedAt' = [acceptedAt EXCEPT ![ref] = begunAt[ref]]
      /\ draft' = [draft EXCEPT ![ref] = NoOrder] /\ begunAt' = [begunAt EXCEPT ![ref] = NoTime]
      /\ UNCHANGED <<onHand, lastEventId, rewinds, seeding, clock, applier, reads>>
  BY DEF CommitDraft, EndDraft, AcceptOrder, Book!Accept, Book!Stored, IndInv, ControlTypeOK
<1> HIDE DEF new
<1>2. InventoryInv'
  BY <1>1, AcceptOrderKeepsInventory DEF IndInv
<1>3. draft[ref].kind # "other_type" /\ draft[ref] # NoOrder
  BY <1>1, InventoryAssumption
<1>4. /\ \A r \in Refs \ {ref} : /\ orders'[r] = orders[r] /\ status'[r] = status[r]
                                 /\ acceptedAt'[r] = acceptedAt[r] /\ draft'[r] = draft[r]
                                 /\ begunAt'[r] = begunAt[r]
      /\ orders'[ref] = draft[ref] /\ status[ref] = "none" /\ status'[ref] = "accepted"
      /\ acceptedAt'[ref] = begunAt[ref] /\ draft'[ref] = NoOrder
      /\ begunAt[ref] \in 0..clock
  BY <1>1 DEF IndInv, InventoryInv, InventoryControlTypeOK, Book!BookTypeOK, LogIsSound,
     ControlTypeOK, TimesInv
<1>5. \A e \in batch : e.ref \in Refs \ {ref}
  BY <1>1 DEF IndInv, ControlTypeOK, InventoryInv, InventoryControlTypeOK, LogIsSound,
     Book!BookTypeOK, Book!Event
<1>6. ControlTypeOK'
  BY <1>1 DEF IndInv, ControlTypeOK, seeding, applier
<1>7. OrdersAreOfProducts'
  <2> SUFFICES ASSUME NEW r \in Refs, NEW order \in {orders'[r], draft'[r]} \ {NoOrder}
               PROVE  {sku \in Skus : order.qty[sku] > 0} \subseteq products
    BY <1>1 DEF OrdersAreOfProducts, seeding
  <2>1. order \in {orders[r], draft[r]} \ {NoOrder}
    BY <1>4
  <2>2. QED
    BY <2>1 DEF IndInv, CatalogueInv, OrdersAreOfProducts
<1>8. CatalogueInv'
  BY <1>1, <1>7 DEF IndInv, CatalogueInv, Levels, SeedsAreDisjoint, seeding
<1>9. TimesInv'
  <2>1. TimesInOrder'
    BY <1>1, <1>4 DEF IndInv, TimesInv, TimesInOrder, Committed, applier
  <2>2. applying' = "marked" => /\ markedAt' \in 0..clock'
                                /\ \A e \in batch' : acceptedAt'[e.ref] <= markedAt'
    BY <1>1, <1>4, <1>5 DEF IndInv, TimesInv, applier
  <2>3. QED
    BY <1>1, <1>4, <2>1, <2>2 DEF IndInv, TimesInv, Book!Stored
<1>10. LogIsOfOrders'
  BY <1>1, <1>3, <1>4 DEF IndInv, LogIsOfOrders, Accepted, Book!Stored
<1>11. ReadsAreOldTruths'
  <2>1. orderRead # NoRead /\ orderRead.status # "none" => orderRead.ref \in Refs \ {ref}
    BY <1>1 DEF IndInv, ReadsAreOldTruths, OrderRead, Book!Stored
  <2>2. orderRead # NoRead =>
           /\ orderRead \in OrderRead
           /\ orderRead.status # "none" =>
                 Book!Stored(orderRead.ref) /\ acceptedAt[orderRead.ref] = orderRead.acceptedAt
           /\ orderRead.status = "stock_committed" =>
                 /\ Committed(orderRead.ref)
                 /\ stockCommittedAt[orderRead.ref] = orderRead.stockCommittedAt
    BY DEF IndInv, ReadsAreOldTruths
  <2>3. UNCHANGED <<orderRead, stockRead, lastEventId, stockCommittedAt>>
    BY <1>1 DEF reads, applier
  <2>4. orderRead' # NoRead =>
           /\ orderRead' \in OrderRead
           /\ orderRead'.status # "none" =>
                 /\ orders'[orderRead'.ref] # NoOrder
                 /\ acceptedAt'[orderRead'.ref] = orderRead'.acceptedAt
           /\ orderRead'.status = "stock_committed" =>
                 /\ status'[orderRead'.ref] = "stock_committed"
                 /\ stockCommittedAt'[orderRead'.ref] = orderRead'.stockCommittedAt
    BY <1>4, <2>1, <2>2, <2>3 DEF Committed, Book!Stored
  <2>5. QED
    BY <2>3, <2>4 DEF IndInv, ReadsAreOldTruths, Committed, Book!Stored
<1>12. QED
  BY <1>2, <1>6, <1>8, <1>9, <1>10, <1>11 DEF IndInv

-----------------------------------------------------------------------------
(* The applier's transaction.                                              *)

\* A step of the transaction that nobody else can see.
LEMMA ApplierStepPreserves ==
    ASSUME IndInv,
           UNCHANGED <<inventoryVars, seeding, clock, accepting, stockCommittedAt, reads>>,
           applying' \in {"idle", "begun", "marked"}, applierNow' \in Time \cup {NoTime},
           markedAt' \in Time \cup {NoTime}, batch' \subseteq events,
           applying' = "marked" => /\ markedAt' \in 0..clock
                                   /\ \A e \in batch' : acceptedAt[e.ref] <= markedAt'
    PROVE  IndInv'
<1>1. InventoryInv' /\ LogIsOfOrders' /\ TimesInOrder' /\ ReadsAreOldTruths'
  BY RowsUnchanged DEF inventoryVars, stock, accepting
<1>2. ControlTypeOK'
  BY DEF IndInv, ControlTypeOK, inventoryVars, book, seeding, accepting
<1>3. CatalogueInv'
  BY DEF IndInv, CatalogueInv, Levels, SeedsAreDisjoint, OrdersAreOfProducts, inventoryVars,
     book, stock, seeding, accepting
<1>4. TimesInv'
  BY <1>1 DEF IndInv, TimesInv, Book!Stored, inventoryVars, book, accepting
<1>5. QED
  BY <1>1, <1>2, <1>3, <1>4 DEF IndInv

LEMMA BeginBatchPreserves ==
    ASSUME IndInv, BeginBatch
    PROVE  IndInv'
  BY ApplierStepPreserves DEF BeginBatch, IndInv, ControlTypeOK

\* What is read is committed, so it was accepted by a transaction that began
\* before the UPDATE of orders.
LEMMA MarkBatchPreserves ==
    ASSUME IndInv, MarkBatch
    PROVE  IndInv'
<1>1. /\ applying' = "marked" /\ batch' = NextBatch /\ markedAt' = clock
      /\ UNCHANGED <<inventoryVars, seeding, clock, accepting, applierNow, stockCommittedAt, reads>>
  BY DEF MarkBatch
<1>2. NextBatch \subseteq events
  BY DEF NextBatch, Book!ReadEvents
<1>3. clock \in Nat /\ clock \in Time
  BY OrdersStockAssumption DEF IndInv, ControlTypeOK, Time
<1>4. \A e \in events : acceptedAt[e.ref] \in 0..clock
  BY DEF IndInv, TimesInv, InventoryInv, InventoryControlTypeOK, LogIsSound, Book!BookTypeOK,
     Book!Event, Book!Stored
<1>5. QED
  BY <1>1, <1>2, <1>3, <1>4, ApplierStepPreserves DEF IndInv, ControlTypeOK

LEMMA RollbackBatchPreserves ==
    ASSUME IndInv, RollbackBatch
    PROVE  IndInv'
<1>1. /\ applying' = "idle" /\ applierNow' = NoTime /\ batch' = {} /\ markedAt' = NoTime
      /\ UNCHANGED <<inventoryVars, seeding, clock, accepting, stockCommittedAt, reads>>
  BY DEF RollbackBatch, EndBatch
<1>2. QED
  BY <1>1, ApplierStepPreserves

LEMMA CommitBatchPreserves ==
    ASSUME IndInv, CommitBatch
    PROVE  IndInv' /\ lastEventId < lastEventId'
<1> DEFINE moving == Moving(batch)
<1>1. /\ applying = "marked" /\ FollowsOffset(batch) /\ ~Poisoned(batch)
      /\ \A sku \in Skus : Quantity(batch, moving, sku) > 0 => Decrementable(batch, moving, sku)
      /\ Publish(batch, moving) /\ UNCHANGED <<book, rewinds>>
      /\ stockCommittedAt' = [ref \in Refs |-> IF ref \in moving THEN markedAt
                                                                ELSE stockCommittedAt[ref]]
      /\ applying' = "idle" /\ applierNow' = NoTime /\ batch' = {} /\ markedAt' = NoTime
      /\ UNCHANGED <<seeding, clock, accepting, reads>>
  BY DEF CommitBatch, Apply, EndBatch
<1>2. batch \in SUBSET events /\ InventoryTypeOK
  BY DEF IndInv, ControlTypeOK, InventoryInv, InventoryTypeOK, CatalogueInv
<1>3. InventoryInv' /\ lastEventId < lastEventId'
  BY <1>1, <1>2, PublishKeepsInventory DEF IndInv
<1>4. /\ onHand' \in [Skus -> Int \cup {NoLevel}]
      /\ \A sku \in Skus : onHand'[sku] = NoLevel <=> onHand[sku] = NoLevel
  BY <1>1, <1>2, PublishKeepsLevels
<1>5. /\ status' = [ref \in Refs |-> IF ref \in moving THEN "stock_committed" ELSE status[ref]]
      /\ \A ref \in moving : status[ref] = "accepted" /\ \E e \in batch : e.ref = ref
      /\ markedAt \in 0..clock /\ \A ref \in moving : acceptedAt[ref] <= markedAt
  BY <1>1 DEF Publish, Moving, StillAccepted, Accepted, IndInv, TimesInv
<1> HIDE DEF moving
<1>6. ControlTypeOK'
  BY <1>1, <1>5, OrdersStockAssumption DEF IndInv, ControlTypeOK, Time, seeding, accepting, book
<1>7. CatalogueInv'
  <2>1. Levels' = Levels
    BY <1>4 DEF Levels
  <2>2. QED
    BY <1>1, <1>4, <2>1 DEF IndInv, CatalogueInv, SeedsAreDisjoint, OrdersAreOfProducts, seeding,
       book, accepting
<1>8. TimesInv'
  <2>1. markedAt # NoTime
    BY <1>5, OrdersStockAssumption
  <2>2. TimesInOrder'
    BY <1>1, <1>5, <2>1 DEF IndInv, TimesInv, TimesInOrder, Committed, accepting
  <2>3. QED
    BY <1>1, <2>2 DEF IndInv, TimesInv, Book!Stored, book, accepting
<1>9. LogIsOfOrders'
  BY <1>1 DEF IndInv, LogIsOfOrders, Accepted, Book!Stored, book
<1>10. ReadsAreOldTruths'
  <2>1. \A ref \in Refs : Committed(ref) => /\ status'[ref] = "stock_committed"
                                            /\ stockCommittedAt'[ref] = stockCommittedAt[ref]
    BY <1>1, <1>5 DEF Committed
  <2>2. UNCHANGED <<orders, acceptedAt, orderRead, stockRead>>
    BY <1>1 DEF book, accepting, reads
  <2>3. stockRead # NoRead => stockRead \in StockRead /\ stockRead.asOf <= lastEventId'
    <3>1. lastEventId \in Nat /\ lastEventId' \in Nat
      BY <1>3, InventoryAssumption DEF IndInv, InventoryInv, InventoryControlTypeOK
    <3>2. stockRead # NoRead => stockRead.asOf \in Nat /\ stockRead \in StockRead
                                /\ stockRead.asOf <= lastEventId
      BY InventoryAssumption DEF IndInv, ReadsAreOldTruths, StockRead
    <3>3. QED
      BY <1>3, <3>1, <3>2
  <2>4. orderRead # NoRead => orderRead.ref \in Refs
    BY DEF IndInv, ReadsAreOldTruths, OrderRead
  <2>5. QED
    BY <2>1, <2>2, <2>3, <2>4 DEF IndInv, ReadsAreOldTruths, Book!Stored, Committed
<1>11. QED
  BY <1>3, <1>6, <1>7, <1>8, <1>9, <1>10 DEF IndInv

-----------------------------------------------------------------------------
(* Reads.                                                                  *)

\* A read leaves everything but itself alone.
LEMMA ReadStepPreserves ==
    ASSUME IndInv, UNCHANGED <<inventoryVars, seeding, clock, accepting, applier>>,
           ReadsAreOldTruths'
    PROVE  IndInv'
<1>1. InventoryInv' /\ LogIsOfOrders' /\ TimesInOrder'
  BY RowsUnchanged DEF inventoryVars, stock, accepting, applier
<1>2. ControlTypeOK'
  BY DEF IndInv, ControlTypeOK, inventoryVars, book, seeding, accepting, applier
<1>3. CatalogueInv'
  BY DEF IndInv, CatalogueInv, Levels, SeedsAreDisjoint, OrdersAreOfProducts, inventoryVars,
     book, stock, seeding, accepting
<1>4. TimesInv'
  BY <1>1 DEF IndInv, TimesInv, Book!Stored, inventoryVars, book, accepting, applier
<1>5. QED
  BY <1>1, <1>2, <1>3, <1>4 DEF IndInv

LEMMA GetOrderPreserves ==
    ASSUME IndInv, NEW ref \in Refs, GetOrder(ref)
    PROVE  IndInv'
<1>1. /\ orderRead' = [ref |-> ref, status |-> status[ref], acceptedAt |-> acceptedAt[ref],
                       stockCommittedAt |-> stockCommittedAt[ref]]
      /\ UNCHANGED <<orders, status, lastEventId, acceptedAt, stockCommittedAt, stockRead>>
      /\ UNCHANGED <<inventoryVars, seeding, clock, accepting, applier>>
  BY DEF GetOrder, inventoryVars, book, stock, accepting, applier
<1>2. status[ref] # "none" => Book!Stored(ref)
  BY DEF IndInv, InventoryInv, LogIsSound, Book!Stored
<1>3. orderRead' \in OrderRead
  BY <1>1 DEF IndInv, InventoryInv, InventoryControlTypeOK, ControlTypeOK, OrderRead
<1>4. ReadsAreOldTruths'
  BY <1>1, <1>2, <1>3 DEF IndInv, ReadsAreOldTruths, Committed, Book!Stored
<1>5. QED
  BY <1>1, <1>4, ReadStepPreserves

LEMMA GetStockPreserves ==
    ASSUME IndInv, NEW sku \in Skus, GetStock(sku)
    PROVE  IndInv'
<1>1. /\ stockRead' = IF onHand[sku] = NoLevel THEN NoRead
                      ELSE [sku |-> sku, onHand |-> onHand[sku], asOf |-> lastEventId]
      /\ UNCHANGED <<orders, status, lastEventId, acceptedAt, stockCommittedAt, orderRead>>
      /\ UNCHANGED <<inventoryVars, seeding, clock, accepting, applier>>
  BY DEF GetStock, inventoryVars, book, stock, accepting, applier
<1>2. lastEventId \in 0..MaxEventId /\ lastEventId <= lastEventId
  BY InventoryAssumption DEF IndInv, InventoryInv, InventoryControlTypeOK
<1>3. stockRead' # NoRead => stockRead' \in StockRead /\ stockRead'.asOf <= lastEventId
  BY <1>1, <1>2 DEF IndInv, CatalogueInv, StockRead
<1>4. ReadsAreOldTruths'
  BY <1>1, <1>3 DEF IndInv, ReadsAreOldTruths, Committed, Book!Stored
<1>5. QED
  BY <1>1, <1>4, ReadStepPreserves

LEMMA StutterPreserves ==
    ASSUME IndInv, UNCHANGED vars
    PROVE  IndInv'
<1>1. ReadsAreOldTruths'
  BY DEF vars, inventoryVars, book, stock, accepting, applier, reads, IndInv, ReadsAreOldTruths,
     Committed, Book!Stored
<1>2. QED
  BY <1>1, ReadStepPreserves DEF vars

LEMMA StepPreserves ==
    ASSUME IndInv, [Next]_vars
    PROVE  IndInv'
<1>1. ASSUME NEW k \in Seeders,
             InsertMissingProducts(k) \/ InsertMissingLevels(k) \/ CommitSeed(k) \/ RollbackSeed(k)
      PROVE  IndInv'
  BY <1>1, InsertMissingProductsPreserves, InsertMissingLevelsPreserves, CommitSeedPreserves,
     RollbackSeedPreserves
<1>2. ASSUME NEW ref \in Refs, NEW payload \in Payloads, Price(ref, payload)
      PROVE  IndInv'
  BY <1>2, PricePreserves
<1>3. ASSUME NEW ref \in Refs, NEW id \in Book!EventIds, CommitDraft(ref, id)
      PROVE  IndInv'
  BY <1>3, CommitDraftPreserves
<1>4. ASSUME NEW ref \in Refs, RollbackDraft(ref) \/ GetOrder(ref)
      PROVE  IndInv'
  BY <1>4, RollbackDraftPreserves, GetOrderPreserves
<1>5. CASE BeginBatch \/ MarkBatch \/ CommitBatch \/ RollbackBatch
  BY <1>5, BeginBatchPreserves, MarkBatchPreserves, CommitBatchPreserves, RollbackBatchPreserves
<1>6. ASSUME NEW sku \in Skus, GetStock(sku)
      PROVE  IndInv'
  BY <1>6, GetStockPreserves
<1>7. CASE Tick
  BY <1>7, TickPreserves
<1>8. CASE UNCHANGED vars
  BY <1>8, StutterPreserves
<1>9. QED
  BY <1>1, <1>2, <1>3, <1>4, <1>5, <1>6, <1>7, <1>8 DEF Next

\* IndInv is an invariant of the composed system.
LEMMA Invariance == Spec => []IndInv
<1>1. Init => IndInv
  BY InitEstablishes
<1>2. IndInv /\ [Next]_vars => IndInv'
  BY StepPreserves
<1>3. QED
  BY <1>1, <1>2, PTL DEF Spec

-----------------------------------------------------------------------------
(* What a client makes of two reads.                                       *)

\* Only the two routes change what the client holds.
LEMMA OnlyRoutesRead ==
    ASSUME Next, reads' # reads
    PROVE  (\E ref \in Refs : GetOrder(ref)) \/ (\E sku \in Skus : GetStock(sku))
<1>1. ASSUME NEW k \in Seeders,
             InsertMissingProducts(k) \/ InsertMissingLevels(k) \/ CommitSeed(k) \/ RollbackSeed(k)
      PROVE  UNCHANGED reads
  BY <1>1 DEF InsertMissingProducts, InsertMissingLevels, CommitSeed, RollbackSeed, EndSeed
<1>2. ASSUME NEW ref \in Refs, NEW payload \in Payloads, Price(ref, payload)
      PROVE  UNCHANGED reads
  BY <1>2 DEF Price
<1>3. ASSUME NEW ref \in Refs, NEW id \in Book!EventIds, CommitDraft(ref, id)
      PROVE  UNCHANGED reads
  BY <1>3 DEF CommitDraft, EndDraft
<1>4. ASSUME NEW ref \in Refs, RollbackDraft(ref)
      PROVE  UNCHANGED reads
  BY <1>4 DEF RollbackDraft, EndDraft
<1>5. CASE BeginBatch \/ MarkBatch \/ CommitBatch \/ RollbackBatch \/ Tick
  BY <1>5 DEF BeginBatch, MarkBatch, CommitBatch, RollbackBatch, EndBatch, Tick
<1>6. QED
  BY <1>1, <1>2, <1>3, <1>4, <1>5 DEF Next

\* The event of a stored order is the only one there is.
LEMMA EventOfIsItsEvent ==
    ASSUME IndInv, NEW ref \in Refs, Book!Stored(ref)
    PROVE  /\ EventOf(ref) \in events /\ EventOf(ref).ref = ref
           /\ EventOf(ref).id <= lastEventId <=> Committed(ref)
<1>1. EventOf(ref) \in events /\ EventOf(ref).ref = ref
  BY DEF IndInv, LogIsOfOrders, EventOf
<1>2. QED
  BY <1>1 DEF IndInv, LogIsOfOrders, InventoryInv, OffsetMatchesStatus

ReadStep ==
    /\ stockRead' # stockRead /\ stockRead' # NoRead =>
          /\ stockRead # NoRead => stockRead'.asOf >= stockRead.asOf
          /\ orderRead # NoRead /\ orderRead.status = "stock_committed" =>
                EventOf(orderRead.ref).id <= stockRead'.asOf
    /\ orderRead' # orderRead =>
          /\ stockRead # NoRead /\ Book!Stored(orderRead'.ref)
               /\ EventOf(orderRead'.ref).id <= stockRead.asOf =>
                orderRead'.status = "stock_committed"
          /\ orderRead # NoRead /\ orderRead.ref = orderRead'.ref =>
                /\ orderRead.status # "none" => orderRead.acceptedAt = orderRead'.acceptedAt
                /\ orderRead.status = "stock_committed" => orderRead' = orderRead

LEMMA GetStockAgrees ==
    ASSUME IndInv, NEW sku \in Skus, GetStock(sku)
    PROVE  ReadStep
<1>1. orderRead' = orderRead /\ (stockRead' # NoRead => stockRead'.asOf = lastEventId)
  BY DEF GetStock
<1>2. stockRead # NoRead => stockRead.asOf \in Nat /\ lastEventId \in Nat
                            /\ lastEventId >= stockRead.asOf
  BY InventoryAssumption DEF IndInv, ReadsAreOldTruths, StockRead, InventoryInv,
     InventoryControlTypeOK
<1>3. orderRead # NoRead /\ orderRead.status = "stock_committed" =>
         EventOf(orderRead.ref).id <= lastEventId
  BY EventOfIsItsEvent DEF IndInv, ReadsAreOldTruths, OrderRead
<1>4. QED
  BY <1>1, <1>2, <1>3 DEF ReadStep

LEMMA GetOrderAgrees ==
    ASSUME IndInv, NEW ref \in Refs, GetOrder(ref)
    PROVE  ReadStep
<1>1. /\ orderRead' = [ref |-> ref, status |-> status[ref], acceptedAt |-> acceptedAt[ref],
                       stockCommittedAt |-> stockCommittedAt[ref]]
      /\ stockRead' = stockRead
  BY DEF GetOrder
<1>2. ASSUME stockRead # NoRead, Book!Stored(ref), EventOf(ref).id <= stockRead.asOf
      PROVE  status[ref] = "stock_committed"
  <2>1. stockRead.asOf \in Nat /\ lastEventId \in Nat /\ stockRead.asOf <= lastEventId
    BY <1>2, InventoryAssumption DEF IndInv, ReadsAreOldTruths, StockRead, InventoryInv,
       InventoryControlTypeOK
  <2>2. EventOf(ref).id \in Nat
    BY <1>2, EventOfIsItsEvent DEF IndInv, InventoryInv, InventoryControlTypeOK, Book!BookTypeOK,
       Book!Event, Book!EventIds
  <2>3. Committed(ref)
    BY <1>2, <2>1, <2>2, EventOfIsItsEvent
  <2>4. QED
    BY <2>3 DEF Committed
<1>3. ASSUME orderRead # NoRead, orderRead.ref = ref
      PROVE  /\ orderRead.status # "none" => orderRead.acceptedAt = acceptedAt[ref]
             /\ orderRead.status = "stock_committed" => orderRead' = orderRead
  BY <1>1, <1>3 DEF IndInv, ReadsAreOldTruths, OrderRead, Committed
<1>4. QED
  BY <1>1, <1>2, <1>3 DEF ReadStep

-----------------------------------------------------------------------------
(* The units that a stock read tells.                                      *)

RefsUpTo(id) == {e.ref : e \in {e \in Accepted(events) : e.id <= id}}

StockInv == rewinds = 0 /\ LevelsAreExact /\ StockReadStaysExact

LEMMA InitStockIsExact ==
    ASSUME Init
    PROVE  StockInv
  BY InitLevelsAreExact DEF Init, InventoryInit, StockInv, StockReadStaysExact

\* While the log stays, so does what it says about an answer.
LEMMA SameLogKeepsStockExact ==
    ASSUME StockInv, UNCHANGED <<events, rewinds, stockRead>>, LevelsAreExact'
    PROVE  StockInv'
  BY DEF StockInv, StockReadStaysExact, Ordered

LEMMA QuietStepKeepsStockExact ==
    ASSUME StockInv, UNCHANGED <<inventoryVars, stockRead>>
    PROVE  StockInv'
<1>1. UNCHANGED <<book, events, status, onHand, rewinds, stockRead>>
  BY DEF inventoryVars, book, stock
<1>2. LevelsAreExact'
  BY <1>1, InsertKeepsLevelsExact DEF StockInv
<1>3. QED
  BY <1>1, <1>2, SameLogKeepsStockExact

\* A seed inserts a level only where none was.
LEMMA CommitSeedKeepsStockExact ==
    ASSUME IndInv, StockInv, NEW k \in Seeders, CommitSeed(k)
    PROVE  StockInv'
<1>1. /\ seed[k] = "commit"
      /\ onHand' = [sku \in Skus |-> IF sku \in newLevels[k] THEN InitialOnHand[sku] ELSE onHand[sku]]
      /\ UNCHANGED <<book, events, status, rewinds, stockRead>>
  BY DEF CommitSeed, EndSeed, book, reads
<1>2. \A sku \in Skus : sku \in newLevels[k] => onHand[sku] = NoLevel
  BY <1>1 DEF IndInv, CatalogueInv, SeedsAreDisjoint, Levels
<1>3. LevelsAreExact'
  BY <1>1, <1>2, InsertKeepsLevelsExact DEF StockInv
<1>4. QED
  BY <1>1, <1>3, SameLogKeepsStockExact

\* A new event lies above every offset that was told to anyone.
LEMMA CommitDraftKeepsStockExact ==
    ASSUME IndInv, StockInv, NEW ref \in Refs, NEW id \in Book!EventIds, CommitDraft(ref, id)
    PROVE  StockInv'
<1>1. /\ draft[ref] \in Payloads /\ AcceptOrder(ref, draft[ref], id)
      /\ events' = events \cup {[id |-> id, ref |-> ref, data |-> draft[ref]]}
      /\ \A e \in events : e.id < id
      /\ UNCHANGED <<rewinds, stockRead>>
  BY DEF CommitDraft, EndDraft, AcceptOrder, Book!Accept, IndInv, ControlTypeOK, reads
<1>2. LevelsAreExact'
  <2>1. LogGrows
    BY <1>1 DEF LogGrows
  <2>2. QED
    BY <2>1, LogGrowsKeepsLevelsExact DEF IndInv, StockInv
<1>3. ASSUME stockRead # NoRead
      PROVE  Ordered(RefsUpTo(stockRead.asOf), stockRead.sku)' = Ordered(RefsUpTo(stockRead.asOf), stockRead.sku)
  <2> DEFINE asOf == stockRead.asOf
             new == [id |-> id, ref |-> ref, data |-> draft[ref]]
             same == RefsUpTo(asOf)
  <2>1. asOf < id
    <3>1. asOf \in Nat /\ lastEventId \in Nat /\ asOf <= lastEventId
      BY <1>3, InventoryAssumption DEF IndInv, ReadsAreOldTruths, StockRead, InventoryInv,
         InventoryControlTypeOK
    <3>2. lastEventId < id /\ id \in Nat
      BY <1>1, NewEventIsAhead DEF IndInv, Book!EventIds
    <3>3. QED
      BY <3>1, <3>2
  <2>2. asOf \in Nat /\ id \in Nat
    BY <1>3, InventoryAssumption DEF IndInv, ReadsAreOldTruths, StockRead, Book!EventIds
  <2>3. new.id = id /\ new.ref = ref /\ ~(new.id <= asOf)
    BY <2>1, <2>2
  <2>4. Accepted(events') \ Accepted(events) \subseteq {new} /\ Accepted(events) \subseteq Accepted(events')
    BY <1>1 DEF Accepted
  <2> HIDE DEF new
  <2>5. RefsUpTo(asOf)' = same
    BY <1>1, <2>3, <2>4 DEF RefsUpTo
  <2>6. \A e \in Accepted(events) : e.ref # ref
    BY <1>1 DEF Accepted, AcceptOrder, Book!Accept, Book!Stored, IndInv, InventoryInv, LogIsSound
  <2>7. ref \notin same
    BY <2>6 DEF RefsUpTo
  <2>8. \A e : e \in Accepted(events') /\ e.ref \in same <=> e \in Accepted(events) /\ e.ref \in same
    BY <2>3, <2>4, <2>7
  <2> HIDE DEF same
  <2>9. Quantity(events', same, stockRead.sku) = Quantity(events, same, stockRead.sku)
    BY <2>8, OtherEventsDoNotCount
  <2>10. QED
    BY <1>1, <2>5, <2>9 DEF Ordered, same
<1>4. StockReadStaysExact'
  BY <1>1, <1>3 DEF StockInv, StockReadStaysExact, RefsUpTo
<1>5. QED
  BY <1>1, <1>2, <1>4 DEF StockInv

LEMMA CommitBatchKeepsStockExact ==
    ASSUME IndInv, StockInv, CommitBatch
    PROVE  StockInv'
<1>1. /\ \A sku \in Skus : Quantity(batch, Moving(batch), sku) > 0 =>
                              Decrementable(batch, Moving(batch), sku)
      /\ Publish(batch, Moving(batch))
      /\ UNCHANGED <<book, events, rewinds, stockRead>>
  BY DEF CommitBatch, Apply, EndBatch, book, reads
<1>2. batch \in SUBSET events
  BY DEF IndInv, ControlTypeOK
<1>3. LevelsAreExact'
  BY <1>1, <1>2, PublishKeepsLevelsExact DEF IndInv, StockInv
<1>4. QED
  BY <1>1, <1>3, SameLogKeepsStockExact

LEMMA GetStockKeepsStockExact ==
    ASSUME IndInv, StockInv, NEW sku \in Skus, GetStock(sku)
    PROVE  StockInv'
<1>1. /\ stockRead' = IF onHand[sku] = NoLevel THEN NoRead
                      ELSE [sku |-> sku, onHand |-> onHand[sku], asOf |-> lastEventId]
      /\ UNCHANGED <<book, events, status, onHand, rewinds>>
  BY DEF GetStock, inventoryVars, book, stock
<1>2. LevelsAreExact'
  BY <1>1, InsertKeepsLevelsExact DEF StockInv
<1>3. onHand[sku] # NoLevel =>
         onHand[sku] = InitialOnHand[sku] - Ordered(RefsUpTo(lastEventId), sku)
  BY OffsetTellsTheLevels DEF IndInv, StockInv, AsOfIsExact, RefsUpTo
<1>4. StockReadStaysExact'
  BY <1>1, <1>3 DEF StockReadStaysExact, RefsUpTo, Ordered, Accepted
<1>5. QED
  BY <1>1, <1>2, <1>4 DEF StockInv

LEMMA StepKeepsStockExact ==
    ASSUME IndInv, StockInv, [Next]_vars
    PROVE  StockInv'
<1>1. ASSUME NEW k \in Seeders,
             InsertMissingProducts(k) \/ InsertMissingLevels(k) \/ RollbackSeed(k)
      PROVE  StockInv'
  BY <1>1, QuietStepKeepsStockExact DEF InsertMissingProducts, InsertMissingLevels, RollbackSeed,
     EndSeed, inventoryVars, stock, reads
<1>2. ASSUME NEW ref \in Refs, NEW payload \in Payloads, Price(ref, payload)
      PROVE  StockInv'
  BY <1>2, QuietStepKeepsStockExact DEF Price, reads
<1>3. ASSUME NEW ref \in Refs, RollbackDraft(ref) \/ GetOrder(ref)
      PROVE  StockInv'
  BY <1>3, QuietStepKeepsStockExact DEF RollbackDraft, EndDraft, GetOrder, reads
<1>4. CASE BeginBatch \/ MarkBatch \/ RollbackBatch \/ Tick \/ UNCHANGED vars
  BY <1>4, QuietStepKeepsStockExact DEF BeginBatch, MarkBatch, RollbackBatch, EndBatch, Tick,
     vars, reads
<1>5. QED
  BY <1>1, <1>2, <1>3, <1>4, CommitSeedKeepsStockExact, CommitDraftKeepsStockExact,
     CommitBatchKeepsStockExact, GetStockKeepsStockExact DEF Next

-----------------------------------------------------------------------------
(* The results.                                                            *)

\* The types of the state; on_hand stays a number because a batch that would
\* leave the column is refused.
THEOREM OrdersStockTypeCorrect == Spec => []OrdersStockTypeOK
<1>1. IndInv => OrdersStockTypeOK
  BY DEF IndInv, ControlTypeOK, CatalogueInv, InventoryInv, ReadsAreOldTruths,
     InventoryTypeOK, OrdersStockTypeOK
<1>2. QED
  BY <1>1, Invariance, PTL

\* INV-STK-1 for any number of seeds and releases: products, stock levels and
\* the SKUs of orders never come apart (insert_demo_catalogue).
THEOREM EveryProductAlwaysHasALevel == Spec => []EveryProductHasALevel
<1>1. IndInv => EveryProductHasALevel
  BY DEF IndInv, CatalogueInv, Levels, OrdersAreOfProducts, EveryProductHasALevel
<1>2. QED
  BY <1>1, Invariance, PTL

\* INV-ORD-7: no order is committed to stock before it was accepted, by the
\* times its row records (update_stock_committed).
THEOREM TimesAlwaysInOrder == Spec => []TimesInOrder
<1>1. IndInv => TimesInOrder
  BY DEF IndInv, TimesInv
<1>2. QED
  BY <1>1, Invariance, PTL

\* Two reads of one client, of either resource in either order, agree, whatever
\* was committed in between (get_order, get_stock_level).
THEOREM ReadsAlwaysAgree == Spec => ReadsAgree
<1>1. ASSUME IndInv, [Next]_vars
      PROVE  [ReadStep]_reads
  <2>1. CASE UNCHANGED reads
    BY <2>1
  <2>2. CASE reads' # reads
    <3>1. Next
      BY <1>1, <2>2 DEF vars
    <3>2. QED
      BY <1>1, <2>2, <3>1, OnlyRoutesRead, GetOrderAgrees, GetStockAgrees
  <2>3. QED
    BY <2>1, <2>2
<1>2. ReadsAgree <=> [][ReadStep]_reads
  BY PTL DEF ReadsAgree, ReadStep
<1>3. QED
  BY <1>1, <1>2, Invariance, PTL DEF Spec

\* The answer of GET /stock a client holds includes exactly the events at or
\* below its as_of_event_id, for as long as it holds it (get_stock).
THEOREM StockReadsAlwaysExact == Spec => []StockReadStaysExact
<1>1. Init => StockInv
  BY InitStockIsExact
<1>2. IndInv /\ StockInv /\ [Next]_vars => StockInv'
  BY StepKeepsStockExact
<1>3. StockInv => StockReadStaysExact
  BY DEF StockInv
<1>4. QED
  BY <1>1, <1>2, <1>3, Invariance, PTL DEF Spec

-----------------------------------------------------------------------------
(* The refinement: four of the transactions change what the inventory      *)
(* shows, each when it commits, and nothing else does.                     *)

\* The levels that a seed commits are still missing then, or there are none.
LEMMA CommitSeedSimulates ==
    ASSUME IndInv, NEW k \in Seeders, CommitSeed(k)
    PROVE  [InventoryNext]_inventoryVars
<1> DEFINE new == newLevels[k]
<1>1. /\ onHand' = [sku \in Skus |-> IF sku \in new THEN InitialOnHand[sku] ELSE onHand[sku]]
      /\ UNCHANGED <<book, status, lastEventId, rewinds>>
  BY DEF CommitSeed, EndSeed
<1>2. new \in SUBSET Missing
  BY DEF CommitSeed, IndInv, ControlTypeOK, CatalogueInv, SeedsAreDisjoint, Levels, Missing
<1> HIDE DEF new
<1>3. CASE new # {}
  BY <1>1, <1>2, <1>3 DEF InventoryNext, InsertMissingStockLevels
<1>4. CASE new = {}
  BY <1>1, <1>4 DEF IndInv, CatalogueInv, inventoryVars, stock
<1>5. QED
  BY <1>3, <1>4

LEMMA CommitDraftSimulates ==
    ASSUME IndInv, NEW ref \in Refs, NEW id \in Book!EventIds, CommitDraft(ref, id)
    PROVE  InventoryNext
<1>1. draft[ref] \in Payloads /\ AcceptOrder(ref, draft[ref], id)
  BY DEF CommitDraft, IndInv, ControlTypeOK
<1>2. QED
  BY <1>1 DEF InventoryNext, LogGrows

LEMMA StepSimulates ==
    ASSUME IndInv, [Next]_vars
    PROVE  [InventoryNext]_inventoryVars
<1>1. ASSUME NEW k \in Seeders,
             InsertMissingProducts(k) \/ InsertMissingLevels(k) \/ RollbackSeed(k)
      PROVE  UNCHANGED inventoryVars
  BY <1>1 DEF InsertMissingProducts, InsertMissingLevels, RollbackSeed, EndSeed, inventoryVars,
     stock
<1>2. ASSUME NEW ref \in Refs,
             \/ \E payload \in Payloads : Price(ref, payload)
             \/ RollbackDraft(ref) \/ GetOrder(ref)
      PROVE  UNCHANGED inventoryVars
  BY <1>2 DEF Price, RollbackDraft, GetOrder
<1>3. CASE CommitBatch
  BY <1>3 DEF CommitBatch, InventoryNext, IndInv, ControlTypeOK
<1>4. CASE \/ BeginBatch \/ MarkBatch \/ RollbackBatch \/ Tick
           \/ \E sku \in Skus : GetStock(sku)
           \/ UNCHANGED vars
  BY <1>4 DEF BeginBatch, MarkBatch, RollbackBatch, Tick, GetStock, vars
<1>5. QED
  BY <1>1, <1>2, <1>3, <1>4, CommitSeedSimulates, CommitDraftSimulates DEF Next

\* Seeds, acceptances, batches and reads around one database: no transaction
\* shows a part of itself, for any number of each (insert_demo_catalogue,
\* accept_order, apply_next_batch).
THEOREM OrdersStockImplementsInventory == Spec => ImplementsInventory
<1>1. Init => InventoryInit
  BY DEF Init
<1>2. IndInv /\ [Next]_vars => [InventoryNext]_inventoryVars
  BY StepSimulates
<1>3. QED
  BY <1>1, <1>2, Invariance, PTL DEF Spec, ImplementsInventory, InventorySpec

\* And of the composed system, with its seeds, acceptances and reads
\* (insert_demo_catalogue, accept_order, apply_next_batch, get_stock).
THEOREM OrdersStockKeepsThePromise ==
    Spec => [](OffsetMatchesStatus /\ StockConserved /\ AsOfIsExact) /\ OffsetOnlyIncreases
<1>1. Spec => InventorySpec
  BY OrdersStockImplementsInventory DEF ImplementsInventory
<1>2. QED
  BY <1>1, InventoryKeepsOffset, InventoryConservesStock, InventoryMovesForward, PTL

=============================================================================
