------------------------------- MODULE Intake -------------------------------
(***************************************************************************)
(* POST /orders: orders/routes.py create_order and the acceptance          *)
(* transaction of orders/service.py accept_order, statement by statement,  *)
(* for any number of concurrent submissions over one PostgreSQL database   *)
(* in READ COMMITTED.                                                      *)
(*                                                                         *)
(* products, orders and events hold what is committed.  What a transaction *)
(* has written and not committed is a function of its control state: from  *)
(* "items" to "commit" it owns the uncommitted orders row of its ref (the  *)
(* unique index makes others wait for it), from "append" to "commit" the   *)
(* advisory append lock.  A session whose handler is gone (answer is not   *)
(* "none") keeps both until PostgreSQL reaps it.                           *)
(***************************************************************************)
EXTENDS Integers, Sequences, FiniteSets, FiniteSetsExt

CONSTANTS Requests,     \* HTTP requests, each received at most once
          Refs, Customers, Skus,
          Submissions,  \* the bodies clients send
          Catalogue,    \* products and prices before the first request
          Prices,       \* prices a product can get later
          PoolMaxSize,  \* connections of the API's pool
          MaxEventId,   \* the largest value of the order_events identity
          MaxCents,     \* the largest value of total_cents
          NoOrder, NoPrice, NoBody, Nobody

Body == [ref: Refs, customer: Customers, items: Seq([sku: Skus, qty: Nat])]
Order == [customer: Customers, items: SUBSET [sku: Skus, qty: Nat, price: Nat]]
Content == Customers \X SUBSET [sku: Skus, qty: Nat]

ASSUME IntakeAssumption ==
    /\ Submissions \subseteq Body
    /\ NoBody \notin Submissions \cup [ref: Refs, content: Content]
    /\ Prices \subseteq Nat
    /\ NoPrice \notin Nat
    /\ Catalogue \in [Skus -> Nat \cup {NoPrice}]
    /\ PoolMaxSize \in Nat \ {0}
    /\ MaxEventId \in Nat \ {0}
    /\ MaxCents \in Nat
    /\ NoOrder \notin Order \cup Content
    /\ Nobody \notin Requests

VARIABLES
    products,     \* sku -> price_cents, NoPrice for a SKU not in the catalogue
    orders,       \* order_ref -> the committed order, or NoOrder
    events,       \* committed rows of order_events
    nextEventId,  \* the identity sequence: draws are never rolled back
    appendLock,   \* the request whose transaction holds APPEND_LOCK_KEY
    pc,           \* per request: the next statement of its handler
    body,         \* per request: the parsed OrderCreate
    draft,        \* per request: the Order object the handler holds
    eventId,      \* per request: the event_id drawn for it, 0 before
    answer        \* per request: what its client got, "none" while it waits

vars == <<products, orders, events, nextEventId, appendLock,
          pc, body, draft, eventId, answer>>

Book == INSTANCE OrderBook WITH Orders <- Order

InTransaction == {"find", "price", "claim", "items", "lock", "append", "commit", "refind"}
Pooled == InTransaction \cup {"compare"}
Steps == Pooled \cup {"new", "checkout", "done"}
Answers == {"none", "created", "duplicate", "order_ref_conflict", "unknown_sku",
            "validation_error", "service_unavailable", "internal_error", "lost"}

IntakeTypeOK ==
    /\ products \in [Skus -> Nat \cup {NoPrice}]
    /\ Book!BookTypeOK
    /\ nextEventId \in 1..(MaxEventId + 1)
    /\ appendLock \in Requests \cup {Nobody}
    /\ pc \in [Requests -> Steps]
    /\ body \in [Requests -> Submissions \cup {NoBody}]
    /\ \A r \in Requests : pc[r] # "new" => body[r] # NoBody
    /\ draft \in [Requests -> Order \cup {NoOrder}]
    /\ eventId \in [Requests -> 0..MaxEventId]
    /\ answer \in [Requests -> Answers]

-----------------------------------------------------------------------------
(* The data the handler computes.                                          *)

RepeatedSku(b) == \E i, j \in DOMAIN b.items : i # j /\ b.items[i].sku = b.items[j].sku

\* Equal for two submissions of the same order: the item order does not matter.
RequestContent(b) ==
    <<b.customer, {[sku |-> b.items[i].sku, qty |-> b.items[i].qty] : i \in DOMAIN b.items}>>
OrderContent(o) ==
    <<o.customer, {[sku |-> i.sku, qty |-> i.qty] : i \in o.items}>>

\* Mutant: one known SKU is enough to price the order.
OnlyUnknownSkus(b) == \A i \in DOMAIN b.items : products[b.items[i].sku] = NoPrice

UnknownSku(b) == \E i \in DOMAIN b.items : products[b.items[i].sku] = NoPrice

\* The order at the current prices.
Priced(b) ==
    [customer |-> b.customer,
     items |-> {[sku |-> b.items[i].sku, qty |-> b.items[i].qty,
                 price |-> products[b.items[i].sku]] : i \in DOMAIN b.items}]

\* Python's integers have no width; the column has.
TotalCents(o) == MapThenSumSet(LAMBDA i : i.qty * i.price, o.items)
TooExpensive(o) == TotalCents(o) > MaxCents

-----------------------------------------------------------------------------
(* Sessions, their locks and who waits for whom.                           *)

Live(r) == answer[r] = "none"
Checkedout == {r \in Requests : pc[r] \in Pooled /\ Live(r)}

Ref(r) == body[r].ref
HoldsClaim(r) == pc[r] \in {"items", "lock", "append", "commit"}
\* Mutant: order_ref has no unique index for a second INSERT to wait at.
ClaimedByNobody(r) == FALSE
ClaimedByOther(r) == \E s \in Requests \ {r} : HoldsClaim(s) /\ Ref(s) = Ref(r)

WaitsFor(r, s) ==
    /\ r # s
    /\ \/ pc[r] = "claim" /\ HoldsClaim(s) /\ Ref(s) = Ref(r)
       \/ pc[r] = "lock" /\ appendLock = s

Goto(r, step) == pc' = [pc EXCEPT ![r] = step]
Answer(r, code) == answer' = [answer EXCEPT ![r] = code]
\* Mutant: the append lock is a session's, not a transaction's.
KeepAppendLock(r) == UNCHANGED appendLock
\* The end of r's transaction releases its transaction-scoped advisory lock.
ReleaseAppendLock(r) == appendLock' = IF appendLock = r THEN Nobody ELSE appendLock

Init ==
    /\ products = Catalogue
    /\ Book!Init
    /\ nextEventId = 1
    /\ appendLock = Nobody
    /\ pc = [r \in Requests |-> "new"]
    /\ body = [r \in Requests |-> NoBody]
    /\ draft = [r \in Requests |-> NoOrder]
    /\ eventId = [r \in Requests |-> 0]
    /\ answer = [r \in Requests |-> "none"]

database == <<products, orders, events, nextEventId>>

-----------------------------------------------------------------------------
(* The handler.                                                            *)

\* create_order up to the pool: a repeated SKU is answered without the database.
Receive(r, b) ==
    /\ pc[r] = "new"
    /\ body' = [body EXCEPT ![r] = b]
    /\ IF RepeatedSku(b)
         THEN Goto(r, "done") /\ Answer(r, "validation_error")
         ELSE Goto(r, "checkout") /\ UNCHANGED answer
    /\ UNCHANGED <<database, appendLock, draft, eventId>>

\* pool.connection(): waits while all connections are in use.
Checkout(r) ==
    /\ pc[r] = "checkout"
    /\ Cardinality(Checkedout) < PoolMaxSize
    /\ Goto(r, "find")
    /\ UNCHANGED <<database, appendLock, body, draft, eventId, answer>>

\* Step 1, the retry fast path.
FindOrder(r) ==
    /\ pc[r] = "find" /\ Live(r)
    /\ draft' = [draft EXCEPT ![r] = orders[Ref(r)]]
    /\ Goto(r, IF orders[Ref(r)] # NoOrder THEN "compare" ELSE "price")
    /\ UNCHANGED <<database, appendLock, body, eventId, answer>>

\* Step 2: UnknownSkus rolls the transaction back and is answered 422.
GetPrices(r) ==
    /\ pc[r] = "price" /\ Live(r)
    /\ IF UnknownSku(body[r])
         THEN Goto(r, "done") /\ Answer(r, "unknown_sku") /\ UNCHANGED draft
         ELSE /\ draft' = [draft EXCEPT ![r] = Priced(body[r])]
              /\ Goto(r, "claim")
              /\ UNCHANGED answer
    /\ UNCHANGED <<database, appendLock, body, eventId>>

\* Mutant: an order_ref that is claimed and not committed counts as taken.
InsertOrderWithoutWaiting(r) ==
    /\ pc[r] = "claim" /\ Live(r)
    /\ Goto(r, IF orders[Ref(r)] # NoOrder \/ ClaimedByOther(r) THEN "refind" ELSE "items")
    /\ UNCHANGED <<database, appendLock, body, draft, eventId, answer>>

\* Step 3, INSERT ... ON CONFLICT DO NOTHING: waits for the transaction that
\* holds the ref uncommitted, then claims the ref or finds it taken.  A total
\* that the column cannot hold is an error before that, and not an
\* OperationalError: 500.
InsertOrder(r) ==
    /\ pc[r] = "claim" /\ Live(r)
    /\ IF TooExpensive(draft[r])
         THEN Goto(r, "done") /\ Answer(r, "internal_error")
         ELSE /\ ~ClaimedByOther(r)
              /\ Goto(r, IF orders[Ref(r)] # NoOrder THEN "refind" ELSE "items")
              /\ UNCHANGED answer
    /\ UNCHANGED <<database, appendLock, body, draft, eventId>>

\* After a lost race: the assertion failure is an unexpected exception, 500.
RefindOrder(r) ==
    /\ pc[r] = "refind" /\ Live(r)
    /\ draft' = [draft EXCEPT ![r] = orders[Ref(r)]]
    /\ IF orders[Ref(r)] = NoOrder
         THEN Goto(r, "done") /\ Answer(r, "internal_error")
         ELSE Goto(r, "compare") /\ UNCHANGED answer
    /\ UNCHANGED <<database, appendLock, body, eventId>>

\* Step 4: the rows stay the transaction's own, as does the ref.
InsertItems(r) ==
    /\ pc[r] = "items" /\ Live(r)
    /\ Goto(r, "lock")
    /\ UNCHANGED <<database, appendLock, body, draft, eventId, answer>>

\* Mutant: the append lock is shared.
TakeSharedAppendLock(r) ==
    /\ pc[r] = "lock" /\ Live(r)
    /\ appendLock' = r
    /\ Goto(r, "append")
    /\ UNCHANGED <<database, body, draft, eventId, answer>>

\* Mutant: the append lock may be taken before the order_ref is claimed.
TakeAppendLockEarly(r) ==
    /\ pc[r] \in {"claim", "lock"} /\ Live(r)
    /\ appendLock \in (IF pc[r] = "lock" THEN {Nobody, r} ELSE {Nobody})
    /\ appendLock' = r
    /\ Goto(r, IF pc[r] = "lock" THEN "append" ELSE "claim")
    /\ UNCHANGED <<database, body, draft, eventId, answer>>

\* Step 5, pg_advisory_xact_lock.
TakeAppendLock(r) ==
    /\ pc[r] = "lock" /\ Live(r)
    /\ appendLock = Nobody
    /\ appendLock' = r
    /\ Goto(r, "append")
    /\ UNCHANGED <<database, body, draft, eventId, answer>>

\* Step 6: the INSERT draws the event_id.  A sequence at its end is an error
\* that is not an OperationalError: the transaction rolls back, 500.
AppendEvent(r) ==
    /\ pc[r] = "append" /\ Live(r)
    /\ IF nextEventId > MaxEventId
         THEN /\ Goto(r, "done") /\ Answer(r, "internal_error")
              /\ ReleaseAppendLock(r)
              /\ UNCHANGED <<nextEventId, eventId>>
         ELSE /\ eventId' = [eventId EXCEPT ![r] = nextEventId]
              /\ nextEventId' = nextEventId + 1
              /\ Goto(r, "commit")
              /\ UNCHANGED <<appendLock, answer>>
    /\ UNCHANGED <<products, orders, events, body, draft>>

\* Mutant: the event is not in the order's transaction.
PublishWithoutEvent(r) ==
    /\ orders' = [orders EXCEPT ![Ref(r)] = draft[r]]
    /\ UNCHANGED events

\* What COMMIT makes visible, in one step, before the locks are released.
Publish(r) ==
    /\ orders' = [orders EXCEPT ![Ref(r)] = draft[r]]
    /\ events' = events \cup {[id |-> eventId[r], ref |-> Ref(r), data |-> draft[r]]}

\* The end of the transaction block of a new order, and its 201.
Commit(r) ==
    /\ pc[r] = "commit" /\ Live(r)
    /\ Publish(r)
    /\ ReleaseAppendLock(r)
    /\ Goto(r, "done") /\ Answer(r, "created")
    /\ UNCHANGED <<products, nextEventId, body, draft, eventId>>

\* Mutant: the items are not compared.
CompareCustomer(r) ==
    /\ pc[r] = "compare" /\ Live(r)
    /\ Goto(r, "done")
    /\ Answer(r, IF draft[r].customer = body[r].customer THEN "duplicate" ELSE "order_ref_conflict")
    /\ UNCHANGED <<database, appendLock, body, draft, eventId>>

\* The read-only transaction of an existing order ends; then its content,
\* as it was read, is compared with the request's.
CompareContent(r) ==
    /\ pc[r] = "compare" /\ Live(r)
    /\ Goto(r, "done")
    /\ Answer(r, IF OrderContent(draft[r]) = RequestContent(body[r])
                   THEN "duplicate" ELSE "order_ref_conflict")
    /\ UNCHANGED <<database, appendLock, body, draft, eventId>>

-----------------------------------------------------------------------------
(* Failures.                                                               *)

\* An OperationalError (pool timeout, statement timeout, refused connection,
\* PostgreSQL restart) that leaves nothing of the transaction behind: 503.
Fail(r) ==
    /\ pc[r] \in Pooled \cup {"checkout"} /\ Live(r)
    /\ Goto(r, "done") /\ Answer(r, "service_unavailable")
    /\ ReleaseAppendLock(r)
    /\ UNCHANGED <<database, body, draft, eventId>>

\* The connection breaks (503) or the API process dies (no answer at all)
\* while PostgreSQL still runs the session: its locks stay.
Abandon(r) ==
    /\ pc[r] \in InTransaction /\ Live(r)
    /\ \E code \in {"service_unavailable", "lost"} : Answer(r, code)
    /\ UNCHANGED <<database, appendLock, pc, body, draft, eventId>>

\* PostgreSQL notices and ends the abandoned session.  A COMMIT that had
\* been sent may have been carried out.
Reap(r) ==
    /\ pc[r] \in InTransaction /\ ~Live(r)
    /\ \/ UNCHANGED <<orders, events>>
       \/ pc[r] = "commit" /\ Publish(r)
    /\ ReleaseAppendLock(r)
    /\ Goto(r, "done")
    /\ UNCHANGED <<products, nextEventId, body, draft, eventId, answer>>

-----------------------------------------------------------------------------
(* The rest of the world, as far as intake can see it.                     *)

\* `seed` inserts products that are missing, in one statement.
InsertMissingProducts(price) ==
    /\ \E sku \in Skus : products[sku] = NoPrice
    /\ products' = [sku \in Skus |-> IF products[sku] = NoPrice THEN price ELSE products[sku]]
    /\ UNCHANGED <<orders, events, nextEventId, appendLock, pc, body, draft, eventId, answer>>

\* A price changes between two requests.
Reprice(sku, price) ==
    /\ products[sku] # NoPrice
    /\ products' = [products EXCEPT ![sku] = price]
    /\ UNCHANGED <<orders, events, nextEventId, appendLock, pc, body, draft, eventId, answer>>

Handle(r) ==
    \/ Checkout(r) \/ FindOrder(r) \/ GetPrices(r) \/ InsertOrder(r) \/ RefindOrder(r)
    \/ InsertItems(r) \/ TakeAppendLock(r) \/ AppendEvent(r) \/ Commit(r) \/ CompareContent(r)

Next ==
    \/ \E r \in Requests :
          \/ \E b \in Submissions : Receive(r, b)
          \/ Handle(r)
          \/ Fail(r)
          \/ Abandon(r)
          \/ Reap(r)
    \/ \E price \in Prices :
          \/ InsertMissingProducts(price)
          \/ \E sku \in Skus : Reprice(sku, price)

Spec == Init /\ [][Next]_vars

\* Threads of the API run when they can; PostgreSQL ends dead sessions.  No
\* failure has to happen: in particular no statement has to time out.
Fairness == \A r \in Requests : WF_vars(Handle(r)) /\ WF_vars(Reap(r))

FairSpec == Spec /\ Fairness

-----------------------------------------------------------------------------
(* What intake guarantees.                                                 *)

\* Whatever the interleaving, an accepted order has exactly one event, with
\* the order's own snapshot: two submissions of one order_ref never both
\* commit (service.py step 3, "the unique index, not step 1, is the guard").
OneEventPerOrder == Book!OneEventPerOrder

\* No reader that has seen an event can later find one with a smaller id,
\* although ids are drawn before commit and handlers die in between
\* (events.py APPEND_LOCK_KEY: "event_id order is commit order").
CommitOrderedLog == Book!CommitOrderedLog

\* Every answered submission is right about the database, now and for ever:
\* 201 and 200 return the order as it is stored (never repriced), with the
\* content the client sent; 409 only when the stored content differs.
AnswersMatchTheStore ==
    \A r \in Requests :
       /\ answer[r] \in {"created", "duplicate"} =>
             /\ orders[Ref(r)] = draft[r]
             /\ OrderContent(orders[Ref(r)]) = RequestContent(body[r])
       /\ answer[r] = "order_ref_conflict" =>
             /\ orders[Ref(r)] # NoOrder
             /\ OrderContent(orders[Ref(r)]) # RequestContent(body[r])

\* Idempotency seen by the clients: one order_ref is answered 201 at most
\* once, whatever was retried after whatever failure.
AtMostOneCreated ==
    \A r, s \in Requests :
       answer[r] = "created" /\ answer[s] = "created" /\ Ref(r) = Ref(s) => r = s

\* The assertion after a lost race ("ON CONFLICT reported an order that does
\* not exist", service.py) cannot fail: whoever is answered 500 met the end of
\* the sequence or of the total_cents column.
NoAssertionFailure ==
    \A r \in Requests : answer[r] = "internal_error" =>
       \/ nextEventId > MaxEventId
       \/ draft[r] # NoOrder /\ TooExpensive(draft[r])

\* Locks are taken in one order (order_ref, then append lock), so no set of
\* transactions waits in a circle, dead sessions included, and PostgreSQL
\* never has to kill one (service.py, append_event as the last statement).
NoWaitCycle ==
    \A S \in (SUBSET Requests) \ {{}} : \E r \in S : \A s \in S : ~WaitsFor(r, s)

\* Every request ends, although it may wait for a pooled connection, for the
\* winner of its order_ref and for the append lock of a dead session.
EveryRequestEnds == \A r \in Requests : pc[r] = "checkout" ~> pc[r] = "done"

\* Statement by statement, intake does what the abstract order book says.
ImplementsOrderBook == Book!Spec

\* The database and the requests as clients know them.
Contents == [ref \in Refs |-> IF Book!Stored(ref) THEN OrderContent(orders[ref]) ELSE NoOrder]
AsPosted == [b \in Submissions |-> [ref |-> b.ref, content |-> RequestContent(b)]]
Posted == [r \in Requests |-> IF body[r] = NoBody THEN NoBody ELSE AsPosted[body[r]]]
Server == INSTANCE OrderServer WITH Contents <- Content, orders <- Contents, posted <- Posted

\* Requests that overlap, lose races, fail or die are answered as if each of
\* them had taken effect in one step, at its answer or, when its client does
\* not know, once at most after it; what is refused has no effect, also not
\* later (create_order and accept_order; specs/05-reliability.md, retries).
ImplementsOrderServer == Server!Spec
=============================================================================
