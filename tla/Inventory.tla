------------------------------ MODULE Inventory ------------------------------
(***************************************************************************)
(* What the stock applier promises: the log is applied in whole batches,   *)
(* each in one step that moves orders, stock and offset together and can   *)
(* be refused but never be half done.  It says nothing of workers, row     *)
(* locks and statements; module StockApplier does, and implements this.    *)
(*                                                                         *)
(* The log is the order book's: it grows by whole acceptances, at its end. *)
(***************************************************************************)
EXTENDS Integers, FiniteSets

CONSTANTS Refs, Skus,
          Payloads,       \* what the accepted events of the instance carry
          InitialOnHand,  \* sku -> the on_hand its stock level starts with
          SeededSkus,     \* SKUs whose stock level exists at the start
          IntMin,         \* the least value of the on_hand column, -2^31
          MaxEventId,
          MaxRewinds,     \* bound: times an operator sets the offset back
          NoOrder, NoLevel

\* An event of this release, of a later release, or of another type.
Kinds == {"accepted", "accepted_v2", "other_type"}
Payload == [kind: Kinds, qty: [Skus -> Nat]]

ASSUME InventoryAssumption ==
    /\ Payloads \subseteq {p \in Payload : p.kind # "other_type"}
    /\ NoOrder \notin Payload
    /\ InitialOnHand \in [Skus -> Int]
    /\ SeededSkus \subseteq Skus
    /\ IntMin \in Int
    /\ MaxEventId \in Nat \ {0}
    /\ MaxRewinds \in Nat
    /\ NoLevel \notin Int

VARIABLES
    orders, events,  \* the order book: orders[ref] is the payload accepted for ref
    status,          \* orders.status, "none" for a ref without a row
    onHand,          \* stock_levels.on_hand, NoLevel for a SKU without a row
    lastEventId,     \* consumer_offsets.last_event_id of `stock-applier`
    rewinds

book == <<orders, events>>
stock == <<status, onHand, lastEventId>>
inventoryVars == <<book, stock, rewinds>>

Book == INSTANCE OrderBook WITH Orders <- Payload

InventoryControlTypeOK ==
    /\ Book!BookTypeOK
    /\ status \in [Refs -> {"none", "accepted", "stock_committed"}]
    /\ lastEventId \in 0..MaxEventId
    /\ rewinds \in 0..MaxRewinds

InventoryTypeOK == InventoryControlTypeOK /\ onHand \in [Skus -> Int \cup {NoLevel}]

InventoryInit ==
    /\ Book!Init
    /\ status = [ref \in Refs |-> "none"]
    /\ onHand = [sku \in Skus |-> IF sku \in SeededSkus THEN InitialOnHand[sku] ELSE NoLevel]
    /\ lastEventId = 0
    /\ rewinds = 0

-----------------------------------------------------------------------------
(* Applying events.                                                        *)

\* `order.accepted` events; others are not the applier's to handle.
Accepted(es) == {e \in es : e.data.kind # "other_type"}
Unsupported(e) == e.data.kind = "accepted_v2"

\* Mutant: the version of an event is not looked at.
AnyVersion(es) == FALSE
\* A version this release does not understand makes a batch unappliable.
Poisoned(es) == \E e \in Accepted(es) : Unsupported(e)

\* Mutant: the UPDATE is not guarded by status = 'accepted'.
AnyStatus(refs) == refs
\* The guarded transition: only orders still `accepted` move.
StillAccepted(refs) == {ref \in refs : status[ref] = "accepted"}
Moving(es) == StillAccepted({e.ref : e \in Accepted(es)})

\* Units of sku in the events es whose order is among refs, and their number.
Units(es, refs, sku) ==
    UNION {{e} \X (1..e.data.qty[sku]) : e \in {e \in Accepted(es) : e.ref \in refs}}
Quantity(es, refs, sku) == Cardinality(Units(es, refs, sku))

OnHandAfter(es, refs, sku) == onHand[sku] - Quantity(es, refs, sku)

\* What the column holds; a stock level is only ever lowered.
OnHandColumn == {n \in Int : n >= IntMin}

\* The UPDATE of a stock level finds its row and the result fits the column.
Decrementable(es, refs, sku) ==
    onHand[sku] # NoLevel /\ OnHandAfter(es, refs, sku) \in OnHandColumn

\* Mutant: the offset is the next event_id to read, not the last one read.
PublishNextEventId(es, refs) ==
    /\ status' = [ref \in Refs |-> IF ref \in refs THEN "stock_committed" ELSE status[ref]]
    /\ onHand' = [sku \in Skus |-> IF Quantity(es, refs, sku) > 0
                                     THEN OnHandAfter(es, refs, sku) ELSE onHand[sku]]
    /\ \E last \in es : (\A e \in es : e.id <= last.id) /\ lastEventId' = last.id + 1

\* What COMMIT makes visible: transitions, decrements and offset together.
Publish(es, refs) ==
    /\ status' = [ref \in Refs |-> IF ref \in refs THEN "stock_committed" ELSE status[ref]]
    /\ onHand' = [sku \in Skus |-> IF Quantity(es, refs, sku) > 0
                                     THEN OnHandAfter(es, refs, sku) ELSE onHand[sku]]
    /\ \E last \in es : (\A e \in es : e.id <= last.id) /\ lastEventId' = last.id

\* es is the part of the log that follows the offset, without gaps.
FollowsOffset(es) ==
    /\ es # {}
    /\ \A e \in es : /\ lastEventId < e.id
                     /\ \A f \in events : lastEventId < f.id /\ f.id <= e.id => f \in es

Apply(es) ==
    /\ FollowsOffset(es)
    /\ ~Poisoned(es)
    /\ \A sku \in Skus : Quantity(es, Moving(es), sku) > 0 => Decrementable(es, Moving(es), sku)
    /\ Publish(es, Moving(es))
    /\ UNCHANGED <<book, rewinds>>

-----------------------------------------------------------------------------
(* The rest of the world.                                                  *)

\* Order intake accepts an order; the status column defaults to 'accepted'.
AcceptOrder(ref, payload, id) ==
    /\ Book!Accept(ref, payload, id)
    /\ status' = [status EXCEPT ![ref] = "accepted"]
    /\ UNCHANGED <<onHand, lastEventId, rewinds>>

\* A later release appends an event of another type to an order.
AppendOtherType(ref, id) ==
    /\ Book!Stored(ref)
    /\ \A e \in events : e.id < id /\ (e.ref = ref => e.data.kind # "other_type")
    /\ events' = events \cup
          {[id |-> id, ref |-> ref, data |-> [orders[ref] EXCEPT !.kind = "other_type"]]}
    /\ UNCHANGED <<orders, stock, rewinds>>

Missing == {sku \in Skus : onHand[sku] = NoLevel}

\* seed inserts, in one statement, those of the missing stock levels that its
\* release has a product for.
InsertMissingStockLevels ==
    /\ \E new \in SUBSET Missing :
          /\ new # {}
          /\ onHand' = [sku \in Skus |-> IF sku \in new THEN InitialOnHand[sku] ELSE onHand[sku]]
    /\ UNCHANGED <<book, status, lastEventId, rewinds>>

\* An operator sets the offset back.
Rewind(id) ==
    /\ rewinds < MaxRewinds /\ rewinds' = rewinds + 1
    /\ id < lastEventId
    /\ lastEventId' = id
    /\ UNCHANGED <<book, status, onHand>>

LogGrows ==
    \E ref \in Refs, id \in Book!EventIds :
       \/ \E payload \in Payloads : AcceptOrder(ref, payload, id)
       \/ AppendOtherType(ref, id)

InventoryNext ==
    \/ \E es \in SUBSET events : Apply(es)
    \/ LogGrows
    \/ InsertMissingStockLevels
    \/ \E id \in 0..MaxEventId : Rewind(id)

InventorySpec == InventoryInit /\ [][InventoryNext]_inventoryVars

-----------------------------------------------------------------------------
(* What the inventory guarantees.                                          *)

Committed(ref) == status[ref] = "stock_committed"

\* Units of sku in all the orders among refs.
Ordered(refs, sku) == Quantity(events, refs, sku)

\* INV-STK-2, conservation: whatever crashed, overlapped or was applied again
\* after a rewind, each committed order was subtracted exactly once
\* (applier.py: "so each order counts exactly once").
StockConserved ==
    \A sku \in Skus : onHand[sku] # NoLevel =>
       onHand[sku] = InitialOnHand[sku] - Ordered({ref \in Refs : Committed(ref)}, sku)

\* What GET /stock promises of its one-statement read (inventory/repository.py
\* get_stock): on_hand includes exactly the accepted events at or below
\* as_of_event_id.  An operator who sets the offset back gives this up.
AsOfIsExact ==
    rewinds = 0 =>
    \A sku \in Skus : onHand[sku] # NoLevel =>
       onHand[sku] = InitialOnHand[sku]
          - Ordered({e.ref : e \in {e \in Accepted(events) : e.id <= lastEventId}}, sku)

\* INV-OFF-1: an order is stock_committed if and only if its event is at or
\* below the offset.  So no event is ever passed over: not one that became
\* visible late, not a poison event, not one in a batch that died.  Only a
\* rewind leaves committed orders above the offset.
OffsetMatchesStatus ==
    \A e \in Accepted(events) :
       /\ e.id <= lastEventId => Committed(e.ref) /\ ~Unsupported(e)
       /\ rewinds = 0 /\ Committed(e.ref) => e.id <= lastEventId

\* INV-OFF-2: only an operator sets the offset back; a slow worker that read
\* an old offset never does.
OffsetOnlyIncreases ==
    [][lastEventId' < lastEventId => rewinds' = rewinds + 1]_<<lastEventId, rewinds>>

\* REQ-OUT-02: every order whose event this release understands is applied
\* in the end, after whatever outages and whatever other events lie before it.
EveryOrderIsApplied ==
    \A ref \in Refs : status[ref] = "accepted" ~> Committed(ref)
=============================================================================
