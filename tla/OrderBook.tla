----------------------------- MODULE OrderBook -----------------------------
(***************************************************************************)
(* What order intake promises to everyone who reads the database: accepted *)
(* orders and their `order.accepted` events appear together, in one step,  *)
(* and the log grows only at its end.  It says nothing of how competing    *)
(* submissions get there; module Intake does, and implements this one.     *)
(***************************************************************************)
EXTENDS Integers, FiniteSets

CONSTANTS Refs,        \* order_ref values
          Orders,      \* the snapshots an accepted order can have
          NoOrder,     \* a ref that has no row in the orders table
          MaxEventId   \* routes.py MAX_EVENT_ID: the largest bigint

VARIABLES orders,      \* ref -> accepted snapshot or NoOrder
          events       \* the visible rows of order_events

bookVars == <<orders, events>>

EventIds == 1..MaxEventId
Event == [id: EventIds, ref: Refs, data: Orders]

Stored(ref) == orders[ref] # NoOrder

BookTypeOK == /\ orders \in [Refs -> Orders \cup {NoOrder}]
              /\ events \subseteq Event

\* events.py read_events: up to `limit` events with id > after, lowest first.
EventsBetween(after, id) == {e \in events : after < e.id /\ e.id < id}
ReadEvents(after, limit) ==
    {e \in events : after < e.id /\ Cardinality(EventsBetween(after, e.id)) < limit}

Init == /\ orders = [ref \in Refs |-> NoOrder]
        /\ events = {}

\* The acceptance transaction, seen from outside at the moment it commits.
Accept(ref, order, id) ==
    /\ ~Stored(ref)
    /\ \A e \in events : e.id < id
    /\ orders' = [orders EXCEPT ![ref] = order]
    /\ events' = events \cup {[id |-> id, ref |-> ref, data |-> order]}

\* Any order may come next: the one that did is read off the new state.
Next == \E ref \in Refs, id \in EventIds :
           orders'[ref] \in Orders /\ Accept(ref, orders'[ref], id)

Spec == Init /\ [][Next]_bookVars

-----------------------------------------------------------------------------
\* INV-EVT-1 and INV-ORD-2 of specs/02-domain-model.md: an order has exactly
\* one `order.accepted` event, the event carries the snapshot of the order as
\* it is stored, and no event exists without its order (service.py steps 3-6,
\* one transaction; nothing updates or deletes either row afterwards).
OneEventPerOrder ==
    /\ \A e \in events : orders[e.ref] = e.data
    /\ \A ref \in Refs : Stored(ref) => \E e \in events : e.ref = ref
    /\ \A e, f \in events : e.ref = f.ref => e = f

\* INV-EVT-3: event_id order is commit order.  An event that becomes visible
\* has a larger id than every event anybody could have read before it, and
\* what was visible stays (events.py append_event, APPEND_LOCK_KEY).
CommitOrderedLog ==
    [][/\ events \subseteq events'
       /\ \A e \in events' \ events : \A f \in events : f.id < e.id]_events
=============================================================================
