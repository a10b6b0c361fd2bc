-------------------------- MODULE InventoryProofs --------------------------
(***************************************************************************)
(* What every module built on Inventory can rely on: the order book, the   *)
(* statuses and the offset fit together, for every number of orders and    *)
(* SKUs, whatever happens to the stock levels.                             *)
(***************************************************************************)
EXTENDS Inventory, FiniteSetTheorems, TLAPS

\* The log as the applier relies on it: finite, all of it about stored
\* orders, and one accepted event for each of them at most.
LogIsSound ==
    /\ IsFiniteSet(events)
    /\ \A e \in events : orders[e.ref] # NoOrder
    /\ \A e, f \in Accepted(events) : e.ref = f.ref => e = f
    /\ \A ref \in Refs : status[ref] = "none" <=> orders[ref] = NoOrder

\* The offset never runs ahead of the log, so the next event is always new.
OffsetIsInTheLog == lastEventId = 0 \/ \E e \in events : lastEventId <= e.id

InventoryInv ==
    /\ InventoryControlTypeOK
    /\ LogIsSound
    /\ OffsetIsInTheLog
    /\ OffsetMatchesStatus

LEMMA InventoryInitEstablishes ==
    ASSUME InventoryInit
    PROVE  InventoryInv
<1>1. /\ events = {} /\ lastEventId = 0 /\ rewinds = 0
      /\ orders = [ref \in Refs |-> NoOrder] /\ status = [ref \in Refs |-> "none"]
  BY DEF InventoryInit, Book!Init
<1>2. InventoryControlTypeOK
  BY <1>1, InventoryAssumption DEF InventoryControlTypeOK, Book!BookTypeOK
<1>3. LogIsSound
  BY <1>1, FS_EmptySet DEF LogIsSound, Accepted
<1>4. OffsetIsInTheLog /\ OffsetMatchesStatus
  BY <1>1 DEF OffsetIsInTheLog, OffsetMatchesStatus, Accepted
<1>5. QED
  BY <1>2, <1>3, <1>4 DEF InventoryInv

\* Whatever happens to the stock levels changes nothing here.
LEMMA InventoryUnchanged ==
    ASSUME InventoryInv, UNCHANGED <<book, status, lastEventId, rewinds>>
    PROVE  InventoryInv'
  BY DEF book, InventoryInv, InventoryControlTypeOK, Book!BookTypeOK, LogIsSound,
     OffsetIsInTheLog, OffsetMatchesStatus, Committed

-----------------------------------------------------------------------------
(* The log grows.                                                          *)

\* An event whose id is above all others lies above the offset.
LEMMA NewEventIsAhead ==
    ASSUME InventoryInv, NEW id \in Book!EventIds, \A e \in events : e.id < id
    PROVE  lastEventId < id
<1>1. /\ lastEventId \in Nat /\ id \in Nat /\ 0 < id
      /\ \A e \in events : e.id \in Nat
  BY DEF InventoryInv, InventoryControlTypeOK, Book!BookTypeOK, Book!Event, Book!EventIds
<1>2. QED
  BY <1>1 DEF InventoryInv, OffsetIsInTheLog

LEMMA AcceptOrderKeepsInventory ==
    ASSUME InventoryInv, NEW ref \in Refs, NEW payload \in Payloads, NEW id \in Book!EventIds,
           AcceptOrder(ref, payload, id)
    PROVE  InventoryInv'
<1> DEFINE new == [id |-> id, ref |-> ref, data |-> payload]
<1>1. /\ orders[ref] = NoOrder /\ \A e \in events : e.id < id
      /\ orders' = [orders EXCEPT ![ref] = payload] /\ events' = events \cup {new}
      /\ status' = [status EXCEPT ![ref] = "accepted"]
      /\ UNCHANGED <<onHand, lastEventId, rewinds>>
  BY DEF AcceptOrder, Book!Accept, Book!Stored
<1>2. payload \in Payload /\ payload.kind # "other_type" /\ payload # NoOrder
  BY InventoryAssumption
<1>3. /\ new \in Book!Event /\ new.id = id /\ new.ref = ref
      /\ new.data.kind # "other_type"
  BY <1>2 DEF Book!Event
<1>4. lastEventId < id /\ lastEventId \in Nat /\ id \in Nat
  BY <1>1, NewEventIsAhead DEF InventoryInv, InventoryControlTypeOK, Book!EventIds
<1>5. \A e \in events : e.ref # ref
  BY <1>1 DEF InventoryInv, LogIsSound
<1> HIDE DEF new
<1>6. InventoryControlTypeOK'
  BY <1>1, <1>2, <1>3 DEF InventoryInv, InventoryControlTypeOK, Book!BookTypeOK
<1>7. LogIsSound'
  <2>1. IsFiniteSet(events')
    BY <1>1, FS_AddElement DEF InventoryInv, LogIsSound
  <2>2. \A e \in events' : orders'[e.ref] # NoOrder
    BY <1>1, <1>2, <1>3, <1>5 DEF InventoryInv, InventoryControlTypeOK, LogIsSound,
       Book!BookTypeOK
  <2>3. \A e, f \in Accepted(events') : e.ref = f.ref => e = f
    BY <1>1, <1>3, <1>5 DEF InventoryInv, LogIsSound, Accepted
  <2>4. \A r \in Refs : status'[r] = "none" <=> orders'[r] = NoOrder
    BY <1>1, <1>2 DEF InventoryInv, InventoryControlTypeOK, LogIsSound, Book!BookTypeOK
  <2>5. QED
    BY <2>1, <2>2, <2>3, <2>4 DEF LogIsSound
<1>8. OffsetIsInTheLog'
  BY <1>1 DEF InventoryInv, OffsetIsInTheLog
<1>9. OffsetMatchesStatus'
  <2> SUFFICES ASSUME NEW e \in Accepted(events')
               PROVE  /\ e.id <= lastEventId => status'[e.ref] = "stock_committed" /\ ~Unsupported(e)
                      /\ rewinds = 0 /\ status'[e.ref] = "stock_committed" => e.id <= lastEventId
    BY <1>1 DEF OffsetMatchesStatus, Committed
  <2>1. CASE e = new
    BY <2>1, <1>1, <1>3, <1>4 DEF InventoryInv, InventoryControlTypeOK
  <2>2. CASE e # new
    <3>1. e \in Accepted(events) /\ e.ref \in Refs /\ e.ref # ref
      BY <2>2, <1>1, <1>5 DEF Accepted, InventoryInv, InventoryControlTypeOK,
         Book!BookTypeOK, Book!Event
    <3>2. QED
      BY <3>1, <1>1 DEF InventoryInv, OffsetMatchesStatus, Committed
  <2>3. QED
    BY <2>1, <2>2
<1>10. QED
  BY <1>6, <1>7, <1>8, <1>9 DEF InventoryInv

LEMMA AppendOtherTypeKeepsInventory ==
    ASSUME InventoryInv, NEW ref \in Refs, NEW id \in Book!EventIds, AppendOtherType(ref, id)
    PROVE  InventoryInv'
<1> DEFINE new == [id |-> id, ref |-> ref, data |-> [orders[ref] EXCEPT !.kind = "other_type"]]
<1>1. /\ orders[ref] # NoOrder /\ \A e \in events : e.id < id
      /\ events' = events \cup {new}
      /\ UNCHANGED <<orders, stock, rewinds>>
  BY DEF AppendOtherType, Book!Stored
<1>2. orders[ref] \in Payload
  BY <1>1 DEF InventoryInv, InventoryControlTypeOK, Book!BookTypeOK
<1>3. /\ new \in Book!Event /\ new.id = id /\ new.ref = ref
      /\ new.data.kind = "other_type"
  BY <1>2 DEF Book!Event, Payload, Kinds
<1> HIDE DEF new
<1>4. InventoryControlTypeOK'
  BY <1>1, <1>3 DEF InventoryInv, InventoryControlTypeOK, Book!BookTypeOK, stock
<1>5. Accepted(events') = Accepted(events)
  BY <1>1, <1>3 DEF Accepted
<1>6. LogIsSound'
  <2>1. IsFiniteSet(events')
    BY <1>1, FS_AddElement DEF InventoryInv, LogIsSound
  <2>2. \A e \in events' : orders[e.ref] # NoOrder
    BY <1>1, <1>3 DEF InventoryInv, LogIsSound
  <2>3. QED
    BY <2>1, <2>2, <1>1, <1>5 DEF InventoryInv, LogIsSound, stock
<1>7. OffsetIsInTheLog'
  BY <1>1 DEF InventoryInv, OffsetIsInTheLog, stock
<1>8. OffsetMatchesStatus'
  BY <1>1, <1>5 DEF InventoryInv, OffsetMatchesStatus, Committed, stock
<1>9. QED
  BY <1>4, <1>6, <1>7, <1>8 DEF InventoryInv

LEMMA LogGrowsKeepsInventory ==
    ASSUME InventoryInv, LogGrows
    PROVE  InventoryInv' /\ UNCHANGED <<onHand, lastEventId, rewinds>>
<1>1. ASSUME NEW ref \in Refs, NEW id \in Book!EventIds, NEW payload \in Payloads,
             AcceptOrder(ref, payload, id)
      PROVE  InventoryInv' /\ UNCHANGED <<onHand, lastEventId, rewinds>>
  BY <1>1, AcceptOrderKeepsInventory DEF AcceptOrder
<1>2. ASSUME NEW ref \in Refs, NEW id \in Book!EventIds, AppendOtherType(ref, id)
      PROVE  InventoryInv' /\ UNCHANGED <<onHand, lastEventId, rewinds>>
  BY <1>2, AppendOtherTypeKeepsInventory DEF AppendOtherType, stock
<1>3. QED
  BY <1>1, <1>2 DEF LogGrows

-----------------------------------------------------------------------------
(* Batches.                                                                *)

\* read_events returns the log after the offset without gaps.
LEMMA ReadEventsIsNext ==
    ASSUME IsFiniteSet(events), \A e \in events : e.id \in Nat,
           NEW after \in Nat, NEW limit \in Nat
    PROVE  LET read == Book!ReadEvents(after, limit)
           IN  /\ read \subseteq events
               /\ \A e \in read : after < e.id
               /\ \A e \in read, f \in events : after < f.id /\ f.id <= e.id => f \in read
<1>1. \A e \in events : Cardinality(Book!EventsBetween(after, e.id)) \in Nat
  BY FS_Subset, FS_CardinalityType DEF Book!EventsBetween
<1>2. ASSUME NEW e \in events, NEW f \in events, f.id <= e.id
      PROVE  Cardinality(Book!EventsBetween(after, f.id))
                <= Cardinality(Book!EventsBetween(after, e.id))
  <2>1. Book!EventsBetween(after, f.id) \subseteq Book!EventsBetween(after, e.id)
    BY <1>2 DEF Book!EventsBetween
  <2>2. IsFiniteSet(Book!EventsBetween(after, e.id))
    BY FS_Subset DEF Book!EventsBetween
  <2>3. QED
    BY <2>1, <2>2, FS_Subset
<1>3. ASSUME NEW e \in Book!ReadEvents(after, limit), NEW f \in events,
             after < f.id, f.id <= e.id
      PROVE  f \in Book!ReadEvents(after, limit)
  <2>1. e \in events /\ Cardinality(Book!EventsBetween(after, e.id)) < limit
    BY DEF Book!ReadEvents, Book!Cardinality, Cardinality
  <2>2. Cardinality(Book!EventsBetween(after, f.id)) < limit
    BY <2>1, <1>1, <1>2, <1>3
  <2>3. QED
    BY <1>3, <2>2 DEF Book!ReadEvents, Book!Cardinality, Cardinality
<1>4. QED
  BY <1>3 DEF Book!ReadEvents

\* A batch read under the offset row lock follows the offset.
LEMMA BatchFollowsOffset ==
    ASSUME InventoryInv, NEW limit \in Nat, Book!ReadEvents(lastEventId, limit) # {}
    PROVE  /\ Book!ReadEvents(lastEventId, limit) \subseteq events
           /\ FollowsOffset(Book!ReadEvents(lastEventId, limit))
<1>1. IsFiniteSet(events) /\ lastEventId \in Nat /\ \A e \in events : e.id \in Nat
  BY DEF InventoryInv, InventoryControlTypeOK, LogIsSound, Book!BookTypeOK, Book!Event,
     Book!EventIds
<1> DEFINE read == Book!ReadEvents(lastEventId, limit)
<1>2. /\ read \subseteq events
      /\ \A e \in read : lastEventId < e.id
      /\ \A e \in read, f \in events : lastEventId < f.id /\ f.id <= e.id => f \in read
  BY <1>1, ReadEventsIsNext
<1>3. read # {}
  OBVIOUS
<1> HIDE DEF read
<1>4. read \subseteq events /\ FollowsOffset(read)
  BY <1>2, <1>3 DEF FollowsOffset
<1>5. QED
  BY <1>4 DEF read

\* A commit publishes a batch: its orders have moved, the offset is at its
\* last event, and nothing between the two offsets was left out.
LEMMA PublishKeepsInventory ==
    ASSUME InventoryInv, NEW es \in SUBSET events, FollowsOffset(es), ~Poisoned(es),
           Publish(es, Moving(es)), UNCHANGED <<book, rewinds>>
    PROVE  InventoryInv' /\ lastEventId < lastEventId'
<1> DEFINE moving == Moving(es)
<1>1. PICK last \in es : (\A e \in es : e.id <= last.id) /\ lastEventId' = last.id
  BY DEF Publish
<1>2. /\ \A e \in es : lastEventId < e.id
      /\ \A e \in Accepted(es) : ~Unsupported(e)
      /\ \A e \in es, f \in events : lastEventId < f.id /\ f.id <= e.id => f \in es
      /\ moving = {ref \in {e.ref : e \in Accepted(es)} : status[ref] = "accepted"}
      /\ UNCHANGED <<orders, events, rewinds>>
  BY DEF FollowsOffset, Poisoned, Moving, StillAccepted, book
<1>3. \A e \in events : e.id \in 1..MaxEventId /\ e.ref \in Refs
  BY DEF InventoryInv, InventoryControlTypeOK, Book!BookTypeOK, Book!Event, Book!EventIds
<1>4. status' = [ref \in Refs |-> IF ref \in moving THEN "stock_committed" ELSE status[ref]]
  BY DEF Publish
<1> HIDE DEF moving
<1>5. InventoryControlTypeOK'
  <2>1. status' \in [Refs -> {"none", "accepted", "stock_committed"}]
    BY <1>4 DEF InventoryInv, InventoryControlTypeOK
  <2>2. lastEventId' \in 0..MaxEventId
    BY <1>1, <1>3
  <2>3. QED
    BY <2>1, <2>2, <1>2 DEF InventoryInv, InventoryControlTypeOK, Book!BookTypeOK
<1>6. LogIsSound'
  <2>1. \A ref \in Refs : status'[ref] = "none" <=> status[ref] = "none"
    BY <1>2, <1>4
  <2>2. QED
    BY <2>1, <1>2 DEF InventoryInv, LogIsSound
<1>7. OffsetIsInTheLog'
  BY <1>1, <1>2, <1>3 DEF OffsetIsInTheLog
<1>8. OffsetMatchesStatus'
  <2> SUFFICES ASSUME NEW e \in Accepted(events)
               PROVE  /\ e.id <= lastEventId' => status'[e.ref] = "stock_committed" /\ ~Unsupported(e)
                      /\ rewinds = 0 /\ status'[e.ref] = "stock_committed" => e.id <= lastEventId'
    BY <1>2 DEF OffsetMatchesStatus, Committed
  <2>1. /\ e \in events /\ e.ref \in Refs /\ e.id \in Nat /\ lastEventId \in Nat
        /\ last.id \in Nat
    BY <1>1, <1>3 DEF Accepted, InventoryInv, InventoryControlTypeOK
  <2>2. status[e.ref] \in {"accepted", "stock_committed"}
    BY <2>1 DEF InventoryInv, InventoryControlTypeOK, LogIsSound
  <2>3. ASSUME e.id <= lastEventId'
        PROVE  status'[e.ref] = "stock_committed" /\ ~Unsupported(e)
    <3>1. CASE e.id <= lastEventId
      BY <3>1, <2>1, <1>4 DEF InventoryInv, OffsetMatchesStatus, Committed
    <3>2. CASE lastEventId < e.id
      <4>1. e \in Accepted(es)
        BY <3>2, <2>1, <2>3, <1>1, <1>2 DEF Accepted
      <4>2. status[e.ref] = "accepted" => e.ref \in moving
        BY <4>1, <1>2
      <4>3. QED
        BY <4>1, <4>2, <2>1, <2>2, <1>2, <1>4
    <3>3. QED
      BY <3>1, <3>2, <2>1
  <2>4. ASSUME rewinds = 0, status'[e.ref] = "stock_committed"
        PROVE  e.id <= lastEventId'
    <3>1. CASE e.ref \in moving
      <4>1. PICK f \in Accepted(es) : f.ref = e.ref
        BY <3>1, <1>2
      <4>2. f = e
        BY <4>1 DEF InventoryInv, LogIsSound, Accepted
      <4>3. QED
        BY <4>1, <4>2, <1>1 DEF Accepted
    <3>2. CASE e.ref \notin moving
      <4>1. e.id <= lastEventId
        BY <3>2, <2>1, <2>4, <1>4 DEF InventoryInv, OffsetMatchesStatus, Committed
      <4>2. QED
        BY <4>1, <2>1, <1>1, <1>2
    <3>3. QED
      BY <3>1, <3>2
  <2>5. QED
    BY <2>3, <2>4
<1>9. lastEventId < lastEventId'
  BY <1>1, <1>2
<1>10. QED
  BY <1>5, <1>6, <1>7, <1>8, <1>9 DEF InventoryInv

\* A decrement that was checked leaves a number in the column.
LEMMA PublishKeepsLevels ==
    ASSUME InventoryTypeOK, NEW es, NEW refs, Publish(es, refs),
           \A sku \in Skus : Quantity(es, refs, sku) > 0 => Decrementable(es, refs, sku)
    PROVE  /\ onHand' \in [Skus -> Int \cup {NoLevel}]
           /\ \A sku \in Skus : onHand'[sku] = NoLevel <=> onHand[sku] = NoLevel
<1> DEFINE after(sku) == OnHandAfter(es, refs, sku)
           some(sku) == Quantity(es, refs, sku) > 0
<1>1. \A sku \in Skus : some(sku) => onHand[sku] # NoLevel /\ after(sku) \in Int
  BY DEF Decrementable, OnHandColumn
<1>2. onHand' = [sku \in Skus |-> IF some(sku) THEN after(sku) ELSE onHand[sku]]
  BY DEF Publish
<1> HIDE DEF after, some
<1>3. QED
  BY <1>1, <1>2, InventoryAssumption DEF InventoryTypeOK

LEMMA RewindKeepsInventory ==
    ASSUME InventoryInv, NEW id \in 0..MaxEventId, Rewind(id)
    PROVE  InventoryInv' /\ rewinds' = rewinds + 1
<1>1. /\ rewinds < MaxRewinds /\ rewinds' = rewinds + 1
      /\ id < lastEventId /\ lastEventId' = id
      /\ UNCHANGED <<orders, events, status, onHand>>
  BY DEF Rewind, book
<1>2. rewinds \in Nat /\ lastEventId \in Nat /\ \A e \in events : e.id \in Nat
  BY DEF InventoryInv, InventoryControlTypeOK, Book!BookTypeOK, Book!Event, Book!EventIds
<1>3. InventoryControlTypeOK'
  BY <1>1, <1>2, InventoryAssumption DEF InventoryInv, InventoryControlTypeOK, Book!BookTypeOK
<1>4. LogIsSound' /\ OffsetIsInTheLog'
  BY <1>1, <1>2 DEF InventoryInv, LogIsSound, OffsetIsInTheLog
<1>5. OffsetMatchesStatus'
  BY <1>1, <1>2 DEF InventoryInv, OffsetMatchesStatus, Accepted, Committed
<1>6. QED
  BY <1>1, <1>3, <1>4, <1>5 DEF InventoryInv

-----------------------------------------------------------------------------
(* Units of stock.                                                         *)

LEMMA UnitOf ==
    ASSUME NEW es, NEW refs, NEW sku, NEW u
    PROVE  u \in Units(es, refs, sku) <=>
              \E e \in Accepted(es) : /\ e.ref \in refs
                                      /\ \E n \in 1..e.data.qty[sku] : u = <<e, n>>
  BY DEF Units

\* Finitely many events carry finitely many units.
LEMMA UnitsOfFinitelyMany ==
    ASSUME NEW es, IsFiniteSet(es), NEW refs, NEW sku, \A e \in es : e.data.qty[sku] \in Nat
    PROVE  IsFiniteSet(Units(es, refs, sku)) /\ Quantity(es, refs, sku) \in Nat
<1> DEFINE counted == {e \in Accepted(es) : e.ref \in refs}
           unitsOf == [e \in counted |-> {e} \X (1..e.data.qty[sku])]
           all == {unitsOf[e] : e \in counted}
<1>1. counted \subseteq es
  BY DEF Accepted
<1>2. IsFiniteSet(counted)
  BY <1>1, FS_Subset
<1>3. IsFiniteSet(all)
  <2>1. unitsOf \in Surjection(counted, all)
    BY DEF Surjection
  <2>2. QED
    BY <2>1, <1>2, FS_Surjection
<1>4. \A U \in all : IsFiniteSet(U)
  <2> SUFFICES ASSUME NEW e \in counted
               PROVE  IsFiniteSet({e} \X (1..e.data.qty[sku]))
    OBVIOUS
  <2>1. IsFiniteSet({e})
    BY FS_Singleton
  <2>2. IsFiniteSet(1..e.data.qty[sku])
    BY <1>1, FS_Interval
  <2>3. QED
    BY <2>1, <2>2, FS_Product
<1>5. Units(es, refs, sku) = UNION all
  BY DEF Units
<1> HIDE DEF all
<1>6. IsFiniteSet(Units(es, refs, sku))
  BY <1>3, <1>4, <1>5, FS_UNION
<1>7. QED
  BY <1>6, FS_CardinalityType DEF Quantity

LEMMA UnitsAreFinite ==
    ASSUME InventoryInv, NEW es \in SUBSET events, NEW refs, NEW sku \in Skus
    PROVE  IsFiniteSet(Units(es, refs, sku)) /\ Quantity(es, refs, sku) \in Nat
<1>1. IsFiniteSet(es)
  BY FS_Subset DEF InventoryInv, LogIsSound
<1>2. \A e \in es : e.data.qty[sku] \in Nat
  BY DEF InventoryInv, InventoryControlTypeOK, Book!BookTypeOK, Book!Event, Payload
<1>3. QED
  BY <1>1, <1>2, UnitsOfFinitelyMany

\* More events and more orders never make fewer units.
LEMMA MoreUnits ==
    ASSUME NEW es, NEW fs, es \subseteq fs, IsFiniteSet(fs), NEW refs, NEW more,
           refs \subseteq more, NEW sku, \A e \in fs : e.data.qty[sku] \in Nat
    PROVE  Quantity(es, refs, sku) <= Quantity(fs, more, sku)
<1>1. Units(es, refs, sku) \subseteq Units(fs, more, sku)
  <2>1. \A u : u \in Units(es, refs, sku) => u \in Units(fs, more, sku)
    BY UnitOf DEF Accepted
  <2>2. QED
    BY <2>1
<1>2. IsFiniteSet(Units(fs, more, sku))
  BY UnitsOfFinitelyMany
<1>3. QED
  BY <1>1, <1>2, FS_Subset DEF Quantity

\* Orders that are counted apart are counted once.
LEMMA QuantityOfMore ==
    ASSUME InventoryInv, NEW refs, NEW more, refs \cap more = {}, NEW sku \in Skus
    PROVE  Ordered(refs \cup more, sku) = Ordered(refs, sku) + Ordered(more, sku)
<1> DEFINE S == Units(events, refs, sku)
           T == Units(events, more, sku)
<1>1. Units(events, refs \cup more, sku) = S \cup T
  <2>1. \A u : u \in Units(events, refs \cup more, sku) <=> u \in S \/ u \in T
    BY UnitOf
  <2>2. QED
    BY <2>1
<1>2. S \cap T = {}
  <2>1. ASSUME NEW u \in S, u \in T
        PROVE  FALSE
    <3>1. PICK e \in Accepted(events) : e.ref \in refs /\ \E n \in 1..e.data.qty[sku] : u = <<e, n>>
      BY UnitOf
    <3>2. PICK f \in Accepted(events) : f.ref \in more /\ \E n \in 1..f.data.qty[sku] : u = <<f, n>>
      BY <2>1, UnitOf
    <3>3. e = f
      BY <3>1, <3>2
    <3>4. QED
      BY <3>1, <3>2, <3>3
  <2>2. QED
    BY <2>1
<1>3. IsFiniteSet(S) /\ IsFiniteSet(T) /\ Cardinality(S) \in Nat /\ Cardinality(T) \in Nat
  BY UnitsAreFinite DEF Quantity
<1> HIDE DEF S, T
<1>4. Cardinality(S \cup T) = Cardinality(S) + Cardinality(T) - Cardinality(S \cap T)
  BY <1>3, FS_Union
<1>5. Cardinality(S \cap T) = 0
  BY <1>2, FS_EmptySet
<1>6. Cardinality(S \cup T) = Cardinality(S) + Cardinality(T)
  BY <1>3, <1>4, <1>5
<1>7. QED
  BY <1>1, <1>6 DEF Ordered, Quantity, S, T

\* What the orders of a batch take is what they ordered in all of the log.
LEMMA BatchHasTheOrders ==
    ASSUME InventoryInv, NEW es \in SUBSET events, NEW sku
    PROVE  Ordered(Moving(es), sku) = Quantity(es, Moving(es), sku)
<1>1. \A e \in Accepted(events) : e.ref \in Moving(es) => e \in Accepted(es)
  <2> SUFFICES ASSUME NEW e \in Accepted(events), e.ref \in Moving(es)
               PROVE  e \in Accepted(es)
    OBVIOUS
  <2>1. PICK f \in Accepted(es) : f.ref = e.ref
    BY DEF Moving, StillAccepted
  <2>2. f \in Accepted(events)
    BY DEF Accepted
  <2>3. QED
    BY <2>1, <2>2 DEF InventoryInv, LogIsSound
<1>2. \A e \in Accepted(es) : e \in Accepted(events)
  BY DEF Accepted
<1>3. Units(events, Moving(es), sku) = Units(es, Moving(es), sku)
  <2>1. \A u : u \in Units(events, Moving(es), sku) <=> u \in Units(es, Moving(es), sku)
    BY <1>1, <1>2, UnitOf
  <2>2. QED
    BY <2>1
<1>4. QED
  BY <1>3 DEF Ordered, Quantity

\* Only the events of the orders that are counted matter.
LEMMA OtherEventsDoNotCount ==
    ASSUME NEW es, NEW fs, NEW refs, NEW sku,
           \A e : e \in Accepted(es) /\ e.ref \in refs <=> e \in Accepted(fs) /\ e.ref \in refs
    PROVE  Quantity(es, refs, sku) = Quantity(fs, refs, sku)
<1>1. \A u : u \in Units(es, refs, sku) <=> u \in Units(fs, refs, sku)
  BY UnitOf
<1>2. Units(es, refs, sku) = Units(fs, refs, sku)
  BY <1>1
<1>3. QED
  BY <1>2 DEF Quantity

-----------------------------------------------------------------------------
(* Conservation of stock.                                                  *)

Done == {ref \in Refs : Committed(ref)}

\* StockConserved, and that nobody has taken of a level that is not there: it
\* can be inserted later with what it starts with.
LevelsAreExact ==
    \A sku \in Skus :
       IF onHand[sku] = NoLevel THEN Ordered(Done, sku) = 0
                                ELSE onHand[sku] = InitialOnHand[sku] - Ordered(Done, sku)

LEMMA InitLevelsAreExact ==
    ASSUME InventoryInit
    PROVE  LevelsAreExact
<1>1. /\ Done = {} /\ InventoryInv
      /\ \A sku \in Skus : onHand[sku] \in {InitialOnHand[sku], NoLevel}
  BY InventoryInitEstablishes DEF InventoryInit, Done, Committed
<1>2. \A sku \in Skus : Ordered({}, sku) = 0
  <2>1. \A sku : Units(events, {}, sku) = {}
    BY DEF Units
  <2>2. QED
    BY <2>1, FS_EmptySet DEF Ordered, Quantity
<1>3. QED
  BY <1>1, <1>2, InventoryAssumption DEF LevelsAreExact

LEMMA LogGrowsKeepsLevelsExact ==
    ASSUME InventoryInv, LevelsAreExact, LogGrows
    PROVE  LevelsAreExact'
<1>1. ASSUME events \subseteq events', UNCHANGED onHand, Done' = Done,
             \A e \in Accepted(events') \ events : e.ref \notin Done
      PROVE  LevelsAreExact'
  <2>1. \A sku : Quantity(events', Done, sku) = Quantity(events, Done, sku)
    <3>1. \A e : e \in Accepted(events') /\ e.ref \in Done <=>
                 e \in Accepted(events) /\ e.ref \in Done
      BY <1>1 DEF Accepted
    <3>2. QED
      BY <3>1, OtherEventsDoNotCount
  <2>2. \A sku : Ordered(Done, sku)' = Ordered(Done, sku)
    BY <1>1, <2>1 DEF Ordered
  <2>3. QED
    BY <1>1, <2>2 DEF LevelsAreExact
<1>2. ASSUME NEW ref \in Refs, NEW payload \in Payloads, NEW id \in Book!EventIds,
             AcceptOrder(ref, payload, id)
      PROVE  LevelsAreExact'
  <2>1. /\ orders[ref] = NoOrder /\ UNCHANGED onHand
        /\ events' = events \cup {[id |-> id, ref |-> ref, data |-> payload]}
        /\ status' = [status EXCEPT ![ref] = "accepted"]
    BY <1>2 DEF AcceptOrder, Book!Accept, Book!Stored
  <2>2. status[ref] = "none" /\ status \in [Refs -> {"none", "accepted", "stock_committed"}]
    BY <2>1 DEF InventoryInv, LogIsSound, InventoryControlTypeOK
  <2>3. ref \notin Done /\ Done' = Done
    BY <2>1, <2>2 DEF Done, Committed
  <2>4. \A e \in Accepted(events') \ events : e.ref = ref
    BY <2>1 DEF Accepted
  <2>5. QED
    BY <1>1, <2>1, <2>3, <2>4
<1>3. ASSUME NEW ref \in Refs, NEW id \in Book!EventIds, AppendOtherType(ref, id)
      PROVE  LevelsAreExact'
  <2>1. /\ orders[ref] # NoOrder /\ UNCHANGED <<onHand, status>>
        /\ events' = events \cup
              {[id |-> id, ref |-> ref, data |-> [orders[ref] EXCEPT !.kind = "other_type"]]}
    BY <1>3 DEF AppendOtherType, Book!Stored, stock
  <2>2. orders[ref] \in Payload
    BY <2>1 DEF InventoryInv, InventoryControlTypeOK, Book!BookTypeOK
  <2>3. Accepted(events') \ events = {}
    BY <2>1, <2>2 DEF Accepted, Payload
  <2>4. Done' = Done
    BY <2>1 DEF Done, Committed
  <2>5. QED
    BY <1>1, <2>1, <2>3, <2>4
<1>4. QED
  BY <1>2, <1>3 DEF LogGrows

\* A stock level that was missing is inserted.
LEMMA InsertKeepsLevelsExact ==
    ASSUME LevelsAreExact, UNCHANGED <<book, status>>,
           \A sku \in Skus : \/ onHand'[sku] = onHand[sku]
                             \/ onHand[sku] = NoLevel /\ onHand'[sku] = InitialOnHand[sku]
    PROVE  LevelsAreExact'
<1>1. Done' = Done /\ events' = events
  BY DEF Done, Committed, book
<1>2. \A sku : Ordered(Done, sku)' = Ordered(Done, sku)
  BY <1>1 DEF Ordered
<1>3. QED
  BY <1>1, <1>2, InventoryAssumption DEF LevelsAreExact

\* A batch takes from stock what its orders have ordered.
LEMMA PublishKeepsLevelsExact ==
    ASSUME InventoryInv, LevelsAreExact, NEW es \in SUBSET events, Publish(es, Moving(es)),
           \A sku \in Skus : Quantity(es, Moving(es), sku) > 0 => Decrementable(es, Moving(es), sku),
           UNCHANGED book
    PROVE  LevelsAreExact'
<1> DEFINE moving == Moving(es)
<1>1. moving \subseteq Refs /\ moving \cap Done = {} /\ Done' = Done \cup moving
  <2>1. moving = {ref \in {e.ref : e \in Accepted(es)} : status[ref] = "accepted"}
    BY DEF Moving, StillAccepted
  <2>2. \A e \in Accepted(es) : e.ref \in Refs
    BY DEF Accepted, InventoryInv, InventoryControlTypeOK, Book!BookTypeOK, Book!Event
  <2>3. status' = [ref \in Refs |-> IF ref \in moving THEN "stock_committed" ELSE status[ref]]
    BY DEF Publish
  <2> HIDE DEF moving
  <2>4. QED
    BY <2>1, <2>2, <2>3 DEF Done, Committed
<1>2. \A sku \in Skus : /\ Ordered(Done, sku)' = Ordered(Done, sku) + Quantity(es, moving, sku)
                        /\ Quantity(es, moving, sku) \in Nat /\ Ordered(Done, sku) \in Nat
  <2> SUFFICES ASSUME NEW sku \in Skus
               PROVE  /\ Ordered(Done, sku)' = Ordered(Done, sku) + Quantity(es, moving, sku)
                      /\ Quantity(es, moving, sku) \in Nat /\ Ordered(Done, sku) \in Nat
    OBVIOUS
  <2>1. Ordered(Done, sku)' = Ordered(Done \cup moving, sku)
    BY <1>1 DEF Ordered, book
  <2>2. Ordered(Done \cup moving, sku) = Ordered(Done, sku) + Ordered(moving, sku)
    BY <1>1, QuantityOfMore
  <2>3. Ordered(moving, sku) = Quantity(es, moving, sku)
    BY BatchHasTheOrders
  <2>4. Quantity(es, moving, sku) \in Nat /\ Ordered(Done, sku) \in Nat
    BY UnitsAreFinite DEF Ordered
  <2>5. QED
    BY <2>1, <2>2, <2>3, <2>4
<1>3. \A sku \in Skus :
         /\ onHand'[sku] = IF Quantity(es, moving, sku) > 0
                              THEN onHand[sku] - Quantity(es, moving, sku) ELSE onHand[sku]
         /\ Quantity(es, moving, sku) > 0 => onHand[sku] # NoLevel
  BY DEF Publish, Decrementable, OnHandAfter
<1> HIDE DEF moving
<1>4. ASSUME NEW sku \in Skus
      PROVE  IF onHand'[sku] = NoLevel THEN Ordered(Done, sku)' = 0
             ELSE onHand'[sku] = InitialOnHand[sku] - Ordered(Done, sku)'
  <2>1. CASE onHand[sku] = NoLevel
    BY <2>1, <1>2, <1>3 DEF LevelsAreExact
  <2>2. CASE onHand[sku] # NoLevel
    <3>1. onHand[sku] = InitialOnHand[sku] - Ordered(Done, sku) /\ InitialOnHand[sku] \in Int
      BY <2>2, InventoryAssumption DEF LevelsAreExact
    <3>2. onHand'[sku] = InitialOnHand[sku] - Ordered(Done, sku)'
      BY <3>1, <1>2, <1>3
    <3>3. onHand'[sku] \in Int
      BY <3>1, <1>2, <1>3
    <3>4. QED
      BY <3>2, <3>3, InventoryAssumption
  <2>3. QED
    BY <2>1, <2>2
<1>5. QED
  BY <1>4 DEF LevelsAreExact

\* The read of GET /stock follows: without a rewind the events at or below the
\* offset are those of the committed orders.
LEMMA OffsetTellsTheLevels ==
    ASSUME InventoryInv, LevelsAreExact
    PROVE  StockConserved /\ AsOfIsExact
<1>1. StockConserved
  BY DEF LevelsAreExact, StockConserved, Done
<1>2. ASSUME rewinds = 0, NEW sku \in Skus
      PROVE  Ordered({e.ref : e \in {e \in Accepted(events) : e.id <= lastEventId}}, sku)
                = Ordered(Done, sku)
  <2> DEFINE below == {e.ref : e \in {e \in Accepted(events) : e.id <= lastEventId}}
  <2>1. \A e \in Accepted(events) : e.ref \in Refs
    BY DEF Accepted, InventoryInv, InventoryControlTypeOK, Book!BookTypeOK, Book!Event
  <2>2. \A e \in Accepted(events) : e.ref \in Done <=> e.id <= lastEventId
    BY <1>2, <2>1 DEF InventoryInv, OffsetMatchesStatus, Done
  <2>3. \A e \in Accepted(events) : e.ref \in below <=> e.id <= lastEventId
    BY DEF InventoryInv, LogIsSound
  <2> HIDE DEF below
  <2>4. \A u : u \in Units(events, below, sku) <=> u \in Units(events, Done, sku)
    BY <2>2, <2>3, UnitOf
  <2>5. Units(events, below, sku) = Units(events, Done, sku)
    BY <2>4
  <2>6. QED
    BY <2>5 DEF Ordered, Quantity, below
<1>3. AsOfIsExact
  BY <1>2 DEF LevelsAreExact, AsOfIsExact
<1>4. QED
  BY <1>1, <1>3

-----------------------------------------------------------------------------
(* The abstract inventory itself.                                          *)

LEMMA InventoryStep ==
    ASSUME InventoryInv, [InventoryNext]_inventoryVars
    PROVE  InventoryInv'
<1>1. ASSUME NEW es \in SUBSET events, Apply(es)
      PROVE  InventoryInv'
  BY <1>1, PublishKeepsInventory DEF Apply
<1>2. CASE InsertMissingStockLevels \/ UNCHANGED inventoryVars
  BY <1>2, InventoryUnchanged DEF InsertMissingStockLevels, inventoryVars, stock
<1>3. QED
  BY <1>1, <1>2, LogGrowsKeepsInventory, RewindKeepsInventory DEF InventoryNext

LEMMA InventoryStepKeepsLevelsExact ==
    ASSUME InventoryInv, LevelsAreExact, [InventoryNext]_inventoryVars
    PROVE  LevelsAreExact'
<1>1. ASSUME NEW es \in SUBSET events, Apply(es)
      PROVE  LevelsAreExact'
  BY <1>1, PublishKeepsLevelsExact DEF Apply
<1>2. CASE InsertMissingStockLevels
  <2>1. PICK new \in SUBSET Missing :
           onHand' = [sku \in Skus |-> IF sku \in new THEN InitialOnHand[sku] ELSE onHand[sku]]
    BY <1>2 DEF InsertMissingStockLevels
  <2>2. \A sku \in Skus : \/ onHand'[sku] = onHand[sku]
                          \/ onHand[sku] = NoLevel /\ onHand'[sku] = InitialOnHand[sku]
    BY <2>1 DEF Missing
  <2>3. QED
    BY <1>2, <2>2, InsertKeepsLevelsExact DEF InsertMissingStockLevels
<1>3. ASSUME UNCHANGED <<book, status, onHand>>
      PROVE  LevelsAreExact'
  BY <1>3, InsertKeepsLevelsExact
<1>4. CASE UNCHANGED inventoryVars
  BY <1>3, <1>4 DEF inventoryVars, stock
<1>5. ASSUME NEW id \in 0..MaxEventId, Rewind(id)
      PROVE  LevelsAreExact'
  BY <1>3, <1>5 DEF Rewind
<1>6. QED
  BY <1>1, <1>2, <1>4, <1>5, LogGrowsKeepsLevelsExact DEF InventoryNext

\* What has been ordered of a SKU is never taken back.
LEMMA OrderedNeverDecreases ==
    ASSUME InventoryInv, [InventoryNext]_inventoryVars, InventoryInv', NEW sku \in Skus
    PROVE  /\ Ordered(Refs, sku) \in Nat /\ Ordered(Refs, sku)' \in Nat
           /\ Ordered(Refs, sku) <= Ordered(Refs, sku)'
<1>1. events \subseteq events'
  BY DEF InventoryNext, inventoryVars, book, Apply, LogGrows, AcceptOrder, Book!Accept,
     AppendOtherType, InsertMissingStockLevels, Rewind
<1>2. IsFiniteSet(events') /\ \A e \in events' : e.data.qty[sku] \in Nat
  BY DEF InventoryInv, LogIsSound, InventoryControlTypeOK, Book!BookTypeOK, Book!Event, Payload
<1>3. Quantity(events, Refs, sku) \in Nat
  BY UnitsAreFinite
<1>4. Quantity(events', Refs, sku) \in Nat
  BY <1>2, UnitsOfFinitelyMany
<1>5. Quantity(events, Refs, sku) <= Quantity(events', Refs, sku)
  BY <1>1, <1>2, MoreUnits
<1>6. QED
  BY <1>3, <1>4, <1>5 DEF Ordered

\* A decrement that does not fit the column: the orders accepted for the SKU
\* are together more than its column can hold.
LEMMA RefusedForLackOfRoom ==
    ASSUME InventoryInv, LevelsAreExact, NEW es \in SUBSET events, NEW sku \in Skus,
           onHand[sku] # NoLevel, OnHandAfter(es, Moving(es), sku) \notin OnHandColumn
    PROVE  InitialOnHand[sku] - Ordered(Refs, sku) \notin OnHandColumn
<1>1. Moving(es) \subseteq Refs /\ Moving(es) \cap Done = {} /\ Done \subseteq Refs
  BY DEF Moving, StillAccepted, Done, Committed, Accepted, InventoryInv,
     InventoryControlTypeOK, Book!BookTypeOK, Book!Event
<1>2. Ordered(Done \cup Moving(es), sku) = Ordered(Done, sku) + Quantity(es, Moving(es), sku)
  BY <1>1, QuantityOfMore, BatchHasTheOrders
<1>3. IsFiniteSet(events) /\ \A e \in events : e.data.qty[sku] \in Nat
  BY DEF InventoryInv, LogIsSound, InventoryControlTypeOK, Book!BookTypeOK, Book!Event, Payload
<1>4. Done \cup Moving(es) \subseteq Refs
  BY <1>1
<1>5. Ordered(Done \cup Moving(es), sku) <= Ordered(Refs, sku)
  BY <1>3, <1>4, MoreUnits DEF Ordered
<1>6. /\ Ordered(Done, sku) \in Nat /\ Quantity(es, Moving(es), sku) \in Nat
      /\ Ordered(Refs, sku) \in Nat
  BY UnitsAreFinite DEF Ordered
<1>7. onHand[sku] = InitialOnHand[sku] - Ordered(Done, sku)
  BY DEF LevelsAreExact
<1>8. QED
  BY <1>2, <1>5, <1>6, <1>7, InventoryAssumption DEF OnHandAfter, OnHandColumn

LEMMA InventoryInvariance == InventorySpec => [](InventoryInv /\ LevelsAreExact)
<1>1. InventoryInit => InventoryInv /\ LevelsAreExact
  BY InventoryInitEstablishes, InitLevelsAreExact
<1>2. InventoryInv /\ LevelsAreExact /\ [InventoryNext]_inventoryVars =>
         (InventoryInv /\ LevelsAreExact)'
  BY InventoryStep, InventoryStepKeepsLevelsExact
<1>3. QED
  BY <1>1, <1>2, PTL DEF InventorySpec

\* INV-OFF-1 of the promise alone: whoever applies whole batches that follow
\* the offset keeps statuses and offset together (Apply).
THEOREM InventoryKeepsOffset == InventorySpec => []OffsetMatchesStatus
<1>1. InventoryInv => OffsetMatchesStatus
  BY DEF InventoryInv
<1>2. QED
  BY <1>1, InventoryInvariance, PTL

\* INV-STK-2 and the promise of GET /stock, for every number of orders, SKUs
\* and units: whoever applies whole batches loses and repeats no decrement.
THEOREM InventoryConservesStock == InventorySpec => [](StockConserved /\ AsOfIsExact)
<1>1. InventoryInv /\ LevelsAreExact => StockConserved /\ AsOfIsExact
  BY OffsetTellsTheLevels
<1>2. QED
  BY <1>1, InventoryInvariance, PTL

\* INV-OFF-2 of the promise alone: only an operator sets the offset back,
\* because a batch that is applied follows it (Apply, Rewind).
THEOREM InventoryMovesForward == InventorySpec => OffsetOnlyIncreases
<1>1. ASSUME InventoryInv, NEW es \in SUBSET events, Apply(es)
      PROVE  ~(lastEventId' < lastEventId)
  <2>1. PICK last \in es : lastEventId' = last.id
    BY <1>1 DEF Apply, Publish
  <2>2. last.id \in Nat /\ lastEventId \in Nat /\ lastEventId < last.id
    BY <1>1, <2>1 DEF Apply, FollowsOffset, InventoryInv, InventoryControlTypeOK,
       Book!BookTypeOK, Book!Event, Book!EventIds
  <2>3. QED
    BY <2>1, <2>2
<1>2. InventoryInv /\ [InventoryNext]_inventoryVars
         => [lastEventId' < lastEventId => rewinds' = rewinds + 1]_<<lastEventId, rewinds>>
  <2> SUFFICES ASSUME InventoryInv, [InventoryNext]_inventoryVars,
                      lastEventId' < lastEventId
               PROVE  rewinds' = rewinds + 1 \/ UNCHANGED <<lastEventId, rewinds>>
    OBVIOUS
  <2>1. CASE LogGrows \/ InsertMissingStockLevels
    BY <2>1 DEF LogGrows, AcceptOrder, AppendOtherType, InsertMissingStockLevels, stock
  <2>2. CASE \E id \in 0..MaxEventId : Rewind(id)
    BY <2>2 DEF Rewind
  <2>3. CASE UNCHANGED inventoryVars
    BY <2>3 DEF inventoryVars, stock
  <2>4. QED
    BY <1>1, <2>1, <2>2, <2>3 DEF InventoryNext
<1>3. QED
  BY <1>2, InventoryInvariance, PTL DEF InventorySpec, OffsetOnlyIncreases

=============================================================================
