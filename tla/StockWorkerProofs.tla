------------------------- MODULE StockWorkerProofs -------------------------
(***************************************************************************)
(* Proofs about StockWorker for every number of processes, orders and      *)
(* SKUs, every batch size and any number of failures, kills and rewinds.   *)
(***************************************************************************)
EXTENDS StockWorker, InventoryProofs

\* A position that a process remembers is never ahead of the log.
InTheLog(position) == position = 0 \/ \E e \in events : position <= e.id

PositionsAreInTheLog ==
    \A w \in Workers :
       /\ pc[w] \in {"head", "announce"} => offset[w] # Unknown
       /\ offset[w] # Unknown => InTheLog(offset[w])

\* A batch that was applied and not logged has events.
BatchesHaveEvents == \A w \in Workers : pc[w] \in {"measure", "log"} => batch[w] # {}

\* Without a rewind all that was applied lies at or below the offset, and no
\* two processes have the same event in hand.
AppliedOnce ==
    rewinds = 0 =>
    /\ \A id \in logged : id <= lastEventId
    /\ \A w \in Workers :
          /\ \A e \in batch[w] : e.id <= lastEventId
          /\ Ids(batch[w]) \cap logged = {}
          /\ \A v \in Workers \ {w} : Ids(batch[w]) \cap Ids(batch[v]) = {}

IndInv ==
    /\ InventoryInv
    /\ StockWorkerTypeOK
    /\ PositionsAreInTheLog
    /\ BatchesHaveEvents
    /\ AppliedOnce
    /\ LagNeverNegative

-----------------------------------------------------------------------------
(* Largest elements.                                                       *)

\* A finite set of numbers has a largest one: strict inclusion of the sets of
\* larger elements is well-founded.
LEMMA LargestExists ==
    ASSUME NEW S \in SUBSET Nat, IsFiniteSet(S), S # {}
    PROVE  Max(S) \in S /\ \A n \in S : n <= Max(S)
<1> DEFINE Above(m) == {k \in S : m < k}
<1> DEFINE Tails == {Above(m) : m \in S}
<1>1. IsWellFoundedOn(StrictSubsetOrdering(S), FiniteSubsetsOf(S))
  BY FS_StrictSubsetOrderingWellFounded
<1>2. Tails \subseteq FiniteSubsetsOf(S) /\ Tails # {}
  <2>1. \A m \in S : Above(m) \in SUBSET S /\ IsFiniteSet(Above(m))
    BY FS_Subset
  <2>2. QED
    BY <2>1 DEF FiniteSubsetsOf
<1>3. PICK T \in Tails : \A U \in Tails : <<U, T>> \notin StrictSubsetOrdering(S)
  <2> HIDE DEF Tails
  <2> QED  BY <1>1, <1>2, WFMin
<1>4. PICK m \in S : T = Above(m)
  BY <1>3
<1>5. ASSUME NEW n \in S, m < n
      PROVE  FALSE
  <2>1. n \in Nat /\ m \in Nat /\ ~(n < n) /\ \A k \in S : n < k => m < k
    BY <1>5
  <2>2. Above(n) \subseteq Above(m) /\ n \in Above(m) /\ n \notin Above(n)
    BY <2>1, <1>5, Zenon
  <2>3. <<Above(n), T>> \in StrictSubsetOrdering(S)
    BY <1>4, <2>2 DEF StrictSubsetOrdering
  <2>4. QED
    BY <1>3, <2>3
<1>6. \E x \in S : \A n \in S : x >= n
  BY <1>5
<1>7. QED
  BY <1>6 DEF Max

LEMMA IdsAreFinite ==
    ASSUME NEW es, IsFiniteSet(es)
    PROVE  IsFiniteSet(Ids(es))
<1>1. [e \in es |-> e.id] \in Surjection(es, Ids(es))
  BY DEF Surjection, Ids
<1>2. QED
  BY <1>1, FS_Surjection

\* The head of the log is at or above every event, and so is the last event of
\* a batch among its own.
LEMMA HeadIsTop ==
    ASSUME InventoryInv
    PROVE  /\ HeadEventId \in 0..MaxEventId
           /\ \A e \in events : e.id <= HeadEventId
<1> DEFINE S == Ids(events) \cup {0}
<1>1. IsFiniteSet(S)
  BY IdsAreFinite, FS_AddElement DEF InventoryInv, LogIsSound
<1>2. S \subseteq 0..MaxEventId /\ S # {} /\ \A e \in events : e.id \in S
  BY InventoryAssumption DEF InventoryInv, InventoryControlTypeOK, Book!BookTypeOK, Book!Event,
     Book!EventIds, Ids
<1>3. S \in SUBSET Nat
  BY <1>2, InventoryAssumption
<1> HIDE DEF S
<1>4. Max(S) \in S /\ \A n \in S : n <= Max(S)
  BY <1>1, <1>2, <1>3, LargestExists
<1>5. QED
  BY <1>2, <1>4 DEF HeadEventId, S

LEMMA LastIsLast ==
    ASSUME InventoryInv, NEW es \in SUBSET events, es # {}
    PROVE  \E e \in es : Last(es) = e.id
<1>1. IsFiniteSet(Ids(es))
  BY FS_Subset, IdsAreFinite DEF InventoryInv, LogIsSound
<1>2. Ids(es) \in SUBSET Nat /\ Ids(es) # {}
  BY DEF InventoryInv, InventoryControlTypeOK, Book!BookTypeOK, Book!Event, Book!EventIds, Ids
<1>3. Max(Ids(es)) \in Ids(es)
  BY <1>1, <1>2, LargestExists
<1>4. QED
  BY <1>3 DEF Last, Ids

-----------------------------------------------------------------------------
(* The steps of a process between two batches.                             *)

LEMMA InitEstablishes ==
    ASSUME Init
    PROVE  IndInv
<1>1. InventoryInv
  BY InventoryInitEstablishes DEF Init
<1>2. StockWorkerTypeOK
  BY <1>1, InventoryAssumption DEF Init, InventoryInit, InventoryInv, InventoryTypeOK,
     StockWorkerTypeOK, Book!Init
<1>3. /\ pc = [w \in Workers |-> "down"] /\ offset = [w \in Workers |-> Unknown]
      /\ batch = [w \in Workers |-> {}] /\ logged = {}
  BY DEF Init
<1>4. PositionsAreInTheLog /\ BatchesHaveEvents /\ LagNeverNegative
  BY <1>3 DEF PositionsAreInTheLog, BatchesHaveEvents, LagNeverNegative
<1>5. AppliedOnce
  BY <1>3 DEF AppliedOnce, Ids
<1>6. QED
  BY <1>1, <1>2, <1>4, <1>5 DEF IndInv

\* A step that leaves the process without a batch in hand, and at a place
\* where nothing is said of what it remembers.
LEMMA QuietStepPreserves ==
    ASSUME IndInv, NEW w \in Workers,
           NEW step \in {"loop", "connect", "offset", "apply", "down", "exited"},
           Goto(w, step), UNCHANGED <<inventoryVars, logged>>,
           offset' \in {offset, [offset EXCEPT ![w] = Unknown]},
           head' \in {head, [head EXCEPT ![w] = 0]},
           batch' \in {batch, [batch EXCEPT ![w] = {}]},
           stop' \subseteq Workers, announced' \subseteq Workers
    PROVE  IndInv'
<1>1. InventoryInv' /\ UNCHANGED <<orders, events, onHand, lastEventId, rewinds>>
  BY InventoryUnchanged DEF IndInv, inventoryVars, book, stock
<1>2. \A v \in Workers : /\ pc'[v] = IF v = w THEN step ELSE pc[v]
                         /\ offset'[v] \in {offset[v], Unknown}
                         /\ v # w => offset'[v] = offset[v] /\ head'[v] = head[v]
                         /\ v # w => batch'[v] = batch[v]
                         /\ batch'[v] \in {batch[v], {}}
  BY DEF Goto, IndInv, StockWorkerTypeOK
<1>3. StockWorkerTypeOK'
  <2>1. pc' \in [Workers -> Running \cup {"down", "exited"}]
    BY DEF Goto, IndInv, StockWorkerTypeOK, Running
  <2>2. offset' \in [Workers -> 0..MaxEventId \cup {Unknown}] /\ head' \in [Workers -> 0..MaxEventId]
    BY InventoryAssumption DEF IndInv, StockWorkerTypeOK
  <2>3. batch' \in [Workers -> SUBSET events]
    BY DEF IndInv, StockWorkerTypeOK
  <2>4. InventoryTypeOK'
    BY <1>1 DEF IndInv, StockWorkerTypeOK, InventoryInv, InventoryTypeOK
  <2>5. QED
    BY <1>1, <2>1, <2>2, <2>3, <2>4 DEF IndInv, StockWorkerTypeOK
<1>4. PositionsAreInTheLog'
  BY <1>1, <1>2 DEF IndInv, PositionsAreInTheLog, InTheLog
<1>5. BatchesHaveEvents'
  BY <1>2 DEF IndInv, BatchesHaveEvents
<1>6. AppliedOnce'
  BY <1>1, <1>2 DEF IndInv, AppliedOnce, Ids
<1>7. LagNeverNegative'
  BY <1>2 DEF IndInv, LagNeverNegative
<1>8. QED
  BY <1>1, <1>3, <1>4, <1>5, <1>6, <1>7 DEF IndInv

LEMMA EndPreserves ==
    ASSUME IndInv, NEW w \in Workers, NEW step \in {"down", "exited"}, End(w, step),
           UNCHANGED inventoryVars
    PROVE  IndInv'
<1>1. stop' \subseteq Workers /\ announced' \subseteq Workers
  BY DEF End, IndInv, StockWorkerTypeOK
<1>2. QED
  BY <1>1, QuietStepPreserves DEF End

LEMMA PlainStepPreserves ==
    ASSUME IndInv, NEW w \in Workers, NEW step \in {"loop", "connect", "offset", "apply"},
           Goto(w, step), UNCHANGED <<inventoryVars, memory>>
    PROVE  IndInv'
<1>1. stop' \subseteq Workers /\ announced' \subseteq Workers
      /\ UNCHANGED <<offset, head, batch, logged>>
  BY DEF memory, IndInv, StockWorkerTypeOK
<1>2. QED
  BY <1>1, QuietStepPreserves

LEMMA LoopPreserves ==
    ASSUME IndInv, NEW w \in Workers, Start(w) \/ Loop(w) \/ Connect(w)
    PROVE  IndInv'
<1>1. CASE Start(w)
  BY <1>1, PlainStepPreserves DEF Start
<1>2. CASE Loop(w) /\ w \in stop
  BY <1>2, EndPreserves DEF Loop
<1>3. CASE Loop(w) /\ w \notin stop
  BY <1>3, PlainStepPreserves DEF Loop
<1>4. CASE Connect(w)
  BY <1>4, PlainStepPreserves DEF Connect
<1>5. QED
  BY <1>1, <1>2, <1>3, <1>4

LEMMA AnnouncePreserves ==
    ASSUME IndInv, NEW w \in Workers, Announce(w)
    PROVE  IndInv'
<1>1. stop' \subseteq Workers /\ announced' \subseteq Workers
  BY DEF Announce, IndInv, StockWorkerTypeOK
<1>2. QED
  BY <1>1, QuietStepPreserves DEF Announce

LEMMA FailPreserves ==
    ASSUME IndInv, NEW w \in Workers, Fail(w)
    PROVE  IndInv'
<1>1. stop' \subseteq Workers /\ announced' \subseteq Workers
  BY DEF Fail, IndInv, StockWorkerTypeOK
<1>2. QED
  BY <1>1, QuietStepPreserves DEF Fail, Retry

\* The request to stop changes nothing else.
LEMMA SignalPreserves ==
    ASSUME IndInv, NEW w \in Workers, Signal(w)
    PROVE  IndInv'
<1>1. /\ UNCHANGED <<inventoryVars, pc, offset, head, batch, announced, logged>>
      /\ stop' \subseteq Workers
  BY DEF Signal, IndInv, StockWorkerTypeOK
<1>2. InventoryInv' /\ UNCHANGED <<orders, events, onHand, lastEventId, rewinds>>
  BY <1>1, InventoryUnchanged DEF IndInv, inventoryVars, book, stock
<1>3. StockWorkerTypeOK'
  BY <1>1, <1>2 DEF IndInv, StockWorkerTypeOK, InventoryInv, InventoryTypeOK
<1>4. QED
  BY <1>1, <1>2, <1>3 DEF IndInv, PositionsAreInTheLog, InTheLog, BatchesHaveEvents, AppliedOnce,
     LagNeverNegative

-----------------------------------------------------------------------------
(* The reads of the offset and of the head.                                *)

\* A step that leaves the tables, the batches and the log lines alone.
LEMMA ReportingStepPreserves ==
    ASSUME IndInv, NEW w \in Workers, NEW step \in {"head", "announce", "log"}, Goto(w, step),
           UNCHANGED <<inventoryVars, stop, batch, announced, logged>>,
           NEW p \in 0..MaxEventId \cup {Unknown}, offset' = [offset EXCEPT ![w] = p],
           NEW h \in 0..MaxEventId, head' = [head EXCEPT ![w] = h],
           p # Unknown => InTheLog(p),
           step \in {"head", "announce"} => p # Unknown,
           step = "announce" => h - p >= 0,
           step = "log" => batch[w] # {} /\ h - Last(batch[w]) >= 0
    PROVE  IndInv'
<1>1. InventoryInv' /\ UNCHANGED <<orders, events, onHand, lastEventId, rewinds>>
  BY InventoryUnchanged DEF IndInv, inventoryVars, book, stock
<1>2. \A v \in Workers : /\ pc'[v] = IF v = w THEN step ELSE pc[v]
                         /\ offset'[v] = IF v = w THEN p ELSE offset[v]
                         /\ head'[v] = IF v = w THEN h ELSE head[v]
                         /\ batch'[v] = batch[v]
  BY DEF Goto, IndInv, StockWorkerTypeOK
<1>3. StockWorkerTypeOK'
  <2>1. pc' \in [Workers -> Running \cup {"down", "exited"}]
    BY DEF Goto, IndInv, StockWorkerTypeOK, Running
  <2>2. InventoryTypeOK'
    BY <1>1 DEF IndInv, StockWorkerTypeOK, InventoryInv, InventoryTypeOK
  <2>3. QED
    BY <1>1, <2>1, <2>2 DEF IndInv, StockWorkerTypeOK
<1>4. PositionsAreInTheLog'
  BY <1>1, <1>2 DEF IndInv, PositionsAreInTheLog, InTheLog
<1>5. BatchesHaveEvents'
  BY <1>2 DEF IndInv, BatchesHaveEvents
<1>6. AppliedOnce'
  BY <1>1 DEF IndInv, AppliedOnce
<1>7. LagNeverNegative'
  BY <1>2 DEF IndInv, LagNeverNegative
<1>8. QED
  BY <1>1, <1>3, <1>4, <1>5, <1>6, <1>7 DEF IndInv

LEMMA ReadOffsetPreserves ==
    ASSUME IndInv, NEW w \in Workers, ReadOffset(w)
    PROVE  IndInv'
<1>1. lastEventId \in 0..MaxEventId /\ InTheLog(lastEventId) /\ lastEventId # Unknown
  BY StockWorkerAssumption, InventoryAssumption DEF IndInv, InventoryInv, InventoryControlTypeOK,
     OffsetIsInTheLog, InTheLog
<1>2. head' = [head EXCEPT ![w] = head[w]] /\ head[w] \in 0..MaxEventId
  BY DEF ReadOffset, IndInv, StockWorkerTypeOK
<1>3. QED
  BY <1>1, <1>2, ReportingStepPreserves DEF ReadOffset

\* The head that a process reads is at or above every position in the log.
LEMMA HeadIsAhead ==
    ASSUME IndInv, NEW position \in 0..MaxEventId, InTheLog(position)
    PROVE  HeadEventId - position >= 0
<1>1. /\ HeadEventId \in 0..MaxEventId /\ \A e \in events : e.id <= HeadEventId
      /\ \A e \in events : e.id \in Nat
  BY HeadIsTop DEF IndInv, InventoryInv, InventoryControlTypeOK, Book!BookTypeOK, Book!Event,
     Book!EventIds
<1>2. QED
  BY <1>1, InventoryAssumption DEF InTheLog

LEMMA ReadHeadPreserves ==
    ASSUME IndInv, NEW w \in Workers, ReadHead(w)
    PROVE  IndInv'
<1>1. /\ offset[w] \in 0..MaxEventId /\ offset[w] # Unknown /\ InTheLog(offset[w])
      /\ offset' = [offset EXCEPT ![w] = offset[w]]
  BY DEF ReadHead, IndInv, StockWorkerTypeOK, PositionsAreInTheLog
<1>2. HeadEventId \in 0..MaxEventId /\ HeadEventId - offset[w] >= 0
  BY <1>1, HeadIsTop, HeadIsAhead DEF IndInv
<1>3. QED
  BY <1>1, <1>2, ReportingStepPreserves DEF ReadHead

LEMMA MeasurePreserves ==
    ASSUME IndInv, NEW w \in Workers, Measure(w)
    PROVE  IndInv'
<1>1. /\ offset[w] \in 0..MaxEventId \cup {Unknown} /\ (offset[w] # Unknown => InTheLog(offset[w]))
      /\ offset' = [offset EXCEPT ![w] = offset[w]]
      /\ batch[w] \in SUBSET events /\ batch[w] # {}
  BY DEF Measure, IndInv, StockWorkerTypeOK, PositionsAreInTheLog, BatchesHaveEvents
<1>2. PICK e \in batch[w] : Last(batch[w]) = e.id
  BY <1>1, LastIsLast DEF IndInv
<1>3. e.id \in 0..MaxEventId /\ InTheLog(e.id)
  BY <1>1, InventoryAssumption DEF InTheLog, IndInv, InventoryInv, InventoryControlTypeOK,
     Book!BookTypeOK, Book!Event, Book!EventIds
<1>4. HeadEventId \in 0..MaxEventId /\ HeadEventId - Last(batch[w]) >= 0
  BY <1>2, <1>3, HeadIsTop, HeadIsAhead DEF IndInv
<1>5. QED
  BY <1>1, <1>4, ReportingStepPreserves DEF Measure

\* The line is logged and the batch is out of hand.
LEMMA LogAppliedPreserves ==
    ASSUME IndInv, NEW w \in Workers, LogApplied(w)
    PROVE  IndInv'
<1>1. /\ pc[w] = "log" /\ pc' = [pc EXCEPT ![w] = "loop"]
      /\ offset' = [offset EXCEPT ![w] = Last(batch[w])]
      /\ logged' = logged \cup Ids(batch[w]) /\ batch' = [batch EXCEPT ![w] = {}]
      /\ UNCHANGED <<inventoryVars, stop, head, announced>>
      /\ batch[w] \in SUBSET events /\ batch[w] # {}
  BY DEF LogApplied, Goto, IndInv, StockWorkerTypeOK, BatchesHaveEvents
<1>2. InventoryInv' /\ UNCHANGED <<orders, events, onHand, lastEventId, rewinds>>
  BY <1>1, InventoryUnchanged DEF IndInv, inventoryVars, book, stock
<1>3. PICK e \in batch[w] : Last(batch[w]) = e.id
  BY <1>1, LastIsLast DEF IndInv
<1>4. /\ Last(batch[w]) \in 0..MaxEventId /\ InTheLog(Last(batch[w]))
      /\ Ids(batch[w]) \subseteq Book!EventIds
  BY <1>1, <1>3, InventoryAssumption DEF Ids, InTheLog, IndInv, InventoryInv,
     InventoryControlTypeOK, Book!BookTypeOK, Book!Event, Book!EventIds
<1> DEFINE last == Last(batch[w])
<1> HIDE DEF last
<1>5. \A v \in Workers : /\ pc'[v] = IF v = w THEN "loop" ELSE pc[v]
                         /\ offset'[v] = IF v = w THEN last ELSE offset[v]
                         /\ head'[v] = head[v]
                         /\ batch'[v] = IF v = w THEN {} ELSE batch[v]
  BY <1>1 DEF IndInv, StockWorkerTypeOK, last
<1>6. StockWorkerTypeOK'
  <2>1. InventoryTypeOK'
    BY <1>2 DEF IndInv, StockWorkerTypeOK, InventoryInv, InventoryTypeOK
  <2>2. pc' \in [Workers -> Running \cup {"down", "exited"}]
    BY <1>1 DEF IndInv, StockWorkerTypeOK, Running
  <2>3. QED
    BY <1>1, <1>2, <1>4, <2>1, <2>2 DEF IndInv, StockWorkerTypeOK
<1>7. PositionsAreInTheLog'
  BY <1>2, <1>4, <1>5 DEF IndInv, PositionsAreInTheLog, InTheLog, last
<1>8. BatchesHaveEvents' /\ LagNeverNegative'
  BY <1>5 DEF IndInv, BatchesHaveEvents, LagNeverNegative
<1>9. AppliedOnce'
  <2> SUFFICES ASSUME rewinds = 0
               PROVE  /\ \A id \in logged' : id <= lastEventId
                      /\ \A v \in Workers :
                            /\ \A f \in batch'[v] : f.id <= lastEventId
                            /\ Ids(batch'[v]) \cap logged' = {}
                            /\ \A u \in Workers \ {v} : Ids(batch'[v]) \cap Ids(batch'[u]) = {}
    BY <1>2 DEF AppliedOnce
  <2>1. \A id \in logged' : id <= lastEventId
    BY <1>1 DEF IndInv, AppliedOnce, Ids
  <2>2. \A v \in Workers : /\ \A f \in batch'[v] : f.id <= lastEventId
                           /\ Ids(batch'[v]) = IF v = w THEN {} ELSE Ids(batch[v])
    BY <1>5 DEF IndInv, AppliedOnce, Ids
  <2>3. QED
    BY <1>1, <2>1, <2>2 DEF IndInv, AppliedOnce
<1>10. QED
  BY <1>2, <1>6, <1>7, <1>8, <1>9 DEF IndInv

-----------------------------------------------------------------------------
(* Batches and the rest of the world.                                      *)

\* What apply_next_batch reads lies above the offset that is stored, whatever
\* offset the process remembers; so nobody has it in hand or has logged it.
LEMMA PublishPreserves ==
    ASSUME IndInv, NEW w \in Workers, NextBatch(w) # {}, ~Violates(NextBatch(w)),
           ~OutOfRange(NextBatch(w)), Publish(NextBatch(w), Moving(NextBatch(w))),
           batch' = [batch EXCEPT ![w] = NextBatch(w)], Goto(w, "measure"),
           UNCHANGED <<book, rewinds, stop, offset, head, announced, logged>>
    PROVE  IndInv'
<1> DEFINE es == NextBatch(w)
<1>1. /\ es \in SUBSET events /\ FollowsOffset(es) /\ ~Poisoned(es)
  BY BatchFollowsOffset, StockWorkerAssumption DEF IndInv, NextBatch, Violates
<1>2. \A sku \in Skus : Quantity(es, Moving(es), sku) > 0 => Decrementable(es, Moving(es), sku)
  BY DEF Violates, OutOfRange
<1>3. InventoryInv' /\ lastEventId < lastEventId'
  BY <1>1, PublishKeepsInventory DEF IndInv
<1>4. InventoryTypeOK'
  BY <1>2, <1>3, PublishKeepsLevels DEF IndInv, StockWorkerTypeOK, InventoryInv, InventoryTypeOK
<1>5. /\ es # {} /\ \A e \in es : lastEventId < e.id /\ e.id <= lastEventId'
      /\ \A e \in events : e.id \in Nat
      /\ lastEventId \in Nat /\ lastEventId' \in Nat
  BY <1>1, <1>3, InventoryAssumption DEF FollowsOffset, Publish, IndInv, InventoryInv,
     InventoryControlTypeOK, Book!BookTypeOK, Book!Event, Book!EventIds
<1> HIDE DEF es
<1>6. \A v \in Workers : /\ pc'[v] = IF v = w THEN "measure" ELSE pc[v]
                         /\ batch'[v] = IF v = w THEN es ELSE batch[v]
                         /\ offset'[v] = offset[v] /\ head'[v] = head[v]
  BY DEF Goto, IndInv, StockWorkerTypeOK, es
<1>7. StockWorkerTypeOK'
  <2>1. pc' \in [Workers -> Running \cup {"down", "exited"}]
    BY DEF Goto, IndInv, StockWorkerTypeOK, Running
  <2>2. batch' \in [Workers -> SUBSET events']
    BY <1>1 DEF IndInv, StockWorkerTypeOK, book, es
  <2>3. QED
    BY <1>4, <2>1, <2>2 DEF IndInv, StockWorkerTypeOK
<1>8. PositionsAreInTheLog' /\ BatchesHaveEvents' /\ LagNeverNegative'
  BY <1>5, <1>6 DEF IndInv, PositionsAreInTheLog, InTheLog, BatchesHaveEvents, LagNeverNegative,
     book
<1>9. AppliedOnce'
  <2> SUFFICES ASSUME rewinds = 0
               PROVE  /\ \A id \in logged : id <= lastEventId'
                      /\ \A v \in Workers :
                            /\ \A f \in batch'[v] : f.id <= lastEventId'
                            /\ Ids(batch'[v]) \cap logged = {}
                            /\ \A u \in Workers \ {v} : Ids(batch'[v]) \cap Ids(batch'[u]) = {}
    BY DEF AppliedOnce
  <2>1. /\ \A id \in logged : id \in Nat /\ id <= lastEventId
        /\ \A v \in Workers : \A f \in batch[v] : f.id \in Nat /\ f.id <= lastEventId
    BY <1>5 DEF IndInv, StockWorkerTypeOK, AppliedOnce, Book!EventIds
  <2>2. /\ \A id \in logged : id <= lastEventId'
        /\ \A v \in Workers : \A f \in batch'[v] : f.id <= lastEventId'
    BY <1>3, <1>5, <1>6, <2>1
  <2>3. \A id \in Ids(es) : id \in Nat /\ lastEventId < id
    BY <1>1, <1>5 DEF Ids, es
  <2>4. Ids(es) \cap logged = {} /\ \A v \in Workers : Ids(es) \cap Ids(batch[v]) = {}
    <3>1. \A v \in Workers : \A id \in Ids(batch[v]) : id \in Nat /\ id <= lastEventId
      BY <2>1 DEF Ids
    <3>2. QED
      BY <1>5, <2>1, <2>3, <3>1
  <2>5. \A v \in Workers : Ids(batch'[v]) = IF v = w THEN Ids(es) ELSE Ids(batch[v])
    BY <1>6
  <2>6. QED
    BY <2>2, <2>4, <2>5 DEF IndInv, AppliedOnce
<1>10. QED
  BY <1>3, <1>7, <1>8, <1>9 DEF IndInv

LEMMA ApplyNextBatchPreserves ==
    ASSUME IndInv, NEW w \in Workers, ApplyNextBatch(w)
    PROVE  IndInv'
<1>1. ASSUME Goto(w, "loop"), UNCHANGED <<stock, memory>>
      PROVE  IndInv'
  BY <1>1, PlainStepPreserves DEF ApplyNextBatch, inventoryVars
<1>2. ASSUME End(w, "exited"), UNCHANGED stock
      PROVE  IndInv'
  BY <1>2, EndPreserves DEF ApplyNextBatch, inventoryVars
<1>3. CASE /\ NextBatch(w) # {} /\ ~Violates(NextBatch(w)) /\ ~OutOfRange(NextBatch(w))
           /\ Publish(NextBatch(w), Moving(NextBatch(w)))
           /\ batch' = [batch EXCEPT ![w] = NextBatch(w)] /\ Goto(w, "measure")
           /\ UNCHANGED <<stop, offset, head, announced, logged>>
  BY <1>3, PublishPreserves DEF ApplyNextBatch
<1>4. QED
  BY <1>1, <1>2, <1>3 DEF ApplyNextBatch, Retry

\* The log grows, seed inserts levels, or an operator rewinds.
LEMMA WorldPreserves ==
    ASSUME IndInv, LogGrows \/ InsertMissingStockLevels \/ \E id \in 0..MaxEventId : Rewind(id),
           UNCHANGED <<pc, memory>>
    PROVE  IndInv'
<1>1. /\ InventoryInv' /\ events \subseteq events' /\ onHand' \in [Skus -> Int \cup {NoLevel}]
      /\ UNCHANGED <<lastEventId, rewinds>> \/ rewinds' # 0
  <2>0. onHand \in [Skus -> Int \cup {NoLevel}] /\ rewinds \in Nat
    BY InventoryAssumption DEF IndInv, StockWorkerTypeOK, InventoryTypeOK, InventoryControlTypeOK
  <2>1. CASE LogGrows
    BY <2>0, <2>1, LogGrowsKeepsInventory DEF IndInv, LogGrows, AcceptOrder, AppendOtherType,
       Book!Accept
  <2>2. CASE InsertMissingStockLevels
    BY <2>0, <2>2, InventoryUnchanged, InventoryAssumption DEF IndInv, InsertMissingStockLevels,
       book
  <2>3. ASSUME NEW id \in 0..MaxEventId, Rewind(id)
        PROVE  /\ InventoryInv' /\ events \subseteq events'
               /\ onHand' \in [Skus -> Int \cup {NoLevel}] /\ rewinds' # 0
    BY <2>0, <2>3, RewindKeepsInventory DEF IndInv, Rewind, book
  <2>4. QED
    BY <2>1, <2>2, <2>3
<1>2. UNCHANGED <<pc, stop, offset, head, batch, announced, logged>>
  BY DEF memory
<1>3. StockWorkerTypeOK'
  <2>1. batch' \in [Workers -> SUBSET events']
    BY <1>1, <1>2 DEF IndInv, StockWorkerTypeOK
  <2>2. InventoryTypeOK'
    BY <1>1 DEF InventoryInv, InventoryTypeOK
  <2>3. QED
    BY <1>2, <2>1, <2>2 DEF IndInv, StockWorkerTypeOK
<1>4. PositionsAreInTheLog'
  BY <1>1, <1>2 DEF IndInv, PositionsAreInTheLog, InTheLog
<1>5. BatchesHaveEvents' /\ LagNeverNegative'
  BY <1>2 DEF IndInv, BatchesHaveEvents, LagNeverNegative
<1>6. AppliedOnce'
  BY <1>1, <1>2 DEF IndInv, AppliedOnce
<1>7. QED
  BY <1>1, <1>3, <1>4, <1>5, <1>6 DEF IndInv

LEMMA StepPreserves ==
    ASSUME IndInv, [Next]_vars
    PROVE  IndInv'
<1>1. ASSUME NEW w \in Workers, Start(w) \/ Run(w)
      PROVE  IndInv'
  BY <1>1, LoopPreserves, ReadOffsetPreserves, ReadHeadPreserves, AnnouncePreserves,
     ApplyNextBatchPreserves, MeasurePreserves, LogAppliedPreserves, FailPreserves DEF Run
<1>2. ASSUME NEW w \in Workers, Signal(w)
      PROVE  IndInv'
  BY <1>2, SignalPreserves
<1>3. ASSUME NEW w \in Workers, Kill(w)
      PROVE  IndInv'
  BY <1>3, EndPreserves DEF Kill
<1>4. CASE UNCHANGED vars
  <2>1. InventoryInv' /\ UNCHANGED <<orders, events, onHand, lastEventId, rewinds>>
    BY <1>4, InventoryUnchanged DEF IndInv, vars, inventoryVars, book, stock
  <2>2. UNCHANGED <<pc, stop, offset, head, batch, announced, logged>>
    BY <1>4 DEF vars, memory
  <2>3. StockWorkerTypeOK'
    BY <2>1, <2>2 DEF IndInv, StockWorkerTypeOK, InventoryInv, InventoryTypeOK
  <2>4. QED
    BY <2>1, <2>2, <2>3 DEF IndInv, PositionsAreInTheLog, InTheLog, BatchesHaveEvents,
       AppliedOnce, LagNeverNegative
<1>5. QED
  BY <1>1, <1>2, <1>3, <1>4, WorldPreserves DEF Next

\* IndInv is an invariant of the worker loop.
LEMMA Invariance == Spec => []IndInv
<1>1. Init => IndInv
  BY InitEstablishes
<1>2. IndInv /\ [Next]_vars => IndInv'
  BY StepPreserves
<1>3. QED
  BY <1>1, <1>2, PTL DEF Spec

-----------------------------------------------------------------------------
(* The results.                                                            *)

\* The types of what every process of the worker remembers.
THEOREM StockWorkerTypeCorrect == Spec => []StockWorkerTypeOK
<1>1. IndInv => StockWorkerTypeOK
  BY DEF IndInv
<1>2. QED
  BY <1>1, Invariance, PTL

\* The lag is never negative, however many processes apply between the reads
\* it is made of (run_stock_worker, lag=head - offset).
THEOREM LagIsNeverNegative == Spec => []LagNeverNegative
<1>1. IndInv => LagNeverNegative
  BY DEF IndInv
<1>2. QED
  BY <1>1, Invariance, PTL

\* Without a rewind no event is in two "applied events" lines, for any number
\* of processes with any offsets in their memories (run_stock_worker).
THEOREM EventsAreLoggedOnce == Spec => []LoggedOnce
<1>1. IndInv => LoggedOnce
  BY DEF IndInv, AppliedOnce, LoggedOnce
<1>2. QED
  BY <1>1, Invariance, PTL

-----------------------------------------------------------------------------
(* The refinement.                                                         *)

\* A batch that is applied is the one that follows the committed offset, and
\* every decrement of it was found possible.
LEMMA ApplyNextBatchSimulates ==
    ASSUME IndInv, NEW w \in Workers, ApplyNextBatch(w)
    PROVE  [InventoryNext]_inventoryVars
<1> DEFINE es == NextBatch(w)
<1>1. CASE UNCHANGED stock
  BY <1>1 DEF ApplyNextBatch, inventoryVars
<1>2. CASE es # {} /\ ~Violates(es) /\ ~OutOfRange(es) /\ Publish(es, Moving(es))
  <2>1. es \in SUBSET events /\ FollowsOffset(es) /\ ~Poisoned(es)
    BY <1>2, BatchFollowsOffset, StockWorkerAssumption DEF IndInv, NextBatch, Violates
  <2>2. \A sku \in Skus : Quantity(es, Moving(es), sku) > 0 => Decrementable(es, Moving(es), sku)
    BY <1>2 DEF Violates, OutOfRange
  <2>3. Apply(es)
    BY <1>2, <2>1, <2>2 DEF ApplyNextBatch, Apply
  <2>4. QED
    BY <2>1, <2>3 DEF InventoryNext
<1>3. QED
  BY <1>1, <1>2 DEF ApplyNextBatch

LEMMA StepSimulates ==
    ASSUME IndInv, [Next]_vars
    PROVE  [InventoryNext]_inventoryVars
<1>1. ASSUME NEW w \in Workers, Run(w), ~ApplyNextBatch(w)
      PROVE  UNCHANGED inventoryVars
  BY <1>1 DEF Run, Loop, Connect, ReadOffset, ReadHead, Announce, Measure, LogApplied, Fail
<1>2. ASSUME NEW w \in Workers, Start(w) \/ Signal(w) \/ Kill(w)
      PROVE  UNCHANGED inventoryVars
  BY <1>2 DEF Start, Signal, Kill
<1>3. CASE LogGrows \/ InsertMissingStockLevels \/ \E id \in 0..MaxEventId : Rewind(id)
  BY <1>3 DEF InventoryNext
<1>4. CASE UNCHANGED vars
  BY <1>4 DEF vars
<1>5. QED
  BY <1>1, <1>2, <1>3, <1>4, ApplyNextBatchSimulates DEF Next

\* With the loop around it a worker still changes the database in whole
\* batches only, whatever it remembers and however often it fails, is stopped
\* or is killed (run_stock_worker, apply_next_batch).
THEOREM StockWorkerImplementsInventory == Spec => ImplementsInventory
<1>1. Init => InventoryInit
  BY DEF Init
<1>2. IndInv /\ [Next]_vars => [InventoryNext]_inventoryVars
  BY StepSimulates
<1>3. QED
  BY <1>1, <1>2, Invariance, PTL DEF Spec, ImplementsInventory, InventorySpec

\* So what the abstract inventory promises holds of the whole loop: offset and
\* statuses agree, the stock is conserved, GET /stock is exact, and only an
\* operator sets the offset back (run_stock_worker).
THEOREM StockWorkerKeepsThePromise ==
    Spec => [](OffsetMatchesStatus /\ StockConserved /\ AsOfIsExact) /\ OffsetOnlyIncreases
<1>1. Spec => InventorySpec
  BY StockWorkerImplementsInventory DEF ImplementsInventory
<1>2. QED
  BY <1>1, InventoryKeepsOffset, InventoryConservesStock, InventoryMovesForward, PTL

=============================================================================
