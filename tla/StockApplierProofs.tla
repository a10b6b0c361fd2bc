------------------------- MODULE StockApplierProofs -------------------------
(***************************************************************************)
(* Proofs about StockApplier for every number of workers, orders and SKUs, *)
(* every batch size and any number of failures, kills and rewinds.         *)
(***************************************************************************)
EXTENDS StockApplier, InventoryProofs

\* The offset row is locked exactly while a transaction is past step 1, and
\* then the offset that was read is the offset that is stored.
OffsetLockIsHeld ==
    \A w \in Workers :
       /\ pc[w] \in {"read", "mark", "decrement", "commit"} <=> offsetLock = w
       /\ offsetLock = w => offset[w] = lastEventId

\* A batch is the part of the log that follows the offset, without gaps,
\* and holds nothing this release does not understand.
BatchIsNext ==
    \A w \in Workers : pc[w] \in {"mark", "decrement", "commit"} =>
       /\ batch[w] # {}
       /\ \A e \in batch[w] : offset[w] < e.id
       /\ \A e \in Accepted(batch[w]) : ~Unsupported(e)
       /\ \A e \in batch[w], f \in events : offset[w] < f.id /\ f.id <= e.id => f \in batch[w]

\* The uncommitted transitions are those of the batch's orders that have
\* not moved before.
MovedIsExact ==
    \A w \in Workers : pc[w] \in {"decrement", "commit"} =>
       moved[w] = {ref \in {e.ref : e \in Accepted(batch[w])} : status[ref] = "accepted"}

IndInv ==
    /\ ControlTypeOK
    /\ InventoryInv
    /\ OffsetLockIsHeld
    /\ BatchIsNext
    /\ MovedIsExact

-----------------------------------------------------------------------------
(* The inductive invariant.                                             *)

\* A transaction that ends without a commit leaves everybody else as they were.
LEMMA RollbackPreserves ==
    ASSUME IndInv, NEW w \in Workers, NEW step \in {"idle", "exited", "down"},
           EndTransaction(w), Goto(w, step), UNCHANGED <<book, stock, rewinds>>,
           killed' \subseteq Workers, faults' \in 0..MaxFaults
    PROVE  IndInv'
<1>1. ControlTypeOK'
  BY InventoryAssumption DEF IndInv, ControlTypeOK, InventoryControlTypeOK, Book!BookTypeOK,
     Goto, book, stock, EndTransaction
<1>2. InventoryInv'
  BY InventoryUnchanged DEF IndInv, stock
<1>3. OffsetLockIsHeld'
  BY StockApplierAssumption DEF IndInv, ControlTypeOK, OffsetLockIsHeld, Goto, stock,
     EndTransaction
<1>4. BatchIsNext'
  BY DEF IndInv, ControlTypeOK, BatchIsNext, Goto, book, EndTransaction
<1>5. MovedIsExact'
  BY DEF IndInv, ControlTypeOK, MovedIsExact, Goto, stock, EndTransaction
<1>6. QED
  BY <1>1, <1>2, <1>3, <1>4, <1>5 DEF IndInv

\* A commit publishes the batch and releases the lock.
LEMMA PublishPreserves ==
    ASSUME IndInv, NEW w \in Workers, NEW step \in {"idle", "down"},
           pc[w] = "commit", Publish(batch[w], moved[w]), EndTransaction(w), Goto(w, step),
           UNCHANGED <<book, rewinds>>, killed' \subseteq Workers, faults' \in 0..MaxFaults
    PROVE  IndInv' /\ lastEventId < lastEventId'
<1>1. /\ offsetLock = w /\ offset[w] = lastEventId /\ offsetLock' = Nobody
      /\ batch[w] \in SUBSET events
      /\ \A v \in Workers \ {w} : pc[v] \in {"down", "idle", "exited", "lock"}
  BY DEF IndInv, OffsetLockIsHeld, ControlTypeOK, InTransaction, EndTransaction
<1>2. moved[w] = Moving(batch[w])
  BY DEF IndInv, MovedIsExact, Moving, StillAccepted
<1>3. FollowsOffset(batch[w]) /\ ~Poisoned(batch[w])
  BY <1>1 DEF IndInv, BatchIsNext, FollowsOffset, Poisoned
<1>4. InventoryInv' /\ lastEventId < lastEventId'
  BY <1>1, <1>2, <1>3, PublishKeepsInventory DEF IndInv
<1>5. ControlTypeOK'
  <2>1. /\ pc' = [pc EXCEPT ![w] = step] /\ offset' = [offset EXCEPT ![w] = 0]
        /\ batch' = [batch EXCEPT ![w] = {}] /\ moved' = [moved EXCEPT ![w] = {}]
        /\ todo' = [todo EXCEPT ![w] = {}] /\ UNCHANGED events
    BY DEF Goto, EndTransaction, book
  <2>2. /\ pc' \in [Workers -> InTransaction \cup {"down", "idle", "exited"}]
        /\ offset' \in [Workers -> 0..MaxEventId]
    BY <2>1, InventoryAssumption DEF IndInv, ControlTypeOK
  <2>3. /\ batch' \in [Workers -> SUBSET events'] /\ moved' \in [Workers -> SUBSET Refs]
        /\ todo' \in [Workers -> SUBSET Skus]
    BY <2>1 DEF IndInv, ControlTypeOK
  <2>4. QED
    BY <1>1, <1>4, <2>2, <2>3 DEF InventoryInv, ControlTypeOK
<1>6. \A v \in Workers : pc'[v] \in {"down", "idle", "exited", "lock"}
  BY <1>1 DEF Goto, IndInv, ControlTypeOK
<1>7. OffsetLockIsHeld' /\ BatchIsNext' /\ MovedIsExact'
  BY <1>1, <1>6, StockApplierAssumption DEF OffsetLockIsHeld, BatchIsNext, MovedIsExact
<1>8. QED
  BY <1>4, <1>5, <1>7 DEF IndInv

Unlocked == {"down", "idle", "exited", "lock"}

\* A step that writes nothing durable and takes or leaves no lock.
LEMMA ControlStepPreserves ==
    ASSUME IndInv, NEW w \in Workers, NEW step,
           \/ pc[w] \in Unlocked /\ step \in Unlocked
           \/ pc[w] = "decrement" /\ step = "commit"
           \/ step = pc[w],
           pc' = [pc EXCEPT ![w] = step], todo' \in [Workers -> SUBSET Skus],
           UNCHANGED <<book, stock, offsetLock, offset, batch, moved, rewinds>>,
           killed' \subseteq Workers, faults' \in 0..MaxFaults
    PROVE  IndInv'
<1>1. ControlTypeOK'
  BY DEF IndInv, ControlTypeOK, InventoryControlTypeOK, Book!BookTypeOK, InTransaction,
     Unlocked, book, stock
<1>2. OffsetLockIsHeld'
  BY DEF IndInv, OffsetLockIsHeld, Unlocked, stock
<1>3. BatchIsNext'
  BY DEF IndInv, BatchIsNext, Unlocked, book
<1>4. MovedIsExact'
  BY DEF IndInv, MovedIsExact, Unlocked, stock
<1>5. InventoryInv'
  BY InventoryUnchanged DEF IndInv, stock
<1>6. QED
  BY <1>1, <1>2, <1>3, <1>4, <1>5 DEF IndInv

LEMMA StartPreserves ==
    ASSUME IndInv, NEW w \in Workers, Start(w)
    PROVE  IndInv'
<1>1. faults' \in 0..MaxFaults /\ killed' \subseteq Workers /\ todo' \in [Workers -> SUBSET Skus]
  BY DEF IndInv, ControlTypeOK, Start
<1>2. QED
  BY <1>1, ControlStepPreserves DEF Start, inventoryVars, Goto, Unlocked

LEMMA BeginPreserves ==
    ASSUME IndInv, NEW w \in Workers, Begin(w)
    PROVE  IndInv'
<1>1. faults' \in 0..MaxFaults /\ killed' \subseteq Workers /\ todo' \in [Workers -> SUBSET Skus]
  BY DEF IndInv, ControlTypeOK, Begin
<1>2. QED
  BY <1>1, ControlStepPreserves DEF Begin, inventoryVars, Goto, Unlocked

LEMMA AdvanceOffsetPreserves ==
    ASSUME IndInv, NEW w \in Workers, AdvanceOffset(w)
    PROVE  IndInv'
<1>1. faults' \in 0..MaxFaults /\ killed' \subseteq Workers /\ todo' \in [Workers -> SUBSET Skus]
  BY DEF IndInv, ControlTypeOK, AdvanceOffset
<1>2. QED
  BY <1>1, ControlStepPreserves DEF AdvanceOffset, inventoryVars, Goto

LEMMA StopPreserves ==
    ASSUME IndInv, NEW w \in Workers, Stop(w)
    PROVE  IndInv'
<1>1. faults' \in 0..MaxFaults /\ killed' \subseteq Workers /\ todo' \in [Workers -> SUBSET Skus]
  BY StockApplierAssumption DEF IndInv, ControlTypeOK, Stop, Fault
<1>2. QED
  BY <1>1, ControlStepPreserves DEF Stop, inventoryVars, Goto, Unlocked

LEMMA KillPreserves ==
    ASSUME IndInv, NEW w \in Workers, Kill(w)
    PROVE  IndInv'
<1>1. faults' \in 0..MaxFaults /\ killed' \subseteq Workers /\ todo' \in [Workers -> SUBSET Skus]
  BY StockApplierAssumption DEF IndInv, ControlTypeOK, Kill, Fault
<1>2. pc' = [pc EXCEPT ![w] = pc[w]]
  BY DEF Kill, IndInv, ControlTypeOK
<1>3. QED
  BY <1>1, <1>2, ControlStepPreserves DEF Kill, inventoryVars

\* The row lock is free, so nobody is past step 1: the offset read is current.
LEMMA LockOffsetPreserves ==
    ASSUME IndInv, NEW w \in Workers, LockOffset(w)
    PROVE  IndInv'
<1>1. ControlTypeOK'
  BY DEF IndInv, ControlTypeOK, InventoryControlTypeOK, Book!BookTypeOK, InTransaction, Goto,
     book, stock, LockOffset, inventoryVars
<1>2. OffsetLockIsHeld'
  BY StockApplierAssumption DEF IndInv, ControlTypeOK, OffsetLockIsHeld, Goto, stock,
     LockOffset, inventoryVars
<1>3. BatchIsNext' /\ MovedIsExact'
  <2>1. \A v \in Workers : pc'[v] \notin {"mark", "decrement", "commit"}
    BY StockApplierAssumption DEF IndInv, OffsetLockIsHeld, Goto, LockOffset
  <2>2. QED
    BY <2>1 DEF BatchIsNext, MovedIsExact
<1>4. InventoryInv'
  BY InventoryUnchanged DEF IndInv, stock, LockOffset, inventoryVars
<1>5. QED
  BY <1>1, <1>2, <1>3, <1>4 DEF IndInv

LEMMA ReadBatchPreserves ==
    ASSUME IndInv, NEW w \in Workers, ReadBatch(w)
    PROVE  IndInv'
<1> DEFINE read == Book!ReadEvents(offset[w], BatchSize)
<1>1. CASE NothingToApply(read) \/ Poisoned(read)
  <2>1. faults' \in 0..MaxFaults /\ killed' \subseteq Workers
    BY DEF IndInv, ControlTypeOK, ReadBatch
  <2>2. QED
    BY <1>1, <2>1, RollbackPreserves DEF ReadBatch, Rollback
<1>2. CASE ~(NothingToApply(read) \/ Poisoned(read))
  <2>1. /\ read \subseteq events
        /\ \A e \in read : offset[w] < e.id
        /\ \A e \in read, f \in events : offset[w] < f.id /\ f.id <= e.id => f \in read
    <3>1. /\ IsFiniteSet(events) /\ \A e \in events : e.id \in Nat
          /\ offset[w] \in Nat /\ BatchSize \in Nat
      BY StockApplierAssumption DEF IndInv, ControlTypeOK, InventoryControlTypeOK, InventoryInv,
         LogIsSound, Book!BookTypeOK, Book!Event, Book!EventIds
    <3>2. QED
      BY <3>1, ReadEventsIsNext
  <2>2. /\ pc[w] = "read" /\ read # {} /\ \A e \in Accepted(read) : ~Unsupported(e)
        /\ batch' = [batch EXCEPT ![w] = read] /\ pc' = [pc EXCEPT ![w] = "mark"]
        /\ UNCHANGED <<book, stock, offsetLock, offset, moved, todo, killed, faults, rewinds>>
    BY <1>2 DEF ReadBatch, NothingToApply, Poisoned, Goto
  <2> HIDE DEF read
  <2>3. ControlTypeOK'
    BY <2>1, <2>2 DEF IndInv, ControlTypeOK, InventoryControlTypeOK, Book!BookTypeOK,
       InTransaction, book, stock
  <2>4. BatchIsNext'
    <3> SUFFICES ASSUME NEW v \in Workers, pc'[v] \in {"mark", "decrement", "commit"}
                 PROVE  /\ batch'[v] # {}
                        /\ \A e \in batch'[v] : offset[v] < e.id
                        /\ \A e \in Accepted(batch'[v]) : ~Unsupported(e)
                        /\ \A e \in batch'[v], f \in events :
                              offset[v] < f.id /\ f.id <= e.id => f \in batch'[v]
      BY <2>2 DEF BatchIsNext, book
    <3>1. CASE v = w
      BY <3>1, <2>1, <2>2 DEF IndInv, ControlTypeOK
    <3>2. CASE v # w
      BY <3>2, <2>2 DEF IndInv, BatchIsNext
    <3>3. QED
      BY <3>1, <3>2
  <2>5. InventoryInv' /\ OffsetLockIsHeld'
    BY <2>2, InventoryUnchanged DEF IndInv, OffsetLockIsHeld, stock
  <2>6. MovedIsExact'
    BY <2>2 DEF IndInv, MovedIsExact, stock
  <2>7. QED
    BY <2>3, <2>4, <2>5, <2>6 DEF IndInv
<1>3. QED
  BY <1>1, <1>2

LEMMA MarkStockCommittedPreserves ==
    ASSUME IndInv, NEW w \in Workers, MarkStockCommitted(w)
    PROVE  IndInv'
<1> DEFINE now == {ref \in {e.ref : e \in Accepted(batch[w])} : status[ref] = "accepted"}
<1>1. /\ moved' = [moved EXCEPT ![w] = now] /\ pc' = [pc EXCEPT ![w] = "decrement"]
      /\ \E skus \in SUBSET Skus : todo' = [todo EXCEPT ![w] = skus]
      /\ UNCHANGED <<book, stock, offsetLock, killed, offset, batch, faults, rewinds>>
      /\ pc[w] = "mark"
  BY DEF MarkStockCommitted, inventoryVars, Moving, StillAccepted, Goto
<1>2. now \subseteq Refs
  BY DEF IndInv, ControlTypeOK, InventoryControlTypeOK, Accepted, Book!BookTypeOK, Book!Event
<1>3. ControlTypeOK'
  BY <1>1, <1>2 DEF IndInv, ControlTypeOK, InventoryControlTypeOK, Book!BookTypeOK,
     InTransaction, book, stock
<1>4. MovedIsExact'
  BY <1>1 DEF IndInv, ControlTypeOK, MovedIsExact, stock
<1>5. OffsetLockIsHeld' /\ BatchIsNext'
  BY <1>1 DEF IndInv, OffsetLockIsHeld, BatchIsNext, book, stock
<1>6. InventoryInv'
  BY <1>1, InventoryUnchanged DEF IndInv, stock
<1>7. QED
  BY <1>3, <1>4, <1>5, <1>6 DEF IndInv

LEMMA DecrementStockPreserves ==
    ASSUME IndInv, NEW w \in Workers, NEW sku \in Skus, DecrementStock(w, sku)
    PROVE  IndInv'
<1>1. CASE Rollback(w, "idle") \/ Rollback(w, "exited")
  <2>1. faults' \in 0..MaxFaults /\ killed' \subseteq Workers
    BY DEF IndInv, ControlTypeOK, DecrementStock
  <2>2. QED
    BY <1>1, <2>1, RollbackPreserves DEF DecrementStock, Rollback
<1>2. CASE /\ todo' = [todo EXCEPT ![w] = @ \ {sku}]
           /\ UNCHANGED <<book, stock, offsetLock, pc, killed, offset, batch, moved, faults, rewinds>>
  <2>1. /\ todo' \in [Workers -> SUBSET Skus] /\ pc' = [pc EXCEPT ![w] = pc[w]]
        /\ faults' \in 0..MaxFaults /\ killed' \subseteq Workers
    BY <1>2 DEF IndInv, ControlTypeOK
  <2>2. QED
    BY <1>2, <2>1, ControlStepPreserves
<1>3. QED
  BY <1>1, <1>2 DEF DecrementStock

LEMMA FailPreserves ==
    ASSUME IndInv, NEW w \in Workers, Fail(w)
    PROVE  IndInv'
<1>1. faults' \in 0..MaxFaults /\ killed' \subseteq Workers
  BY StockApplierAssumption DEF IndInv, ControlTypeOK, Fail, Fault
<1>2. QED
  BY <1>1, RollbackPreserves DEF Fail, Rollback

LEMMA CommitPreserves ==
    ASSUME IndInv, NEW w \in Workers, Commit(w)
    PROVE  IndInv' /\ lastEventId < lastEventId'
<1>1. faults' \in 0..MaxFaults /\ killed' \subseteq Workers
  BY DEF IndInv, ControlTypeOK, Commit
<1>2. QED
  BY <1>1, PublishPreserves DEF Commit

LEMMA ReapPreserves ==
    ASSUME IndInv, NEW w \in Workers, Reap(w)
    PROVE  IndInv' /\ (UNCHANGED lastEventId \/ lastEventId < lastEventId')
<1>1. faults' \in 0..MaxFaults /\ killed' \subseteq Workers
  BY DEF IndInv, ControlTypeOK, Reap
<1>2. CASE UNCHANGED stock
  BY <1>1, <1>2, RollbackPreserves DEF Reap, stock
<1>3. CASE pc[w] = "commit" /\ Publish(batch[w], moved[w])
  BY <1>1, <1>3, PublishPreserves DEF Reap
<1>4. QED
  BY <1>2, <1>3 DEF Reap

\* The log grows at its end while batches are in progress.
LEMMA LogGrowthPreserves ==
    ASSUME IndInv, NEW ref \in Refs, NEW id \in Book!EventIds, NEW new, InventoryInv',
           new.id = id, events' = events \cup {new}, \A e \in events : e.id < id,
           \A r \in Refs \ {ref} : status'[r] = status[r],
           status'[ref] = status[ref] \/ \A e \in events : e.ref # ref,
           UNCHANGED <<lastEventId, offsetLock, worker, faults>>
    PROVE  IndInv'
<1>1. \A w \in Workers : \A e \in batch[w] :
         e \in events /\ e.ref \in Refs /\ e.id < new.id /\ e.id \in Nat /\ new.id \in Nat
  BY DEF Book!Event, Book!EventIds, IndInv, ControlTypeOK, InventoryControlTypeOK,
     Book!BookTypeOK
<1>2. ControlTypeOK'
  BY DEF IndInv, ControlTypeOK, InventoryInv, worker
<1>3. OffsetLockIsHeld'
  BY DEF IndInv, OffsetLockIsHeld, worker
<1>4. BatchIsNext'
  BY <1>1 DEF IndInv, BatchIsNext, worker
<1>5. MovedIsExact'
  <2> SUFFICES ASSUME NEW w \in Workers, pc[w] \in {"decrement", "commit"}
               PROVE  moved[w] = {r \in {e.ref : e \in Accepted(batch[w])} : status'[r] = "accepted"}
    BY DEF MovedIsExact, worker
  <2>1. moved[w] = {r \in {e.ref : e \in Accepted(batch[w])} : status[r] = "accepted"}
    BY DEF IndInv, MovedIsExact
  <2>2. \A r \in {e.ref : e \in Accepted(batch[w])} : status'[r] = status[r]
    BY <1>1 DEF Accepted
  <2>3. QED
    BY <2>1, <2>2
<1>6. QED
  BY <1>2, <1>3, <1>4, <1>5 DEF IndInv

LEMMA AcceptOrderPreserves ==
    ASSUME IndInv, NEW ref \in Refs, NEW payload \in Payloads, NEW id \in Book!EventIds,
           AcceptOrder(ref, payload, id), UNCHANGED <<offsetLock, worker, faults>>
    PROVE  IndInv'
<1> DEFINE new == [id |-> id, ref |-> ref, data |-> payload]
<1>1. /\ orders[ref] = NoOrder /\ \A e \in events : e.id < id
      /\ events' = events \cup {new} /\ new.id = id
      /\ status' = [status EXCEPT ![ref] = "accepted"]
      /\ UNCHANGED <<lastEventId, offsetLock, worker, faults>>
  BY DEF AcceptOrder, Book!Accept, Book!Stored
<1>2. InventoryInv'
  BY AcceptOrderKeepsInventory DEF IndInv
<1>3. \A e \in events : e.ref # ref
  BY <1>1 DEF IndInv, InventoryInv, LogIsSound
<1>4. \A r \in Refs \ {ref} : status'[r] = status[r]
  BY <1>1 DEF IndInv, InventoryInv, InventoryControlTypeOK
<1> HIDE DEF new
<1>5. QED
  BY <1>1, <1>2, <1>3, <1>4, LogGrowthPreserves

LEMMA AppendOtherTypePreserves ==
    ASSUME IndInv, NEW ref \in Refs, NEW id \in Book!EventIds, AppendOtherType(ref, id),
           UNCHANGED <<offsetLock, worker, faults>>
    PROVE  IndInv'
<1> DEFINE new == [id |-> id, ref |-> ref, data |-> [orders[ref] EXCEPT !.kind = "other_type"]]
<1>1. /\ \A e \in events : e.id < id
      /\ events' = events \cup {new} /\ new.id = id
      /\ UNCHANGED <<status, lastEventId, offsetLock, worker, faults>>
  BY DEF AppendOtherType, stock
<1>2. InventoryInv'
  BY AppendOtherTypeKeepsInventory DEF IndInv
<1> HIDE DEF new
<1>3. QED
  BY <1>1, <1>2, LogGrowthPreserves

LEMMA InsertMissingStockLevelsPreserves ==
    ASSUME IndInv, InsertMissingStockLevels, UNCHANGED <<offsetLock, worker, faults>>
    PROVE  IndInv'
<1>1. UNCHANGED <<book, status, lastEventId, rewinds, offsetLock, worker, faults>>
  BY DEF InsertMissingStockLevels
<1>2. InventoryInv'
  BY <1>1, InventoryUnchanged DEF IndInv
<1>3. QED
  BY <1>1, <1>2 DEF IndInv, ControlTypeOK, InventoryInv, OffsetLockIsHeld, BatchIsNext,
     MovedIsExact, book, worker

\* The UPDATE has to wait for the row lock, so it cannot pull the offset away
\* from under a batch.
LEMMA RewindPreserves ==
    ASSUME IndInv, NEW id \in 0..MaxEventId, offsetLock = Nobody, Rewind(id),
           UNCHANGED <<offsetLock, worker, faults>>
    PROVE  IndInv' /\ rewinds' = rewinds + 1
<1>1. InventoryInv' /\ rewinds' = rewinds + 1
  BY RewindKeepsInventory DEF IndInv
<1>2. UNCHANGED <<events, status>>
  BY DEF Rewind, book
<1>3. ControlTypeOK'
  BY <1>1, <1>2 DEF IndInv, ControlTypeOK, InventoryInv, worker
<1>4. OffsetLockIsHeld'
  BY StockApplierAssumption DEF IndInv, OffsetLockIsHeld, worker
<1>5. BatchIsNext' /\ MovedIsExact'
  BY <1>2 DEF IndInv, BatchIsNext, MovedIsExact, worker
<1>6. QED
  BY <1>1, <1>3, <1>4, <1>5 DEF IndInv

LEMMA StutterPreserves ==
    ASSUME IndInv, UNCHANGED vars
    PROVE  IndInv'
<1>1. InventoryInv'
  BY InventoryUnchanged DEF IndInv, vars, inventoryVars, stock
<1>2. QED
  BY <1>1 DEF vars, inventoryVars, book, stock, worker, IndInv, ControlTypeOK, InventoryInv,
     OffsetLockIsHeld, BatchIsNext, MovedIsExact

LEMMA InitEstablishes ==
    ASSUME Init
    PROVE  IndInv
<1>1. InventoryInv
  BY InventoryInitEstablishes DEF Init
<1>2. ControlTypeOK
  BY <1>1, StockApplierAssumption, InventoryAssumption DEF Init, ControlTypeOK, InventoryInv
<1>3. OffsetLockIsHeld /\ BatchIsNext /\ MovedIsExact
  BY StockApplierAssumption DEF Init, OffsetLockIsHeld, BatchIsNext, MovedIsExact
<1>4. QED
  BY <1>1, <1>2, <1>3 DEF IndInv

-----------------------------------------------------------------------------
(* What every step does.                                                   *)

OffsetStep == lastEventId' < lastEventId => rewinds' = rewinds + 1

LEMMA WorldPreserves ==
    ASSUME IndInv, World
    PROVE  IndInv' /\ OffsetStep
<1>1. lastEventId \in Nat /\ UNCHANGED <<offsetLock, worker, faults>>
  BY DEF IndInv, ControlTypeOK, InventoryControlTypeOK, World
<1>2. ASSUME NEW ref \in Refs, NEW id \in Book!EventIds, NEW payload \in Payloads,
             AcceptOrder(ref, payload, id)
      PROVE  IndInv' /\ OffsetStep
  <2>1. IndInv'
    BY <1>1, <1>2, AcceptOrderPreserves
  <2>2. UNCHANGED lastEventId
    BY <1>2 DEF AcceptOrder
  <2>3. QED
    BY <1>1, <2>1, <2>2 DEF OffsetStep
<1>3. ASSUME NEW ref \in Refs, NEW id \in Book!EventIds, AppendOtherType(ref, id)
      PROVE  IndInv' /\ OffsetStep
  <2>1. IndInv'
    BY <1>1, <1>3, AppendOtherTypePreserves
  <2>2. UNCHANGED lastEventId
    BY <1>3 DEF AppendOtherType, stock
  <2>3. QED
    BY <1>1, <2>1, <2>2 DEF OffsetStep
<1>4. CASE InsertMissingStockLevels
  BY <1>1, <1>4, InsertMissingStockLevelsPreserves DEF InsertMissingStockLevels, OffsetStep
<1>5. ASSUME NEW id \in 0..MaxEventId, offsetLock = Nobody, Rewind(id)
      PROVE  IndInv' /\ OffsetStep
  BY <1>1, <1>5, RewindPreserves DEF OffsetStep
<1>6. QED
  BY <1>2, <1>3, <1>4, <1>5 DEF World, LogGrows

LEMMA WorkPreserves ==
    ASSUME IndInv, NEW w \in Workers, Work(w)
    PROVE  IndInv' /\ OffsetStep
<1>1. lastEventId \in Nat
  BY DEF IndInv, ControlTypeOK, InventoryControlTypeOK
<1>2. CASE Start(w)
  BY <1>1, <1>2, StartPreserves DEF Start, inventoryVars, stock, OffsetStep
<1>3. CASE Begin(w)
  BY <1>1, <1>3, BeginPreserves DEF Begin, inventoryVars, stock, OffsetStep
<1>4. CASE LockOffset(w)
  <2>1. IndInv'
    BY <1>4, LockOffsetPreserves
  <2>2. UNCHANGED lastEventId
    BY <1>4 DEF LockOffset, inventoryVars, stock
  <2>3. QED
    BY <1>1, <2>1, <2>2 DEF OffsetStep
<1>5. CASE ReadBatch(w)
  BY <1>1, <1>5, ReadBatchPreserves DEF ReadBatch, Rollback, stock, OffsetStep
<1>6. CASE MarkStockCommitted(w)
  <2>1. IndInv'
    BY <1>6, MarkStockCommittedPreserves
  <2>2. UNCHANGED lastEventId
    BY <1>6 DEF MarkStockCommitted, inventoryVars, stock
  <2>3. QED
    BY <1>1, <2>1, <2>2 DEF OffsetStep
<1>7. ASSUME NEW sku \in Skus, DecrementStock(w, sku)
      PROVE  IndInv' /\ OffsetStep
  BY <1>1, <1>7, DecrementStockPreserves DEF DecrementStock, Rollback, stock, OffsetStep
<1>8. CASE AdvanceOffset(w)
  BY <1>1, <1>8, AdvanceOffsetPreserves DEF AdvanceOffset, inventoryVars, stock, OffsetStep
<1>9. CASE Commit(w)
  <2>1. IndInv' /\ lastEventId < lastEventId'
    BY <1>9, CommitPreserves
  <2>2. lastEventId' \in Nat
    BY <2>1 DEF IndInv, ControlTypeOK, InventoryControlTypeOK
  <2>3. QED
    BY <2>1, <2>2, <1>1 DEF OffsetStep
<1>10. CASE Reap(w)
  <2>1. IndInv' /\ (UNCHANGED lastEventId \/ lastEventId < lastEventId')
    BY <1>10, ReapPreserves
  <2>2. lastEventId' \in Nat
    BY <2>1 DEF IndInv, ControlTypeOK, InventoryControlTypeOK
  <2>3. QED
    BY <2>1, <2>2, <1>1 DEF OffsetStep
<1>11. QED
  BY <1>2, <1>3, <1>4, <1>5, <1>6, <1>7, <1>8, <1>9, <1>10 DEF Work

LEMMA StepPreserves ==
    ASSUME IndInv, [Next]_vars
    PROVE  IndInv' /\ OffsetStep
<1>1. lastEventId \in Nat
  BY DEF IndInv, ControlTypeOK, InventoryControlTypeOK
<1>2. ASSUME NEW w \in Workers, Work(w)
      PROVE  IndInv' /\ OffsetStep
  BY <1>2, WorkPreserves
<1>3. ASSUME NEW w \in Workers, Fail(w)
      PROVE  IndInv' /\ OffsetStep
  BY <1>1, <1>3, FailPreserves DEF Fail, Rollback, stock, OffsetStep
<1>4. ASSUME NEW w \in Workers, Stop(w)
      PROVE  IndInv' /\ OffsetStep
  BY <1>1, <1>4, StopPreserves DEF Stop, inventoryVars, stock, OffsetStep
<1>5. ASSUME NEW w \in Workers, Kill(w)
      PROVE  IndInv' /\ OffsetStep
  BY <1>1, <1>5, KillPreserves DEF Kill, inventoryVars, stock, OffsetStep
<1>6. CASE World
  BY <1>6, WorldPreserves
<1>7. CASE UNCHANGED vars
  BY <1>1, <1>7, StutterPreserves DEF vars, inventoryVars, stock, OffsetStep
<1>8. QED
  BY <1>2, <1>3, <1>4, <1>5, <1>6, <1>7 DEF Next

\* IndInv is an invariant of the stock applier.
LEMMA Invariance == Spec => []IndInv
<1>1. Init => IndInv
  BY InitEstablishes
<1>2. IndInv /\ [Next]_vars => IndInv'
  BY StepPreserves
<1>3. QED
  BY <1>1, <1>2, PTL DEF Spec

-----------------------------------------------------------------------------
(* The refinement: what a commit publishes was checked statement by        *)
(* statement, and nobody changed it in between.                            *)

\* Every decrement of the batch is still to be tried or has succeeded: the
\* level exists and the result fits the column.
DecrementsAreChecked ==
    \A w \in Workers :
       /\ pc[w] \in {"decrement", "commit"} =>
             \A sku \in Skus : Quantity(batch[w], moved[w], sku) > 0 =>
                sku \in todo[w] \/ Decrementable(batch[w], moved[w], sku)
       /\ pc[w] = "commit" => todo[w] = {}

\* A step of one worker that leaves stock alone and is not a decrement.
LEMMA OthersStayChecked ==
    ASSUME ControlTypeOK, DecrementsAreChecked, UNCHANGED onHand, NEW w \in Workers,
           pc'[w] \notin {"decrement", "commit"},
           \A v \in Workers \ {w} : /\ pc'[v] = pc[v] /\ batch'[v] = batch[v]
                                    /\ moved'[v] = moved[v] /\ todo'[v] = todo[v]
    PROVE  DecrementsAreChecked'
  BY DEF DecrementsAreChecked, Decrementable, OnHandAfter

\* A rollback, or a commit of the only worker that can commit.
LEMMA EndStaysChecked ==
    ASSUME IndInv, DecrementsAreChecked, NEW w \in Workers,
           NEW step \in {"idle", "exited", "down"}, EndTransaction(w), Goto(w, step),
           \/ UNCHANGED onHand
           \/ offsetLock = w
    PROVE  DecrementsAreChecked'
<1>1. pc'[w] = step /\ \A v \in Workers \ {w} : /\ pc'[v] = pc[v] /\ batch'[v] = batch[v]
                                                /\ moved'[v] = moved[v] /\ todo'[v] = todo[v]
  BY DEF EndTransaction, Goto, IndInv, ControlTypeOK
<1>2. CASE UNCHANGED onHand
  BY <1>1, <1>2, OthersStayChecked DEF IndInv
<1>3. CASE offsetLock = w
  <2>1. \A v \in Workers : pc'[v] \notin {"decrement", "commit"}
    BY <1>1, <1>3 DEF IndInv, OffsetLockIsHeld
  <2>2. QED
    BY <2>1 DEF DecrementsAreChecked
<1>4. QED
  BY <1>2, <1>3

\* Inserting missing levels touches none that a decrement has found.
LEMMA WorldKeepsChecked ==
    ASSUME IndInv, DecrementsAreChecked, World
    PROVE  DecrementsAreChecked'
<1>1. UNCHANGED <<pc, batch, moved, todo>>
  BY DEF World, worker
<1>2. \A sku \in Skus : onHand[sku] # NoLevel => onHand'[sku] = onHand[sku]
  <2>1. CASE InsertMissingStockLevels
    BY <2>1 DEF InsertMissingStockLevels, Missing
  <2>2. CASE LogGrows \/ \E id \in 0..MaxEventId : Rewind(id)
    BY <2>2 DEF LogGrows, AcceptOrder, AppendOtherType, Rewind, stock
  <2>3. QED
    BY <2>1, <2>2 DEF World
<1>3. QED
  BY <1>1, <1>2 DEF DecrementsAreChecked, Decrementable, OnHandAfter

LEMMA WorkKeepsChecked ==
    ASSUME IndInv, DecrementsAreChecked, NEW w \in Workers, Work(w)
    PROVE  DecrementsAreChecked'
<1>1. CASE Start(w) \/ Begin(w) \/ LockOffset(w)
  BY <1>1, OthersStayChecked DEF Start, Begin, LockOffset, Goto, inventoryVars, stock, IndInv,
     ControlTypeOK
<1>2. CASE ReadBatch(w)
  <2>1. CASE Rollback(w, "idle")
    BY <2>1, EndStaysChecked DEF Rollback, stock
  <2>2. CASE ~Rollback(w, "idle")
    <3>1. \E es : batch' = [batch EXCEPT ![w] = es]
      BY <1>2, <2>2 DEF ReadBatch
    <3>2. /\ pc' = [pc EXCEPT ![w] = "mark"] /\ UNCHANGED <<onHand, moved, todo>>
      BY <1>2, <2>2 DEF ReadBatch, Goto, stock
    <3>3. QED
      BY <3>1, <3>2, OthersStayChecked DEF IndInv, ControlTypeOK
  <2>3. QED
    BY <2>1, <2>2
<1>3. CASE MarkStockCommitted(w)
  <2> DEFINE now == Moving(batch[w])
             skus == {sku \in Skus : Quantity(batch[w], now, sku) > 0}
  <2>1. /\ pc' = [pc EXCEPT ![w] = "decrement"] /\ moved' = [moved EXCEPT ![w] = now]
        /\ todo' = [todo EXCEPT ![w] = skus] /\ UNCHANGED <<onHand, batch>>
    BY <1>3 DEF MarkStockCommitted, Goto, inventoryVars, stock
  <2>2. /\ pc'[w] = "decrement" /\ moved'[w] = now /\ todo'[w] = skus
        /\ \A v \in Workers \ {w} : pc'[v] = pc[v] /\ moved'[v] = moved[v] /\ todo'[v] = todo[v]
    BY <2>1 DEF IndInv, ControlTypeOK
  <2> HIDE DEF now
  <2>3. QED
    BY <2>1, <2>2 DEF DecrementsAreChecked, Decrementable, OnHandAfter
<1>4. ASSUME NEW sku \in Skus, DecrementStock(w, sku)
      PROVE  DecrementsAreChecked'
  <2>1. CASE Rollback(w, "idle") \/ Rollback(w, "exited")
    BY <2>1, EndStaysChecked DEF Rollback, stock
  <2>2. CASE ~(Rollback(w, "idle") \/ Rollback(w, "exited"))
    <3>1. /\ Decrementable(batch[w], moved[w], sku)
          /\ todo' = [todo EXCEPT ![w] = @ \ {sku}] /\ UNCHANGED <<onHand, pc, batch, moved>>
          /\ pc[w] = "decrement"
      BY <1>4, <2>2 DEF DecrementStock, stock
    <3>2. QED
      BY <3>1 DEF DecrementsAreChecked, Decrementable, OnHandAfter, IndInv
  <2>3. QED
    BY <2>1, <2>2
<1>5. CASE AdvanceOffset(w)
  BY <1>5 DEF AdvanceOffset, Goto, inventoryVars, stock, DecrementsAreChecked, Decrementable,
     OnHandAfter, IndInv
<1>6. CASE Commit(w) \/ Reap(w)
  <2>1. (\E step \in {"idle", "down"} : Goto(w, step)) /\ EndTransaction(w)
    BY <1>6 DEF Commit, Reap
  <2>2. UNCHANGED onHand \/ offsetLock = w
    BY <1>6 DEF Commit, Reap, stock, IndInv, OffsetLockIsHeld
  <2>3. QED
    BY <2>1, <2>2, EndStaysChecked
<1>7. QED
  BY <1>1, <1>2, <1>3, <1>4, <1>5, <1>6 DEF Work

LEMMA StepKeepsChecked ==
    ASSUME IndInv, DecrementsAreChecked, [Next]_vars
    PROVE  DecrementsAreChecked'
<1>1. ASSUME NEW w \in Workers, Fail(w)
      PROVE  DecrementsAreChecked'
  BY <1>1, EndStaysChecked DEF Fail, Rollback, stock
<1>2. ASSUME NEW w \in Workers, Stop(w)
      PROVE  DecrementsAreChecked'
  BY <1>2, OthersStayChecked DEF Stop, Goto, inventoryVars, stock, IndInv
<1>3. CASE UNCHANGED <<onHand, pc, batch, moved, todo>>
  BY <1>3 DEF DecrementsAreChecked, Decrementable, OnHandAfter
<1>4. ASSUME NEW w \in Workers, Kill(w)
      PROVE  UNCHANGED <<onHand, pc, batch, moved, todo>>
  BY <1>4 DEF Kill, inventoryVars, stock
<1>5. CASE UNCHANGED vars
  BY <1>5, <1>3 DEF vars, inventoryVars, stock, worker
<1>6. QED
  BY <1>1, <1>2, <1>3, <1>4, <1>5, WorkKeepsChecked, WorldKeepsChecked DEF Next

\* The commit of a checked batch is an Apply of the abstract inventory.
LEMMA PublishApplies ==
    ASSUME IndInv, DecrementsAreChecked, NEW w \in Workers, pc[w] = "commit",
           Publish(batch[w], moved[w]), UNCHANGED <<book, rewinds>>
    PROVE  InventoryNext
<1>1. offset[w] = lastEventId /\ batch[w] \in SUBSET events
  BY DEF IndInv, OffsetLockIsHeld, ControlTypeOK
<1>2. FollowsOffset(batch[w]) /\ ~Poisoned(batch[w])
  BY <1>1 DEF IndInv, BatchIsNext, FollowsOffset, Poisoned
<1>3. moved[w] = Moving(batch[w])
  BY DEF IndInv, MovedIsExact, Moving, StillAccepted
<1>4. \A sku \in Skus : Quantity(batch[w], moved[w], sku) > 0
                           => Decrementable(batch[w], moved[w], sku)
  BY DEF DecrementsAreChecked
<1>5. Apply(batch[w])
  BY <1>2, <1>3, <1>4 DEF Apply
<1>6. QED
  BY <1>1, <1>5 DEF InventoryNext

LEMMA StepSimulates ==
    ASSUME IndInv, DecrementsAreChecked, [Next]_vars
    PROVE  [InventoryNext]_inventoryVars
<1>1. ASSUME NEW w \in Workers, Work(w)
      PROVE  [InventoryNext]_inventoryVars
  <2>1. CASE Commit(w)
    BY <2>1, PublishApplies DEF Commit
  <2>2. CASE Reap(w)
    <3>1. CASE UNCHANGED stock
      BY <2>2, <3>1 DEF Reap, inventoryVars
    <3>2. CASE pc[w] = "commit" /\ Publish(batch[w], moved[w])
      BY <2>2, <3>2, PublishApplies DEF Reap
    <3>3. QED
      BY <2>2, <3>1, <3>2 DEF Reap
  <2>3. CASE Start(w) \/ Begin(w) \/ LockOffset(w) \/ MarkStockCommitted(w) \/ AdvanceOffset(w)
    BY <2>3 DEF Start, Begin, LockOffset, MarkStockCommitted, AdvanceOffset
  <2>4. CASE ReadBatch(w) \/ \E sku \in Skus : DecrementStock(w, sku)
    BY <2>4 DEF ReadBatch, DecrementStock, Rollback, inventoryVars
  <2>5. QED
    BY <1>1, <2>1, <2>2, <2>3, <2>4 DEF Work
<1>2. ASSUME NEW w \in Workers, Fail(w) \/ Stop(w) \/ Kill(w)
      PROVE  UNCHANGED inventoryVars
  BY <1>2 DEF Fail, Stop, Kill, Rollback, inventoryVars
<1>3. CASE World
  BY <1>3 DEF World, InventoryNext
<1>4. CASE UNCHANGED vars
  BY <1>4 DEF vars
<1>5. QED
  BY <1>1, <1>2, <1>3, <1>4 DEF Next

-----------------------------------------------------------------------------
(* The levels stay numbers, which the checks of the decrements are needed for. *)

Levels == [Skus -> Int \cup {NoLevel}]

LEMMA PublishKeepsNumbers ==
    ASSUME IndInv, DecrementsAreChecked, onHand \in Levels, NEW w \in Workers,
           pc[w] = "commit", Publish(batch[w], moved[w])
    PROVE  onHand' \in Levels
<1>1. InventoryTypeOK
  BY DEF Levels, IndInv, InventoryInv, InventoryTypeOK
<1>2. \A sku \in Skus : Quantity(batch[w], moved[w], sku) > 0
                           => Decrementable(batch[w], moved[w], sku)
  BY DEF DecrementsAreChecked
<1>3. QED
  BY <1>1, <1>2, PublishKeepsLevels DEF Levels

LEMMA StepKeepsNumbers ==
    ASSUME IndInv, DecrementsAreChecked, onHand \in Levels, [Next]_vars
    PROVE  onHand' \in Levels
<1>1. CASE UNCHANGED onHand
  BY <1>1
<1>2. ASSUME NEW w \in Workers, Commit(w) \/ Reap(w)
      PROVE  onHand' \in Levels
  BY <1>1, <1>2, PublishKeepsNumbers DEF Commit, Reap, stock
<1>3. ASSUME NEW w \in Workers, Work(w), ~Commit(w), ~Reap(w)
      PROVE  UNCHANGED onHand
  <2>1. CASE Start(w) \/ Begin(w) \/ LockOffset(w) \/ MarkStockCommitted(w) \/ AdvanceOffset(w)
    BY <2>1 DEF Start, Begin, LockOffset, MarkStockCommitted, AdvanceOffset, inventoryVars, stock
  <2>2. CASE ReadBatch(w) \/ \E sku \in Skus : DecrementStock(w, sku)
    BY <2>2 DEF ReadBatch, DecrementStock, Rollback, stock
  <2>3. QED
    BY <1>3, <2>1, <2>2 DEF Work
<1>4. ASSUME NEW w \in Workers, Fail(w) \/ Stop(w) \/ Kill(w)
      PROVE  UNCHANGED onHand
  BY <1>4 DEF Fail, Stop, Kill, Rollback, inventoryVars, stock
<1>5. CASE World
  <2>1. CASE InsertMissingStockLevels
    BY <2>1, InventoryAssumption DEF InsertMissingStockLevels, Levels
  <2>2. CASE LogGrows
    BY <1>1, <2>2, LogGrowsKeepsInventory DEF IndInv
  <2>3. CASE \E id \in 0..MaxEventId : Rewind(id)
    BY <1>1, <2>3 DEF Rewind
  <2>4. QED
    BY <1>5, <2>1, <2>2, <2>3 DEF World
<1>6. CASE UNCHANGED vars
  BY <1>1, <1>6 DEF vars, inventoryVars, stock
<1>7. QED
  BY <1>1, <1>2, <1>3, <1>4, <1>5, <1>6 DEF Next

LEMMA CheckedInvariance == Spec => [](DecrementsAreChecked /\ onHand \in Levels)
<1>1. Init => DecrementsAreChecked /\ onHand \in Levels
  BY InventoryAssumption DEF Init, InventoryInit, DecrementsAreChecked, Levels
<1>2. /\ IndInv /\ DecrementsAreChecked /\ onHand \in Levels /\ [Next]_vars
         => (DecrementsAreChecked /\ onHand \in Levels)'
  BY StepKeepsChecked, StepKeepsNumbers
<1>3. QED
  BY <1>1, <1>2, Invariance, PTL DEF Spec

-----------------------------------------------------------------------------
(* The results.                                                            *)

\* The types of the applier's state; that on_hand stays a number rests on
\* every decrement being checked before the commit publishes it.
THEOREM StockApplierTypeCorrect == Spec => []StockApplierTypeOK
<1>1. IndInv /\ DecrementsAreChecked /\ onHand \in Levels => StockApplierTypeOK
  BY DEF IndInv, InventoryInv, Levels, StockApplierTypeOK, InventoryTypeOK
<1>2. QED
  BY <1>1, Invariance, CheckedInvariance, PTL

\* INV-OFF-1 whatever crashes, overlaps or is rewound: an order is
\* stock_committed exactly when its event is at or below the offset
\* (applier.py steps 1-5, one transaction under the offset row lock).
THEOREM OffsetAlwaysMatchesStatus == Spec => []OffsetMatchesStatus
<1>1. IndInv => OffsetMatchesStatus
  BY DEF IndInv, InventoryInv
<1>2. QED
  BY <1>1, Invariance, PTL

\* INV-OFF-2: no worker ever sets the offset back, however stale what it has
\* read (SELECT ... FOR UPDATE in applier.py step 1).
THEOREM OffsetNeverDecreases == Spec => OffsetOnlyIncreases
<1>1. IndInv /\ [Next]_vars
         => [lastEventId' < lastEventId => rewinds' = rewinds + 1]_<<lastEventId, rewinds>>
  BY StepPreserves DEF OffsetStep
<1>2. QED
  BY <1>1, Invariance, PTL DEF Spec, OffsetOnlyIncreases

\* Whole batches, each in one step: every behaviour of overlapping, failing
\* and killed workers is a behaviour of the abstract inventory.
THEOREM StockApplierImplementsInventory == Spec => ImplementsInventory
<1>1. Init => InventoryInit
  BY DEF Init
<1>2. IndInv /\ DecrementsAreChecked /\ [Next]_vars => [InventoryNext]_inventoryVars
  BY StepSimulates
<1>3. QED
  BY <1>1, <1>2, Invariance, CheckedInvariance, PTL
     DEF Spec, ImplementsInventory, InventorySpec

\* INV-STK-2: overlapping, failing and dying workers subtract each committed
\* order exactly once; the promise of whole batches has it, and they keep it.
THEOREM StockAlwaysConserved == Spec => []StockConserved
<1>1. InventorySpec => []StockConserved
  BY InventoryConservesStock, PTL
<1>2. QED
  BY <1>1, StockApplierImplementsInventory, PTL DEF ImplementsInventory

\* What GET /stock reads in one statement is right at every moment of every
\* worker's transaction.
THEOREM AsOfAlwaysExact == Spec => []AsOfIsExact
<1>1. InventorySpec => []AsOfIsExact
  BY InventoryConservesStock, PTL
<1>2. QED
  BY <1>1, StockApplierImplementsInventory, PTL DEF ImplementsInventory

-----------------------------------------------------------------------------
(* How a worker process ends with an error.                                *)

\* Only a decrement that does not fit the column ends the process.
LEMMA ExitsByOverflow ==
    ASSUME IndInv, LevelsAreExact, [Next]_vars, NEW w \in Workers,
           pc[w] # "exited", pc'[w] = "exited"
    PROVE  \E sku \in Skus : InitialOnHand[sku] - Ordered(Refs, sku) \notin OnHandColumn
<1>1. \A v \in Workers : \A step : pc' = [pc EXCEPT ![v] = step] /\ pc'[w] = "exited"
                                   => v = w /\ step = "exited"
  BY DEF IndInv, ControlTypeOK
<1>2. PICK sku \in Skus : DecrementStock(w, sku) /\ Rollback(w, "exited")
  <2>1. ASSUME NEW v \in Workers, ReadBatch(v)
        PROVE  FALSE
    BY <2>1, <1>1 DEF ReadBatch, Rollback, Goto
  <2>2. ASSUME NEW v \in Workers, NEW sku \in Skus, DecrementStock(v, sku)
        PROVE  DecrementStock(w, sku) /\ Rollback(w, "exited")
    BY <2>2, <1>1 DEF DecrementStock, Rollback, Goto
  <2>3. ASSUME NEW v \in Workers,
               \/ Start(v) \/ Begin(v) \/ LockOffset(v) \/ MarkStockCommitted(v)
               \/ AdvanceOffset(v) \/ Commit(v) \/ Reap(v) \/ Fail(v) \/ Stop(v)
        PROVE  FALSE
    BY <2>3, <1>1 DEF Start, Begin, LockOffset, MarkStockCommitted, AdvanceOffset, Commit,
       Reap, Fail, Stop, Rollback, Goto
  <2>4. ASSUME NEW v \in Workers, Kill(v)
        PROVE  FALSE
    BY <2>4 DEF Kill
  <2>5. ~World /\ ~UNCHANGED vars
    BY DEF World, vars, worker
  <2>6. QED
    BY <2>1, <2>2, <2>3, <2>4, <2>5 DEF Next, Work
<1>3. /\ pc[w] = "decrement" /\ onHand[sku] # NoLevel
      /\ OnHandAfter(batch[w], moved[w], sku) \notin OnHandColumn
  BY <1>1, <1>2 DEF DecrementStock, Rollback, Goto, Decrementable
<1>4. batch[w] \in SUBSET events /\ moved[w] = Moving(batch[w])
  BY <1>3 DEF IndInv, ControlTypeOK, MovedIsExact, Moving, StillAccepted
<1>5. QED
  BY <1>3, <1>4, RefusedForLackOfRoom DEF IndInv

LEMMA StepKeepsExits ==
    ASSUME IndInv, DecrementsAreChecked, LevelsAreExact, ExitsOnlyOnOverflow,
           [Next]_vars, InventoryInv'
    PROVE  ExitsOnlyOnOverflow'
<1> SUFFICES ASSUME NEW w \in Workers, pc'[w] = "exited"
             PROVE  \E sku \in Skus : InitialOnHand[sku] - Ordered(Refs, sku)' \notin OnHandColumn
  BY DEF ExitsOnlyOnOverflow, OnHandColumn
<1>1. PICK sku \in Skus : InitialOnHand[sku] - Ordered(Refs, sku) \notin OnHandColumn
  BY ExitsByOverflow DEF ExitsOnlyOnOverflow
<1>2. /\ Ordered(Refs, sku) \in Nat /\ Ordered(Refs, sku)' \in Nat
      /\ Ordered(Refs, sku) <= Ordered(Refs, sku)'
  BY StepSimulates, OrderedNeverDecreases DEF IndInv
<1>3. QED
  BY <1>1, <1>2, InventoryAssumption DEF OnHandColumn

\* What holds in place of NoLowerBound: for every number of workers, failures,
\* kills and rewinds, a worker process ends with an error only when the orders
\* accepted for some SKU are more than its column can hold (applier.py step 4).
THEOREM ExitsMeanOverflow == Spec => []ExitsOnlyOnOverflow
<1>1. Init => ExitsOnlyOnOverflow
  BY DEF Init, ExitsOnlyOnOverflow
<1>2. IndInv /\ DecrementsAreChecked /\ LevelsAreExact /\ ExitsOnlyOnOverflow
         /\ [Next]_vars /\ IndInv' => ExitsOnlyOnOverflow'
  <2>1. IndInv' => InventoryInv'
    BY DEF IndInv
  <2>2. QED
    BY <2>1, StepKeepsExits
<1>3. Spec => []LevelsAreExact
  BY StockApplierImplementsInventory, InventoryInvariance, PTL DEF ImplementsInventory
<1>4. QED
  BY <1>1, <1>2, <1>3, Invariance, CheckedInvariance, PTL DEF Spec

=============================================================================
