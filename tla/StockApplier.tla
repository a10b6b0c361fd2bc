---------------------------- MODULE StockApplier ----------------------------
(***************************************************************************)
(* The stock applier: inventory/applier.py apply_next_batch, statement by  *)
(* statement, run by any number of overlapping stock-worker processes that *)
(* stop, fail, are killed and come back.                                   *)
(*                                                                         *)
(* status, onHand and lastEventId hold what is committed.  A transaction's *)
(* own writes are a function of what it remembers (batch, moved) and are   *)
(* published by Commit; only the holder of the offset row gets that far.   *)
(* The log is the order book's: it grows by whole acceptances, at its end. *)
(***************************************************************************)
EXTENDS Inventory

CONSTANTS Workers,
          BatchSize,      \* stock_worker_batch_size
          MaxFaults,      \* bound: failures, kills and stops of workers
          Nobody

ASSUME StockApplierAssumption ==
    /\ BatchSize \in Nat \ {0}
    /\ MaxFaults \in Nat
    /\ Nobody \notin Workers

VARIABLES
    offsetLock,      \* the worker whose transaction locked the offset row
    pc,              \* per worker: its next statement
    killed,          \* workers whose process is gone and whose session is not
    offset,          \* per worker: the offset it read under the lock
    batch,           \* per worker: the events it read
    moved,           \* per worker: the refs its UPDATE moved, uncommitted
    todo,            \* per worker: SKUs it has yet to decrement
    faults

worker == <<pc, killed, offset, batch, moved, todo>>
vars == <<inventoryVars, offsetLock, worker, faults>>

InTransaction == {"lock", "read", "mark", "decrement", "commit"}

ControlTypeOK ==
    /\ InventoryControlTypeOK
    /\ offsetLock \in Workers \cup {Nobody}
    /\ pc \in [Workers -> InTransaction \cup {"down", "idle", "exited"}]
    /\ killed \subseteq Workers
    /\ offset \in [Workers -> 0..MaxEventId]
    /\ batch \in [Workers -> SUBSET events]
    /\ moved \in [Workers -> SUBSET Refs]
    /\ todo \in [Workers -> SUBSET Skus]
    /\ faults \in 0..MaxFaults

StockApplierTypeOK == ControlTypeOK /\ InventoryTypeOK

-----------------------------------------------------------------------------
Init ==
    /\ InventoryInit
    /\ offsetLock = Nobody
    /\ pc = [w \in Workers |-> "down"]
    /\ killed = {}
    /\ offset = [w \in Workers |-> 0]
    /\ batch = [w \in Workers |-> {}]
    /\ moved = [w \in Workers |-> {}]
    /\ todo = [w \in Workers |-> {}]
    /\ faults = 0

Runs(w) == w \notin killed
Goto(w, step) == pc' = [pc EXCEPT ![w] = step]

\* The transaction of w ends, and with it its row locks and what it remembers.
EndTransaction(w) ==
    /\ offsetLock' = IF offsetLock = w THEN Nobody ELSE offsetLock
    /\ offset' = [offset EXCEPT ![w] = 0]
    /\ batch' = [batch EXCEPT ![w] = {}]
    /\ moved' = [moved EXCEPT ![w] = {}]
    /\ todo' = [todo EXCEPT ![w] = {}]

\* Rolled back, w continues at `step`.
Rollback(w, step) == EndTransaction(w) /\ Goto(w, step) /\ UNCHANGED stock

-----------------------------------------------------------------------------
(* The worker process and its transaction.                                 *)

\* A process of the worker starts and enters its loop.
Start(w) ==
    /\ pc[w] \in {"down", "exited"}
    /\ Goto(w, "idle")
    /\ UNCHANGED <<inventoryVars, offsetLock, killed, offset, batch, moved, todo, faults>>

\* apply_next_batch opens a transaction.
Begin(w) ==
    /\ pc[w] = "idle"
    /\ Goto(w, "lock")
    /\ UNCHANGED <<inventoryVars, offsetLock, killed, offset, batch, moved, todo, faults>>

\* Mutant: a SELECT without FOR UPDATE.
ReadOffset(w) ==
    /\ pc[w] = "lock" /\ Runs(w)
    /\ offset' = [offset EXCEPT ![w] = lastEventId]
    /\ Goto(w, "read")
    /\ UNCHANGED <<inventoryVars, offsetLock, killed, batch, moved, todo, faults>>

\* Step 1, SELECT ... FOR UPDATE: waits for the current holder, then reads
\* the offset the holder left behind.
LockOffset(w) ==
    /\ pc[w] = "lock" /\ Runs(w)
    /\ offsetLock = Nobody
    /\ offsetLock' = w
    /\ offset' = [offset EXCEPT ![w] = lastEventId]
    /\ Goto(w, "read")
    /\ UNCHANGED <<inventoryVars, killed, batch, moved, todo, faults>>

\* Mutant: a batch without accepted events counts as nothing to apply.
NothingAccepted(es) == Accepted(es) = {}
NothingToApply(es) == es = {}

\* Step 2: nothing to apply ends the transaction; a version this release does
\* not understand is a StockInvariantViolation, retried after a backoff.
ReadBatch(w) ==
    /\ pc[w] = "read" /\ Runs(w)
    /\ LET read == Book!ReadEvents(offset[w], BatchSize)
       IN  IF NothingToApply(read) \/ Poisoned(read)
             THEN Rollback(w, "idle")
             ELSE /\ batch' = [batch EXCEPT ![w] = read]
                  /\ Goto(w, "mark")
                  /\ UNCHANGED <<stock, offsetLock, offset, moved, todo>>
    /\ UNCHANGED <<book, killed, faults, rewinds>>

\* Step 3, the guarded transition: only orders still `accepted` move.
MarkStockCommitted(w) ==
    /\ pc[w] = "mark" /\ Runs(w)
    /\ LET now == Moving(batch[w])
       IN  /\ moved' = [moved EXCEPT ![w] = now]
           /\ todo' = [todo EXCEPT ![w] =
                          {sku \in Skus : Quantity(batch[w], now, sku) > 0}]
    /\ Goto(w, "decrement")
    /\ UNCHANGED <<inventoryVars, offsetLock, killed, offset, batch, faults>>

\* Step 4, one SKU: without a stock level it is a StockInvariantViolation;
\* past the width of the column PostgreSQL raises an error that the worker
\* loop does not catch, and the process exits.
DecrementStock(w, sku) ==
    /\ pc[w] = "decrement" /\ Runs(w)
    /\ sku \in todo[w]
    /\ IF onHand[sku] = NoLevel
         THEN Rollback(w, "idle")
         ELSE IF Decrementable(batch[w], moved[w], sku)
           THEN /\ todo' = [todo EXCEPT ![w] = @ \ {sku}]
                /\ UNCHANGED <<stock, offsetLock, pc, offset, batch, moved>>
           ELSE Rollback(w, "exited")
    /\ UNCHANGED <<book, killed, faults, rewinds>>

\* Step 5, the last statement.
AdvanceOffset(w) ==
    /\ pc[w] = "decrement" /\ Runs(w)
    /\ todo[w] = {}
    /\ Goto(w, "commit")
    /\ UNCHANGED <<inventoryVars, offsetLock, killed, offset, batch, moved, todo, faults>>

\* COMMIT, seen by everybody at once.
Commit(w) ==
    /\ pc[w] = "commit" /\ Runs(w)
    /\ Publish(batch[w], moved[w])
    /\ EndTransaction(w) /\ Goto(w, "idle")
    /\ UNCHANGED <<book, killed, faults, rewinds>>

-----------------------------------------------------------------------------
(* Failures.                                                               *)

Fault == faults < MaxFaults /\ faults' = faults + 1

\* An OperationalError (statement timeout, lost connection, PostgreSQL
\* restart): rolled back, logged, retried after a backoff.
Fail(w) ==
    /\ Fault
    /\ pc[w] \in InTransaction /\ Runs(w)
    /\ Rollback(w, "idle")
    /\ UNCHANGED <<book, killed, rewinds>>

\* SIGTERM: the loop ends between two batches.
Stop(w) ==
    /\ Fault
    /\ pc[w] = "idle"
    /\ Goto(w, "down")
    /\ UNCHANGED <<inventoryVars, offsetLock, killed, offset, batch, moved, todo>>

\* SIGKILL in a transaction: PostgreSQL still runs the session.
Kill(w) ==
    /\ Fault
    /\ pc[w] \in InTransaction /\ Runs(w)
    /\ killed' = killed \cup {w}
    /\ UNCHANGED <<inventoryVars, offsetLock, pc, offset, batch, moved, todo>>

\* PostgreSQL ends the session of a killed worker; a COMMIT that had been
\* sent may have been carried out.
Reap(w) ==
    /\ w \in killed
    /\ \/ UNCHANGED stock
       \/ pc[w] = "commit" /\ Publish(batch[w], moved[w])
    /\ EndTransaction(w) /\ Goto(w, "down")
    /\ killed' = killed \ {w}
    /\ UNCHANGED <<book, faults, rewinds>>

-----------------------------------------------------------------------------
(* The rest of the world; a rewind waits for the offset row's lock.        *)

World ==
    /\ \/ LogGrows
       \/ InsertMissingStockLevels
       \/ offsetLock = Nobody /\ \E id \in 0..MaxEventId : Rewind(id)
    /\ UNCHANGED <<offsetLock, worker, faults>>

Work(w) ==
    \/ Start(w) \/ Begin(w) \/ LockOffset(w) \/ ReadBatch(w) \/ MarkStockCommitted(w)
    \/ (\E sku \in Skus : DecrementStock(w, sku)) \/ AdvanceOffset(w) \/ Commit(w) \/ Reap(w)

Next ==
    \/ \E w \in Workers : Work(w) \/ Fail(w) \/ Stop(w) \/ Kill(w)
    \/ World

Spec == Init /\ [][Next]_vars

\* Workers run when they can, a supervisor or an operator starts one that is
\* down, dead sessions end, and somebody runs seed for a missing stock level.
\* Nothing makes a failure happen or not happen; MaxFaults bounds them.
Fairness ==
    /\ \A w \in Workers : WF_vars(Work(w))
    /\ WF_vars(InsertMissingStockLevels /\ UNCHANGED <<offsetLock, worker, faults>>)

FairSpec == Spec /\ Fairness

-----------------------------------------------------------------------------
(* What the stock applier guarantees.                                      *)

\* Statement by statement, with overlapping and dying workers, the applier
\* does what the abstract inventory says: whole batches, each in one step.
ImplementsInventory == InventorySpec

\* What does hold of the lower bound of on_hand (see NoLowerBound): a worker
\* process ends with an error only when the orders accepted for some SKU are
\* together more than its column can hold.  Crashes, rewinds and batches that
\* were begun again never use up any of the room.
ExitsOnlyOnOverflow ==
    (\E w \in Workers : pc[w] = "exited") =>
       \E sku \in Skus : InitialOnHand[sku] - Ordered(Refs, sku) \notin OnHandColumn

\* INV-STK-3 and "Poison events" of specs/05-reliability.md: on_hand has no
\* lower bound, an event fails to apply only when an invariant was broken
\* outside the application, and the worker then keeps retrying.  So no
\* worker process ever ends with an error.
NoLowerBound == \A w \in Workers : pc[w] # "exited"
=============================================================================
