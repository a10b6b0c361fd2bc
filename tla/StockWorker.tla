----------------------------- MODULE StockWorker -----------------------------
(***************************************************************************)
(* The loop of the stock worker, inventory/applier.py run_stock_worker:    *)
(* what a process remembers and logs between two batches, while other      *)
(* workers apply batches too and database calls fail.  A batch is one step *)
(* here; module StockApplier shows that the statements of apply_next_batch *)
(* amount to that.                                                         *)
(***************************************************************************)
EXTENDS Inventory, FiniteSetsExt

CONSTANTS Workers,
          BatchSize,      \* stock_worker_batch_size
          Unknown         \* the offset of a process that never connected

ASSUME StockWorkerAssumption ==
    /\ BatchSize \in Nat \ {0}
    /\ Unknown \notin Int

VARIABLES
    pc,         \* per process: its next step
    stop,       \* processes that received SIGINT or SIGTERM
    offset,     \* per process: its idea of the offset, Unknown before
    head,       \* per process: its idea of the head of the log
    batch,      \* per process: the batch that it applied and has not logged
    announced,  \* processes that logged "stock-worker started"
    logged      \* ids of the events in the "applied events" lines, ever

memory == <<stop, offset, head, batch, announced, logged>>
vars == <<inventoryVars, pc, memory>>

Running == {"loop", "connect", "offset", "head", "announce", "apply", "measure", "log"}
\* Steps that talk to PostgreSQL and can raise an OperationalError.
Connected == {"connect", "offset", "head", "apply", "measure"}

StockWorkerTypeOK ==
    /\ InventoryTypeOK
    /\ pc \in [Workers -> Running \cup {"down", "exited"}]
    /\ stop \subseteq Workers /\ announced \subseteq Workers
    /\ offset \in [Workers -> 0..MaxEventId \cup {Unknown}]
    /\ head \in [Workers -> 0..MaxEventId]
    /\ batch \in [Workers -> SUBSET events]
    /\ logged \subseteq Book!EventIds

Init ==
    /\ InventoryInit
    /\ pc = [w \in Workers |-> "down"]
    /\ stop = {} /\ announced = {} /\ logged = {}
    /\ offset = [w \in Workers |-> Unknown]
    /\ head = [w \in Workers |-> 0]
    /\ batch = [w \in Workers |-> {}]

-----------------------------------------------------------------------------
Goto(w, step) == pc' = [pc EXCEPT ![w] = step]
Ids(es) == {e.id : e \in es}
Last(es) == Max(Ids(es))
HeadEventId == Max(Ids(events) \cup {0})

\* The error is logged; after a wait that stop interrupts the loop begins again.
Retry(w) == Goto(w, "loop")

\* The process ends, and with it what it remembers.
End(w, step) ==
    /\ Goto(w, step)
    /\ stop' = stop \ {w} /\ announced' = announced \ {w}
    /\ offset' = [offset EXCEPT ![w] = Unknown]
    /\ head' = [head EXCEPT ![w] = 0]
    /\ batch' = [batch EXCEPT ![w] = {}]
    /\ UNCHANGED logged

Start(w) ==
    /\ pc[w] \in {"down", "exited"}
    /\ Goto(w, "loop")
    /\ UNCHANGED <<inventoryVars, memory>>

\* Mutant: a process that cannot connect does not look at stop.
LoopOnceConnected(w) ==
    /\ pc[w] = "loop"
    /\ IF w \in stop /\ offset[w] # Unknown
         THEN End(w, "down")
         ELSE Goto(w, "connect") /\ UNCHANGED memory
    /\ UNCHANGED inventoryVars

\* `while not stop.is_set()`: the one place where stop is looked at.
Loop(w) ==
    /\ pc[w] = "loop"
    /\ IF w \in stop
         THEN End(w, "down")
         ELSE Goto(w, "connect") /\ UNCHANGED memory
    /\ UNCHANGED inventoryVars

Connect(w) ==
    /\ pc[w] = "connect"
    /\ Goto(w, IF offset[w] = Unknown THEN "offset" ELSE "apply")
    /\ UNCHANGED <<inventoryVars, memory>>

ReadOffset(w) ==
    /\ pc[w] = "offset"
    /\ offset' = [offset EXCEPT ![w] = lastEventId]
    /\ Goto(w, "head")
    /\ UNCHANGED <<inventoryVars, stop, head, batch, announced, logged>>

\* READ COMMITTED: this statement may see later commits than the one before.
ReadHead(w) ==
    /\ pc[w] = "head"
    /\ head' = [head EXCEPT ![w] = HeadEventId]
    /\ Goto(w, "announce")
    /\ UNCHANGED <<inventoryVars, stop, offset, batch, announced, logged>>

\* "stock-worker started: offset=... head=... lag=...".
Announce(w) ==
    /\ pc[w] = "announce"
    /\ announced' = announced \cup {w}
    /\ Goto(w, "apply")
    /\ UNCHANGED <<inventoryVars, stop, offset, head, batch, logged>>

\* Mutant: the batch is read after the offset the process remembers.
BatchAfterKnownOffset(w) == Book!ReadEvents(offset[w], BatchSize)
NextBatch(w) == Book!ReadEvents(lastEventId, BatchSize)

\* Mutant: the version of an event is not looked at before it is applied.
ViolatesByLevelOnly(es) ==
    \E sku \in Skus : Quantity(es, Moving(es), sku) > 0 /\ onHand[sku] = NoLevel
\* StockInvariantViolation, and the DataError that the loop does not catch.
Violates(es) ==
    \/ Poisoned(es)
    \/ \E sku \in Skus : Quantity(es, Moving(es), sku) > 0 /\ onHand[sku] = NoLevel
OutOfRange(es) ==
    \E sku \in Skus : /\ Quantity(es, Moving(es), sku) > 0 /\ onHand[sku] # NoLevel
                      /\ ~Decrementable(es, Moving(es), sku)

ApplyNextBatch(w) ==
    /\ pc[w] = "apply"
    /\ LET es == NextBatch(w)
       IN  \/ es = {} /\ Goto(w, "loop") /\ UNCHANGED <<stock, memory>>
           \/ Violates(es) /\ Retry(w) /\ UNCHANGED <<stock, memory>>
           \/ OutOfRange(es) /\ ~Poisoned(es) /\ End(w, "exited") /\ UNCHANGED stock
           \/ /\ es # {} /\ ~Violates(es) /\ ~OutOfRange(es)
              /\ Publish(es, Moving(es))
              /\ batch' = [batch EXCEPT ![w] = es]
              /\ Goto(w, "measure")
              /\ UNCHANGED <<stop, offset, head, announced, logged>>
    /\ UNCHANGED <<book, rewinds>>

\* Mutant: the head is read once, at the start.
MeasureNothing(w) ==
    /\ pc[w] = "measure"
    /\ Goto(w, "log")
    /\ UNCHANGED <<inventoryVars, memory>>

\* The head again, after the batch, in a transaction of its own.
Measure(w) ==
    /\ pc[w] = "measure"
    /\ head' = [head EXCEPT ![w] = HeadEventId]
    /\ Goto(w, "log")
    /\ UNCHANGED <<inventoryVars, stop, offset, batch, announced, logged>>

\* "applied events first..last: ... offset=last lag=...".
LogApplied(w) ==
    /\ pc[w] = "log"
    /\ offset' = [offset EXCEPT ![w] = Last(batch[w])]
    /\ logged' = logged \cup Ids(batch[w])
    /\ batch' = [batch EXCEPT ![w] = {}]
    /\ Goto(w, "loop")
    /\ UNCHANGED <<inventoryVars, stop, head, announced>>

\* An OperationalError: what was applied or read before it stays so.
Fail(w) ==
    /\ pc[w] \in Connected
    /\ Retry(w)
    /\ batch' = [batch EXCEPT ![w] = {}]
    /\ UNCHANGED <<inventoryVars, stop, offset, head, announced, logged>>

Signal(w) ==
    /\ pc[w] \in Running
    /\ stop' = stop \cup {w}
    /\ UNCHANGED <<inventoryVars, pc, offset, head, batch, announced, logged>>

Kill(w) ==
    /\ pc[w] \in Running
    /\ End(w, "down")
    /\ UNCHANGED inventoryVars

Run(w) ==
    \/ Loop(w) \/ Connect(w) \/ ReadOffset(w) \/ ReadHead(w) \/ Announce(w)
    \/ ApplyNextBatch(w) \/ Measure(w) \/ LogApplied(w) \/ Fail(w)

Next ==
    \/ \E w \in Workers : Start(w) \/ Run(w) \/ Signal(w) \/ Kill(w)
    \/ /\ LogGrows \/ InsertMissingStockLevels \/ \E id \in 0..MaxEventId : Rewind(id)
       /\ UNCHANGED <<pc, memory>>

Spec == Init /\ [][Next]_vars

\* A process that runs makes its next step or sees it fail, however often
\* (pool and statement timeouts bound every call).
FairSpec == Spec /\ \A w \in Workers : WF_vars(Run(w))

-----------------------------------------------------------------------------
\* The lag in the log lines is a measure: never negative, although offset and
\* head are read by separate statements and other workers apply in between
\* (run_stock_worker, lag=head - offset, after the start and after each batch).
LagNeverNegative ==
    \A w \in Workers :
       /\ pc[w] = "announce" => head[w] - offset[w] >= 0
       /\ pc[w] = "log" => head[w] - Last(batch[w]) >= 0

\* With the loop around it, and whatever a process remembers or was refused,
\* a worker changes the database in whole batches only, each of them the one
\* that follows the committed offset (run_stock_worker uses `offset` and
\* `head` for its log lines alone).
ImplementsInventory == InventorySpec

\* Exactly once, as an operator reads it off the logs of all workers: without
\* a rewind no event is in two "applied events" lines, whatever offset each
\* process remembers (run_stock_worker takes the batch from apply_next_batch,
\* which reads the offset anew).
LoggedOnce ==
    rewinds = 0 =>
    \A w \in Workers : pc[w] \in {"measure", "log"} =>
       /\ Ids(batch[w]) \cap logged = {}
       /\ \A v \in Workers \ {w} :
             pc[v] \in {"measure", "log"} => Ids(batch[w]) \cap Ids(batch[v]) = {}

\* REQ-OUT: a stop request ends the process even when the database is down or
\* a poison event blocks the log, without interrupting a batch.
StopEndsTheProcess ==
    \A w \in Workers : w \in stop ~> pc[w] \in {"down", "exited"}

\* 03-architecture.md, "Stock worker loop": the start line is logged on the
\* first successful connection, so before any "applied events" line.
StartIsAnnounced == \A w \in Workers : pc[w] = "log" => w \in announced
=============================================================================
