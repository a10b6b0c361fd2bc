---------------------------- MODULE MCStockWorker ----------------------------
(* Small instances of StockWorker for TLC.                                 *)
EXTENDS StockWorker, TLC

CONSTANTS w1, w2, o1, o2, s1

MCWorkers == {w1, w2}
MCRefs == {o1, o2}
MCSkus == {s1}

Order(kind, q) == [kind |-> kind, qty |-> (s1 :> q)]

PlainPayloads == {Order("accepted", 1)}
MCPayloads == {Order("accepted", 1), Order("accepted_v2", 1)}
MCInitialOnHand == (s1 :> 1)

\* The column's least value, out of reach and within reach of two orders.
WideIntMin == -100
NarrowIntMin == 0

WorkerSymmetry == Permutations(MCWorkers)
=============================================================================
