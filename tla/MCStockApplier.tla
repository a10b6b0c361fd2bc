--------------------------- MODULE MCStockApplier ---------------------------
(* Small instances of StockApplier for TLC.                                *)
EXTENDS StockApplier, TLC

CONSTANTS w1, w2, o1, o2, s1, s2

MCWorkers == {w1, w2}
MCRefs == {o1, o2}
MCSkus == {s1, s2}

Order(kind, q1, q2) == [kind |-> kind, qty |-> (s1 :> q1) @@ (s2 :> q2)]

\* Orders of one and of two SKUs, and one of a later release.
PlainPayloads == {Order("accepted", 1, 1), Order("accepted", 2, 0)}
MCPayloads == PlainPayloads \cup {Order("accepted_v2", 1, 0)}

MCInitialOnHand == (s1 :> 1) @@ (s2 :> 1)

\* The column's least value, out of reach and within reach of two orders.
WideIntMin == -100
NarrowIntMin == -2

WorkerSymmetry == Permutations(MCWorkers)
=============================================================================
