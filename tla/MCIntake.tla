------------------------------ MODULE MCIntake ------------------------------
(* Small instances of Intake for TLC.                                      *)
EXTENDS Intake, TLC

CONSTANTS r1, r2, r3, o1, o2, c1, s1, s2

MCRequests == {r1, r2, r3}
MCRefs == {o1, o2}
MCCustomers == {c1}
MCSkus == {s1, s2}

Item(sku, qty) == [sku |-> sku, qty |-> qty]
Submission(ref, items) == [ref |-> ref, customer |-> c1, items |-> items]

\* One order in two item orders, the same ref with other content, another
\* ref, and a body that repeats a SKU.
MCSubmissions ==
    {Submission(o1, <<Item(s1, 1), Item(s2, 1)>>),
     Submission(o1, <<Item(s2, 1), Item(s1, 1)>>),
     Submission(o1, <<Item(s1, 2)>>),
     Submission(o2, <<Item(s1, 1)>>),
     Submission(o2, <<Item(s1, 1), Item(s1, 2)>>)}

\* For liveness: competitors for one ref, and another ref to meet at the lock.
FewSubmissions == {Submission(o1, <<Item(s1, 1)>>), Submission(o2, <<Item(s1, 1)>>)}

\* s2 is not in the catalogue until seed inserts it.
MCCatalogue == (s1 :> 1) @@ (s2 :> NoPrice)
MCPrices == {2}

RequestSymmetry == Permutations(MCRequests)
=============================================================================
