---------------------------- MODULE MCOrdersStock ----------------------------
(* A small instance of OrdersStock: the second release adds a product.     *)
EXTENDS OrdersStock, TLC

CONSTANTS k1, k2, o1, o2, s1, s2

MCDemoOf == (k1 :> {s1}) @@ (k2 :> {s1, s2})

Order(q1, q2) == [kind |-> "accepted", qty |-> (s1 :> q1) @@ (s2 :> q2)]
MCPayloads == {Order(1, 0), Order(1, 2)}
MCInitialOnHand == (s1 :> 1) @@ (s2 :> 2)

WideIntMin == -100

RefSymmetry == Permutations({o1, o2})
=============================================================================
