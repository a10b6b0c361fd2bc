------------------------------ MODULE MCBurst ------------------------------
(* A burst of three submissions in phase one, two of them of one order_ref, *)
(* and one that reuses this ref for other content.                          *)
EXTENDS Burst, TLC

CONSTANTS p1, p2, p3, o1, o2, a, b

MCBodyOf == (p1 :> [ref |-> o1, content |-> a]) @@ (p2 :> [ref |-> o1, content |-> a])
         @@ (p3 :> [ref |-> o2, content |-> a]) @@ (Conflict :> [ref |-> o1, content |-> b])
=============================================================================
