------------------------------ MODULE Submission ------------------------------
(***************************************************************************)
(* What one submission of an order does to the database and is answered,   *)
(* as if it were the only one: orders/service.py accept_order without its  *)
(* statements.  The burst client relies on it, module OrderServer promises *)
(* it of all requests, and order intake keeps the promise.                 *)
(***************************************************************************)
CONSTANTS Refs,
          Contents,  \* what makes two submissions the same order
          NoOrder

VARIABLE orders      \* ref -> the content accepted for it, or NoOrder

Body == [ref: Refs, content: Contents]

Answer(b) ==
    IF orders[b.ref] = NoOrder THEN "created"
    ELSE IF orders[b.ref] = b.content THEN "duplicate" ELSE "order_ref_conflict"

\* The first content stays, whatever is submitted for its ref later.
CarryOut(b) ==
    orders' = [orders EXCEPT ![b.ref] = IF @ = NoOrder THEN b.content ELSE @]
=============================================================================
