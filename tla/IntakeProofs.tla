---------------------------- MODULE IntakeProofs ----------------------------
(***************************************************************************)
(* Proofs about Intake for every number of requests, refs, SKUs and        *)
(* pooled connections.                                                     *)
(***************************************************************************)
EXTENDS Intake, SequenceTheorems, TLAPS

\* A ref has at most one uncommitted claimant, and none once it is stored.
ClaimsAreExclusive ==
    \A r \in Requests : HoldsClaim(r) =>
       /\ orders[Ref(r)] = NoOrder
       /\ \A s \in Requests : HoldsClaim(s) /\ Ref(s) = Ref(r) => s = r

\* The append lock is held from the INSERT of the event to the commit.
AppendLockIsHeld ==
    \A r \in Requests : pc[r] \in {"append", "commit"} <=> appendLock = r

\* The sequence is ahead of the log, and the one id that is drawn and not
\* yet visible lies between the two.
IdsAreAhead ==
    /\ \A e \in events : e.id < nextEventId
    /\ \A r \in Requests : pc[r] = "commit" =>
          /\ eventId[r] \in 1..MaxEventId
          /\ eventId[r] < nextEventId
          /\ \A e \in events : e.id < eventId[r]

\* What the handler holds between two statements.
DraftsAreRight ==
    \A r \in Requests :
       /\ pc[r] \in {"claim", "items", "lock", "append", "commit"} =>
             draft[r] \in Order /\ OrderContent(draft[r]) = RequestContent(body[r])
       /\ pc[r] = "refind" => orders[Ref(r)] # NoOrder
       /\ pc[r] = "compare" => orders[Ref(r)] # NoOrder /\ draft[r] = orders[Ref(r)]

\* An answer is given when the handler is done or its session is abandoned.
AnswersAreFinal ==
    \A r \in Requests :
       answer[r] \notin {"none", "service_unavailable", "lost"} => pc[r] = "done"

\* An order that was answered with 200 or 201 is a stored one.
StoredDrafts ==
    \A r \in Requests : answer[r] \in {"created", "duplicate"} => draft[r] # NoOrder

IndInv ==
    /\ IntakeTypeOK
    /\ ClaimsAreExclusive
    /\ AppendLockIsHeld
    /\ IdsAreAhead
    /\ DraftsAreRight
    /\ AnswersAreFinal
    /\ StoredDrafts
    /\ OneEventPerOrder
    /\ AnswersMatchTheStore
    /\ AtMostOneCreated
    /\ NoAssertionFailure

-----------------------------------------------------------------------------
(* Lemmas about the data.                                                  *)

\* A submission names a known ref.
LEMMA SubmissionRef == \A b \in Submissions : b.ref \in Refs
BY IntakeAssumption DEF Body

\* Pricing a submission whose SKUs are all in the catalogue yields an order
\* (service.py items 40-48), and one with the submission's content.
LEMMA PricedIsOrder ==
    ASSUME products \in [Skus -> Nat \cup {NoPrice}],
           NEW b \in Submissions, ~UnknownSku(b)
    PROVE  /\ Priced(b) \in Order
           /\ OrderContent(Priced(b)) = RequestContent(b)
<1> DEFINE line(i) == [sku |-> b.items[i].sku, qty |-> b.items[i].qty,
                       price |-> products[b.items[i].sku]]
<1>1. b.customer \in Customers /\ b.items \in Seq([sku: Skus, qty: Nat])
  BY IntakeAssumption DEF Body
<1>2. \A i \in DOMAIN b.items : b.items[i] \in [sku: Skus, qty: Nat]
  BY <1>1, ElementOfSeq, LenProperties
<1>3. \A i \in DOMAIN b.items : products[b.items[i].sku] \in Nat
  BY <1>2 DEF UnknownSku
<1>4. \A i \in DOMAIN b.items : line(i) \in [sku: Skus, qty: Nat, price: Nat]
  BY <1>2, <1>3
<1>5. Priced(b) \in Order
  BY <1>1, <1>4 DEF Priced, Order
<1>6. Priced(b).items = {line(i) : i \in DOMAIN b.items}
  BY DEF Priced
<1>7. {[sku |-> i.sku, qty |-> i.qty] : i \in Priced(b).items}
        = {[sku |-> b.items[i].sku, qty |-> b.items[i].qty] : i \in DOMAIN b.items}
  <2> DEFINE pair(x) == [sku |-> x.sku, qty |-> x.qty]
  <2>1. \A i \in DOMAIN b.items : pair(line(i)) = pair(b.items[i])
    OBVIOUS
  <2>2. {pair(x) : x \in Priced(b).items} = {pair(line(i)) : i \in DOMAIN b.items}
    BY <1>6, Zenon
  <2>3. QED
    BY <2>1, <2>2
<1>8. Priced(b).customer = b.customer
  BY DEF Priced
<1>9. QED
  BY <1>5, <1>7, <1>8 DEF OrderContent, RequestContent


-----------------------------------------------------------------------------
(* The inductive invariant.                                             *)

\* Publishing an order (Commit, or Reap of a session that had sent its COMMIT)
\* adds one order that was not stored and one event behind all others.
LEMMA PublishAddsOne ==
    ASSUME IndInv, NEW r \in Requests, pc[r] = "commit", Publish(r)
    PROVE  /\ Book!BookTypeOK'
           /\ orders[Ref(r)] = NoOrder /\ orders'[Ref(r)] = draft[r] /\ draft[r] \in Order
           /\ draft[r] # NoOrder
           /\ OrderContent(draft[r]) = RequestContent(body[r])
           /\ \A ref \in Refs \ {Ref(r)} : orders'[ref] = orders[ref]
           /\ \A e \in events' \ events : e.id = eventId[r] /\ e.ref = Ref(r)
           /\ events \subseteq events'
           /\ OneEventPerOrder'
<1> DEFINE new == [id |-> eventId[r], ref |-> Ref(r), data |-> draft[r]]
<1>1. /\ pc[r] # "new" /\ Ref(r) \in Refs
      /\ Book!BookTypeOK
  BY SubmissionRef DEF IndInv, IntakeTypeOK, Ref
<1>2. /\ draft[r] \in Order /\ draft[r] # NoOrder
      /\ OrderContent(draft[r]) = RequestContent(body[r])
  BY IntakeAssumption DEF IndInv, DraftsAreRight
<1>3. orders[Ref(r)] = NoOrder
  BY DEF IndInv, ClaimsAreExclusive, HoldsClaim
<1>4. /\ orders' = [orders EXCEPT ![Ref(r)] = draft[r]]
      /\ events' = events \cup {new}
  BY DEF Publish
<1>5. new \in Book!Event
  BY <1>1, <1>2 DEF IndInv, IdsAreAhead, Book!Event, Book!EventIds
<1>6. Book!BookTypeOK'
  BY <1>1, <1>2, <1>4, <1>5 DEF Book!BookTypeOK
<1>7. /\ orders'[Ref(r)] = draft[r]
      /\ \A ref \in Refs \ {Ref(r)} : orders'[ref] = orders[ref]
  BY <1>1, <1>4 DEF Book!BookTypeOK
<1>8. \A e \in events : e.ref \in Refs /\ e.data \in Order
  BY <1>1 DEF Book!BookTypeOK, Book!Event
<1>9. \A e \in events : e.ref # Ref(r)
  BY <1>3, <1>8, IntakeAssumption DEF IndInv, OneEventPerOrder, Book!OneEventPerOrder
<1>10. OneEventPerOrder'
  <2>1. \A e \in events' : orders'[e.ref] = e.data
    BY <1>4, <1>7, <1>8, <1>9 DEF IndInv, OneEventPerOrder, Book!OneEventPerOrder
  <2>2. \A ref \in Refs : orders'[ref] # NoOrder => \E e \in events' : e.ref = ref
    <3>1. \A ref \in Refs \ {Ref(r)} : orders[ref] # NoOrder => \E e \in events : e.ref = ref
      BY DEF IndInv, OneEventPerOrder, Book!OneEventPerOrder, Book!Stored
    <3>2. new \in events' /\ new.ref = Ref(r) /\ events \subseteq events'
      BY <1>4
    <3>3. QED
      BY <3>1, <3>2, <1>7
  <2>3. \A e, f \in events' : e.ref = f.ref => e = f
    BY <1>4, <1>9 DEF IndInv, OneEventPerOrder, Book!OneEventPerOrder
  <2>4. QED
    BY <2>1, <2>2, <2>3 DEF OneEventPerOrder, Book!OneEventPerOrder, Book!Stored
<1>11. QED
  BY <1>2, <1>3, <1>4, <1>6, <1>7, <1>10

\* A commit that is carried out, whether its handler lives to answer 201 or not.
LEMMA PublishPreserves ==
    ASSUME IndInv, NEW r \in Requests, pc[r] = "commit", Publish(r),
           ReleaseAppendLock(r), Goto(r, "done"),
           UNCHANGED <<products, nextEventId, body, draft, eventId>>,
           \/ Live(r) /\ Answer(r, "created")
           \/ ~Live(r) /\ UNCHANGED answer
    PROVE  IndInv'
<1>1. /\ Book!BookTypeOK'
      /\ orders[Ref(r)] = NoOrder /\ orders'[Ref(r)] = draft[r]
      /\ draft[r] # NoOrder /\ OrderContent(draft[r]) = RequestContent(body[r])
      /\ \A ref \in Refs \ {Ref(r)} : orders'[ref] = orders[ref]
      /\ \A e \in events' \ events : e.id = eventId[r] /\ e.ref = Ref(r)
      /\ events \subseteq events'
      /\ OneEventPerOrder'
  BY PublishAddsOne
<1>2. /\ \A s \in Requests : pc'[s] = IF s = r THEN "done" ELSE pc[s]
      /\ \A s \in Requests : answer'[s] = IF s = r /\ Live(r) THEN "created" ELSE answer[s]
      /\ UNCHANGED <<products, nextEventId, body, draft, eventId>>
      /\ appendLock = r /\ appendLock' = Nobody
  BY DEF IndInv, IntakeTypeOK, Goto, Answer, AppendLockIsHeld, ReleaseAppendLock
<1>3. \A s \in Requests : pc[s] # "new" => Ref(s) \in Refs /\ Ref(s)' = Ref(s)
  BY <1>2, SubmissionRef DEF IndInv, IntakeTypeOK, Ref
<1>4. IntakeTypeOK'
  BY <1>1, <1>2 DEF IndInv, IntakeTypeOK, Answers, Steps, Goto, Answer
<1>5. ClaimsAreExclusive'
  <2> SUFFICES ASSUME NEW s \in Requests, HoldsClaim(s)'
               PROVE  /\ orders'[Ref(s)'] = NoOrder
                      /\ \A t \in Requests : HoldsClaim(t)' /\ Ref(t)' = Ref(s)' => t = s
    BY DEF ClaimsAreExclusive
  <2>1. s # r /\ pc[s] # "new" /\ HoldsClaim(s)
    BY <1>2 DEF HoldsClaim
  <2>2. Ref(s) # Ref(r)
    BY <2>1 DEF IndInv, ClaimsAreExclusive, HoldsClaim
  <2>3. \A t \in Requests : HoldsClaim(t)' => HoldsClaim(t) /\ pc[t] # "new"
    BY <1>2 DEF HoldsClaim
  <2>4. QED
    BY <1>1, <1>3, <2>1, <2>2, <2>3 DEF IndInv, ClaimsAreExclusive
<1>6. AppendLockIsHeld'
  BY <1>2, IntakeAssumption DEF IndInv, AppendLockIsHeld
<1>7. IdsAreAhead'
  <2>1. \A s \in Requests : pc'[s] # "commit"
    BY <1>2 DEF IndInv, AppendLockIsHeld
  <2>2. \A e \in events' : e.id < nextEventId'
    BY <1>1, <1>2 DEF IndInv, IdsAreAhead
  <2>3. QED
    BY <2>1, <2>2 DEF IdsAreAhead
<1>8. \A s \in Requests : pc[s] # "new" /\ orders[Ref(s)] # NoOrder =>
          orders'[Ref(s)] = orders[Ref(s)]
  BY <1>1, <1>3
<1>9. DraftsAreRight'
  <2> SUFFICES ASSUME NEW s \in Requests, s # r
               PROVE  /\ pc[s] \in {"claim", "items", "lock", "append", "commit"} =>
                            draft[s] \in Order /\ OrderContent(draft[s]) = RequestContent(body[s])
                      /\ pc[s] = "refind" => orders'[Ref(s)] # NoOrder
                      /\ pc[s] = "compare" =>
                            orders'[Ref(s)] # NoOrder /\ draft[s] = orders'[Ref(s)]
    BY <1>2, <1>3 DEF DraftsAreRight
  <2>1. QED
    BY <1>8 DEF IndInv, DraftsAreRight
<1>10. AnswersAreFinal'
  BY <1>2 DEF IndInv, AnswersAreFinal
<1>11. AnswersMatchTheStore'
  <2> SUFFICES ASSUME NEW s \in Requests
               PROVE  /\ answer'[s] \in {"created", "duplicate"} =>
                            /\ orders'[Ref(s)'] = draft[s]
                            /\ OrderContent(orders'[Ref(s)']) = RequestContent(body[s])
                      /\ answer'[s] = "order_ref_conflict" =>
                            /\ orders'[Ref(s)'] # NoOrder
                            /\ OrderContent(orders'[Ref(s)']) # RequestContent(body[s])
    BY <1>2 DEF AnswersMatchTheStore
  <2>1. CASE s = r /\ Live(r)
    BY <2>1, <1>1, <1>2, <1>3
  <2>2. CASE ~(s = r /\ Live(r))
    <3>1. answer'[s] = answer[s]
      BY <2>2, <1>2
    <3>2. answer[s] \in {"created", "duplicate", "order_ref_conflict"} =>
             pc[s] = "done" /\ orders[Ref(s)] # NoOrder
      BY DEF IndInv, AnswersAreFinal, AnswersMatchTheStore, StoredDrafts
    <3>3. QED
      BY <3>1, <3>2, <1>3, <1>8 DEF IndInv, AnswersMatchTheStore
  <2>3. QED
    BY <2>1, <2>2
<1>12. AtMostOneCreated'
  <2>1. \A s \in Requests : answer[s] = "created" => Ref(s) # Ref(r) /\ Ref(s)' = Ref(s)
    BY <1>1, <1>3 DEF IndInv, AnswersMatchTheStore, AnswersAreFinal, StoredDrafts
  <2>2. Ref(r)' = Ref(r)
    BY <1>3
  <2>3. QED
    BY <1>2, <2>1, <2>2 DEF IndInv, AtMostOneCreated
<1>13. StoredDrafts'
  BY <1>1, <1>2 DEF IndInv, StoredDrafts
<1>14. NoAssertionFailure'
  BY <1>2 DEF IndInv, NoAssertionFailure
<1>15. QED
  BY <1>1, <1>4, <1>5, <1>6, <1>7, <1>9, <1>10, <1>11, <1>12, <1>13, <1>14 DEF IndInv

LEMMA ReceivePreserves ==
    ASSUME IndInv, NEW r \in Requests, NEW b \in Submissions, Receive(r, b)
    PROVE  IndInv'
<1>1. IntakeTypeOK'
  BY IntakeAssumption DEF IndInv, IntakeTypeOK, Book!BookTypeOK, Answers, Steps, Goto, Answer,
     database, Receive
<1>2. ClaimsAreExclusive'
  BY DEF IndInv, IntakeTypeOK, Ref, ClaimsAreExclusive, HoldsClaim, Goto, database, Receive
<1>3. AppendLockIsHeld'
  BY DEF IndInv, IntakeTypeOK, AppendLockIsHeld, Goto, Receive
<1>4. IdsAreAhead'
  BY DEF IndInv, IntakeTypeOK, IdsAreAhead, Goto, database, Receive
<1>5. DraftsAreRight'
  BY DEF IndInv, IntakeTypeOK, Ref, DraftsAreRight, Goto, database, Receive
<1>6. AnswersAreFinal'
  BY DEF IndInv, IntakeTypeOK, AnswersAreFinal, Goto, Answer, Receive
<1>7. StoredDrafts'
  BY DEF IndInv, IntakeTypeOK, StoredDrafts, Answer, Receive
<1>8. OneEventPerOrder'
  BY DEF IndInv, Book!OneEventPerOrder, Book!Stored, database, Receive, OneEventPerOrder
<1>9. AnswersMatchTheStore'
  BY DEF IndInv, IntakeTypeOK, Ref, AnswersMatchTheStore, AnswersAreFinal, Answer, database,
     Receive
<1>10. AtMostOneCreated'
  BY DEF IndInv, IntakeTypeOK, Ref, AtMostOneCreated, AnswersAreFinal, Answer, Receive
<1>11. NoAssertionFailure'
  BY DEF IndInv, IntakeTypeOK, NoAssertionFailure, Answer, database, Receive
<1>12. QED
  BY <1>1, <1>2, <1>3, <1>4, <1>5, <1>6, <1>7, <1>8, <1>9, <1>10, <1>11 DEF IndInv

LEMMA CheckoutPreserves ==
    ASSUME IndInv, NEW r \in Requests, Checkout(r)
    PROVE  IndInv'
<1>1. IntakeTypeOK'
  BY DEF IndInv, IntakeTypeOK, Book!BookTypeOK, Steps, Pooled, InTransaction, Goto, database,
     Checkout
<1>2. ClaimsAreExclusive'
  BY DEF IndInv, Ref, ClaimsAreExclusive, HoldsClaim, Goto, database, Checkout
<1>3. AppendLockIsHeld'
  BY DEF IndInv, AppendLockIsHeld, Goto, Checkout
<1>4. IdsAreAhead'
  BY DEF IndInv, IdsAreAhead, Goto, database, Checkout
<1>5. DraftsAreRight'
  BY DEF IndInv, Ref, DraftsAreRight, Goto, database, Checkout
<1>6. AnswersAreFinal'
  BY DEF IndInv, AnswersAreFinal, Goto, Checkout
<1>7. StoredDrafts'
  BY DEF IndInv, StoredDrafts, Checkout
<1>8. OneEventPerOrder'
  BY DEF IndInv, Book!OneEventPerOrder, Book!Stored, database, Checkout, OneEventPerOrder
<1>9. AnswersMatchTheStore'
  BY DEF IndInv, Ref, AnswersMatchTheStore, database, Checkout
<1>10. AtMostOneCreated'
  BY DEF IndInv, Ref, AtMostOneCreated, Checkout
<1>11. NoAssertionFailure'
  BY DEF IndInv, NoAssertionFailure, database, Checkout
<1>12. QED
  BY <1>1, <1>2, <1>3, <1>4, <1>5, <1>6, <1>7, <1>8, <1>9, <1>10, <1>11 DEF IndInv

LEMMA FindOrderPreserves ==
    ASSUME IndInv, NEW r \in Requests, FindOrder(r)
    PROVE  IndInv'
<1>1. IntakeTypeOK'
  BY SubmissionRef DEF IndInv, IntakeTypeOK, Book!BookTypeOK, Steps, Pooled, InTransaction, Ref,
     Goto, database, FindOrder
<1>2. ClaimsAreExclusive'
  BY DEF IndInv, Ref, ClaimsAreExclusive, HoldsClaim, Goto, database, FindOrder
<1>3. AppendLockIsHeld'
  BY DEF IndInv, AppendLockIsHeld, Goto, FindOrder
<1>4. IdsAreAhead'
  BY DEF IndInv, IdsAreAhead, Goto, database, FindOrder
<1>5. DraftsAreRight'
  BY DEF IndInv, IntakeTypeOK, Ref, DraftsAreRight, Goto, database, FindOrder
<1>6. AnswersAreFinal'
  BY DEF IndInv, AnswersAreFinal, Goto, FindOrder
<1>7. StoredDrafts'
  BY DEF IndInv, StoredDrafts, AnswersAreFinal, FindOrder
<1>8. OneEventPerOrder'
  BY DEF IndInv, Book!OneEventPerOrder, Book!Stored, database, FindOrder, OneEventPerOrder
<1>9. AnswersMatchTheStore'
  BY DEF IndInv, Ref, AnswersMatchTheStore, database, FindOrder
<1>10. AtMostOneCreated'
  BY DEF IndInv, Ref, AtMostOneCreated, FindOrder
<1>11. NoAssertionFailure'
  BY DEF IndInv, IntakeTypeOK, NoAssertionFailure, DraftsAreRight, Live, Answer, database, FindOrder
<1>12. QED
  BY <1>1, <1>2, <1>3, <1>4, <1>5, <1>6, <1>7, <1>8, <1>9, <1>10, <1>11 DEF IndInv

LEMMA GetPricesPreserves ==
    ASSUME IndInv, NEW r \in Requests, GetPrices(r)
    PROVE  IndInv'
<1>1. IntakeTypeOK'
  BY PricedIsOrder DEF IndInv, IntakeTypeOK, Book!BookTypeOK, Answers, Steps, Pooled,
     InTransaction, Goto, Answer, database, GetPrices
<1>2. ClaimsAreExclusive'
  BY DEF IndInv, IntakeTypeOK, Ref, ClaimsAreExclusive, HoldsClaim, Goto, database, GetPrices
<1>3. AppendLockIsHeld'
  BY DEF IndInv, IntakeTypeOK, AppendLockIsHeld, Goto, GetPrices
<1>4. IdsAreAhead'
  BY DEF IndInv, IntakeTypeOK, IdsAreAhead, Goto, database, GetPrices
<1>5. DraftsAreRight'
  BY PricedIsOrder DEF IndInv, IntakeTypeOK, Ref, DraftsAreRight, Goto, database, GetPrices
<1>6. AnswersAreFinal'
  BY DEF IndInv, IntakeTypeOK, AnswersAreFinal, Goto, Answer, GetPrices
<1>7. StoredDrafts'
  BY DEF IndInv, IntakeTypeOK, StoredDrafts, AnswersAreFinal, Answer, GetPrices
<1>8. OneEventPerOrder'
  BY DEF IndInv, Book!OneEventPerOrder, Book!Stored, database, GetPrices, OneEventPerOrder
<1>9. AnswersMatchTheStore'
  BY DEF IndInv, IntakeTypeOK, Ref, AnswersMatchTheStore, AnswersAreFinal, Answer, database,
     GetPrices
<1>10. AtMostOneCreated'
  BY DEF IndInv, IntakeTypeOK, Ref, AtMostOneCreated, Answer, GetPrices
<1>11. NoAssertionFailure'
  BY DEF IndInv, IntakeTypeOK, NoAssertionFailure, DraftsAreRight, Live, Answer, database, GetPrices
<1>12. QED
  BY <1>1, <1>2, <1>3, <1>4, <1>5, <1>6, <1>7, <1>8, <1>9, <1>10, <1>11 DEF IndInv

LEMMA InsertOrderPreserves ==
    ASSUME IndInv, NEW r \in Requests, InsertOrder(r)
    PROVE  IndInv'
<1>1. IntakeTypeOK'
  BY DEF IndInv, IntakeTypeOK, Book!BookTypeOK, Answers, Steps, Pooled, InTransaction, Goto,
     Answer, database, InsertOrder
<1>2. ClaimsAreExclusive'
  BY DEF IndInv, IntakeTypeOK, Ref, ClaimsAreExclusive, HoldsClaim, Goto, database, InsertOrder,
     ClaimedByOther
<1>3. AppendLockIsHeld'
  BY DEF IndInv, IntakeTypeOK, AppendLockIsHeld, Goto, InsertOrder
<1>4. IdsAreAhead'
  BY DEF IndInv, IntakeTypeOK, IdsAreAhead, Goto, database, InsertOrder
<1>5. DraftsAreRight'
  BY DEF IndInv, IntakeTypeOK, Ref, DraftsAreRight, Goto, database, InsertOrder
<1>6. AnswersAreFinal'
  BY DEF IndInv, IntakeTypeOK, AnswersAreFinal, Goto, Answer, InsertOrder
<1>7. StoredDrafts'
  BY DEF IndInv, IntakeTypeOK, StoredDrafts, Answer, InsertOrder
<1>8. OneEventPerOrder'
  BY DEF IndInv, Book!OneEventPerOrder, Book!Stored, database, InsertOrder, OneEventPerOrder
<1>9. AnswersMatchTheStore'
  BY DEF IndInv, IntakeTypeOK, Ref, AnswersMatchTheStore, Answer, database, InsertOrder
<1>10. AtMostOneCreated'
  BY DEF IndInv, IntakeTypeOK, Ref, AtMostOneCreated, Answer, InsertOrder
<1>11. NoAssertionFailure'
  <2>1. draft[r] # NoOrder
    BY IntakeAssumption DEF IndInv, DraftsAreRight, InsertOrder
  <2>2. QED
    BY <2>1 DEF IndInv, IntakeTypeOK, NoAssertionFailure, Live, Answer, database, InsertOrder
<1>12. QED
  BY <1>1, <1>2, <1>3, <1>4, <1>5, <1>6, <1>7, <1>8, <1>9, <1>10, <1>11 DEF IndInv

LEMMA RefindOrderPreserves ==
    ASSUME IndInv, NEW r \in Requests, RefindOrder(r)
    PROVE  IndInv'
<1>1. IntakeTypeOK'
  BY SubmissionRef DEF IndInv, IntakeTypeOK, Book!BookTypeOK, Answers, Steps, Pooled, Ref, Goto,
     Answer, database, RefindOrder
<1>2. ClaimsAreExclusive'
  BY DEF IndInv, IntakeTypeOK, Ref, ClaimsAreExclusive, HoldsClaim, Goto, database, RefindOrder
<1>3. AppendLockIsHeld'
  BY DEF IndInv, IntakeTypeOK, AppendLockIsHeld, Goto, RefindOrder
<1>4. IdsAreAhead'
  BY DEF IndInv, IntakeTypeOK, IdsAreAhead, Goto, database, RefindOrder
<1>5. DraftsAreRight'
  BY DEF IndInv, IntakeTypeOK, Ref, DraftsAreRight, Goto, database, RefindOrder
<1>6. AnswersAreFinal'
  BY DEF IndInv, IntakeTypeOK, AnswersAreFinal, Goto, Answer, RefindOrder
<1>7. StoredDrafts'
  BY DEF IndInv, StoredDrafts, DraftsAreRight, RefindOrder
<1>8. OneEventPerOrder'
  BY DEF IndInv, Book!OneEventPerOrder, Book!Stored, database, RefindOrder, OneEventPerOrder
<1>9. AnswersMatchTheStore'
  BY DEF IndInv, Ref, AnswersMatchTheStore, DraftsAreRight, database, RefindOrder
<1>10. AtMostOneCreated'
  BY DEF IndInv, Ref, AtMostOneCreated, DraftsAreRight, RefindOrder
<1>11. NoAssertionFailure'
  BY DEF IndInv, IntakeTypeOK, NoAssertionFailure, DraftsAreRight, Live, Answer, database, RefindOrder
<1>12. QED
  BY <1>1, <1>2, <1>3, <1>4, <1>5, <1>6, <1>7, <1>8, <1>9, <1>10, <1>11 DEF IndInv

LEMMA InsertItemsPreserves ==
    ASSUME IndInv, NEW r \in Requests, InsertItems(r)
    PROVE  IndInv'
<1>1. IntakeTypeOK'
  BY DEF IndInv, IntakeTypeOK, Book!BookTypeOK, Steps, Pooled, InTransaction, Goto, database,
     InsertItems
<1>2. ClaimsAreExclusive'
  BY DEF IndInv, Ref, ClaimsAreExclusive, HoldsClaim, Goto, database, InsertItems
<1>3. AppendLockIsHeld'
  BY DEF IndInv, AppendLockIsHeld, Goto, InsertItems
<1>4. IdsAreAhead'
  BY DEF IndInv, IdsAreAhead, Goto, database, InsertItems
<1>5. DraftsAreRight'
  BY DEF IndInv, Ref, DraftsAreRight, Goto, database, InsertItems
<1>6. AnswersAreFinal'
  BY DEF IndInv, AnswersAreFinal, Goto, InsertItems
<1>7. StoredDrafts'
  BY DEF IndInv, StoredDrafts, InsertItems
<1>8. OneEventPerOrder'
  BY DEF IndInv, Book!OneEventPerOrder, Book!Stored, database, InsertItems, OneEventPerOrder
<1>9. AnswersMatchTheStore'
  BY DEF IndInv, Ref, AnswersMatchTheStore, database, InsertItems
<1>10. AtMostOneCreated'
  BY DEF IndInv, Ref, AtMostOneCreated, InsertItems
<1>11. NoAssertionFailure'
  BY DEF IndInv, NoAssertionFailure, database, InsertItems
<1>12. QED
  BY <1>1, <1>2, <1>3, <1>4, <1>5, <1>6, <1>7, <1>8, <1>9, <1>10, <1>11 DEF IndInv

LEMMA TakeAppendLockPreserves ==
    ASSUME IndInv, NEW r \in Requests, TakeAppendLock(r)
    PROVE  IndInv'
<1>1. IntakeTypeOK'
  BY DEF IndInv, IntakeTypeOK, Book!BookTypeOK, Steps, Pooled, InTransaction, Goto, database,
     TakeAppendLock
<1>2. ClaimsAreExclusive'
  BY DEF IndInv, Ref, ClaimsAreExclusive, HoldsClaim, Goto, database, TakeAppendLock
<1>3. AppendLockIsHeld'
  BY IntakeAssumption DEF IndInv, IntakeTypeOK, AppendLockIsHeld, Goto, TakeAppendLock
<1>4. IdsAreAhead'
  BY DEF IndInv, IdsAreAhead, Goto, database, TakeAppendLock
<1>5. DraftsAreRight'
  BY DEF IndInv, Ref, DraftsAreRight, Goto, database, TakeAppendLock
<1>6. AnswersAreFinal'
  BY DEF IndInv, AnswersAreFinal, Goto, TakeAppendLock
<1>7. StoredDrafts'
  BY DEF IndInv, StoredDrafts, TakeAppendLock
<1>8. OneEventPerOrder'
  BY DEF IndInv, Book!OneEventPerOrder, Book!Stored, database, TakeAppendLock, OneEventPerOrder
<1>9. AnswersMatchTheStore'
  BY DEF IndInv, Ref, AnswersMatchTheStore, database, TakeAppendLock
<1>10. AtMostOneCreated'
  BY DEF IndInv, Ref, AtMostOneCreated, TakeAppendLock
<1>11. NoAssertionFailure'
  BY DEF IndInv, NoAssertionFailure, database, TakeAppendLock
<1>12. QED
  BY <1>1, <1>2, <1>3, <1>4, <1>5, <1>6, <1>7, <1>8, <1>9, <1>10, <1>11 DEF IndInv

LEMMA AppendEventPreserves ==
    ASSUME IndInv, NEW r \in Requests, AppendEvent(r)
    PROVE  IndInv'
<1>1. IntakeTypeOK'
  BY IntakeAssumption DEF IndInv, IntakeTypeOK, Book!BookTypeOK, Answers, Steps, Pooled,
     InTransaction, Goto, Answer, AppendEvent, ReleaseAppendLock
<1>2. ClaimsAreExclusive'
  BY DEF IndInv, IntakeTypeOK, Ref, ClaimsAreExclusive, HoldsClaim, Goto, AppendEvent
<1>3. AppendLockIsHeld'
  BY IntakeAssumption DEF IndInv, IntakeTypeOK, AppendLockIsHeld, Goto, AppendEvent,
     ReleaseAppendLock
<1>4. IdsAreAhead'
  BY IntakeAssumption DEF IndInv, IntakeTypeOK, IdsAreAhead, Book!BookTypeOK, Book!Event,
     Book!EventIds, Goto, AppendEvent
<1>5. DraftsAreRight'
  BY DEF IndInv, IntakeTypeOK, Ref, DraftsAreRight, Goto, AppendEvent
<1>6. AnswersAreFinal'
  BY DEF IndInv, IntakeTypeOK, AnswersAreFinal, Goto, Answer, AppendEvent
<1>7. StoredDrafts'
  BY DEF IndInv, IntakeTypeOK, StoredDrafts, Answer, AppendEvent
<1>8. OneEventPerOrder'
  BY DEF IndInv, Book!OneEventPerOrder, Book!Stored, AppendEvent, OneEventPerOrder
<1>9. AnswersMatchTheStore'
  BY DEF IndInv, IntakeTypeOK, Ref, AnswersMatchTheStore, Answer, AppendEvent
<1>10. AtMostOneCreated'
  BY DEF IndInv, IntakeTypeOK, Ref, AtMostOneCreated, Answer, AppendEvent
<1>11. NoAssertionFailure'
  BY DEF IndInv, NoAssertionFailure, AppendEvent
<1>12. QED
  BY <1>1, <1>2, <1>3, <1>4, <1>5, <1>6, <1>7, <1>8, <1>9, <1>10, <1>11 DEF IndInv

LEMMA CommitPreserves ==
    ASSUME IndInv, NEW r \in Requests, Commit(r)
    PROVE  IndInv'
BY PublishPreserves DEF Commit

LEMMA CompareContentPreserves ==
    ASSUME IndInv, NEW r \in Requests, CompareContent(r)
    PROVE  IndInv'
<1>1. IntakeTypeOK'
  BY DEF IndInv, IntakeTypeOK, Book!BookTypeOK, Answers, Steps, Goto, Answer, database,
     CompareContent
<1>2. ClaimsAreExclusive'
  BY DEF IndInv, Ref, ClaimsAreExclusive, HoldsClaim, Goto, database, CompareContent
<1>3. AppendLockIsHeld'
  BY DEF IndInv, AppendLockIsHeld, Goto, CompareContent
<1>4. IdsAreAhead'
  BY DEF IndInv, IdsAreAhead, Goto, database, CompareContent
<1>5. DraftsAreRight'
  BY DEF IndInv, Ref, DraftsAreRight, Goto, database, CompareContent
<1>6. AnswersAreFinal'
  BY DEF IndInv, IntakeTypeOK, AnswersAreFinal, Goto, Answer, CompareContent
<1>7. StoredDrafts'
  BY DEF IndInv, StoredDrafts, DraftsAreRight, Answer, CompareContent
<1>8. OneEventPerOrder'
  BY DEF IndInv, Book!OneEventPerOrder, Book!Stored, database, CompareContent, OneEventPerOrder
<1>9. AnswersMatchTheStore'
  BY DEF IndInv, Ref, AnswersMatchTheStore, DraftsAreRight, Answer, database, CompareContent
<1>10. AtMostOneCreated'
  BY DEF IndInv, Ref, AtMostOneCreated, Answer, CompareContent
<1>11. NoAssertionFailure'
  BY DEF IndInv, NoAssertionFailure, Answer, database, CompareContent
<1>12. QED
  BY <1>1, <1>2, <1>3, <1>4, <1>5, <1>6, <1>7, <1>8, <1>9, <1>10, <1>11 DEF IndInv

LEMMA FailPreserves ==
    ASSUME IndInv, NEW r \in Requests, Fail(r)
    PROVE  IndInv'
<1>1. IntakeTypeOK'
  BY DEF IndInv, IntakeTypeOK, Book!BookTypeOK, Answers, Steps, Pooled, InTransaction, Goto,
     Answer, database, Fail, ReleaseAppendLock
<1>2. ClaimsAreExclusive'
  BY DEF IndInv, Ref, ClaimsAreExclusive, HoldsClaim, Goto, database, Fail
<1>3. AppendLockIsHeld'
  BY IntakeAssumption DEF IndInv, IntakeTypeOK, AppendLockIsHeld, Goto, Fail, ReleaseAppendLock
<1>4. IdsAreAhead'
  BY DEF IndInv, IdsAreAhead, Goto, database, Fail
<1>5. DraftsAreRight'
  BY DEF IndInv, Ref, DraftsAreRight, Goto, database, Fail
<1>6. AnswersAreFinal'
  BY DEF IndInv, AnswersAreFinal, Goto, Answer, Fail
<1>7. StoredDrafts'
  BY DEF IndInv, StoredDrafts, Answer, Fail
<1>8. OneEventPerOrder'
  BY DEF IndInv, Book!OneEventPerOrder, Book!Stored, database, Fail, OneEventPerOrder
<1>9. AnswersMatchTheStore'
  BY DEF IndInv, Ref, AnswersMatchTheStore, Answer, database, Fail
<1>10. AtMostOneCreated'
  BY DEF IndInv, Ref, AtMostOneCreated, Answer, Fail
<1>11. NoAssertionFailure'
  BY DEF IndInv, NoAssertionFailure, Answer, database, Fail
<1>12. QED
  BY <1>1, <1>2, <1>3, <1>4, <1>5, <1>6, <1>7, <1>8, <1>9, <1>10, <1>11 DEF IndInv

LEMMA AbandonPreserves ==
    ASSUME IndInv, NEW r \in Requests, Abandon(r)
    PROVE  IndInv'
<1>1. IntakeTypeOK'
  BY DEF IndInv, IntakeTypeOK, Book!BookTypeOK, Answers, Answer, database, Abandon
<1>2. ClaimsAreExclusive'
  BY DEF IndInv, Ref, ClaimsAreExclusive, HoldsClaim, database, Abandon
<1>3. AppendLockIsHeld'
  BY DEF IndInv, AppendLockIsHeld, Abandon
<1>4. IdsAreAhead'
  BY DEF IndInv, IdsAreAhead, database, Abandon
<1>5. DraftsAreRight'
  BY DEF IndInv, Ref, DraftsAreRight, database, Abandon
<1>6. AnswersAreFinal'
  BY DEF IndInv, AnswersAreFinal, Answer, Abandon
<1>7. StoredDrafts'
  BY DEF IndInv, StoredDrafts, Answer, Abandon
<1>8. OneEventPerOrder'
  BY DEF IndInv, Book!OneEventPerOrder, Book!Stored, database, Abandon, OneEventPerOrder
<1>9. AnswersMatchTheStore'
  BY DEF IndInv, Ref, AnswersMatchTheStore, Answer, database, Abandon
<1>10. AtMostOneCreated'
  BY DEF IndInv, Ref, AtMostOneCreated, Answer, Abandon
<1>11. NoAssertionFailure'
  BY DEF IndInv, NoAssertionFailure, Answer, database, Abandon
<1>12. QED
  BY <1>1, <1>2, <1>3, <1>4, <1>5, <1>6, <1>7, <1>8, <1>9, <1>10, <1>11 DEF IndInv

LEMMA ReapPreserves ==
    ASSUME IndInv, NEW r \in Requests, Reap(r)
    PROVE  IndInv'
<1>1. CASE pc[r] = "commit" /\ Publish(r)
  BY <1>1, PublishPreserves DEF Reap
<1>2. CASE UNCHANGED <<orders, events>>
  <2>1. IntakeTypeOK'
    BY <1>2 DEF IndInv, IntakeTypeOK, Book!BookTypeOK, Steps, InTransaction, Goto, Reap,
       ReleaseAppendLock
  <2>2. ClaimsAreExclusive'
    BY <1>2 DEF IndInv, Ref, ClaimsAreExclusive, HoldsClaim, Goto, Reap
  <2>3. AppendLockIsHeld'
    BY <1>2, IntakeAssumption DEF IndInv, IntakeTypeOK, AppendLockIsHeld, Goto, Reap,
       ReleaseAppendLock
  <2>4. IdsAreAhead'
    BY <1>2 DEF IndInv, IdsAreAhead, Goto, Reap
  <2>5. DraftsAreRight'
    BY <1>2 DEF IndInv, Ref, DraftsAreRight, Goto, Reap
  <2>6. AnswersAreFinal'
    BY <1>2 DEF IndInv, AnswersAreFinal, Goto, Reap
  <2>7. StoredDrafts'
    BY <1>2 DEF IndInv, StoredDrafts, Reap
  <2>8. OneEventPerOrder'
    BY <1>2 DEF IndInv, Book!OneEventPerOrder, Book!Stored, Reap, OneEventPerOrder
  <2>9. AnswersMatchTheStore'
    BY <1>2 DEF IndInv, Ref, AnswersMatchTheStore, Reap
  <2>10. AtMostOneCreated'
    BY <1>2 DEF IndInv, Ref, AtMostOneCreated, Reap
  <2>11. NoAssertionFailure'
    BY <1>2 DEF IndInv, NoAssertionFailure, Reap
  <2>12. QED
    BY <2>1, <2>2, <2>3, <2>4, <2>5, <2>6, <2>7, <2>8, <2>9, <2>10, <2>11 DEF IndInv
<1>3. QED
  BY <1>1, <1>2 DEF Reap

\* seed and repricing touch the catalogue only.
LEMMA CatalogueChangesPreserve ==
    ASSUME IndInv, NEW price \in Prices,
           InsertMissingProducts(price) \/ \E sku \in Skus : Reprice(sku, price)
    PROVE  IndInv'
<1>1. /\ products' \in [Skus -> Nat \cup {NoPrice}]
      /\ UNCHANGED <<orders, events, nextEventId, appendLock, pc, body, draft, eventId, answer>>
  BY IntakeAssumption DEF IndInv, IntakeTypeOK, InsertMissingProducts, Reprice
<1>2. IntakeTypeOK'
  BY <1>1 DEF IndInv, IntakeTypeOK, Book!BookTypeOK
<1>3. QED
  BY <1>1, <1>2 DEF IndInv, ClaimsAreExclusive, HoldsClaim, Ref, AppendLockIsHeld, IdsAreAhead,
     DraftsAreRight, AnswersAreFinal, StoredDrafts, OneEventPerOrder, Book!OneEventPerOrder,
     Book!Stored, AnswersMatchTheStore, AtMostOneCreated, NoAssertionFailure

LEMMA StutterPreserves == ASSUME IndInv, UNCHANGED vars PROVE IndInv'
BY DEF vars, IndInv, IntakeTypeOK, Book!BookTypeOK, ClaimsAreExclusive, HoldsClaim, Ref,
   AppendLockIsHeld, IdsAreAhead, DraftsAreRight, AnswersAreFinal, StoredDrafts,
   OneEventPerOrder, Book!OneEventPerOrder, Book!Stored, AnswersMatchTheStore, AtMostOneCreated,
   NoAssertionFailure

LEMMA InitEstablishes == Init => IndInv
<1> SUFFICES ASSUME Init PROVE IndInv
  OBVIOUS
<1>1. IntakeTypeOK
  BY IntakeAssumption DEF Init, Book!Init, IntakeTypeOK, Book!BookTypeOK, Steps, Answers
<1>2. OneEventPerOrder
  BY DEF Init, Book!Init, OneEventPerOrder, Book!OneEventPerOrder, Book!Stored
<1>3. QED
  BY <1>1, <1>2, IntakeAssumption DEF Init, Book!Init, IndInv, ClaimsAreExclusive, HoldsClaim,
     AppendLockIsHeld, IdsAreAhead, DraftsAreRight, AnswersAreFinal, StoredDrafts,
     AnswersMatchTheStore, AtMostOneCreated, NoAssertionFailure

LEMMA StepPreserves == IndInv /\ [Next]_vars => IndInv'
<1> SUFFICES ASSUME IndInv, [Next]_vars PROVE IndInv'
  OBVIOUS
<1>1. ASSUME NEW r \in Requests, NEW b \in Submissions, Receive(r, b) PROVE IndInv'
  BY <1>1, ReceivePreserves
<1>2. ASSUME NEW r \in Requests, Handle(r) PROVE IndInv'
  BY <1>2, CheckoutPreserves, FindOrderPreserves, GetPricesPreserves, InsertOrderPreserves,
     RefindOrderPreserves, InsertItemsPreserves, TakeAppendLockPreserves, AppendEventPreserves,
     CommitPreserves, CompareContentPreserves DEF Handle
<1>3. ASSUME NEW r \in Requests, Fail(r) \/ Abandon(r) \/ Reap(r) PROVE IndInv'
  BY <1>3, FailPreserves, AbandonPreserves, ReapPreserves
<1>4. ASSUME NEW price \in Prices,
             InsertMissingProducts(price) \/ \E sku \in Skus : Reprice(sku, price)
      PROVE  IndInv'
  BY <1>4, CatalogueChangesPreserve
<1>5. CASE UNCHANGED vars
  BY <1>5, StutterPreserves
<1>6. QED
  BY <1>1, <1>2, <1>3, <1>4, <1>5 DEF Next

LEMMA Invariance == Spec => []IndInv
BY InitEstablishes, StepPreserves, PTL DEF Spec

-----------------------------------------------------------------------------
(* Theorems.                                                               *)

\* Every variable keeps its type.
THEOREM TypeCorrect == Spec => []IntakeTypeOK
<1>1. IndInv => IntakeTypeOK
  BY DEF IndInv
<1>2. QED
  BY <1>1, Invariance, PTL

\* INV-EVT-1 for any number of submissions racing for any number of refs.
THEOREM OneEventPerOrderAlways == Spec => []OneEventPerOrder
<1>1. IndInv => OneEventPerOrder
  BY DEF IndInv
<1>2. QED
  BY <1>1, Invariance, PTL

\* Every 201, 200 and 409 is right about the stored order, and stays right.
THEOREM AnswersAlwaysMatch == Spec => []AnswersMatchTheStore
<1>1. IndInv => AnswersMatchTheStore
  BY DEF IndInv
<1>2. QED
  BY <1>1, Invariance, PTL

\* No two submissions of one order_ref are both told that they created it.
THEOREM CreatedIsToldOnce == Spec => []AtMostOneCreated
<1>1. IndInv => AtMostOneCreated
  BY DEF IndInv
<1>2. QED
  BY <1>1, Invariance, PTL

\* The assertion of accept_order never fails.
THEOREM AssertionHolds == Spec => []NoAssertionFailure
<1>1. IndInv => NoAssertionFailure
  BY DEF IndInv
<1>2. QED
  BY <1>1, Invariance, PTL

\* No deadlock among transactions: whoever waits for a ref waits for a
\* transaction that waits for nothing but the append lock, whose holder runs.
THEOREM NeverAWaitCycle == Spec => []NoWaitCycle
<1>1. IndInv => NoWaitCycle
  <2> SUFFICES ASSUME IndInv, NEW S \in SUBSET Requests, S # {},
                      \A r \in S : \E s \in S : WaitsFor(r, s)
               PROVE  FALSE
    BY DEF NoWaitCycle
  <2>1. \E r : r \in S
    OBVIOUS
  <2>2. \A s \in S : s \in Requests /\ pc[s] \in {"claim", "lock"}
    BY DEF WaitsFor
  <2>3. \A s \in S : pc[s] = "lock" => FALSE
    <3> SUFFICES ASSUME NEW s \in S, pc[s] = "lock" PROVE FALSE
      OBVIOUS
    <3>1. PICK t \in S : appendLock = t
      BY DEF WaitsFor
    <3>2. pc[t] \in {"append", "commit"}
      BY <3>1, <2>2 DEF IndInv, AppendLockIsHeld
    <3>3. QED
      BY <3>2, <2>2
  <2>4. \A s \in S : pc[s] = "claim" => FALSE
    <3> SUFFICES ASSUME NEW s \in S, pc[s] = "claim" PROVE FALSE
      OBVIOUS
    <3>1. PICK t \in S : HoldsClaim(t)
      BY DEF WaitsFor
    <3>2. QED
      BY <3>1, <2>2, <2>3 DEF HoldsClaim
  <2>5. QED
    BY <2>1, <2>2, <2>3, <2>4
<1>2. QED
  BY <1>1, Invariance, PTL

\* Every step of intake is a step of the order book or leaves it alone.
LEMMA BookStep == IndInv /\ [Next]_vars => [Book!Next]_<<orders, events>>
<1> SUFFICES ASSUME IndInv, [Next]_vars, ~UNCHANGED <<orders, events>>
             PROVE  Book!Next
  OBVIOUS
<1>1. PICK r \in Requests : pc[r] = "commit" /\ Publish(r)
  <2>1. ASSUME NEW r \in Requests, NEW b \in Submissions, Receive(r, b) PROVE FALSE
    BY <2>1 DEF Receive, database
  <2>2. ASSUME NEW r \in Requests, Handle(r), ~Commit(r) PROVE FALSE
    BY <2>2 DEF Handle, Checkout, FindOrder, GetPrices, InsertOrder, RefindOrder, InsertItems,
       TakeAppendLock, AppendEvent, CompareContent, database
  <2>3. ASSUME NEW r \in Requests, Fail(r) \/ Abandon(r) PROVE FALSE
    BY <2>3 DEF Fail, Abandon, database
  <2>4. ASSUME NEW price \in Prices,
               InsertMissingProducts(price) \/ \E sku \in Skus : Reprice(sku, price)
        PROVE  FALSE
    BY <2>4 DEF InsertMissingProducts, Reprice
  <2>5. ASSUME NEW r \in Requests, Commit(r) \/ Reap(r)
        PROVE  pc[r] = "commit" /\ Publish(r)
    BY <2>5 DEF Commit, Reap
  <2>6. ~UNCHANGED vars
    BY DEF vars
  <2>7. QED
    BY <2>1, <2>2, <2>3, <2>4, <2>5, <2>6 DEF Next
<1>2. /\ orders[Ref(r)] = NoOrder
      /\ draft[r] \in Order /\ orders'[Ref(r)] = draft[r]
  BY <1>1, PublishAddsOne
<1>3. Ref(r) \in Refs
  BY <1>1, SubmissionRef DEF IndInv, IntakeTypeOK, Ref
<1>4. eventId[r] \in Book!EventIds /\ \A e \in events : e.id < eventId[r]
  BY <1>1 DEF IndInv, IdsAreAhead, Book!EventIds
<1>5. Book!Accept(Ref(r), draft[r], eventId[r])
  BY <1>1, <1>2, <1>4 DEF Book!Accept, Book!Stored, Publish
<1>6. QED
  BY <1>2, <1>3, <1>4, <1>5 DEF Book!Next

\* INV-EVT-3: what becomes visible is behind everything that was.
THEOREM LogIsCommitOrdered == Spec => CommitOrderedLog
<1>1. IndInv /\ [Next]_vars =>
         [/\ events \subseteq events'
          /\ \A e \in events' \ events : \A f \in events : f.id < e.id]_events
  <2> SUFFICES ASSUME IndInv, [Next]_vars, events' # events
               PROVE  /\ events \subseteq events'
                      /\ \A e \in events' \ events : \A f \in events : f.id < e.id
    OBVIOUS
  <2>1. Book!Next
    BY BookStep
  <2>2. QED
    BY <2>1 DEF Book!Next, Book!Accept
<1>2. QED
  BY <1>1, Invariance, PTL DEF Spec, CommitOrderedLog, Book!CommitOrderedLog

\* The acceptance transactions, with all their interleavings and failures,
\* implement the abstract order book.
THEOREM IntakeImplementsOrderBook == Spec => ImplementsOrderBook
<1>1. Init => Book!Init
  BY DEF Init
<1>2. QED
  BY <1>1, BookStep, Invariance, PTL DEF Spec, ImplementsOrderBook, Book!Spec, Book!bookVars

-----------------------------------------------------------------------------
(* The server that clients know: where each request takes effect.          *)

\* A request that was not received has no body.
NotReceived == \A r \in Requests : pc[r] = "new" => body[r] = NoBody

LEMMA StepKeepsNotReceived ==
    ASSUME IntakeTypeOK, NotReceived, [Next]_vars
    PROVE  NotReceived'
<1>1. ASSUME NEW r \in Requests, NEW b \in Submissions, Receive(r, b)
      PROVE  NotReceived'
  BY <1>1 DEF Receive, Goto, IntakeTypeOK, NotReceived
<1>2. ASSUME NEW r \in Requests, NEW step \in Steps \ {"new"}, Goto(r, step), UNCHANGED body
      PROVE  NotReceived'
  BY <1>2 DEF Goto, IntakeTypeOK, NotReceived
<1>3. ASSUME NEW r \in Requests, Handle(r)
      PROVE  NotReceived'
  <2>1. UNCHANGED body /\ \E step \in Steps \ {"new"} : Goto(r, step)
    BY <1>3 DEF Handle, Checkout, FindOrder, GetPrices, InsertOrder, RefindOrder, InsertItems,
       TakeAppendLock, AppendEvent, Commit, CompareContent, Steps, Pooled, InTransaction
  <2>2. QED
    BY <1>2, <2>1
<1>4. ASSUME NEW r \in Requests, Fail(r) \/ Reap(r)
      PROVE  NotReceived'
  BY <1>2, <1>4 DEF Fail, Reap, Steps
<1>5. CASE UNCHANGED <<pc, body>>
  BY <1>5 DEF NotReceived
<1>6. ASSUME NEW r \in Requests, Abandon(r)
      PROVE  UNCHANGED <<pc, body>>
  BY <1>6 DEF Abandon
<1>7. ASSUME NEW price \in Prices,
             InsertMissingProducts(price) \/ \E sku \in Skus : Reprice(sku, price)
      PROVE  UNCHANGED <<pc, body>>
  BY <1>7 DEF InsertMissingProducts, Reprice
<1>8. CASE UNCHANGED vars
  BY <1>5, <1>8 DEF vars
<1>9. QED
  BY <1>1, <1>3, <1>4, <1>5, <1>6, <1>7, <1>8 DEF Next

\* What two submissions are compared by is the same set for both sides.
LEMMA ContentType ==
    /\ \A o \in Order : OrderContent(o) \in Content /\ OrderContent(o) # NoOrder
    /\ \A b \in Submissions : RequestContent(b) \in Content
<1>1. ASSUME NEW o \in Order
      PROVE  OrderContent(o) \in Content
  <2>1. o.customer \in Customers /\ o.items \subseteq [sku: Skus, qty: Nat, price: Nat]
    BY DEF Order
  <2>2. {[sku |-> i.sku, qty |-> i.qty] : i \in o.items} \subseteq [sku: Skus, qty: Nat]
    BY <2>1
  <2>3. QED
    BY <2>1, <2>2 DEF OrderContent, Content
<1>2. ASSUME NEW b \in Submissions
      PROVE  RequestContent(b) \in Content
  <2>1. b.customer \in Customers /\ b.items \in Seq([sku: Skus, qty: Nat])
    BY IntakeAssumption DEF Body
  <2>2. \A i \in DOMAIN b.items : b.items[i] \in [sku: Skus, qty: Nat]
    BY <2>1, ElementOfSeq, LenProperties
  <2>3. {[sku |-> b.items[i].sku, qty |-> b.items[i].qty] : i \in DOMAIN b.items}
           \subseteq [sku: Skus, qty: Nat]
    BY <2>2
  <2>4. QED
    BY <2>1, <2>3 DEF RequestContent, Content
<1>3. QED
  BY <1>1, <1>2, IntakeAssumption

LEMMA PostedIs ==
    ASSUME IndInv, NEW r \in Requests, pc[r] # "new"
    PROVE  /\ Posted[r] = [ref |-> Ref(r), content |-> RequestContent(body[r])]
           /\ Posted[r] # NoBody /\ Ref(r) \in Refs
<1>1. body[r] \in Submissions /\ body[r] # NoBody
  BY DEF IndInv, IntakeTypeOK
<1>2. Posted[r] = [ref |-> Ref(r), content |-> RequestContent(body[r])]
  BY <1>1 DEF Posted, AsPosted, Ref
<1>3. Ref(r) \in Refs /\ RequestContent(body[r]) \in Content
  BY <1>1, SubmissionRef, ContentType DEF Ref
<1>4. Posted[r] \in [ref: Refs, content: Content]
  BY <1>2, <1>3
<1>5. QED
  BY <1>2, <1>3, <1>4, IntakeAssumption

LEMMA SameContents == UNCHANGED orders => UNCHANGED Contents
BY DEF Contents, Book!Stored

LEMMA SamePosted == UNCHANGED body => UNCHANGED Posted
BY DEF Posted

\* A submission comes in.
LEMMA ReceiveSimulates ==
    ASSUME IndInv, NotReceived, NEW r \in Requests, NEW b \in Submissions, Receive(r, b)
    PROVE  Server!Receive(r)
<1>1. /\ body[r] = NoBody /\ body' = [body EXCEPT ![r] = b] /\ b # NoBody
      /\ answer' \in {answer, [answer EXCEPT ![r] = "validation_error"]}
      /\ UNCHANGED orders
  BY IntakeAssumption DEF Receive, NotReceived, Answer, database
<1>2. body \in [Requests -> Submissions \cup {NoBody}]
  BY DEF IndInv, IntakeTypeOK
<1>3. AsPosted[b] \in Server!Body
  BY SubmissionRef, ContentType DEF AsPosted, Server!Body
<1>4. Posted' = [Posted EXCEPT ![r] = AsPosted[b]] /\ Posted[r] = NoBody
  BY <1>1, <1>2 DEF Posted
<1>5. Posted'[r] = AsPosted[b]
  BY <1>4 DEF Posted
<1>6. QED
  BY <1>1, <1>3, <1>4, <1>5, SameContents DEF Server!Receive

\* A request that ends without effect, or without its client knowing.
LEMMA RefuseSimulates ==
    ASSUME IndInv, NEW r \in Requests, Live(r), pc[r] # "new",
           NEW code \in Server!Refusals \cup Server!Unknown, Answer(r, code),
           UNCHANGED <<orders, body>>
    PROVE  Server!Refuse(r)
<1>1. answer[r] = "none" /\ answer' = [answer EXCEPT ![r] = code] /\ answer'[r] = code
  BY DEF Live, Answer, IndInv, IntakeTypeOK
<1>2. code # "none"
  BY DEF Server!Refusals, Server!Unknown
<1>3. QED
  BY <1>1, <1>2, PostedIs, SameContents, SamePosted DEF Server!Refuse, Server!Answered

\* What a commit publishes is what the request was posted with, once.
LEMMA PublishCarriesOut ==
    ASSUME IndInv, NEW r \in Requests, pc[r] = "commit", Publish(r)
    PROVE  Server!CarryOut(Posted[r]) /\ Contents[Ref(r)] = NoOrder
<1>1. /\ orders[Ref(r)] = NoOrder /\ orders'[Ref(r)] = draft[r]
      /\ draft[r] \in Order /\ draft[r] # NoOrder
      /\ OrderContent(draft[r]) = RequestContent(body[r])
      /\ \A ref \in Refs \ {Ref(r)} : orders'[ref] = orders[ref]
  BY PublishAddsOne
<1>2. /\ Ref(r) \in Refs
      /\ Posted[r] = [ref |-> Ref(r), content |-> RequestContent(body[r])]
  BY PostedIs
<1>3. Contents[Ref(r)] = NoOrder
  BY <1>1, <1>2 DEF Contents, Book!Stored
<1>4. \A ref \in Refs : Contents'[ref] = IF ref = Ref(r) THEN RequestContent(body[r])
                                                         ELSE Contents[ref]
  BY <1>1 DEF Contents, Book!Stored
<1>5. Contents' = [Contents EXCEPT ![Ref(r)] = RequestContent(body[r])]
  BY <1>2, <1>4 DEF Contents
<1>6. Posted[r].ref = Ref(r) /\ Posted[r].content = RequestContent(body[r])
  BY <1>2
<1>7. QED
  BY <1>3, <1>5, <1>6 DEF Server!CarryOut

LEMMA CommitSimulates ==
    ASSUME IndInv, NEW r \in Requests, Commit(r)
    PROVE  Server!Reply(r)
<1>1. /\ answer[r] = "none" /\ answer' = [answer EXCEPT ![r] = "created"]
      /\ answer'[r] = "created" /\ UNCHANGED body /\ pc[r] = "commit" /\ Publish(r)
  BY DEF Commit, Live, Answer, IndInv, IntakeTypeOK
<1>2. Server!CarryOut(Posted[r]) /\ Contents[Ref(r)] = NoOrder
  BY <1>1, PublishCarriesOut
<1>3. /\ Posted[r] = [ref |-> Ref(r), content |-> RequestContent(body[r])]
      /\ Posted[r] # NoBody
  BY <1>1, PostedIs
<1>4. Server!Answer(Posted[r]) = "created"
  BY <1>2, <1>3 DEF Server!Answer
<1>5. QED
  BY <1>1, <1>2, <1>3, <1>4, SamePosted DEF Server!Reply, Server!Answered

LEMMA CompareContentSimulates ==
    ASSUME IndInv, NEW r \in Requests, CompareContent(r)
    PROVE  Server!Reply(r)
<1> DEFINE code == IF OrderContent(draft[r]) = RequestContent(body[r])
                     THEN "duplicate" ELSE "order_ref_conflict"
<1>1. /\ answer[r] = "none" /\ answer' = [answer EXCEPT ![r] = code] /\ answer'[r] = code
      /\ UNCHANGED <<orders, body>> /\ pc[r] = "compare"
  BY DEF CompareContent, Live, Answer, IndInv, IntakeTypeOK, database
<1>2. /\ Posted[r] = [ref |-> Ref(r), content |-> RequestContent(body[r])]
      /\ Posted[r] # NoBody /\ Ref(r) \in Refs
  BY <1>1, PostedIs
<1>3. orders[Ref(r)] = draft[r] /\ draft[r] # NoOrder /\ draft[r] \in Order
  BY <1>1, <1>2 DEF IndInv, IntakeTypeOK, DraftsAreRight
<1>4. Contents[Ref(r)] = OrderContent(draft[r]) /\ Contents[Ref(r)] # NoOrder
  BY <1>2, <1>3, ContentType DEF Contents, Book!Stored
<1>5. Server!Answer(Posted[r]) = code
  BY <1>2, <1>4 DEF Server!Answer
<1>6. Contents' = Contents /\ Contents = [Contents EXCEPT ![Ref(r)] = Contents[Ref(r)]]
  BY <1>1, SameContents DEF Contents
<1>7. Server!CarryOut(Posted[r])
  BY <1>2, <1>4, <1>6 DEF Server!CarryOut
<1>8. code # "none"
  OBVIOUS
<1> HIDE DEF code
<1>9. QED
  BY <1>1, <1>2, <1>5, <1>7, <1>8, SamePosted DEF Server!Reply, Server!Answered

LEMMA ReapSimulates ==
    ASSUME IndInv, NEW r \in Requests, Reap(r)
    PROVE  Server!CarryOutLate(r) \/ UNCHANGED <<orders, body, answer>>
<1>1. CASE UNCHANGED <<orders, events>>
  BY <1>1 DEF Reap
<1>2. CASE pc[r] = "commit" /\ Publish(r)
  <2>1. answer[r] \in Server!Unknown
    BY <1>2 DEF Reap, Live, IndInv, AnswersAreFinal, Server!Unknown
  <2>2. QED
    BY <1>2, <2>1, PublishCarriesOut, SamePosted DEF Reap, Server!CarryOutLate
<1>3. QED
  BY <1>1, <1>2 DEF Reap

LEMMA HandleSimulates ==
    ASSUME IndInv, NEW r \in Requests, Handle(r)
    PROVE  Server!Reply(r) \/ Server!Refuse(r) \/ UNCHANGED <<orders, body, answer>>
<1>1. CASE Commit(r) \/ CompareContent(r)
  BY <1>1, CommitSimulates, CompareContentSimulates
<1>2. ASSUME UNCHANGED <<orders, body>>, pc[r] # "new", Live(r),
             \/ Answer(r, "unknown_sku") \/ Answer(r, "internal_error")
             \/ UNCHANGED answer
      PROVE  Server!Refuse(r) \/ UNCHANGED <<orders, body, answer>>
  BY <1>2, RefuseSimulates DEF Server!Refusals
<1>3. CASE GetPrices(r) \/ InsertOrder(r) \/ RefindOrder(r) \/ AppendEvent(r)
  BY <1>2, <1>3 DEF GetPrices, InsertOrder, RefindOrder, AppendEvent, database
<1>4. CASE Checkout(r) \/ FindOrder(r) \/ InsertItems(r) \/ TakeAppendLock(r)
  BY <1>4 DEF Checkout, FindOrder, InsertItems, TakeAppendLock, database
<1>5. QED
  BY <1>1, <1>3, <1>4 DEF Handle

LEMMA ServerStep ==
    ASSUME IndInv, NotReceived, [Next]_vars
    PROVE  [Server!Next]_(Server!serverVars)
<1>1. CASE UNCHANGED <<orders, body, answer>>
  BY <1>1, SameContents, SamePosted DEF Server!serverVars
<1>2. ASSUME NEW r \in Requests, NEW b \in Submissions, Receive(r, b)
      PROVE  Server!Next
  BY <1>2, ReceiveSimulates DEF Server!Next
<1>3. ASSUME NEW r \in Requests, Handle(r)
      PROVE  Server!Next \/ UNCHANGED <<orders, body, answer>>
  BY <1>3, HandleSimulates DEF Server!Next
<1>4. ASSUME NEW r \in Requests, Fail(r) \/ Abandon(r)
      PROVE  Server!Next
  <2>1. /\ Live(r) /\ pc[r] # "new" /\ UNCHANGED <<orders, body>>
        /\ \E code \in {"service_unavailable", "lost"} : Answer(r, code)
    BY <1>4 DEF Fail, Abandon, database, Pooled, InTransaction
  <2>2. QED
    BY <2>1, RefuseSimulates DEF Server!Unknown, Server!Next
<1>5. ASSUME NEW r \in Requests, Reap(r)
      PROVE  Server!Next \/ UNCHANGED <<orders, body, answer>>
  BY <1>5, ReapSimulates DEF Server!Next
<1>6. ASSUME NEW price \in Prices,
             InsertMissingProducts(price) \/ \E sku \in Skus : Reprice(sku, price)
      PROVE  UNCHANGED <<orders, body, answer>>
  BY <1>6 DEF InsertMissingProducts, Reprice
<1>7. CASE UNCHANGED vars
  BY <1>1, <1>7 DEF vars
<1>8. QED
  BY <1>1, <1>2, <1>3, <1>4, <1>5, <1>6, <1>7 DEF Next

\* What a client may rely on, for any number of requests that overlap, fail
\* and die: each takes effect in one step, at its answer, or once at most
\* after an answer that says nothing (create_order, accept_order).
THEOREM IntakeImplementsOrderServer == Spec => ImplementsOrderServer
<1>1. Init => Server!Init /\ NotReceived
  BY DEF Init, Book!Init, NotReceived, Server!Init, Contents, Posted, Book!Stored
<1>2. IndInv /\ NotReceived /\ [Next]_vars => NotReceived'
  BY StepKeepsNotReceived DEF IndInv
<1>3. IndInv /\ NotReceived /\ [Next]_vars => [Server!Next]_(Server!serverVars)
  BY ServerStep
<1>4. QED
  BY <1>1, <1>2, <1>3, Invariance, PTL DEF Spec, ImplementsOrderServer, Server!Spec

=============================================================================
