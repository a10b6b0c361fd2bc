---------------------------- MODULE BurstProofs ----------------------------
(***************************************************************************)
(* Proofs about Burst for every set of submissions, any number of attempts *)
(* and any number of runs of the command.                                  *)
(***************************************************************************)
EXTENDS Burst, FiniteSetTheorems, TLAPS

\* Submissions to ref that are recorded with the outcome code.
Outcomes(ref, code) == {s \in Submissions : pc[s] = "done" /\ Ref(s) = ref /\ response[s] = code}

\* Who updates a tally holds the lock and has seen the tally as it is.
LockIsHeld ==
    \A s \in Submissions :
       /\ pc[s] = "update" <=> lock = s
       /\ pc[s] = "update" => seen[s] = tallies[Ref(s)]

\* The tallies are the counts of what was recorded.
CountsAreExact ==
    \A ref \in Refs :
       /\ \A code \in ExpectedStatuses :
             tallies[ref].statuses[code] = Cardinality(Outcomes(ref, code))
       /\ tallies[ref].failed = Cardinality(Outcomes(ref, NoResponse))

\* The conflicting submission is made when all others have their outcome.
PhaseTwoIsLast == pc[Conflict] # "start" => \A s \in PhaseOne : pc[s] = "done"

\* An answer stays true: nothing changes or removes an order.
AnswersAreTrue ==
    \A s \in Submissions :
       /\ response[s] \in {200, 201} => orders[Ref(s)] = Content(s)
       /\ response[s] = 409 => orders[Ref(s)] \notin {NoOrder, Content(s)}

OneCreated ==
    \A s, t \in Submissions :
       response[s] = 201 /\ response[t] = 201 /\ Ref(s) = Ref(t) => s = t

\* The first run, as long as it was not killed: before phase two the server
\* has phase-one content only, and what it answered stays so.
FirstRun == exits = <<>> /\ exit # "killed"
FirstRunIsTrue ==
    FirstRun =>
    /\ pc[Conflict] = "start" =>
          /\ Conflict \notin late
          /\ \A ref \in Refs : orders[ref] # NoOrder =>
                \E s \in PhaseOne : Ref(s) = ref /\ orders[ref] = Content(s)
    /\ \A s \in PhaseOne : response[s] # NoResponse => orders[Ref(s)] = Content(s)
    /\ \A s \in PhaseOne : pc[s] = "done" /\ response[s] # NoResponse =>
          tallies[Ref(s)].total = Content(s)

Succeeded == \E n \in DOMAIN exits : exits[n] = "success"
FirstExit == IF exits = <<>> THEN exit ELSE exits[1]

\* What is left by a run with exit status 0, whatever runs come after it.
SuccessIsKept ==
    /\ exit = "success" \/ Succeeded => \A s \in Submissions : orders[Ref(s)] # NoOrder
    /\ Succeeded => \A s \in Submissions : response[s] # 201
    /\ FirstExit = "success" => \A s \in PhaseOne : orders[Ref(s)] = Content(s)

ExitIsExact ==
    Finished => /\ pc[Conflict] = "done"
                /\ exit = "failure" <=> \E ref \in Refs : tallies[ref].failed > 0

IndInv ==
    /\ BurstTypeOK
    /\ LockIsHeld
    /\ CountsAreExact
    /\ PhaseTwoIsLast
    /\ AnswersAreTrue
    /\ OneCreated
    /\ FirstRunIsTrue
    /\ SuccessIsKept
    /\ ExitIsExact

-----------------------------------------------------------------------------
(* The plan of the burst.                                                  *)

LEMMA Bodies ==
    /\ \A s \in Submissions : Ref(s) \in Refs /\ Content(s) \in Contents /\ Content(s) # NoOrder
    /\ \A s \in PhaseOne : s \in Submissions /\ s # Conflict
    /\ Conflict \in Submissions
  BY BurstAssumption DEF Submissions, Ref, Content

\* The conflicting submission disagrees with every other of its order_ref.
LEMMA ConflictDisagrees ==
    /\ \E s \in PhaseOne : Ref(s) = Ref(Conflict)
    /\ \A s \in PhaseOne : Ref(s) = Ref(Conflict) => Content(s) # Content(Conflict)
  BY BurstAssumption

LEMMA OutcomesAreFinite ==
    ASSUME NEW ref, NEW code
    PROVE  /\ IsFiniteSet(Outcomes(ref, code))
           /\ Cardinality(Outcomes(ref, code)) \in Nat
           /\ Cardinality(Outcomes(ref, code)) = 0 <=> Outcomes(ref, code) = {}
<1>1. IsFiniteSet(Submissions)
  BY BurstAssumption, FS_AddElement DEF Submissions
<1>2. IsFiniteSet(Outcomes(ref, code))
  BY <1>1, FS_Subset DEF Outcomes
<1>3. QED
  BY <1>2, FS_CardinalityType, FS_EmptySet

-----------------------------------------------------------------------------
(* A new process.                                                          *)

LEMMA NewTally == NoTally \in Tally
  BY BurstAssumption DEF NoTally, Tally

\* What holds of a process that has just started, whatever the server has.
Fresh ==
    /\ LockIsHeld /\ CountsAreExact /\ PhaseTwoIsLast /\ AnswersAreTrue /\ OneCreated
    /\ \A s \in Submissions : pc[s] = "start" /\ response[s] = NoResponse
    /\ pc \in [Submissions -> {"start", "barrier", "post", "record", "update", "done"}]
    /\ barrier \in {"filling", "released", "broken"}
    /\ attempt \in [Submissions -> 1..MaxAttempts]
    /\ response \in [Submissions -> ExpectedStatuses \cup {NoResponse}]
    /\ lock \in Submissions \cup {Nobody}
    /\ seen \in [Submissions -> Tally]
    /\ tallies \in [Refs -> Tally]

LEMMA FreshMemory == Memory(pc, barrier, attempt, response, lock, seen, tallies) => Fresh
<1> SUFFICES ASSUME Memory(pc, barrier, attempt, response, lock, seen, tallies)
             PROVE  Fresh
  OBVIOUS
<1>1. /\ pc = [s \in Submissions |-> "start"] /\ barrier = "filling"
      /\ attempt = [s \in Submissions |-> 1] /\ response = [s \in Submissions |-> NoResponse]
      /\ lock = Nobody /\ seen = [s \in Submissions |-> NoTally]
      /\ tallies = [ref \in Refs |-> NoTally]
  BY DEF Memory
<1>2. \A s \in Submissions : pc[s] = "start" /\ response[s] = NoResponse /\ lock # s
  BY <1>1, BurstAssumption
<1>3. LockIsHeld /\ PhaseTwoIsLast
  BY <1>2, Bodies DEF LockIsHeld, PhaseTwoIsLast
<1>4. AnswersAreTrue /\ OneCreated
  BY <1>2 DEF AnswersAreTrue, OneCreated, NoResponse
<1>5. CountsAreExact
  <2>1. \A ref, code : Cardinality(Outcomes(ref, code)) = 0
    BY <1>2, FS_EmptySet DEF Outcomes
  <2>2. \A ref \in Refs : /\ \A code \in ExpectedStatuses : tallies[ref].statuses[code] = 0
                          /\ tallies[ref].failed = 0
    BY <1>1 DEF NoTally
  <2>3. QED
    BY <2>1, <2>2 DEF CountsAreExact
<1>6. QED
  BY <1>1, <1>2, <1>3, <1>4, <1>5, NewTally, BurstAssumption DEF Fresh

LEMMA FreshMemoryNext ==
    ASSUME Memory(pc', barrier', attempt', response', lock', seen', tallies')
    PROVE  Fresh'
<1>1. (Memory(pc, barrier, attempt, response, lock, seen, tallies) => Fresh)'
  BY FreshMemory, PTL
<1>2. QED
  BY <1>1

LEMMA InitEstablishes ==
    ASSUME Init
    PROVE  IndInv
<1>1. BurstTypeOK
  BY FreshMemory DEF Init, Fresh, BurstTypeOK
<1>2. FirstRunIsTrue
  BY FreshMemory, Bodies DEF Init, Fresh, FirstRunIsTrue
<1>3. SuccessIsKept /\ ExitIsExact
  BY DEF Init, SuccessIsKept, Succeeded, FirstExit, ExitIsExact, Finished
<1>4. QED
  BY <1>1, <1>2, <1>3, FreshMemory DEF Init, Fresh, IndInv

\* The orders outlive the process.
LEMMA DiePreserves ==
    ASSUME IndInv, Running, Die
    PROVE  IndInv'
<1>1. Fresh'
  BY FreshMemoryNext DEF Die
<1>2. exit = "running" /\ exit' = "killed" /\ UNCHANGED <<orders, exits>>
  BY DEF Die, Running
<1>3. late' \subseteq Submissions
  BY DEF Die, IndInv, BurstTypeOK
<1>4. BurstTypeOK'
  BY <1>1, <1>2, <1>3 DEF Fresh, IndInv, BurstTypeOK
<1>5. FirstRunIsTrue' /\ ExitIsExact'
  BY <1>2 DEF FirstRunIsTrue, FirstRun, ExitIsExact, Finished
<1>6. SuccessIsKept'
  BY <1>1, <1>2 DEF Fresh, NoResponse, IndInv, SuccessIsKept, Succeeded, FirstExit
<1>7. QED
  BY <1>1, <1>4, <1>5, <1>6 DEF Fresh, IndInv

LEMMA RerunPreserves ==
    ASSUME IndInv, Rerun
    PROVE  IndInv'
<1>1. Fresh'
  BY FreshMemoryNext DEF Rerun
<1>2. /\ exit \in {"success", "failure", "killed"} /\ exit' = "running"
      /\ exits' = Append(exits, exit) /\ exits \in Seq({"success", "failure", "killed"})
      /\ UNCHANGED <<orders, late>>
  BY DEF Rerun, Running, IndInv, BurstTypeOK
<1>3. /\ exits' \in Seq({"success", "failure", "killed"}) /\ exits' # <<>>
      /\ \A n \in DOMAIN exits' : (n \in DOMAIN exits /\ exits'[n] = exits[n]) \/ exits'[n] = exit
      /\ exits'[1] = IF exits = <<>> THEN exit ELSE exits[1]
  BY <1>2
<1>4. BurstTypeOK'
  BY <1>1, <1>2, <1>3 DEF Fresh, IndInv, BurstTypeOK
<1>5. FirstRunIsTrue' /\ ExitIsExact'
  BY <1>2, <1>3 DEF FirstRunIsTrue, FirstRun, ExitIsExact, Finished
<1>6. SuccessIsKept'
  <2>1. Succeeded' => exit = "success" \/ Succeeded
    BY <1>3 DEF Succeeded
  <2>2. FirstExit' = FirstExit
    BY <1>3 DEF FirstExit
  <2>3. QED
    BY <1>1, <1>2, <2>1, <2>2 DEF Fresh, NoResponse, IndInv, SuccessIsKept
<1>7. QED
  BY <1>1, <1>4, <1>5, <1>6 DEF Fresh, IndInv

-----------------------------------------------------------------------------
(* The server.                                                             *)

\* An order that is carried out is new or was there before.
LEMMA OrdersStay ==
    ASSUME BurstTypeOK, NEW s \in Submissions, Server!CarryOut(BodyOf[s])
    PROVE  /\ orders' \in [Refs -> Contents \cup {NoOrder}]
           /\ \A ref \in Refs : orders[ref] # NoOrder => orders'[ref] = orders[ref]
           /\ \A ref \in Refs \ {Ref(s)} : orders'[ref] = orders[ref]
           /\ orders'[Ref(s)] = IF orders[Ref(s)] = NoOrder THEN Content(s) ELSE orders[Ref(s)]
  BY Bodies DEF BurstTypeOK, Server!CarryOut, Ref, Content

\* What was answered, counted and kept is still true of a server that has more.
LEMMA TruthsStay ==
    ASSUME IndInv, \A ref \in Refs : orders[ref] # NoOrder => orders'[ref] = orders[ref],
           UNCHANGED <<threads, counts, exit, exits>>
    PROVE  AnswersAreTrue' /\ SuccessIsKept'
<1>1. \A s \in Submissions : Ref(s) \in Refs /\ Content(s) # NoOrder
  BY Bodies
<1>2. AnswersAreTrue'
  BY <1>1 DEF IndInv, AnswersAreTrue, threads
<1>3. SuccessIsKept'
  BY <1>1, Bodies DEF IndInv, SuccessIsKept, Succeeded, FirstExit, threads
<1>4. QED
  BY <1>2, <1>3

LEMMA CarryOutLatePreserves ==
    ASSUME IndInv, NEW s \in Submissions, CarryOutLate(s)
    PROVE  IndInv'
<1>1. /\ s \in late /\ late' = late \ {s}
      /\ UNCHANGED <<threads, counts, exit, exits>>
      /\ orders' \in [Refs -> Contents \cup {NoOrder}]
      /\ \A ref \in Refs : orders[ref] # NoOrder => orders'[ref] = orders[ref]
      /\ \A ref \in Refs \ {Ref(s)} : orders'[ref] = orders[ref]
      /\ orders'[Ref(s)] = IF orders[Ref(s)] = NoOrder THEN Content(s) ELSE orders[Ref(s)]
  BY OrdersStay DEF CarryOutLate, IndInv
<1>2. UNCHANGED <<pc, barrier, attempt, response, lock, seen, tallies>>
  BY <1>1 DEF threads, counts
<1>3. AnswersAreTrue' /\ SuccessIsKept'
  BY <1>1, TruthsStay
<1>4. BurstTypeOK'
  BY <1>1, <1>2 DEF IndInv, BurstTypeOK
<1>5. FirstRunIsTrue'
  <2> SUFFICES ASSUME FirstRun
               PROVE  FirstRunIsTrue'
    BY <1>1 DEF FirstRunIsTrue, FirstRun
  <2>1. ASSUME pc[Conflict] = "start"
        PROVE  /\ Conflict \notin late'
               /\ \A ref \in Refs : orders'[ref] # NoOrder =>
                     \E t \in PhaseOne : Ref(t) = ref /\ orders'[ref] = Content(t)
    <3>1. s \in PhaseOne
      BY <1>1, <2>1 DEF IndInv, FirstRunIsTrue, Submissions
    <3>2. QED
      BY <1>1, <2>1, <3>1 DEF IndInv, FirstRunIsTrue
  <2>2. \A t \in PhaseOne : Ref(t) \in Refs /\ Content(t) # NoOrder
    BY Bodies
  <2>3. QED
    BY <1>1, <1>2, <2>1, <2>2 DEF IndInv, FirstRunIsTrue
<1>6. CountsAreExact'
  BY <1>2 DEF IndInv, CountsAreExact, Outcomes
<1>7. LockIsHeld' /\ PhaseTwoIsLast' /\ OneCreated' /\ ExitIsExact'
  BY <1>1, <1>2 DEF IndInv, LockIsHeld, PhaseTwoIsLast, OneCreated, ExitIsExact, Finished
<1>8. QED
  BY <1>3, <1>4, <1>5, <1>6, <1>7 DEF IndInv

-----------------------------------------------------------------------------
(* Steps of threads that neither bring an answer nor write a tally.        *)

LEMMA QuietStepPreserves ==
    ASSUME IndInv, Running, UNCHANGED <<orders, tallies, exit, exits>>, BurstTypeOK',
           NEW s \in Submissions, late' \subseteq late \cup {s}, pc[s] = "post" \/ late' \subseteq late,
           \A t \in Submissions : /\ response'[t] \in {response[t], NoResponse}
                                  /\ pc'[t] = "done" <=> pc[t] = "done"
                                  /\ pc[t] = "done" => response'[t] = response[t]
                                  /\ pc'[t] = "start" => pc[t] = "start",
           PhaseTwoIsLast', LockIsHeld'
    PROVE  IndInv'
<1>1. CountsAreExact'
  <2>1. \A ref, code : Outcomes(ref, code)' = Outcomes(ref, code)
    BY DEF Outcomes
  <2>2. QED
    BY <2>1 DEF IndInv, CountsAreExact
<1>2. AnswersAreTrue' /\ OneCreated'
  BY DEF NoResponse, IndInv, AnswersAreTrue, OneCreated
<1>3. FirstRunIsTrue'
  <2>1. pc'[Conflict] = "start" => (pc[Conflict] = "start" /\ s # Conflict) \/ late' \subseteq late
    BY Bodies
  <2>2. pc'[Conflict] = "start" => pc[Conflict] = "start"
    BY Bodies
  <2>3. \A t \in PhaseOne : /\ response'[t] # NoResponse => response[t] # NoResponse
                            /\ pc'[t] = "done" /\ response'[t] # NoResponse =>
                                  pc[t] = "done" /\ response[t] # NoResponse
    BY Bodies
  <2>4. QED
    BY <2>1, <2>2, <2>3 DEF IndInv, FirstRunIsTrue, FirstRun
<1>4. SuccessIsKept' /\ ExitIsExact'
  BY DEF Running, NoResponse, IndInv, SuccessIsKept, Succeeded, FirstExit, ExitIsExact, Finished
<1>5. QED
  BY <1>1, <1>2, <1>3, <1>4 DEF IndInv

\* The same of a step of one thread that is not about the lock.
LEMMA ThreadStepPreserves ==
    ASSUME IndInv, Running, NEW s \in Submissions, pc[s] \in {"start", "post"},
           NEW step \in {"barrier", "post", "record"}, pc' = [pc EXCEPT ![s] = step],
           pc[s] = "start" => s # Conflict,
           late' \in {late, late \cup {s}}, pc[s] = "post" \/ late' = late,
           attempt' \in [Submissions -> 1..MaxAttempts],
           response' \in {response, [response EXCEPT ![s] = NoResponse]},
           UNCHANGED <<orders, barrier, counts, exit, exits>>
    PROVE  IndInv'
<1>1. UNCHANGED <<lock, seen, tallies>>
  BY DEF counts
<1>2. \A t \in Submissions : /\ pc'[t] = IF t = s THEN step ELSE pc[t]
                             /\ response'[t] \in {response[t], NoResponse}
                             /\ t # s => response'[t] = response[t]
  BY DEF IndInv, BurstTypeOK
<1>3. BurstTypeOK'
  BY <1>1, Bodies DEF IndInv, BurstTypeOK
<1>4. LockIsHeld' /\ PhaseTwoIsLast'
  BY <1>1, <1>2, Bodies DEF IndInv, LockIsHeld, PhaseTwoIsLast
<1>5. QED
  BY <1>1, <1>2, <1>3, <1>4, QuietStepPreserves

LEMMA ArrivePreserves ==
    ASSUME IndInv, Running, NEW s \in Submissions, Arrive(s)
    PROVE  IndInv'
<1>1. /\ s \in PhaseOne /\ s # Conflict /\ pc[s] = "start"
      /\ UNCHANGED <<orders, late, counts, exit, exits>>
  BY Bodies DEF Arrive
<1>2. CASE barrier = "broken"
  <2>1. attempt' \in [Submissions -> 1..MaxAttempts] /\ UNCHANGED barrier
    BY <1>2, BurstAssumption DEF Arrive, Return, IndInv, BurstTypeOK
  <2>2. QED
    BY <1>1, <1>2, <2>1, ThreadStepPreserves DEF Arrive, Return, Goto
<1>3. CASE barrier # "broken" /\ ~\A t \in PhaseOne \ {s} : pc[t] = "barrier"
  <2>1. /\ attempt' \in [Submissions -> 1..MaxAttempts] /\ UNCHANGED <<barrier, response>>
        /\ pc' = [pc EXCEPT ![s] = "barrier"]
    BY <1>3 DEF Arrive, Goto, IndInv, BurstTypeOK
  <2>2. QED
    BY <1>1, <2>1, ThreadStepPreserves
<1>4. CASE barrier # "broken" /\ \A t \in PhaseOne \ {s} : pc[t] = "barrier"
  <2>1. /\ pc' = [t \in Submissions |-> IF t \in PhaseOne THEN "post" ELSE pc[t]]
        /\ barrier' = "released" /\ UNCHANGED <<attempt, response, lock, seen, tallies>>
    BY <1>1, <1>4 DEF Arrive, counts
  <2>2. BurstTypeOK'
    BY <1>1, <2>1 DEF IndInv, BurstTypeOK
  <2>3. \A t \in Submissions : IF t \in PhaseOne THEN pc'[t] = "post" /\ pc[t] \in {"start", "barrier"}
                                                 ELSE pc'[t] = pc[t]
    BY <1>1, <1>4, <2>1
  <2>4. LockIsHeld' /\ PhaseTwoIsLast'
    BY <1>1, <2>1, <2>3, Bodies DEF IndInv, LockIsHeld, PhaseTwoIsLast
  <2>5. QED
    BY <1>1, <2>1, <2>2, <2>3, <2>4, QuietStepPreserves
<1>5. QED
  BY <1>2, <1>3, <1>4

LEMMA BreakBarrierPreserves ==
    ASSUME IndInv, Running, NEW s \in Submissions, BreakBarrier(s)
    PROVE  IndInv'
<1>1. /\ pc' = [t \in Submissions |-> IF pc[t] = "barrier" THEN "record" ELSE pc[t]]
      /\ response' = [t \in Submissions |-> IF pc[t] = "barrier" THEN NoResponse ELSE response[t]]
      /\ barrier' = "broken" /\ UNCHANGED <<orders, late, attempt, lock, seen, tallies, exit, exits>>
  BY DEF BreakBarrier, counts
<1>2. BurstTypeOK'
  BY <1>1 DEF IndInv, BurstTypeOK
<1>3. LockIsHeld' /\ PhaseTwoIsLast'
  BY <1>1, Bodies DEF IndInv, LockIsHeld, PhaseTwoIsLast
<1>4. QED
  BY <1>1, <1>2, <1>3, QuietStepPreserves

LEMMA RefusedPreserves ==
    ASSUME IndInv, Running, NEW s \in Submissions, Refused(s) \/ Retry(s)
    PROVE  IndInv'
<1>1. pc[s] = "post" /\ UNCHANGED <<orders, barrier, counts, exit, exits>>
  BY DEF Refused, Retry
<1>2. ASSUME Return(s, NoResponse), late' \in {late, late \cup {s}}
      PROVE  IndInv'
  <2>1. attempt' \in [Submissions -> 1..MaxAttempts]
    BY <1>2, BurstAssumption DEF Return, IndInv, BurstTypeOK
  <2>2. QED
    BY <1>1, <1>2, <2>1, ThreadStepPreserves DEF Return, Goto
<1>3. CASE Refused(s)
  <2>1. \A code \in {"unknown_sku", "validation_error", "internal_error"} : Recorded(code) = NoResponse
    BY DEF Recorded, Status, ExpectedStatuses
  <2>2. QED
    BY <1>2, <1>3, <2>1 DEF Refused, MayBeCarriedOut
<1>4. CASE Retry(s) /\ attempt[s] < MaxAttempts
  <2>1. /\ attempt' = [attempt EXCEPT ![s] = attempt[s] + 1]
        /\ late' \in {late, late \cup {s}} /\ UNCHANGED <<pc, response>>
    BY <1>4 DEF Retry, MayBeCarriedOut
  <2>2. attempt' \in [Submissions -> 1..MaxAttempts] /\ pc' = [pc EXCEPT ![s] = "post"]
    BY <1>1, <1>4, <2>1, BurstAssumption DEF IndInv, BurstTypeOK
  <2>3. QED
    BY <1>1, <2>1, <2>2, ThreadStepPreserves
<1>5. CASE Retry(s) /\ ~(attempt[s] < MaxAttempts)
  BY <1>2, <1>5 DEF Retry, MayBeCarriedOut
<1>6. QED
  BY <1>3, <1>4, <1>5

LEMMA RecordPreserves ==
    ASSUME IndInv, Running, NEW s \in Submissions, Record(s)
    PROVE  IndInv'
<1>1. /\ pc[s] = "record" /\ pc' = [pc EXCEPT ![s] = "update"] /\ lock = Nobody /\ lock' = s
      /\ seen' = [seen EXCEPT ![s] = tallies[Ref(s)]]
      /\ UNCHANGED <<orders, late, barrier, attempt, response, tallies, exit, exits>>
  BY DEF Record, Goto
<1>2. BurstTypeOK'
  BY <1>1, Bodies DEF IndInv, BurstTypeOK
<1>3. \A t \in Submissions : /\ pc'[t] = IF t = s THEN "update" ELSE pc[t]
                             /\ seen'[t] = IF t = s THEN tallies[Ref(s)] ELSE seen[t]
  BY <1>1 DEF IndInv, BurstTypeOK
<1>4. LockIsHeld' /\ PhaseTwoIsLast'
  BY <1>1, <1>3, Bodies, BurstAssumption DEF IndInv, LockIsHeld, PhaseTwoIsLast
<1>5. QED
  BY <1>1, <1>2, <1>3, <1>4, QuietStepPreserves

LEMMA StartPhaseTwoPreserves ==
    ASSUME IndInv, Running, StartPhaseTwo
    PROVE  IndInv'
<1>1. /\ pc[Conflict] = "start" /\ pc' = [pc EXCEPT ![Conflict] = "post"]
      /\ \A s \in PhaseOne : pc[s] = "done"
      /\ UNCHANGED <<orders, late, barrier, attempt, response, lock, seen, tallies, exit, exits>>
  BY DEF StartPhaseTwo, Goto, counts
<1>2. BurstTypeOK'
  BY <1>1, Bodies DEF IndInv, BurstTypeOK
<1>3. \A t \in Submissions : pc'[t] = IF t = Conflict THEN "post" ELSE pc[t]
  BY <1>1 DEF IndInv, BurstTypeOK
<1>4. LockIsHeld' /\ PhaseTwoIsLast'
  BY <1>1, <1>3, Bodies DEF IndInv, LockIsHeld, PhaseTwoIsLast
<1>5. QED
  BY <1>1, <1>2, <1>3, <1>4, Bodies, QuietStepPreserves

-----------------------------------------------------------------------------
(* Answers.                                                                *)

\* What an answer says of the order that is stored once it is given.
LEMMA AnswerIsTrue ==
    ASSUME IndInv, NEW s \in Submissions, Server!CarryOut(BodyOf[s])
    PROVE  LET status == Recorded(Server!Answer(BodyOf[s]))
           IN  /\ status \in ExpectedStatuses /\ status # NoResponse
               /\ status = 201 <=> orders[Ref(s)] = NoOrder
               /\ status \in {200, 201} <=> orders'[Ref(s)] = Content(s)
               /\ orders'[Ref(s)] # NoOrder
<1>1. orders'[Ref(s)] = IF orders[Ref(s)] = NoOrder THEN Content(s) ELSE orders[Ref(s)]
  BY OrdersStay DEF IndInv
<1>2. Recorded(Server!Answer(BodyOf[s])) =
         IF orders[Ref(s)] = NoOrder THEN 201
         ELSE IF orders[Ref(s)] = Content(s) THEN 200 ELSE 409
  BY DEF Recorded, Server!Answer, Status, ExpectedStatuses, Ref, Content
<1>3. QED
  BY <1>1, <1>2, Bodies DEF ExpectedStatuses, NoResponse

LEMMA AnsweredPreserves ==
    ASSUME IndInv, Running, NEW s \in Submissions, Answered(s)
    PROVE  IndInv'
<1> DEFINE answer == Recorded(Server!Answer(BodyOf[s]))
<1>1. /\ pc[s] = "post" /\ pc' = [pc EXCEPT ![s] = "record"]
      /\ response' = [response EXCEPT ![s] = answer] /\ attempt' = [attempt EXCEPT ![s] = 1]
      /\ UNCHANGED <<late, barrier, lock, seen, tallies, exit, exits>>
  BY DEF Answered, Return, Goto, counts
<1>2. /\ orders' \in [Refs -> Contents \cup {NoOrder}]
      /\ \A ref \in Refs : orders[ref] # NoOrder => orders'[ref] = orders[ref]
      /\ \A ref \in Refs \ {Ref(s)} : orders'[ref] = orders[ref]
      /\ orders'[Ref(s)] = IF orders[Ref(s)] = NoOrder THEN Content(s) ELSE orders[Ref(s)]
  BY OrdersStay DEF Answered, IndInv
<1>3. /\ answer \in ExpectedStatuses /\ answer # NoResponse
      /\ answer = 201 <=> orders[Ref(s)] = NoOrder
      /\ answer \in {200, 201} <=> orders'[Ref(s)] = Content(s)
      /\ orders'[Ref(s)] # NoOrder
  BY AnswerIsTrue DEF Answered
<1> HIDE DEF answer
<1>4. \A t \in Submissions : /\ pc'[t] = IF t = s THEN "record" ELSE pc[t]
                             /\ response'[t] = IF t = s THEN answer ELSE response[t]
                             /\ Ref(t) \in Refs /\ Content(t) # NoOrder
  BY <1>1, Bodies DEF IndInv, BurstTypeOK
<1>5. BurstTypeOK'
  BY <1>1, <1>2, <1>3, BurstAssumption DEF IndInv, BurstTypeOK
<1>6. LockIsHeld' /\ PhaseTwoIsLast'
  BY <1>1, <1>4, Bodies DEF IndInv, LockIsHeld, PhaseTwoIsLast
<1>7. CountsAreExact'
  <2>1. \A ref, code : Outcomes(ref, code)' = Outcomes(ref, code)
    BY <1>1, <1>4 DEF Outcomes
  <2>2. QED
    BY <1>1, <2>1 DEF IndInv, CountsAreExact
<1>8. AnswersAreTrue'
  <2> SUFFICES ASSUME NEW t \in Submissions
               PROVE  /\ response'[t] \in {200, 201} => orders'[Ref(t)] = Content(t)
                      /\ response'[t] = 409 => orders'[Ref(t)] \notin {NoOrder, Content(t)}
    BY DEF AnswersAreTrue
  <2>1. CASE t = s
    BY <2>1, <1>3, <1>4
  <2>2. CASE t # s
    BY <2>2, <1>2, <1>4 DEF IndInv, AnswersAreTrue
  <2>3. QED
    BY <2>1, <2>2
<1>9. OneCreated'
  <2>1. answer = 201 => \A t \in Submissions : Ref(t) = Ref(s) => response[t] # 201
    BY <1>3, <1>4 DEF IndInv, AnswersAreTrue
  <2>2. QED
    BY <1>4, <2>1 DEF IndInv, OneCreated
<1>10. FirstRunIsTrue'
  <2> SUFFICES ASSUME FirstRun
               PROVE  FirstRunIsTrue'
    BY <1>1 DEF FirstRunIsTrue, FirstRun
  <2>1. ASSUME pc'[Conflict] = "start"
        PROVE  /\ pc[Conflict] = "start" /\ s \in PhaseOne
               /\ \A ref \in Refs : orders'[ref] # NoOrder =>
                     \E t \in PhaseOne : Ref(t) = ref /\ orders'[ref] = Content(t)
    <3>1. pc[Conflict] = "start" /\ s \in PhaseOne
      BY <2>1, <1>4, Bodies DEF Submissions
    <3>2. QED
      BY <1>2, <3>1 DEF IndInv, FirstRunIsTrue
  <2>2. \A t \in PhaseOne : response'[t] # NoResponse => orders'[Ref(t)] = Content(t)
    <3>1. CASE pc'[Conflict] = "start"
      <4> SUFFICES ASSUME NEW t \in PhaseOne, response'[t] # NoResponse
                   PROVE  orders'[Ref(t)] = Content(t)
        OBVIOUS
      <4>1. orders'[Ref(t)] # NoOrder
        BY <1>2, <1>3, <1>4, Bodies DEF IndInv, FirstRunIsTrue
      <4>2. PICK u \in PhaseOne : Ref(u) = Ref(t) /\ orders'[Ref(t)] = Content(u)
        BY <2>1, <3>1, <4>1, Bodies
      <4>3. QED
        BY <4>2, BurstAssumption
    <3>2. CASE pc'[Conflict] # "start"
      <4>1. pc[Conflict] # "start" /\ s = Conflict
        BY <1>1, <1>4, <3>2, Bodies DEF IndInv, PhaseTwoIsLast, Submissions
      <4>2. QED
        BY <4>1, <1>2, <1>4, Bodies DEF IndInv, FirstRunIsTrue
    <3>3. QED
      BY <3>1, <3>2
  <2>3. \A t \in PhaseOne : pc'[t] = "done" /\ response'[t] # NoResponse =>
           tallies[Ref(t)].total = Content(t)
    BY <1>1, <1>4, Bodies DEF IndInv, FirstRunIsTrue
  <2>4. QED
    BY <1>1, <2>1, <2>2, <2>3 DEF IndInv, FirstRunIsTrue
<1>11. SuccessIsKept'
  <2>1. \A t \in Submissions : orders[Ref(t)] # NoOrder => orders'[Ref(t)] = orders[Ref(t)]
    BY <1>2, <1>4
  <2>2. Succeeded => answer # 201
    BY <1>3 DEF IndInv, SuccessIsKept
  <2>3. QED
    BY <1>1, <1>4, <2>1, <2>2, Bodies DEF IndInv, SuccessIsKept, Succeeded, FirstExit
<1>12. ExitIsExact'
  BY <1>1 DEF Running, ExitIsExact, Finished
<1>13. QED
  BY <1>5, <1>6, <1>7, <1>8, <1>9, <1>10, <1>11, <1>12 DEF IndInv

-----------------------------------------------------------------------------
(* Tallies.                                                                *)

\* Who holds the lock adds its outcome to a tally that nobody has changed.
LEMMA UpdatePreserves ==
    ASSUME IndInv, Running, NEW s \in Submissions, Update(s)
    PROVE  IndInv'
<1>1. /\ pc[s] = "update" /\ pc' = [pc EXCEPT ![s] = "done"] /\ lock = s /\ lock' = Nobody
      /\ tallies' = [tallies EXCEPT ![Ref(s)] = Counted(s, tallies[Ref(s)])]
      /\ seen' = [seen EXCEPT ![s] = NoTally]
      /\ UNCHANGED <<orders, late, barrier, attempt, response, exit, exits>>
  BY DEF Update, Goto, IndInv, LockIsHeld
<1>2. /\ \A t \in Submissions : pc'[t] = IF t = s THEN "done" ELSE pc[t]
      /\ \A ref \in Refs : tallies'[ref] = IF ref = Ref(s) THEN Counted(s, tallies[ref]) ELSE tallies[ref]
      /\ Ref(s) \in Refs /\ Content(s) \in Contents
      /\ tallies[Ref(s)] \in Tally /\ response[s] \in ExpectedStatuses \cup {NoResponse}
  BY <1>1, Bodies DEF IndInv, BurstTypeOK
<1>3. /\ \A code \in ExpectedStatuses : Counted(s, tallies[Ref(s)]).statuses[code] =
            IF response[s] = code THEN tallies[Ref(s)].statuses[code] + 1
                                  ELSE tallies[Ref(s)].statuses[code]
      /\ Counted(s, tallies[Ref(s)]).failed =
            IF response[s] = NoResponse THEN tallies[Ref(s)].failed + 1 ELSE tallies[Ref(s)].failed
      /\ Counted(s, tallies[Ref(s)]).total =
            IF response[s] \in {200, 201} THEN Content(s) ELSE tallies[Ref(s)].total
      /\ Counted(s, tallies[Ref(s)]) \in Tally
  <2>1. CASE Failed(s)
    BY <1>2, <2>1 DEF Counted, Failed, Tally, ExpectedStatuses, NoResponse
  <2>2. CASE ~Failed(s)
    <3> DEFINE tally == tallies[Ref(s)]
               status == response[s]
               counted == [statuses |-> [tally.statuses EXCEPT ![status] = tally.statuses[status] + 1],
                           failed |-> tally.failed,
                           total |-> IF status \in {200, 201} THEN Content(s) ELSE tally.total]
    <3>1. /\ status \in ExpectedStatuses /\ status # NoResponse
          /\ tally = [statuses |-> tally.statuses, failed |-> tally.failed, total |-> tally.total]
          /\ tally.statuses \in [ExpectedStatuses -> Nat] /\ tally.failed \in Nat
          /\ tally.total \in Contents \cup {NoOrder}
      BY <1>2, <2>2 DEF Failed, Tally
    <3>2. Counted(s, tally) = counted
      BY <2>2, <3>1 DEF Counted
    <3>3. counted \in Tally
      BY <1>2, <3>1 DEF Tally
    <3>4. \A code \in ExpectedStatuses : counted.statuses[code] =
             IF status = code THEN tally.statuses[code] + 1 ELSE tally.statuses[code]
      BY <3>1
    <3>5. QED
      BY <3>1, <3>2, <3>3, <3>4
  <2>3. QED
    BY <2>1, <2>2
<1>4. BurstTypeOK'
  BY <1>1, <1>3, NewTally, Bodies DEF IndInv, BurstTypeOK
<1>5. LockIsHeld'
  BY <1>1, <1>2, BurstAssumption DEF IndInv, LockIsHeld
<1>6. PhaseTwoIsLast'
  <2>1. CASE pc[Conflict] = "start"
    <3>1. s # Conflict
      BY <1>1, <2>1
    <3>2. pc'[Conflict] = "start"
      BY <1>2, <2>1, <3>1, Bodies
    <3>3. QED
      BY <3>2 DEF PhaseTwoIsLast
  <2>2. CASE pc[Conflict] # "start"
    <3>1. \A t \in PhaseOne : t \in Submissions /\ pc[t] = "done"
      BY <2>2, Bodies DEF IndInv, PhaseTwoIsLast
    <3>2. QED
      BY <1>2, <3>1 DEF PhaseTwoIsLast
  <2>3. QED
    BY <2>1, <2>2
<1>7. \A ref, code : Cardinality(Outcomes(ref, code)') =
         IF ref = Ref(s) /\ code = response[s] THEN Cardinality(Outcomes(ref, code)) + 1
                                               ELSE Cardinality(Outcomes(ref, code))
  <2> SUFFICES ASSUME NEW ref, NEW code
               PROVE  Cardinality(Outcomes(ref, code)') =
                         IF ref = Ref(s) /\ code = response[s]
                         THEN Cardinality(Outcomes(ref, code)) + 1
                         ELSE Cardinality(Outcomes(ref, code))
    OBVIOUS
  <2>1. CASE ref = Ref(s) /\ code = response[s]
    <3>1. Outcomes(ref, code)' = Outcomes(ref, code) \cup {s} /\ s \notin Outcomes(ref, code)
      BY <2>1, <1>1, <1>2 DEF Outcomes
    <3>2. QED
      BY <2>1, <3>1, OutcomesAreFinite, FS_AddElement
  <2>2. CASE ~(ref = Ref(s) /\ code = response[s])
    <3>1. Outcomes(ref, code)' = Outcomes(ref, code)
      BY <2>2, <1>1, <1>2 DEF Outcomes
    <3>2. QED
      BY <2>2, <3>1
  <2>3. QED
    BY <2>1, <2>2
<1>8. CountsAreExact'
  BY <1>2, <1>3, <1>7 DEF IndInv, CountsAreExact
<1>9. AnswersAreTrue' /\ OneCreated'
  BY <1>1 DEF IndInv, AnswersAreTrue, OneCreated
<1>10. FirstRunIsTrue'
  <2> SUFFICES ASSUME FirstRun, NEW t \in PhaseOne, pc'[t] = "done", response[t] # NoResponse
               PROVE  tallies'[Ref(t)].total = Content(t)
    BY <1>1, <1>2, Bodies DEF IndInv, FirstRunIsTrue, FirstRun
  <2>1. orders[Ref(t)] = Content(t) /\ Ref(t) \in Refs /\ t \in Submissions
    BY Bodies DEF IndInv, FirstRunIsTrue
  <2>2. CASE Ref(t) # Ref(s)
    BY <2>1, <2>2, <1>2 DEF IndInv, FirstRunIsTrue
  <2>3. CASE Ref(t) = Ref(s) /\ response[s] \in {200, 201}
    <3>1. orders[Ref(s)] = Content(s)
      BY <2>3 DEF IndInv, AnswersAreTrue
    <3>2. QED
      BY <2>1, <2>3, <3>1, <1>2, <1>3
  <2>4. CASE Ref(t) = Ref(s) /\ response[s] \notin {200, 201}
    <3>1. response[t] \in {200, 201}
      BY <2>1 DEF IndInv, BurstTypeOK, ExpectedStatuses, AnswersAreTrue
    <3>2. t # s /\ pc[t] = "done"
      BY <2>4, <3>1, <1>2, <2>1
    <3>3. tallies[Ref(t)].total = Content(t)
      BY <3>2 DEF IndInv, FirstRunIsTrue
    <3>4. QED
      BY <2>1, <2>4, <3>3, <1>2, <1>3
  <2>5. QED
    BY <2>2, <2>3, <2>4
<1>11. SuccessIsKept' /\ ExitIsExact'
  BY <1>1 DEF Running, IndInv, SuccessIsKept, Succeeded, FirstExit, ExitIsExact, Finished
<1>12. QED
  BY <1>4, <1>5, <1>6, <1>8, <1>9, <1>10, <1>11 DEF IndInv

-----------------------------------------------------------------------------
(* The exit status.                                                        *)

\* Nothing failed in a run that ends with exit status 0.
LEMMA NoneFailed ==
    ASSUME BurstTypeOK, CountsAreExact, PhaseTwoIsLast, pc[Conflict] = "done"
    PROVE  /\ \A s \in Submissions : pc[s] = "done"
           /\ (\E ref \in Refs : tallies[ref].failed > 0)
                 <=> \E s \in Submissions : response[s] = NoResponse
<1>1. \A s \in Submissions : pc[s] = "done"
  BY DEF PhaseTwoIsLast, Submissions
<1>2. \A ref \in Refs : tallies[ref].failed > 0 <=> Outcomes(ref, NoResponse) # {}
  BY OutcomesAreFinite DEF CountsAreExact
<1>3. QED
  BY <1>1, <1>2, Bodies DEF Outcomes

LEMMA FinishPreserves ==
    ASSUME IndInv, Running, Finish
    PROVE  IndInv'
<1>1. /\ pc[Conflict] = "done"
      /\ exit' = IF \E ref \in Refs : tallies[ref].failed > 0 THEN "failure" ELSE "success"
      /\ UNCHANGED <<orders, late, pc, barrier, attempt, response, lock, seen, tallies, exits>>
  BY DEF Finish, threads, counts
<1>2. BurstTypeOK'
  BY <1>1 DEF IndInv, BurstTypeOK
<1>3. CountsAreExact'
  BY <1>1 DEF IndInv, CountsAreExact, Outcomes
<1>4. LockIsHeld' /\ PhaseTwoIsLast' /\ AnswersAreTrue' /\ OneCreated'
  BY <1>1 DEF IndInv, LockIsHeld, PhaseTwoIsLast, AnswersAreTrue, OneCreated
<1>5. FirstRunIsTrue'
  BY <1>1 DEF Running, IndInv, FirstRunIsTrue, FirstRun
<1>6. exit' = "success" => \A s \in Submissions : pc[s] = "done" /\ response[s] # NoResponse
  BY <1>1, NoneFailed DEF IndInv
<1>7. SuccessIsKept'
  <2>1. exit' = "success" => \A s \in Submissions : orders[Ref(s)] # NoOrder
    <3>1. \A s \in Submissions : response[s] # NoResponse => response[s] \in {200, 201, 409}
      BY DEF IndInv, BurstTypeOK, ExpectedStatuses
    <3>2. QED
      BY <1>6, <3>1, Bodies DEF IndInv, AnswersAreTrue
  <2>2. exit' = "success" /\ exits = <<>> => \A s \in PhaseOne : orders[Ref(s)] = Content(s)
    BY <1>6, Bodies DEF Running, IndInv, FirstRunIsTrue, FirstRun
  <2>3. QED
    BY <1>1, <2>1, <2>2 DEF IndInv, SuccessIsKept, Succeeded, FirstExit
<1>8. ExitIsExact'
  BY <1>1 DEF ExitIsExact
<1>9. QED
  BY <1>2, <1>3, <1>4, <1>5, <1>7, <1>8 DEF IndInv

-----------------------------------------------------------------------------
(* The invariant.                                                          *)

LEMMA StepPreserves ==
    ASSUME IndInv, [Next]_vars
    PROVE  IndInv'
<1>1. CASE UNCHANGED vars
  <2>1. UNCHANGED <<orders, late, pc, barrier, attempt, response, lock, seen, tallies, exit, exits>>
    BY <1>1 DEF vars, threads, counts
  <2>2. BurstTypeOK' /\ LockIsHeld' /\ PhaseTwoIsLast' /\ AnswersAreTrue' /\ OneCreated'
    BY <2>1 DEF IndInv, BurstTypeOK, LockIsHeld, PhaseTwoIsLast, AnswersAreTrue, OneCreated
  <2>3. CountsAreExact'
    BY <2>1 DEF IndInv, CountsAreExact, Outcomes
  <2>4. FirstRunIsTrue' /\ SuccessIsKept' /\ ExitIsExact'
    BY <2>1 DEF IndInv, FirstRunIsTrue, FirstRun, SuccessIsKept, Succeeded, FirstExit,
                ExitIsExact, Finished
  <2>5. QED
    BY <2>2, <2>3, <2>4 DEF IndInv
<1>2. ASSUME NEW s \in Submissions, Step(s)
      PROVE  IndInv'
  <2>1. Running
    BY <1>2 DEF Step
  <2>2. CASE Arrive(s)
    BY <2>1, <2>2, ArrivePreserves
  <2>3. CASE Answered(s)
    BY <2>1, <2>3, AnsweredPreserves
  <2>4. CASE Refused(s) \/ Retry(s)
    BY <2>1, <2>4, RefusedPreserves
  <2>5. CASE Record(s)
    BY <2>1, <2>5, RecordPreserves
  <2>6. CASE Update(s)
    BY <2>1, <2>6, UpdatePreserves
  <2>7. QED
    BY <1>2, <2>2, <2>3, <2>4, <2>5, <2>6 DEF Step
<1>3. CASE MainStep
  BY <1>3, StartPhaseTwoPreserves, FinishPreserves DEF MainStep
<1>4. ASSUME NEW s \in Submissions, Running, BreakBarrier(s)
      PROVE  IndInv'
  BY <1>4, BreakBarrierPreserves
<1>5. ASSUME NEW s \in Submissions, CarryOutLate(s)
      PROVE  IndInv'
  BY <1>5, CarryOutLatePreserves
<1>6. CASE Running /\ Die
  BY <1>6, DiePreserves
<1>7. CASE Rerun
  BY <1>7, RerunPreserves
<1>8. QED
  BY <1>1, <1>2, <1>3, <1>4, <1>5, <1>6, <1>7 DEF Next, Progress

LEMMA Invariance == Spec => []IndInv
<1>1. Init => IndInv
  BY InitEstablishes
<1>2. IndInv /\ [Next]_vars => IndInv'
  BY StepPreserves
<1>3. QED
  BY <1>1, <1>2, PTL DEF Spec

-----------------------------------------------------------------------------
(* What the summary is worth.                                              *)

LEMMA CardinalityOfDisjointUnion ==
    ASSUME NEW S, NEW T, IsFiniteSet(S), IsFiniteSet(T), S \cap T = {}
    PROVE  /\ IsFiniteSet(S \cup T)
           /\ Cardinality(S \cup T) = Cardinality(S) + Cardinality(T)
<1>1. Cardinality(S \cap T) = 0
  BY FS_EmptySet
<1>2. Cardinality(S) \in Nat /\ Cardinality(T) \in Nat
  BY FS_CardinalityType
<1>3. /\ IsFiniteSet(S \cup T)
      /\ Cardinality(S \cup T) = Cardinality(S) + Cardinality(T) - Cardinality(S \cap T)
  BY FS_Union
<1>4. QED
  BY <1>1, <1>2, <1>3

\* Each submission is in one of the four counts of its order_ref.
LEMMA AllAreCounted ==
    ASSUME IndInv, \A s \in Submissions : pc[s] = "done", NEW ref \in Refs
    PROVE  Submitted(ref) = Cardinality({s \in Submissions : Ref(s) = ref})
<1> DEFINE A == Outcomes(ref, 201)
           B == Outcomes(ref, 200)
           C == Outcomes(ref, 409)
           D == Outcomes(ref, NoResponse)
<1>1. {s \in Submissions : Ref(s) = ref} = ((A \cup B) \cup C) \cup D
  BY DEF Outcomes, IndInv, BurstTypeOK, ExpectedStatuses
<1>2. A \cap B = {} /\ (A \cup B) \cap C = {} /\ ((A \cup B) \cup C) \cap D = {}
  BY DEF Outcomes, NoResponse
<1>3. IsFiniteSet(A) /\ IsFiniteSet(B) /\ IsFiniteSet(C) /\ IsFiniteSet(D)
  BY OutcomesAreFinite
<1>4. Submitted(ref) = Cardinality(A) + Cardinality(B) + Cardinality(C) + Cardinality(D)
  BY DEF IndInv, CountsAreExact, ExpectedStatuses, Submitted, Created, Duplicate, Conflicts
<1> HIDE DEF A, B, C, D
<1>5. IsFiniteSet(A \cup B) /\ Cardinality(A \cup B) = Cardinality(A) + Cardinality(B)
  BY <1>2, <1>3, CardinalityOfDisjointUnion
<1>6. /\ IsFiniteSet((A \cup B) \cup C)
      /\ Cardinality((A \cup B) \cup C) = Cardinality(A \cup B) + Cardinality(C)
  BY <1>2, <1>3, <1>5, CardinalityOfDisjointUnion
<1>7. Cardinality(((A \cup B) \cup C) \cup D) = Cardinality((A \cup B) \cup C) + Cardinality(D)
  BY <1>2, <1>3, <1>6, CardinalityOfDisjointUnion
<1>8. QED
  BY <1>1, <1>4, <1>5, <1>6, <1>7

\* Who is done without a failure, on orders with their phase-one content.
LEMMA OutcomesAreTold ==
    ASSUME IndInv, exit = "success", \A s \in PhaseOne : orders[Ref(s)] = Content(s),
           NEW s \in PhaseOne
    PROVE  /\ Created(Ref(s)) + Duplicate(Ref(s)) = Cardinality(Copies(Ref(s)))
           /\ Conflicts(Ref(s)) = IF Ref(s) = Ref(Conflict) THEN 1 ELSE 0
<1> DEFINE ref == Ref(s)
<1>1. \A t \in Submissions : pc[t] = "done" /\ response[t] \in {200, 201, 409}
  <2>1. pc[Conflict] = "done" /\ ~\E r \in Refs : tallies[r].failed > 0
    BY DEF IndInv, ExitIsExact, Finished
  <2>2. QED
    BY <2>1, NoneFailed DEF IndInv, BurstTypeOK, ExpectedStatuses
<1>2. \A t \in PhaseOne : t \in Submissions /\ response[t] \in {200, 201}
  BY <1>1, Bodies DEF IndInv, AnswersAreTrue
<1>3. response[Conflict] = 409
  <2>1. PICK t \in PhaseOne : Ref(t) = Ref(Conflict)
    BY ConflictDisagrees
  <2>2. orders[Ref(Conflict)] # Content(Conflict)
    BY <2>1, ConflictDisagrees
  <2>3. QED
    BY <1>1, <2>2, Bodies DEF IndInv, AnswersAreTrue
<1>4. ref \in Refs
  BY Bodies
<1>5. /\ Created(ref) = Cardinality(Outcomes(ref, 201))
      /\ Duplicate(ref) = Cardinality(Outcomes(ref, 200))
      /\ Conflicts(ref) = Cardinality(Outcomes(ref, 409))
  BY <1>4 DEF IndInv, CountsAreExact, ExpectedStatuses, Created, Duplicate, Conflicts
<1>6. Created(ref) + Duplicate(ref) = Cardinality(Copies(ref))
  <2>1. Copies(ref) = Outcomes(ref, 201) \cup Outcomes(ref, 200)
    BY <1>1, <1>2, <1>3 DEF Outcomes, Copies, Submissions
  <2>2. Outcomes(ref, 201) \cap Outcomes(ref, 200) = {}
    BY DEF Outcomes
  <2>3. QED
    BY <1>5, <2>1, <2>2, OutcomesAreFinite, CardinalityOfDisjointUnion
<1>7. Conflicts(ref) = IF ref = Ref(Conflict) THEN 1 ELSE 0
  <2>1. Outcomes(ref, 409) = IF ref = Ref(Conflict) THEN {Conflict} ELSE {}
    BY <1>1, <1>2, <1>3 DEF Outcomes, Submissions
  <2>2. Cardinality({Conflict}) = 1
    BY FS_Singleton
  <2>3. Cardinality({}) = 0
    BY FS_EmptySet
  <2>4. QED
    BY <1>5, <2>1, <2>2, <2>3
<1>8. QED
  BY <1>6, <1>7

LEMMA CreatedAtMostOnce ==
    ASSUME IndInv, NEW ref \in Refs
    PROVE  Created(ref) <= 1 /\ (Succeeded => Created(ref) = 0)
<1>1. Created(ref) = Cardinality(Outcomes(ref, 201))
  BY DEF IndInv, CountsAreExact, ExpectedStatuses, Created
<1>2. Outcomes(ref, 201) = {} \/ \E s : Outcomes(ref, 201) = {s}
  <2> SUFFICES ASSUME Outcomes(ref, 201) # {}
               PROVE  \E s : Outcomes(ref, 201) = {s}
    OBVIOUS
  <2>1. PICK s \in Submissions : s \in Outcomes(ref, 201)
    BY DEF Outcomes
  <2>2. \A t \in Outcomes(ref, 201) : t = s
    BY <2>1 DEF Outcomes, IndInv, OneCreated
  <2>3. Outcomes(ref, 201) = {s}
    BY <2>1, <2>2
  <2>4. QED
    BY <2>3
<1>3. Succeeded => Outcomes(ref, 201) = {}
  BY DEF Outcomes, IndInv, SuccessIsKept
<1>4. Cardinality({}) = 0
  BY FS_EmptySet
<1>5. \A s : Cardinality({s}) = 1
  BY FS_Singleton
<1>6. Created(ref) \in {0, 1}
  BY <1>1, <1>2, <1>4, <1>5
<1>7. Succeeded => Created(ref) = 0
  BY <1>1, <1>3, <1>4
<1>8. QED
  BY <1>6, <1>7

\* Every variable keeps its type: no attempt beyond MAX_ATTEMPTS, no status in
\* a tally that EXPECTED_STATUSES has not.
THEOREM BurstTypeCorrect == Spec => []BurstTypeOK
<1>1. IndInv => BurstTypeOK
  BY DEF IndInv
<1>2. QED
  BY <1>1, Invariance, PTL

\* Whatever threads record at the same time, each submission is in the summary
\* once, and the exit status is 1 exactly when one failed.
THEOREM EverySubmissionIsAlwaysCounted == Spec => []EverySubmissionIsCounted
<1>1. IndInv => EverySubmissionIsCounted
  <2> SUFFICES ASSUME IndInv, Finished
               PROVE  /\ \A ref \in Refs :
                            Submitted(ref) = Cardinality({s \in Submissions : Ref(s) = ref})
                      /\ exit = "failure" <=> \E s \in Submissions : Failed(s)
    BY DEF EverySubmissionIsCounted
  <2>1. pc[Conflict] = "done" /\ (exit = "failure" <=> \E ref \in Refs : tallies[ref].failed > 0)
    BY DEF IndInv, ExitIsExact
  <2>2. QED
    BY <2>1, NoneFailed, AllAreCounted DEF IndInv, Failed
<1>2. QED
  BY <1>1, Invariance, PTL

\* Exit status 0 of the first run: every order is stored with its phase-one
\* content, and the counts are the ones of a burst without a lost order.
THEOREM SuccessIsAlwaysTrue == Spec => []SuccessIsTrue
<1>1. IndInv => SuccessIsTrue
  <2> SUFFICES ASSUME IndInv, exit = "success", exits = <<>>, NEW s \in PhaseOne
               PROVE  /\ orders[Ref(s)] = Content(s) /\ tallies[Ref(s)].total = Content(s)
                      /\ Created(Ref(s)) <= 1
                      /\ Created(Ref(s)) + Duplicate(Ref(s)) = Cardinality(Copies(Ref(s)))
                      /\ Conflicts(Ref(s)) = IF Ref(s) = Ref(Conflict) THEN 1 ELSE 0
    BY DEF SuccessIsTrue
  <2>1. \A t \in PhaseOne : orders[Ref(t)] = Content(t)
    BY DEF IndInv, SuccessIsKept, FirstExit
  <2>2. pc[s] = "done" /\ response[s] # NoResponse
    BY NoneFailed, Bodies DEF IndInv, ExitIsExact, Finished
  <2>3. tallies[Ref(s)].total = Content(s)
    BY <2>2 DEF IndInv, FirstRunIsTrue, FirstRun
  <2>4. QED
    BY <2>1, <2>3, OutcomesAreTold, CreatedAtMostOnce, Bodies
<1>2. QED
  BY <1>1, Invariance, PTL

\* After a run with exit status 0 no run creates an order, and if that was the
\* first, every later one with exit status 0 counts duplicates and the one
\* conflict.
THEOREM RerunAlwaysCounts == Spec => []RerunCounts
<1>1. IndInv => RerunCounts
  <2> SUFFICES ASSUME IndInv, NEW n \in DOMAIN exits, exits[n] = "success"
               PROVE  /\ \A ref \in Refs : Created(ref) = 0
                      /\ n = 1 /\ exit = "success" =>
                            \A s \in PhaseOne :
                               /\ Duplicate(Ref(s)) = Cardinality(Copies(Ref(s)))
                               /\ Conflicts(Ref(s)) = IF Ref(s) = Ref(Conflict) THEN 1 ELSE 0
    BY DEF RerunCounts
  <2>1. \A ref \in Refs : Created(ref) = 0
    BY CreatedAtMostOnce DEF Succeeded
  <2>2. ASSUME n = 1, exit = "success", NEW s \in PhaseOne
        PROVE  /\ Duplicate(Ref(s)) = Cardinality(Copies(Ref(s)))
               /\ Conflicts(Ref(s)) = IF Ref(s) = Ref(Conflict) THEN 1 ELSE 0
    <3>1. FirstExit = "success"
      BY <2>2 DEF FirstExit, IndInv, BurstTypeOK
    <3>2. \A t \in PhaseOne : orders[Ref(t)] = Content(t)
      BY <3>1 DEF IndInv, SuccessIsKept
    <3>3. Ref(s) \in Refs /\ Duplicate(Ref(s)) \in Nat
      <4>1. Ref(s) \in Refs
        BY Bodies
      <4>2. Duplicate(Ref(s)) = Cardinality(Outcomes(Ref(s), 200))
        BY <4>1 DEF IndInv, CountsAreExact, ExpectedStatuses, Duplicate
      <4>3. QED
        BY <4>1, <4>2, OutcomesAreFinite
    <3>4. QED
      BY <2>1, <2>2, <3>2, <3>3, OutcomesAreTold
  <2>3. QED
    BY <2>1, <2>2
<1>2. QED
  BY <1>1, Invariance, PTL

-----------------------------------------------------------------------------
(* Without a lost answer.                                                  *)

Waiting == {"start", "barrier", "post"}

\* As long as no request was given up that the server may have, every order of
\* the first run has the submission that was told to have created it.
NothingLost ==
    /\ \A s \in Submissions : pc[s] \in Waiting => response[s] = NoResponse
    /\ FirstRun => \A ref \in Refs : orders[ref] # NoOrder =>
                      \E s \in Submissions : Ref(s) = ref /\ response[s] = 201

\* A step that leaves the server alone and changes no outcome.
LEMMA QuietStepLosesNothing ==
    ASSUME NothingLost, UNCHANGED orders, FirstRun' => FirstRun,
           \A t \in Submissions :
              /\ response'[t] = response[t] \/ pc[t] \in Waiting
              /\ pc'[t] \in Waiting => pc[t] \in Waiting /\ response'[t] = response[t]
    PROVE  NothingLost'
<1>1. \A t \in Submissions : response[t] = 201 => response'[t] = 201
  BY DEF NothingLost, NoResponse
<1>2. QED
  BY <1>1 DEF NothingLost

LEMMA ArriveLosesNothing ==
    ASSUME IndInv, NothingLost, NEW s \in Submissions, Arrive(s)
    PROVE  NothingLost'
<1>1. /\ pc[s] = "start" /\ UNCHANGED <<orders, exit, exits>>
      /\ pc \in [Submissions -> {"start", "barrier", "post", "record", "update", "done"}]
      /\ response \in [Submissions -> ExpectedStatuses \cup {NoResponse}]
      /\ \/ Return(s, NoResponse)
         \/ /\ UNCHANGED response
            /\ \A t \in PhaseOne \ {s} : pc[t] = "barrier"
            /\ pc' = [t \in Submissions |-> IF t \in PhaseOne THEN "post" ELSE pc[t]]
         \/ UNCHANGED response /\ Goto(s, "barrier")
  BY DEF Arrive, IndInv, BurstTypeOK
<1>2. CASE Return(s, NoResponse)
  BY <1>1, <1>2, QuietStepLosesNothing DEF Return, Goto, Waiting, FirstRun
<1>3. CASE /\ UNCHANGED response
           /\ \A t \in PhaseOne \ {s} : pc[t] = "barrier"
           /\ pc' = [t \in Submissions |-> IF t \in PhaseOne THEN "post" ELSE pc[t]]
  BY <1>1, <1>3, QuietStepLosesNothing DEF Waiting, FirstRun
<1>4. CASE UNCHANGED response /\ Goto(s, "barrier")
  BY <1>1, <1>4, QuietStepLosesNothing DEF Goto, Waiting, FirstRun
<1>5. QED
  BY <1>1, <1>2, <1>3, <1>4

\* The first answer for a ref is the 201.
LEMMA AnsweredLosesNothing ==
    ASSUME IndInv, NothingLost, NEW s \in Submissions, Answered(s)
    PROVE  NothingLost'
<1> DEFINE answer == Recorded(Server!Answer(BodyOf[s]))
<1>1. /\ pc[s] = "post" /\ pc' = [pc EXCEPT ![s] = "record"]
      /\ response' = [response EXCEPT ![s] = answer]
      /\ UNCHANGED <<exit, exits>>
  BY DEF Answered, Return, Goto
<1>2. answer = 201 <=> orders[Ref(s)] = NoOrder
  BY AnswerIsTrue DEF Answered
<1> HIDE DEF answer
<1>3. \A t \in Submissions : /\ pc'[t] = IF t = s THEN "record" ELSE pc[t]
                             /\ response'[t] = IF t = s THEN answer ELSE response[t]
  BY <1>1 DEF IndInv, BurstTypeOK
<1>4. /\ \A ref \in Refs \ {Ref(s)} : orders'[ref] = orders[ref]
      /\ orders'[Ref(s)] = IF orders[Ref(s)] = NoOrder THEN Content(s) ELSE orders[Ref(s)]
  BY OrdersStay DEF Answered, IndInv
<1>5. response[s] = NoResponse /\ NoResponse # 201
  BY <1>1 DEF NothingLost, Waiting, NoResponse
<1>6. ASSUME FirstRun, NEW ref \in Refs, orders'[ref] # NoOrder
      PROVE  \E t \in Submissions : Ref(t) = ref /\ response'[t] = 201
  <2>1. CASE ref = Ref(s) /\ orders[ref] = NoOrder
    BY <2>1, <1>2, <1>3
  <2>2. CASE orders[ref] # NoOrder
    <3>1. PICK t \in Submissions : Ref(t) = ref /\ response[t] = 201
      BY <2>2, <1>6 DEF NothingLost
    <3>2. QED
      BY <3>1, <1>3, <1>5
  <2>3. QED
    BY <2>1, <2>2, <1>4, <1>6
<1>7. \A t \in Submissions : pc'[t] \in Waiting => response'[t] = NoResponse
  BY <1>3 DEF NothingLost, Waiting
<1>8. QED
  BY <1>1, <1>6, <1>7 DEF NothingLost, FirstRun

\* A new process has no outcomes and is not the first run's any more.
LEMMA FreshLosesNothing ==
    ASSUME Memory(pc', barrier', attempt', response', lock', seen', tallies'), ~FirstRun'
    PROVE  NothingLost'
  BY DEF Memory, NothingLost

LEMMA StepLosesNothing ==
    ASSUME IndInv, NothingLost, late = {}, [Next]_vars
    PROVE  NothingLost'
<1>1. /\ pc \in [Submissions -> {"start", "barrier", "post", "record", "update", "done"}]
      /\ response \in [Submissions -> ExpectedStatuses \cup {NoResponse}]
  BY DEF IndInv, BurstTypeOK
<1>2. ASSUME NEW s \in Submissions, Step(s)
      PROVE  NothingLost'
  <2>1. CASE Refused(s)
    <3>1. /\ pc[s] = "post" /\ UNCHANGED <<orders, exit, exits>>
          /\ \E status : Return(s, status)
      BY <2>1 DEF Refused
    <3>2. PICK status : Return(s, status)
      BY <3>1
    <3>3. QED
      BY <1>1, <3>1, <3>2, QuietStepLosesNothing DEF Return, Goto, Waiting, FirstRun
  <2>2. CASE Retry(s)
    BY <1>1, <2>2, QuietStepLosesNothing DEF Retry, Return, Goto, Waiting, FirstRun
  <2>3. CASE Record(s) \/ Update(s)
    BY <1>1, <2>3, QuietStepLosesNothing DEF Record, Update, Goto, Waiting, FirstRun
  <2>4. QED
    BY <1>2, <2>1, <2>2, <2>3, ArriveLosesNothing, AnsweredLosesNothing DEF Step
<1>3. CASE MainStep
  <2>1. CASE StartPhaseTwo
    BY <1>1, <2>1, QuietStepLosesNothing, Bodies DEF StartPhaseTwo, Goto, Waiting, FirstRun
  <2>2. CASE Finish /\ Running
    BY <1>1, <2>2, QuietStepLosesNothing DEF Finish, threads, Running, Waiting, FirstRun
  <2>3. QED
    BY <1>3, <2>1, <2>2 DEF MainStep
<1>4. ASSUME NEW s \in Submissions, BreakBarrier(s)
      PROVE  NothingLost'
  BY <1>1, <1>4, QuietStepLosesNothing DEF BreakBarrier, Waiting, FirstRun
<1>5. ASSUME NEW s \in Submissions, CarryOutLate(s)
      PROVE  FALSE
  BY <1>5 DEF CarryOutLate
<1>6. CASE Die
  BY <1>6, FreshLosesNothing DEF Die, FirstRun
<1>7. CASE Rerun
  <2>1. exits \in Seq({"success", "failure", "killed"})
    BY DEF IndInv, BurstTypeOK
  <2>2. exits' # <<>>
    BY <1>7, <2>1 DEF Rerun
  <2>3. QED
    BY <1>7, <2>2, FreshLosesNothing DEF Rerun, FirstRun
<1>8. CASE UNCHANGED vars
  BY <1>1, <1>8, QuietStepLosesNothing DEF vars, threads, FirstRun
<1>9. QED
  BY <1>2, <1>3, <1>4, <1>5, <1>6, <1>7, <1>8 DEF Next, Progress

LEMMA NothingLostCounts ==
    ASSUME IndInv, NothingLost
    PROVE  CountsAreDeterministic
<1> SUFFICES ASSUME exit = "success", exits = <<>>, NEW s \in PhaseOne
             PROVE  Created(Ref(s)) = 1
  BY DEF CountsAreDeterministic
<1>1. Ref(s) \in Refs /\ s \in Submissions
  BY Bodies
<1>2. orders[Ref(s)] # NoOrder /\ FirstRun
  BY <1>1 DEF IndInv, SuccessIsKept, FirstRun
<1>3. PICK t \in Submissions : Ref(t) = Ref(s) /\ response[t] = 201
  BY <1>1, <1>2 DEF NothingLost
<1>4. pc[t] = "done"
  BY NoneFailed DEF IndInv, ExitIsExact, Finished
<1>5. t \in Outcomes(Ref(s), 201)
  BY <1>3, <1>4 DEF Outcomes
<1>6. Created(Ref(s)) = Cardinality(Outcomes(Ref(s), 201))
  BY <1>1 DEF IndInv, CountsAreExact, ExpectedStatuses, Created
<1>7. Created(Ref(s)) \in Nat /\ Created(Ref(s)) # 0
  BY <1>5, <1>6, OutcomesAreFinite
<1>8. Created(Ref(s)) <= 1
  BY <1>1, CreatedAtMostOnce
<1>9. QED
  BY <1>7, <1>8

\* The counts of the first run are those of the document for any number of
\* submissions, refs and attempts, as long as no request is given up that the
\* server may have (submit, record, run_burst).
THEOREM CountsAreRightWithoutLoss == Spec => CountsWithoutLoss
<1>1. Init => NothingLost
  BY DEF Init, Memory, NothingLost
<1>2. IndInv /\ NothingLost /\ late = {} /\ [Next]_vars => NothingLost'
  BY StepLosesNothing
<1>3. IndInv /\ NothingLost => CountsAreDeterministic
  BY NothingLostCounts
<1>4. QED
  BY <1>1, <1>2, <1>3, Invariance, PTL DEF Spec, CountsWithoutLoss

=============================================================================
