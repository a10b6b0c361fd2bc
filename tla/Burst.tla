------------------------------- MODULE Burst -------------------------------
(***************************************************************************)
(* demo/burst.py: one thread per submission of phase one, released by a    *)
(* barrier, then one conflicting submission; every request is retried and  *)
(* every outcome is counted in a tally the threads share.  The command may *)
(* be run again with the same prefix.                                      *)
(*                                                                         *)
(* The server answers in one step, as module OrderServer says and Intake   *)
(* implements.  A request whose answer never came may still be carried out *)
(* at any later time.                                                      *)
(***************************************************************************)
EXTENDS Integers, Sequences, FiniteSets

CONSTANTS PhaseOne,     \* the submissions of phase one, one thread each
          Conflict,     \* the submission of phase two, made by the main thread
          Refs, Contents,
          BodyOf,       \* submission -> what it posts, with the run's prefix
          MaxAttempts,  \* MAX_ATTEMPTS
          MaxRuns,      \* bound: times the command is run with one prefix
          NoOrder, Nobody

Submissions == PhaseOne \cup {Conflict}
Ref(s) == BodyOf[s].ref
Content(s) == BodyOf[s].content
Copies(ref) == {s \in PhaseOne : Ref(s) = ref}

ASSUME BurstAssumption ==
    /\ IsFiniteSet(PhaseOne)
    /\ Conflict \notin PhaseOne
    /\ BodyOf \in [Submissions -> [ref: Refs, content: Contents]]
    /\ \A s, t \in PhaseOne : Ref(s) = Ref(t) => Content(s) = Content(t)
    /\ \E s \in PhaseOne : Ref(s) = Ref(Conflict) /\ Content(s) # Content(Conflict)
    /\ MaxAttempts \in Nat \ {0}
    /\ MaxRuns \in Nat \ {0}
    /\ NoOrder \notin Contents
    /\ Nobody \notin Submissions

VARIABLES
    orders,    \* the server: ref -> the accepted content, or NoOrder
    late,      \* requests without an answer that may still be carried out
    pc,        \* per submission: where its thread is
    barrier,   \* the phase-one barrier
    attempt,   \* per submission: the attempt it is making
    response,  \* per submission: the status that ended it, NoResponse
    lock,      \* who holds the lock around the tallies
    seen,      \* per submission: the tally it found when it took the lock
    tallies,   \* ref -> RefTally
    exit,      \* of the present run
    exits      \* of the runs before it

threads == <<pc, barrier, attempt, response>>
counts == <<lock, seen, tallies>>
vars == <<orders, late, threads, counts, exit, exits>>

\* The statuses of the answers of POST /orders, by their outcome or problem.
Status == [created |-> 201, duplicate |-> 200, order_ref_conflict |-> 409,
           unknown_sku |-> 422, validation_error |-> 422,
           internal_error |-> 500, service_unavailable |-> 503]

NoResponse == 0
RetryableStatuses == {503}
ExpectedStatuses == {201, 200, 409}
Retried(code) == Status[code] \in RetryableStatuses
\* What record makes of an answer: any status it does not expect is a failure.
Recorded(code) == IF Status[code] \in ExpectedStatuses THEN Status[code] ELSE NoResponse

Tally == [statuses: [ExpectedStatuses -> Nat], failed: Nat, total: Contents \cup {NoOrder}]
NoTally == [statuses |-> [code \in ExpectedStatuses |-> 0], failed |-> 0, total |-> NoOrder]
Created(ref) == tallies[ref].statuses[201]
Duplicate(ref) == tallies[ref].statuses[200]
Conflicts(ref) == tallies[ref].statuses[409]
Submitted(ref) == Created(ref) + Duplicate(ref) + Conflicts(ref) + tallies[ref].failed

BurstTypeOK ==
    /\ orders \in [Refs -> Contents \cup {NoOrder}]
    /\ late \subseteq Submissions
    /\ pc \in [Submissions -> {"start", "barrier", "post", "record", "update", "done"}]
    /\ barrier \in {"filling", "released", "broken"}
    /\ attempt \in [Submissions -> 1..MaxAttempts]
    /\ response \in [Submissions -> ExpectedStatuses \cup {NoResponse}]
    /\ lock \in Submissions \cup {Nobody}
    /\ seen \in [Submissions -> Tally]
    /\ tallies \in [Refs -> Tally]
    /\ exit \in {"running", "success", "failure", "killed"}
    /\ exits \in Seq({"success", "failure", "killed"})

\* A new process: nothing is left of the one before it but the orders.
Memory(p, b, a, r, l, se, t) ==
    /\ p = [s \in Submissions |-> "start"]
    /\ b = "filling"
    /\ a = [s \in Submissions |-> 1]
    /\ r = [s \in Submissions |-> NoResponse]
    /\ l = Nobody
    /\ se = [s \in Submissions |-> NoTally]
    /\ t = [ref \in Refs |-> NoTally]

Init ==
    /\ orders = [ref \in Refs |-> NoOrder]
    /\ late = {}
    /\ Memory(pc, barrier, attempt, response, lock, seen, tallies)
    /\ exit = "running"
    /\ exits = <<>>

Running == exit = "running"
Goto(s, step) == pc' = [pc EXCEPT ![s] = step]
\* submit returns; its loop variable is gone.
Return(s, status) ==
    /\ response' = [response EXCEPT ![s] = status]
    /\ attempt' = [attempt EXCEPT ![s] = 1]
    /\ Goto(s, "record")

-----------------------------------------------------------------------------
(* The server, as order intake promises it.                                *)

Server == INSTANCE Submission

\* A request nobody waits for any more: its handler still runs.
CarryOutLate(s) ==
    /\ s \in late
    /\ Server!CarryOut(BodyOf[s])
    /\ late' = late \ {s}
    /\ UNCHANGED <<threads, counts, exit, exits>>

\* Whatever made the client give up, the server may have the request.
MayBeCarriedOut(s) == late' \in {late, late \cup {s}}

-----------------------------------------------------------------------------
(* The threads.                                                            *)

\* barrier.wait: a thread that comes to a broken barrier sends nothing; the
\* last one to come releases all.
Arrive(s) ==
    /\ s \in PhaseOne /\ pc[s] = "start"
    /\ IF barrier = "broken"
         THEN Return(s, NoResponse) /\ UNCHANGED barrier
         ELSE /\ UNCHANGED <<attempt, response>>
              /\ IF \A t \in PhaseOne \ {s} : pc[t] = "barrier"
                   THEN /\ pc' = [t \in Submissions |-> IF t \in PhaseOne THEN "post" ELSE pc[t]]
                        /\ barrier' = "released"
                   ELSE Goto(s, "barrier") /\ UNCHANGED barrier
    /\ UNCHANGED <<orders, late, counts, exit, exits>>

\* BARRIER_TIMEOUT passes for one of the threads, which breaks it for all.
BreakBarrier(s) ==
    /\ pc[s] = "barrier"
    /\ barrier' = "broken"
    /\ pc' = [t \in Submissions |-> IF pc[t] = "barrier" THEN "record" ELSE pc[t]]
    /\ response' = [t \in Submissions |-> IF pc[t] = "barrier" THEN NoResponse ELSE response[t]]
    /\ UNCHANGED <<orders, late, attempt, counts, exit, exits>>

\* submit: a status that is not retried.  Here one of EXPECTED_STATUSES.
Answered(s) ==
    /\ pc[s] = "post"
    /\ Server!CarryOut(BodyOf[s])
    /\ Return(s, Recorded(Server!Answer(BodyOf[s])))
    /\ UNCHANGED <<late, barrier, counts, exit, exits>>

\* Any other status, or an exception that is no TransportError: not retried.
Refused(s) ==
    /\ pc[s] = "post"
    /\ \/ \E code \in {"unknown_sku", "validation_error", "internal_error"} :
             ~Retried(code) /\ Return(s, Recorded(code)) /\ UNCHANGED late
       \/ MayBeCarriedOut(s) /\ Return(s, NoResponse)
    /\ UNCHANGED <<orders, barrier, counts, exit, exits>>

\* Mutant: one attempt too many.
RetryOnceMore(s) ==
    /\ pc[s] = "post"
    /\ MayBeCarriedOut(s)
    /\ IF attempt[s] <= MaxAttempts
         THEN /\ attempt' = [attempt EXCEPT ![s] = @ + 1]
              /\ UNCHANGED <<pc, response>>
         ELSE Return(s, NoResponse)
    /\ UNCHANGED <<orders, barrier, counts, exit, exits>>

\* A transport error, a timeout or service_unavailable: the same body again,
\* up to MAX_ATTEMPTS.
Retry(s) ==
    /\ pc[s] = "post"
    /\ MayBeCarriedOut(s)
    /\ IF attempt[s] < MaxAttempts
         THEN /\ attempt' = [attempt EXCEPT ![s] = @ + 1]
              /\ UNCHANGED <<pc, response>>
         ELSE Return(s, NoResponse)
    /\ UNCHANGED <<orders, barrier, counts, exit, exits>>

Failed(s) == response[s] = NoResponse

\* What record writes: a total only with an answer that has one.
Counted(s, tally) ==
    IF Failed(s) THEN [tally EXCEPT !.failed = @ + 1]
    ELSE [tally EXCEPT !.statuses[response[s]] = @ + 1,
                       !.total = IF response[s] \in {200, 201} THEN Content(s) ELSE @]

\* Mutant: the tallies have no lock.
RecordWithoutLock(s) ==
    /\ pc[s] = "record"
    /\ seen' = [seen EXCEPT ![s] = tallies[Ref(s)]]
    /\ Goto(s, "update")
    /\ UNCHANGED <<orders, late, barrier, attempt, response, lock, tallies, exit, exits>>

\* record: `with lock`, and the tally of the order_ref is looked up.
Record(s) ==
    /\ pc[s] = "record"
    /\ lock = Nobody
    /\ lock' = s
    /\ seen' = [seen EXCEPT ![s] = tallies[Ref(s)]]
    /\ Goto(s, "update")
    /\ UNCHANGED <<orders, late, barrier, attempt, response, tallies, exit, exits>>

\* Mutant: the early return of a failed submission leaves the lock held.
UpdateKeepingLock(s) ==
    /\ pc[s] = "update"
    /\ tallies' = [tallies EXCEPT ![Ref(s)] = Counted(s, seen[s])]
    /\ seen' = [seen EXCEPT ![s] = NoTally]
    /\ lock' = IF Failed(s) THEN lock ELSE Nobody
    /\ Goto(s, "done")
    /\ UNCHANGED <<orders, late, barrier, attempt, response, exit, exits>>

\* The counts are written back and the lock is released, also by the return
\* in the middle.
Update(s) ==
    /\ pc[s] = "update"
    /\ tallies' = [tallies EXCEPT ![Ref(s)] = Counted(s, seen[s])]
    /\ seen' = [seen EXCEPT ![s] = NoTally]
    /\ lock' = Nobody
    /\ Goto(s, "done")
    /\ UNCHANGED <<orders, late, barrier, attempt, response, exit, exits>>

-----------------------------------------------------------------------------
(* The main thread and its process.                                        *)

\* Mutant: phase two does not wait for the threads.
StartPhaseTwoAtOnce ==
    /\ pc[Conflict] = "start"
    /\ Goto(Conflict, "post")
    /\ UNCHANGED <<orders, late, barrier, attempt, response, counts, exit, exits>>

\* All threads are joined.
StartPhaseTwo ==
    /\ pc[Conflict] = "start"
    /\ \A s \in PhaseOne : pc[s] = "done"
    /\ Goto(Conflict, "post")
    /\ UNCHANGED <<orders, late, barrier, attempt, response, counts, exit, exits>>

\* Mutant: the exit status is that of a command that came to its end.
FinishAnyway ==
    /\ pc[Conflict] = "done"
    /\ exit' = "success"
    /\ UNCHANGED <<orders, late, threads, counts, exits>>

\* The summary is printed from the tallies and so is the exit status made.
Finish ==
    /\ pc[Conflict] = "done"
    /\ exit' = IF \E ref \in Refs : tallies[ref].failed > 0 THEN "failure" ELSE "success"
    /\ UNCHANGED <<orders, late, threads, counts, exits>>

\* The process is killed, or its main thread dies of an exception in phase
\* two: no summary, and what it had sent may still be carried out.
Die ==
    /\ exit' = "killed"
    /\ \E S \in SUBSET {s \in Submissions : pc[s] = "post"} : late' = late \cup S
    /\ Memory(pc', barrier', attempt', response', lock', seen', tallies')
    /\ UNCHANGED <<orders, exits>>

\* The command is run again with the same prefix.
Rerun ==
    /\ ~Running /\ Len(exits) < MaxRuns - 1
    /\ exits' = Append(exits, exit)
    /\ exit' = "running"
    /\ Memory(pc', barrier', attempt', response', lock', seen', tallies')
    /\ UNCHANGED <<orders, late>>

Step(s) ==
    /\ Running
    /\ \/ Arrive(s) \/ Answered(s) \/ Refused(s) \/ Retry(s) \/ Record(s) \/ Update(s)

MainStep == Running /\ (StartPhaseTwo \/ Finish)

\* What goes on in the process by itself.
Progress == (\E s \in Submissions : Step(s)) \/ MainStep

Next ==
    \/ Progress
    \/ \E s \in Submissions :
          \/ Running /\ BreakBarrier(s)
          \/ CarryOutLate(s)
    \/ Running /\ Die
    \/ Rerun

Spec == Init /\ [][Next]_vars

\* Some thread of the process runs when one can, and a request ends: answered,
\* or after REQUEST_TIMEOUT.  Nothing is assumed of which thread runs; no late
\* request has to be carried out and nobody has to run the command again.
FairSpec == Spec /\ WF_vars(Progress)

-----------------------------------------------------------------------------
(* What the summary and the exit status are worth.                         *)

Finished == exit \in {"success", "failure"}

\* Every submission is in the summary once, whatever threads record at the
\* same time, and a failed one makes the exit status 1 (03-architecture.md,
\* `burst`: "exits 1 if any submission ... cannot be sent").
EverySubmissionIsCounted ==
    Finished =>
       /\ \A ref \in Refs :
             Submitted(ref) = Cardinality({s \in Submissions : Ref(s) = ref})
       /\ exit = "failure" <=> \E s \in Submissions : Failed(s)

\* Exit status 0 on a fresh prefix means what a reader takes it to mean: the
\* server has every order with its phase-one content, the total printed for
\* it is that order's, no ref was answered 201 twice, and the reuse of the
\* one ref, and nothing else, was a conflict, although requests of phase one
\* may still be on their way when phase two begins.
SuccessIsTrue ==
    exit = "success" /\ exits = <<>> =>
       \A s \in PhaseOne :
          /\ orders[Ref(s)] = Content(s) /\ tallies[Ref(s)].total = Content(s)
          /\ Created(Ref(s)) <= 1
          /\ Created(Ref(s)) + Duplicate(Ref(s)) = Cardinality(Copies(Ref(s)))
          /\ Conflicts(Ref(s)) = IF Ref(s) = Ref(Conflict) THEN 1 ELSE 0

\* AC-OPS-03, and any number of runs after: once a run has ended with exit
\* status 0 no later one creates an order, also not by what runs that died
\* left on its way; and if the first run was the successful one, every later
\* successful one counts only duplicates and the one conflict.
RerunCounts ==
    \A n \in DOMAIN exits : exits[n] = "success" =>
       /\ \A ref \in Refs : Created(ref) = 0
       /\ n = 1 /\ exit = "success" =>
             \A s \in PhaseOne :
                /\ Duplicate(Ref(s)) = Cardinality(Copies(Ref(s)))
                /\ Conflicts(Ref(s)) = IF Ref(s) = Ref(Conflict) THEN 1 ELSE 0

\* The command ends, whatever breaks: the barrier, requests, or the server.
BurstEnds == Running ~> ~Running

\* 03-architecture.md on the counts of the summary: "Which submission of a
\* duplicated order_ref wins the race is not deterministic; the counts are."
\* A run in which nothing failed prints one created order per ref.
CountsAreDeterministic ==
    exit = "success" /\ exits = <<>> =>
       \A s \in PhaseOne : Created(Ref(s)) = 1

\* The lost answer is all there is to it: as long as no request was given up
\* that the server may have, the counts are what the document prints, in
\* whatever order the threads ran, were retried and recorded (submit, record).
CountsWithoutLoss == [](late = {}) => []CountsAreDeterministic
=============================================================================
