----------------------------- MODULE OrderServer -----------------------------
(***************************************************************************)
(* What POST /orders promises to its clients: each request takes effect in *)
(* one step, and its answer is what that step makes of the database as it  *)
(* is at that moment.  A request that is refused has no effect.  Only when *)
(* the client does not know (503, or no answer) may a request take effect  *)
(* later, and then at most once.  Module Intake implements this with       *)
(* statements, locks and failures; module Burst is a client that relies on *)
(* it.                                                                     *)
(***************************************************************************)
EXTENDS Submission

CONSTANTS Requests, NoBody

VARIABLES
    posted,  \* per request: its body, NoBody before
    answer   \* per request: what its client got, "none" while it waits

serverVars == <<orders, posted, answer>>

\* The client cannot know whether the request was or will be carried out.
Unknown == {"service_unavailable", "lost"}
Refusals == {"validation_error", "unknown_sku", "internal_error"}

Init ==
    /\ orders = [ref \in Refs |-> NoOrder]
    /\ posted = [r \in Requests |-> NoBody]
    /\ answer = [r \in Requests |-> "none"]

\* A request comes in, with any body: the one it has is read off the new
\* state.  It may be refused for its body alone.
Receive(r) ==
    /\ posted[r] = NoBody /\ posted'[r] \in Body
    /\ posted' = [posted EXCEPT ![r] = posted'[r]]
    /\ answer' \in {answer, [answer EXCEPT ![r] = "validation_error"]}
    /\ UNCHANGED orders

\* r waits no longer.
Answered(r) == answer[r] = "none" /\ answer'[r] # "none" /\ posted[r] # NoBody

Reply(r) ==
    /\ Answered(r)
    /\ answer' = [answer EXCEPT ![r] = Answer(posted[r])]
    /\ CarryOut(posted[r])
    /\ UNCHANGED posted

Refuse(r) ==
    /\ Answered(r)
    /\ answer'[r] \in Refusals \cup Unknown
    /\ answer' = [answer EXCEPT ![r] = answer'[r]]
    /\ UNCHANGED <<orders, posted>>

CarryOutLate(r) ==
    /\ answer[r] \in Unknown
    /\ CarryOut(posted[r])
    /\ UNCHANGED <<posted, answer>>

Next == \E r \in Requests : Receive(r) \/ Reply(r) \/ Refuse(r) \/ CarryOutLate(r)

Spec == Init /\ [][Next]_serverVars
=============================================================================
