----------------------------- MODULE Deliveries -----------------------------
(***************************************************************************)
(* What the owner of a webhook endpoint may rely on, with nothing of       *)
(* queues, workers and clocks.  An event that is raised gets one verdict   *)
(* and keeps it.  It is posted only before its verdict, in no more POSTs   *)
(* than there are attempts; afterwards only what is on its way arrives.    *)
(* "Delivered" is said on an answer, and an event that is refused was      *)
(* never posted.                                                           *)
(***************************************************************************)
EXTENDS Naturals

CONSTANTS
  Events,   \* what may be reported to the endpoint
  Attempts  \* how often one event may be posted

VARIABLES
  verdict,   \* "unraised", "open", or how the event has ended
  received,  \* POSTs of each event the endpoint has got
  pending    \* POSTs of each event that are on their way, unanswered

vars == <<verdict, received, pending>>

Init ==
  /\ verdict = [e \in Events |-> "unraised"]
  /\ received = [e \in Events |-> 0]
  /\ pending = [e \in Events |-> 0]

MayPost(e) == verdict[e] = "open" /\ received[e] + pending[e] < Attempts

Close(e, v) == verdict' = [verdict EXCEPT ![e] = v]

Raise(e) ==
  /\ verdict[e] = "unraised"
  /\ Close(e, "open")
  /\ UNCHANGED <<received, pending>>

\* Nobody has been told of the event, and nobody will be.
Refuse(e) ==
  /\ verdict[e] = "open" /\ received[e] + pending[e] = 0
  /\ \E v \in {"dropped", "skipped"} : Close(e, v)
  /\ UNCHANGED <<received, pending>>

\* The endpoint answers: the event is delivered, or posted again, or given up.
Answer(e) ==
  /\ MayPost(e)
  /\ received' = [received EXCEPT ![e] = @ + 1]
  /\ \E v \in {"open", "delivered", "failed"} : Close(e, v)
  /\ UNCHANGED pending

\* Nobody waits for the answer any more.
Overdue(e) ==
  /\ MayPost(e)
  /\ pending' = [pending EXCEPT ![e] = @ + 1]
  /\ \E v \in {"open", "failed"} : Close(e, v)
  /\ UNCHANGED received

Arrive(e) ==
  /\ pending[e] > 0
  /\ pending' = [pending EXCEPT ![e] = @ - 1]
  /\ received' = [received EXCEPT ![e] = @ + 1]
  /\ UNCHANGED verdict

GiveUp(e) ==
  /\ verdict[e] = "open"
  /\ Close(e, "failed")
  /\ UNCHANGED <<received, pending>>

\* The events of S are forgotten, those of P with a POST on its way.
Lose(S, P) ==
  /\ \A e \in S : verdict[e] = "open"
  /\ P \subseteq S /\ \A e \in P : MayPost(e)
  /\ verdict' = [e \in Events |-> IF e \in S THEN "lost" ELSE verdict[e]]
  /\ pending' = [e \in Events |-> IF e \in P THEN pending[e] + 1 ELSE pending[e]]
  /\ UNCHANGED received

Next ==
  \/ \E e \in Events : Raise(e) \/ Refuse(e) \/ Answer(e) \/ Overdue(e) \/ Arrive(e) \/ GiveUp(e)
  \/ \E S, P \in SUBSET Events : Lose(S, P)

Spec == Init /\ [][Next]_vars
=============================================================================
