----------------------- MODULE ScheduledDispatchProofs -----------------------
(***************************************************************************)
(* Proofs about ScheduledDispatch for any set of messages and clients, any *)
(* batch limit and any number of faults: its type, the bound on duplicate  *)
(* sends, the shape of sent rows, the finality of a cancel, and that it    *)
(* implements Outbox.                                                      *)
(***************************************************************************)
EXTENDS ScheduledDispatch, TLAPS

\* The outcome of m is known and not yet written.
Recording(m) == Returned /\ current.msg = m

\* The worker's snapshot and the send in progress never share a row, hold only
\* rows that exist and have no WhatsApp ID yet, and a copy is accepted only by a
\* call that has returned.
WorkerInv ==
  /\ current # NoSend => current.msg \notin batch
  /\ \A m \in Messages : Held(m) \/ Recording(m) => status[m] # "absent" /\ ~hasId[m]
  /\ \A c \in Clients : cancelling[c] # NoMessage => status[cancelling[c]] # "absent"
  /\ current # NoSend /\ current.outcome = "sent" => current.accepted
  /\ current # NoSend /\ current.accepted => Returned /\ copies[current.msg] > 0

\* No copy of m is on its own account: all are excused.
Excused(m) == copies[m] <= unrecorded[m]

\* A row that may be sent (again) has no copy but the unrecorded ones.
CopyInv ==
  /\ AtMostOnceUnlessUnrecorded
  /\ \A m \in Messages : status[m] \in {"absent", "scheduled"} /\ ~Recording(m) => Excused(m)
  /\ \A m \in Messages : Held(m) => Excused(m)
  /\ Returned /\ ~current.accepted => Excused(current.msg)
  /\ \A m \in Messages : unrecorded[m] <= copies[m]
  /\ Returned /\ current.accepted => ~Excused(current.msg)

IInv == TypeOK /\ WorkerInv /\ CopyInv /\ SentRowsHoldTheirId

-----------------------------------------------------------------------------

\* A poll takes up only scheduled rows.
LEMMA FirstReadyScheduled ==
  ASSUME NEW B \in FirstReady
  PROVE  B \in SUBSET Messages /\ \A m \in B : status[m] = "scheduled"
BY DEF FirstReady, Ready

\* Every variable keeps its type.
THEOREM TypeCorrect == Spec => []TypeOK
<1> USE ScheduleAssumption, NoSendAssumption
<1>1. Init => TypeOK
  BY DEF Init, TypeOK, Status, Marks
<1>2. ASSUME TypeOK, [Next]_vars PROVE TypeOK'
  <2> USE <1>2 DEF TypeOK, rows, worker
  <2>1. ASSUME NEW m \in Messages, Schedule(m) PROVE TypeOK'
    <3>1. PICK t \in (clock + 1) .. MaxClock : at' = [at EXCEPT ![m] = t]
      BY <2>1 DEF Schedule
    <3>2. t \in 0 .. MaxClock
      OBVIOUS
    <3>3. QED BY <2>1, <3>1, <3>2 DEF Schedule, Status
  <2>18. ASSUME NEW m \in Messages, Mark(m) PROVE TypeOK'
    BY <2>18 DEF Mark, Status
  <2>2. ASSUME NEW c \in Clients, NEW m \in Messages, CancelRead(c, m) PROVE TypeOK'
    BY <2>2 DEF CancelRead
  <2>3. ASSUME NEW c \in Clients, CancelWrite(c) PROVE TypeOK'
    <3>1. cancelling[c] \in Messages
      BY <2>3 DEF CancelWrite
    <3>2. QED BY <2>3, <3>1 DEF CancelWrite, Status
  <2>4. ASSUME NEW c \in Clients, CancelFails(c) PROVE TypeOK'
    BY <2>4 DEF CancelFails
  <2>5. CASE Poll
    BY <2>5, FirstReadyScheduled DEF Poll
  <2>6. ASSUME NEW m \in Messages, Dispatch(m) PROVE TypeOK'
    <3>1. current' \in Send
      BY <2>6 DEF Dispatch, Send
    <3>2. QED BY <2>6, <3>1 DEF Dispatch
  <2>7. CASE SendReturns
    <3>1. current \in Send
      BY <2>7 DEF SendReturns
    <3>2. PICK outcome \in {"sent", "failed"}, accepted \in BOOLEAN :
            /\ current' = [msg |-> current.msg, outcome |-> outcome, accepted |-> accepted]
            /\ copies' = [copies EXCEPT ![current.msg] = @ + IF accepted THEN 1 ELSE 0]
      BY <2>7 DEF SendReturns
    <3>3. current' \in Send
      BY <3>1, <3>2 DEF Send
    <3>4. current.msg \in Messages
      BY <3>1 DEF Send
    <3>5. copies[current.msg] + (IF accepted THEN 1 ELSE 0) \in Nat
      BY <3>4
    <3>6. copies' \in [Messages -> Nat]
      BY <3>2, <3>4, <3>5
    <3>7. QED BY <2>7, <3>3, <3>6 DEF SendReturns
  <2>8. CASE Record
    <3>1. current \in Send
      BY <2>8 DEF Record, Returned
    <3>2. current.msg \in Messages /\ current.outcome \in Status
      BY <2>8, <3>1 DEF Record, Returned, Send, Status
    <3>3. status' \in [Messages -> Status] /\ hasId' \in [Messages -> BOOLEAN]
      BY <2>8, <3>2 DEF Record
    <3>4. QED BY <2>8, <3>3 DEF Record
  <2>9. Forget => unrecorded' \in [Messages -> Nat]
    BY DEF Forget, Returned, Send
  <2>10. CASE RecordFails
    BY <2>9, <2>10 DEF RecordFails, Fault
  <2>11. CASE Panics
    BY <2>11 DEF Panics, Fault
  <2>12. CASE Stop
    BY <2>12 DEF Stop, Fault
  <2>13. CASE Exit \/ Crash
    BY <2>9, <2>13 DEF Exit, Crash, Dies, Fault
  <2>14. CASE Restart
    BY <2>14 DEF Restart
  <2>15. CASE Tick
    BY <2>15 DEF Tick
  <2>16. CASE UNCHANGED vars
    BY <2>16 DEF vars
  <2>17. QED
    BY <1>2, <2>1, <2>2, <2>3, <2>4, <2>5, <2>6, <2>7, <2>8, <2>10, <2>11, <2>12,
       <2>13, <2>14, <2>15, <2>16, <2>18 DEF Next
<1>3. QED BY <1>1, <1>2, PTL DEF Spec

\* The strengthened invariant is kept by every step: the heart of the proofs.
LEMMA InvStep ==
  ASSUME TypeOK, TypeOK', WorkerInv, CopyInv, SentRowsHoldTheirId, [Next]_vars
  PROVE  WorkerInv' /\ CopyInv' /\ SentRowsHoldTheirId'
<1> USE NoSendAssumption, ScheduleAssumption DEF TypeOK, rows, worker, Excused, AtMostOnceUnlessUnrecorded
<1> USE DEF WorkerInv, CopyInv, SentRowsHoldTheirId, Held, Recording, Returned, Marks
<1>1. ASSUME NEW m \in Messages, Schedule(m) PROVE WorkerInv' /\ CopyInv' /\ SentRowsHoldTheirId'
  BY <1>1 DEF Schedule
<1>9. ASSUME NEW m \in Messages, Mark(m) PROVE WorkerInv' /\ CopyInv' /\ SentRowsHoldTheirId'
  BY <1>9 DEF Mark, Marks
<1>2. ASSUME NEW c \in Clients, NEW m \in Messages, CancelRead(c, m)
      PROVE  WorkerInv' /\ CopyInv' /\ SentRowsHoldTheirId'
  BY <1>2 DEF CancelRead
<1>3. ASSUME NEW c \in Clients, CancelWrite(c) PROVE WorkerInv' /\ CopyInv' /\ SentRowsHoldTheirId'
  BY <1>3 DEF CancelWrite
<1>4. ASSUME NEW c \in Clients, CancelFails(c) PROVE WorkerInv' /\ CopyInv' /\ SentRowsHoldTheirId'
  BY <1>4 DEF CancelFails
<1>5. CASE Poll
  BY <1>5, FirstReadyScheduled DEF Poll
<1>6. ASSUME NEW m \in Messages, Dispatch(m) PROVE WorkerInv' /\ CopyInv' /\ SentRowsHoldTheirId'
  BY <1>6 DEF Dispatch
<1>7. CASE SendReturns
  BY <1>7 DEF SendReturns, Send
<1>8. CASE Record
  BY <1>8 DEF Record, Send
<1>10. CASE RecordFails
  BY <1>10 DEF RecordFails, Forget, Send
<1>11. CASE Panics
  BY <1>11 DEF Panics, Send
<1>12. CASE Stop
  BY <1>12 DEF Stop
<1>13. CASE Exit \/ Crash
  BY <1>13 DEF Exit, Crash, Dies, Forget, Send
<1>14. CASE Restart
  BY <1>14 DEF Restart
<1>15. CASE Tick
  BY <1>15 DEF Tick
<1>16. CASE UNCHANGED vars
  BY <1>16 DEF vars
<1>17. QED
  BY <1>1, <1>2, <1>3, <1>4, <1>5, <1>6, <1>7, <1>8, <1>9, <1>10, <1>11, <1>12, <1>13, <1>14,
     <1>15, <1>16 DEF Next

\* The strengthened invariant holds in every behaviour: what the worker and the
\* rows say of a message agrees with how often WhatsApp has taken it.
THEOREM InductiveInvariant == Spec => []IInv
<1>1. Init => IInv
  <2> USE ScheduleAssumption DEF Init
  <2>1. Init => TypeOK
    BY DEF TypeOK, Status, Marks
  <2>2. Init => WorkerInv
    BY DEF WorkerInv, Held, Recording, Returned
  <2>3. Init => CopyInv /\ SentRowsHoldTheirId
    BY DEF Marks, CopyInv, SentRowsHoldTheirId, AtMostOnceUnlessUnrecorded, Excused, Held, Returned
  <2>4. QED BY <2>1, <2>2, <2>3 DEF IInv
<1>2. TypeOK /\ TypeOK' /\ IInv /\ [Next]_vars => IInv'
  BY InvStep DEF IInv
<1>3. QED BY <1>1, <1>2, TypeCorrect, PTL DEF Spec

\* A message reaches WhatsApp once, and again only if an accepted copy of it
\* went unrecorded: the scheduler worker's promise against duplicates.
THEOREM NoUnexcusedDuplicate == Spec => []AtMostOnceUnlessUnrecorded
<1>1. IInv => AtMostOnceUnlessUnrecorded
  BY DEF IInv, CopyInv
<1>2. QED BY <1>1, InductiveInvariant, PTL

\* A sent, acknowledged or revoked row holds the ID WhatsApp gave the message, and
\* only a row a cancel then overwrote holds one besides.
THEOREM SentRowsAreSent == Spec => []SentRowsHoldTheirId
<1>1. IInv => SentRowsHoldTheirId
  BY DEF IInv
<1>2. QED BY <1>1, InductiveInvariant, PTL

\* A cancelled row the worker does not hold is never sent again, and only receipts
\* and revocations of a message sent before the cancel change its status.
THEOREM CancelIsFinal == Spec => CancelFinalUnlessHeld
<1> DEFINE Final(m) ==
      status[m] = "cancelled" /\ ~Held(m) /\ ~(Returned /\ current.msg = m)
      => /\ ~Held(m)' /\ copies'[m] = copies[m]
         /\ status'[m] = "cancelled" \/ (hasId[m] /\ status'[m] \in Marks)
<1>1. ASSUME IInv, IInv', [Next]_vars, NEW m \in Messages PROVE Final(m)
  <2> USE <1>1, NoSendAssumption DEF IInv, TypeOK, Held, Returned, rows, worker
  <2>1. ASSUME NEW n \in Messages, Schedule(n) PROVE Final(m)
    BY <2>1 DEF Schedule
  <2>11. ASSUME NEW n \in Messages, Mark(n) PROVE Final(m)
    BY <2>11 DEF Mark
  <2>2. ASSUME NEW c \in Clients, NEW n \in Messages, CancelRead(c, n) PROVE Final(m)
    BY <2>2 DEF CancelRead
  <2>3. ASSUME NEW c \in Clients, CancelWrite(c) \/ CancelFails(c) PROVE Final(m)
    BY <2>3 DEF CancelWrite, CancelFails
  <2>4. CASE Poll
    BY <2>4, FirstReadyScheduled DEF Poll
  <2>5. ASSUME NEW n \in Messages, Dispatch(n) PROVE Final(m)
    BY <2>5 DEF Dispatch
  <2>6. CASE SendReturns
    BY <2>6 DEF SendReturns, Send
  <2>7. CASE Record \/ RecordFails \/ Panics
    BY <2>7 DEF Record, RecordFails, Panics, Send
  <2>8. CASE Stop \/ Exit \/ Crash \/ Restart \/ Tick
    BY <2>8 DEF Stop, Exit, Crash, Dies, Restart, Tick
  <2>9. CASE UNCHANGED vars
    BY <2>9 DEF vars
  <2>10. QED
    BY <2>1, <2>2, <2>3, <2>4, <2>5, <2>6, <2>7, <2>8, <2>9, <2>11 DEF Next
<1>2. IInv /\ IInv' /\ [Next]_vars => [\A m \in Messages : Final(m)]_vars
  BY <1>1
<1>3. QED BY <1>2, InductiveInvariant, PTL DEF Spec, CancelFinalUnlessHeld

-----------------------------------------------------------------------------
(* The refinement: every step of the scheduler is a step of Outbox.        *)

\* The worker's claims, as Outbox sees them.
Claimed == {m \in Messages : Held(m)}

\* A step that changes neither the rows' phases, nor what the worker holds, nor
\* the counts is invisible to a client of the outbox.
LEMMA InvisibleStep ==
  ASSUME UNCHANGED <<status, batch, current, copies, unrecorded>>
  PROVE  UNCHANGED O!vars
BY DEF O!vars, Phase, Held

\* Overwriting the status of an existing row by a final one closes the message,
\* or finds it closed.
LEMMA FinalStatusCloses ==
  ASSUME TypeOK, NEW m \in Messages, status[m] # "absent",
         NEW s \in Status \ {"absent", "scheduled"}, status' = [status EXCEPT ![m] = s],
         Claimed' = Claimed, UNCHANGED <<copies, unrecorded>>
  PROVE  O!Close(m) \/ UNCHANGED O!vars
<1> USE DEF TypeOK, Phase, Claimed, Status, Marks
<1>1. CASE status[m] = "scheduled"
  BY <1>1 DEF O!Close
<1>2. CASE status[m] # "scheduled"
  BY <1>2 DEF O!vars
<1>3. QED BY <1>1, <1>2

\* Letting go of S and forgetting the accepted copy, if any, of the message being
\* sent is Outbox's Abandon.
LEMMA ForgettingAbandons ==
  ASSUME IInv, Forget, UNCHANGED <<status, copies>>,
         NEW S \in SUBSET Messages, Claimed' = Claimed \ S
  PROVE  O!Next
<1> DEFINE E == IF Returned /\ current.accepted THEN {current.msg} ELSE {}
<1> USE NoSendAssumption DEF IInv, TypeOK, CopyInv, Excused, Returned
<1>1. E \in SUBSET Messages /\ \A m \in E : copies[m] > unrecorded[m]
  BY DEF Send
<1>2. unrecorded' = [m \in Messages |-> IF m \in E THEN unrecorded[m] + 1 ELSE unrecorded[m]]
  BY DEF Forget, Send
<1>3. O!Abandon(S, E)
  BY <1>1, <1>2 DEF O!Abandon, Claimed, Phase
<1>4. QED BY <1>1, <1>3 DEF O!Next

\* Every step of the scheduler is a step of the outbox, or leaves it alone.
LEMMA OutboxStep ==
  ASSUME IInv, IInv', [Next]_vars
  PROVE  [O!Next]_O!vars
<1> USE NoSendAssumption DEF IInv, TypeOK, rows, worker
<1>1. ASSUME NEW m \in Messages, Schedule(m) PROVE [O!Next]_O!vars
  <2>1. O!Accept(m)
    BY <1>1 DEF Schedule, O!Accept, Phase, Held
  <2>2. QED BY <2>1 DEF O!Next
<1>2. ASSUME NEW c \in Clients, CancelFails(c) \/ \E m \in Messages : CancelRead(c, m)
      PROVE  [O!Next]_O!vars
  BY <1>2, InvisibleStep DEF CancelRead, CancelFails
<1>3. ASSUME NEW c \in Clients, CancelWrite(c) PROVE [O!Next]_O!vars
  <2>1. cancelling[c] \in Messages /\ status[cancelling[c]] # "absent"
    BY <1>3 DEF CancelWrite, WorkerInv
  <2>2. Claimed' = Claimed
    BY <1>3 DEF CancelWrite, Claimed, Held
  <2>3. O!Close(cancelling[c]) \/ UNCHANGED O!vars
    BY <1>3, <2>1, <2>2, FinalStatusCloses DEF CancelWrite, Status
  <2>4. QED BY <2>1, <2>3 DEF O!Next
<1>14. ASSUME NEW m \in Messages, Mark(m) PROVE [O!Next]_O!vars
  <2>1. PICK mark \in Marks : status' = [status EXCEPT ![m] = mark]
    BY <1>14 DEF Mark
  <2>2. status[m] # "absent" /\ mark \in Status \ {"absent", "scheduled"}
    BY <1>14 DEF Mark, SentRowsHoldTheirId, Status, Marks
  <2>3. Claimed' = Claimed
    BY <1>14 DEF Mark, Claimed, Held
  <2>4. O!Close(m) \/ UNCHANGED O!vars
    BY <1>14, <2>1, <2>2, <2>3, FinalStatusCloses DEF Mark
  <2>5. QED BY <2>4 DEF O!Next
<1>4. CASE Poll
  <2>1. batch' \in SUBSET Messages /\ \A m \in batch' : status[m] = "scheduled"
    BY <1>4, FirstReadyScheduled DEF Poll
  <2>2. O!Claim(batch')
    BY <1>4, <2>1 DEF Poll, O!Claim, Phase, Held
  <2>3. QED BY <2>1, <2>2 DEF O!Next
<1>5. ASSUME NEW m \in Messages, Dispatch(m) PROVE [O!Next]_O!vars
  <2>1. CASE process = "running"
    <3>1. current' \in Send
      BY <1>5, <2>1 DEF Dispatch, Send
    <3>2. ASSUME NEW n \in Messages PROVE Held(n)' <=> Held(n)
      BY <1>5, <2>1, <3>1 DEF Dispatch, Held
    <3>3. UNCHANGED O!vars
      BY <1>5, <3>2 DEF Dispatch, O!vars, Phase
    <3>4. QED BY <3>3
  <2>2. CASE process # "running"
    <3>1. O!Abandon({m}, {})
      BY <1>5, <2>2 DEF Dispatch, O!Abandon, Phase, Held
    <3>2. QED BY <3>1 DEF O!Next
  <2>3. QED BY <2>1, <2>2
<1>6. CASE SendReturns
  <2>1. current.msg \in Messages /\ current.msg \notin batch
    BY <1>6 DEF SendReturns, WorkerInv, Send
  <2>2. copies[current.msg] <= unrecorded[current.msg]
    BY <1>6, <2>1 DEF SendReturns, CopyInv, Held, Excused
  <2>3. CASE current'.accepted
    <3>1. copies' = [copies EXCEPT ![current.msg] = @ + 1] /\ UNCHANGED <<status, unrecorded>>
      BY <1>6, <2>3 DEF SendReturns
    <3>2. Claimed' = Claimed \ {current.msg} /\ current.msg \in Claimed
      BY <1>6, <2>1 DEF SendReturns, Claimed, Held
    <3>3. O!Transmit(current.msg)
      BY <2>1, <2>2, <3>1, <3>2 DEF O!Transmit, Phase, Claimed
    <3>4. QED BY <2>1, <3>3 DEF O!Next
  <2>4. CASE ~current'.accepted
    <3>1. copies' = copies /\ UNCHANGED <<status, unrecorded>>
      BY <1>6, <2>4 DEF SendReturns
    <3>2. Claimed' = Claimed \ {current.msg}
      BY <1>6, <2>1 DEF SendReturns, Claimed, Held
    <3>3. O!Abandon({current.msg}, {})
      BY <2>1, <3>1, <3>2 DEF O!Abandon, Phase, Claimed
    <3>4. QED BY <2>1, <3>3 DEF O!Next
  <2>5. QED BY <2>3, <2>4
<1>7. CASE Record
  <2>1. current.msg \in Messages /\ status[current.msg] # "absent"
    BY <1>7 DEF Record, Returned, WorkerInv, Recording, Send
  <2>2. current.outcome \in Status \ {"absent", "scheduled"} /\ Claimed' = Claimed
    BY <1>7 DEF Record, Returned, Claimed, Held, Send, Status
  <2>3. O!Close(current.msg) \/ UNCHANGED O!vars
    BY <1>7, <2>1, <2>2, FinalStatusCloses DEF Record
  <2>4. QED BY <2>1, <2>3 DEF O!Next
<1>8. CASE RecordFails
  <2>1. {} \in SUBSET Messages /\ Claimed' = Claimed \ {}
    BY <1>8 DEF RecordFails, Returned, Claimed, Held
  <2>2. QED BY <1>8, <2>1, ForgettingAbandons DEF RecordFails, O!Next
<1>9. CASE Panics
  <2>1. Claimed \in SUBSET Messages /\ O!Abandon(Claimed, {})
    BY <1>9 DEF Panics, O!Abandon, Phase, Held, Claimed
  <2>2. QED BY <2>1 DEF O!Next
<1>10. CASE Exit \/ Crash
  <2>1. Claimed \in SUBSET Messages /\ Claimed' = Claimed \ Claimed
    BY <1>10 DEF Exit, Crash, Dies, Claimed, Held
  <2>2. QED BY <1>10, <2>1, ForgettingAbandons DEF Exit, Crash, Dies, O!Next
<1>11. CASE Stop \/ Restart \/ Tick
  BY <1>11, InvisibleStep DEF Stop, Restart, Tick
<1>12. CASE UNCHANGED vars
  BY <1>12, InvisibleStep DEF vars
<1> HIDE DEF IInv, TypeOK, rows, worker
<1>13. QED
  BY <1>1, <1>2, <1>3, <1>4, <1>5, <1>6, <1>7, <1>8, <1>9, <1>10, <1>11, <1>12, <1>14 DEF Next

\* The scheduler, its table, its faults and its restarts implement the outbox.
THEOREM SchedulerImplementsOutbox == Spec => ImplementsOutbox
<1>1. Init => O!Init
  BY DEF Init, O!Init, Phase, Held
<1>2. IInv /\ IInv' /\ [Next]_vars => [O!Next]_O!vars
  BY OutboxStep
<1>3. QED BY <1>1, <1>2, InductiveInvariant, PTL DEF Spec, ImplementsOutbox, O!Spec
=============================================================================
