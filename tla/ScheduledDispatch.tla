-------------------------- MODULE ScheduledDispatch --------------------------
(***************************************************************************)
(* Scheduled messages (internal/domain/message/service.go): the rows of    *)
(* the messages table a client schedules and cancels, the worker goroutine *)
(* that polls for due rows and sends them one after the other, the         *)
(* WhatsApp server behind the engine, the receipts and revocations that    *)
(* overwrite a row by its WhatsApp ID, and the stops and restarts of the   *)
(* process.  What causes a receipt is in MessageRecords; here one may come *)
(* at any time for any row that holds an ID.                               *)
(***************************************************************************)
EXTENDS Naturals, FiniteSets

CONSTANTS
  Messages,    \* the rows clients may schedule
  Clients,     \* HTTP requests that may cancel, each one at a time
  BatchLimit,  \* rows one poll fetches (50 in the code)
  MaxClock,    \* bound: the last instant of the clock
  MaxFaults,   \* bound: failed writes, panics, shutdowns and crashes, together
  NoMessage,   \* a client that is cancelling nothing
  NoSend       \* the worker is between two messages

ASSUME ScheduleAssumption ==
  /\ BatchLimit \in Nat \ {0}
  /\ MaxClock \in Nat
  /\ MaxFaults \in Nat
  /\ NoMessage \notin Messages

\* What a receipt or a revocation makes of a row.
Marks == {"delivered", "read", "revoked"}

Status == {"absent", "scheduled", "sent", "failed", "cancelled"} \cup Marks

\* A call of the engine for msg: still running, or returned and not yet
\* recorded.  accepted: WhatsApp has taken the message, whatever the call says.
Send == [msg : Messages, outcome : {"calling", "sent", "failed"}, accepted : BOOLEAN]

ASSUME NoSendAssumption == NoSend \notin Send

VARIABLES
  status,      \* messages.status of each row, "absent" before the insert
  at,          \* messages.scheduled_at
  hasId,       \* whether messages.whatsapp_message_id is set
  clock,       \* the database's NOW()
  process,     \* "running", "stopping" (worker context cancelled) or "down"
  batch,       \* the rest of the snapshot the worker is looping over
  current,     \* the message the worker is sending, or NoSend
  cancelling,  \* the row each client has read as scheduled and will overwrite
  copies,      \* history: how many copies of each message WhatsApp accepted
  unrecorded,  \* history: how many of them had their outcome never written
  faults       \* how many faults have happened

rows == <<status, at, hasId>>
worker == <<batch, current>>
vars == <<rows, clock, process, worker, cancelling, copies, unrecorded, faults>>

Init ==
  /\ status = [m \in Messages |-> "absent"]
  /\ at = [m \in Messages |-> 0]
  /\ hasId = [m \in Messages |-> FALSE]
  /\ clock = 0
  /\ process = "running"
  /\ batch = {}
  /\ current = NoSend
  /\ cancelling = [c \in Clients |-> NoMessage]
  /\ copies = [m \in Messages |-> 0]
  /\ unrecorded = [m \in Messages |-> 0]
  /\ faults = 0

Fault == faults < MaxFaults /\ faults' = faults + 1

\* The worker will still send m, or is doing so.
Held(m) == m \in batch \/ (current # NoSend /\ current.msg = m /\ current.outcome = "calling")

-----------------------------------------------------------------------------
(* Clients.                                                                *)

\* Faulty variant: the row is inserted as pending, as an immediate send is.
SchedulePending(m) ==
  /\ process = "running" /\ status[m] = "absent"
  /\ \E t \in (clock + 1) .. MaxClock : at' = [at EXCEPT ![m] = t]
  /\ status' = [status EXCEPT ![m] = "pending"]
  /\ UNCHANGED <<hasId, clock, process, worker, cancelling, copies, unrecorded, faults>>

\* SendText or SendMedia with a send time in the future: insert the row.
Schedule(m) ==
  /\ process = "running" /\ status[m] = "absent"
  /\ \E t \in (clock + 1) .. MaxClock : at' = [at EXCEPT ![m] = t]
  /\ status' = [status EXCEPT ![m] = "scheduled"]
  /\ UNCHANGED <<hasId, clock, process, worker, cancelling, copies, unrecorded, faults>>

\* CancelScheduled reads the row and goes on only if it is scheduled...
CancelRead(c, m) ==
  /\ process = "running" /\ cancelling[c] = NoMessage
  /\ status[m] = "scheduled"
  /\ cancelling' = [cancelling EXCEPT ![c] = m]
  /\ UNCHANGED <<rows, clock, process, worker, copies, unrecorded, faults>>

\* ...then overwrites its status, whatever it has become since.
CancelWrite(c) ==
  /\ process # "down" /\ cancelling[c] # NoMessage
  /\ status' = [status EXCEPT ![cancelling[c]] = "cancelled"]
  /\ cancelling' = [cancelling EXCEPT ![c] = NoMessage]
  /\ UNCHANGED <<at, hasId, clock, process, worker, copies, unrecorded, faults>>

\* The update fails, or the request times out before it.
CancelFails(c) ==
  /\ cancelling[c] # NoMessage
  /\ cancelling' = [cancelling EXCEPT ![c] = NoMessage]
  /\ UNCHANGED <<rows, clock, process, worker, copies, unrecorded, faults>>

\* UpdateStatusBulk by a delivered or read receipt, or UpdateStatus by a
\* revocation: every row with the WhatsApp ID is overwritten, whatever its status.
Mark(m) ==
  /\ process # "down" /\ hasId[m]
  /\ \E mark \in Marks : status' = [status EXCEPT ![m] = mark]
  /\ UNCHANGED <<at, hasId, clock, process, worker, cancelling, copies, unrecorded, faults>>

-----------------------------------------------------------------------------
(* The scheduler worker.                                                   *)

\* Faulty variant: a query that forgets the status condition.
ReadyWhateverStatus == {m \in Messages : status[m] # "absent" /\ at[m] <= clock}

\* Faulty variant: a query for exactly now, which a late poll misses.
ReadyOnlyNow == {m \in Messages : status[m] = "scheduled" /\ at[m] = clock}

\* ListScheduledReady's condition...
Ready == {m \in Messages : status[m] = "scheduled" /\ at[m] <= clock}

\* ...and its ORDER BY scheduled_at LIMIT: the order of equal times is open.
FirstReady == {B \in SUBSET Ready :
  /\ Cardinality(B) = IF Cardinality(Ready) < BatchLimit THEN Cardinality(Ready) ELSE BatchLimit
  /\ \A b \in B, r \in Ready \ B : at[b] <= at[r]}

\* Faulty variant: a tick does not wait for the previous batch to end.
PollOverlapping ==
  /\ process = "running" /\ batch = {}
  /\ batch' \in FirstReady
  /\ UNCHANGED <<rows, clock, process, current, cancelling, copies, unrecorded, faults>>

\* A tick of the ticker.  A query that fails (always, once the context is
\* cancelled) leaves everything as it is.
Poll ==
  /\ process = "running" /\ batch = {} /\ current = NoSend
  /\ batch' \in FirstReady
  /\ UNCHANGED <<rows, clock, process, current, cancelling, copies, unrecorded, faults>>

\* dispatchScheduled takes the next row of the snapshot and calls the engine.
\* Once the context is cancelled the rate limiter refuses the call.
Dispatch(m) ==
  /\ process # "down" /\ current = NoSend
  /\ m \in batch /\ \A o \in batch : at[m] <= at[o]
  /\ batch' = batch \ {m}
  /\ current' = [msg |-> m, accepted |-> FALSE,
                 outcome |-> IF process = "running" THEN "calling" ELSE "failed"]
  /\ UNCHANGED <<rows, clock, process, cancelling, copies, unrecorded, faults>>

\* The engine call returns.  WhatsApp may have taken a message whose call fails.
SendReturns ==
  /\ process # "down" /\ current # NoSend /\ current.outcome = "calling"
  /\ \E outcome \in {"sent", "failed"}, accepted \in BOOLEAN :
       /\ outcome = "sent" => accepted
       /\ current' = [msg |-> current.msg, outcome |-> outcome, accepted |-> accepted]
       /\ copies' = [copies EXCEPT ![current.msg] = @ + IF accepted THEN 1 ELSE 0]
  /\ UNCHANGED <<rows, clock, process, batch, cancelling, unrecorded, faults>>

Returned == current # NoSend /\ current.outcome # "calling"

\* The accepted copy of the message being sent, if any, goes unrecorded.
Forget ==
  unrecorded' = IF Returned /\ current.accepted
                THEN [unrecorded EXCEPT ![current.msg] = @ + 1] ELSE unrecorded

\* Faulty variant: the outcome of a sent message is not written.
RecordFailuresOnly ==
  /\ process = "running" /\ Returned
  /\ status' = IF current.outcome = "failed" THEN [status EXCEPT ![current.msg] = "failed"] ELSE status
  /\ current' = NoSend
  /\ UNCHANGED <<at, hasId, clock, process, batch, cancelling, copies, unrecorded, faults>>

\* Faulty variant: the WhatsApp ID is written for failed sends too.
RecordIdAlways ==
  /\ process = "running" /\ Returned
  /\ status' = [status EXCEPT ![current.msg] = current.outcome]
  /\ hasId' = [hasId EXCEPT ![current.msg] = TRUE]
  /\ current' = NoSend
  /\ UNCHANGED <<at, clock, process, batch, cancelling, copies, unrecorded, faults>>

\* UpdateAfterSend: the outcome overwrites the status, whatever it is; the
\* WhatsApp ID is set by a sent message and kept by any other.
Record ==
  /\ process = "running" /\ Returned
  /\ status' = [status EXCEPT ![current.msg] = current.outcome]
  /\ hasId' = [hasId EXCEPT ![current.msg] = @ \/ current.outcome = "sent"]
  /\ current' = NoSend
  /\ UNCHANGED <<at, clock, process, batch, cancelling, copies, unrecorded, faults>>

\* UpdateAfterSend fails: a database error, or the context is cancelled.  It is
\* logged, and the worker goes on.
RecordFails ==
  /\ process # "down" /\ Returned
  /\ IF process = "running" THEN Fault ELSE UNCHANGED faults
  /\ Forget
  /\ current' = NoSend
  /\ UNCHANGED <<rows, clock, process, batch, cancelling, copies>>

\* A panic below the engine call is recovered in StartSchedulerWorker: the rest
\* of the snapshot is dropped.
Panics ==
  /\ process # "down" /\ current # NoSend /\ current.outcome = "calling"
  /\ Fault
  /\ batch' = {} /\ current' = NoSend
  /\ UNCHANGED <<rows, clock, process, cancelling, copies, unrecorded>>

-----------------------------------------------------------------------------
(* The process and the clock.                                              *)

\* Graceful shutdown: the worker's context is cancelled.
Stop ==
  /\ process = "running"
  /\ Fault
  /\ process' = "stopping"
  /\ UNCHANGED <<rows, clock, worker, cancelling, copies, unrecorded>>

Dies ==
  /\ process' = "down"
  /\ batch' = {} /\ current' = NoSend
  /\ cancelling' = [c \in Clients |-> NoMessage]
  /\ Forget
  /\ UNCHANGED <<rows, clock, copies>>

\* main returns, whatever the worker is doing.
Exit == process = "stopping" /\ Dies /\ UNCHANGED faults

Crash == process = "running" /\ Fault /\ Dies

Restart ==
  /\ process = "down"
  /\ process' = "running"
  /\ UNCHANGED <<rows, clock, worker, cancelling, copies, unrecorded, faults>>

Tick ==
  /\ clock < MaxClock
  /\ clock' = clock + 1
  /\ UNCHANGED <<rows, process, worker, cancelling, copies, unrecorded, faults>>

Next ==
  \/ \E m \in Messages : Schedule(m) \/ Dispatch(m) \/ Mark(m)
  \/ \E c \in Clients, m \in Messages : CancelRead(c, m)
  \/ \E c \in Clients : CancelWrite(c) \/ CancelFails(c)
  \/ Poll \/ SendReturns \/ Record \/ RecordFails \/ Panics
  \/ Stop \/ Exit \/ Crash \/ Restart \/ Tick

\* The worker goroutine runs on, the engine call ends (whatsmeow gives up on an
\* answer), a stopping process exits and its container is started again.
\* Nothing is assumed of the clients, and no fault is bound to happen.
Fairness ==
  /\ WF_vars(Poll) /\ WF_vars(\E m \in Messages : Dispatch(m))
  /\ WF_vars(SendReturns) /\ WF_vars(Record)
  /\ WF_vars(Exit) /\ WF_vars(Restart)

Spec == Init /\ [][Next]_vars

FairSpec == Spec /\ Fairness

-----------------------------------------------------------------------------
(* Properties.                                                             *)

\* Every variable keeps its type, and the worker holds rows that exist.
TypeOK ==
  /\ status \in [Messages -> Status]
  /\ at \in [Messages -> 0 .. MaxClock]
  /\ hasId \in [Messages -> BOOLEAN]
  /\ clock \in 0 .. MaxClock
  /\ process \in {"running", "stopping", "down"}
  /\ batch \in SUBSET Messages
  /\ current \in Send \cup {NoSend}
  /\ cancelling \in [Clients -> Messages \cup {NoMessage}]
  /\ copies \in [Messages -> Nat]
  /\ unrecorded \in [Messages -> Nat]
  /\ faults \in 0 .. MaxFaults

\* A message reaches WhatsApp at most once, plus once for every accepted copy
\* whose outcome was lost to a failed update, a shutdown or a crash: neither the
\* polls of the worker nor the cancels of the clients make it send twice.
AtMostOnceUnlessUnrecorded == \A m \in Messages : copies[m] <= unrecorded[m] + 1

\* A row says sent, delivered, read or revoked only of a message WhatsApp took and
\* whose ID it holds; a row with an ID says one of these, or was cancelled by a
\* request that read it before the send: it never says failed or scheduled again.
SentRowsHoldTheirId ==
  \A m \in Messages :
    /\ status[m] \in {"sent"} \cup Marks => hasId[m]
    /\ hasId[m] => copies[m] > 0 /\ status[m] \in {"sent", "cancelled"} \cup Marks

\* Once a row is cancelled and the worker does not hold it already, it is never
\* sent: no later poll, restart or retry takes it up again.  It stays cancelled
\* unless the cancel overwrote a message that had been sent: such a row keeps its
\* WhatsApp ID, and receipts and revocations find it by that.
CancelFinalUnlessHeld ==
  [][\A m \in Messages :
       status[m] = "cancelled" /\ ~Held(m) /\ ~(Returned /\ current.msg = m)
       => /\ ~Held(m)' /\ copies'[m] = copies[m]
          /\ status'[m] = "cancelled" \/ (hasId[m] /\ status'[m] \in Marks)]_vars

\* CancelScheduled "Returns an error if the message is ... not scheduled": no
\* row is turned to cancelled once the worker has recorded its outcome.
CancelsOnlyScheduled ==
  [][\A m \in Messages :
       status'[m] = "cancelled" => status[m] \in {"scheduled", "cancelled"}]_status

\* Every due message is eventually sent, failed or cancelled, through failed
\* updates, panics, shutdowns and crashes as long as these come to an end.
DueMessagesSettle ==
  \A m \in Messages : (status[m] = "scheduled" /\ at[m] <= clock) ~> status[m] # "scheduled"

-----------------------------------------------------------------------------
(* The worker and its table implement an outbox.                           *)

Phase(m) == IF status[m] = "absent" THEN "absent"
            ELSE IF status[m] = "scheduled" THEN "open" ELSE "closed"

O == INSTANCE Outbox WITH
       phase <- [m \in Messages |-> Phase(m)],
       claimed <- {m \in Messages : Held(m)},
       excuses <- unrecorded

\* Every step of the scheduler is a step of Outbox, or leaves it alone.
ImplementsOutbox == O!Spec
=============================================================================
