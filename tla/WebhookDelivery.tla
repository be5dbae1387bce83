--------------------------- MODULE WebhookDelivery ---------------------------
(***************************************************************************)
(* Webhook deliveries of one instance (internal/domain/webhook/service.go):*)
(* the handler that queues each engine event, the pool of workers that     *)
(* posts it to the endpoint and retries, the seconds a delivery may take,  *)
(* the settings that say whether the endpoint wants the event, and the     *)
(* requests that patch those settings (internal/api/instance/handler.go).  *)
(* The queue and the workers are in memory: a stop of the process, orderly *)
(* or not, loses them.                                                     *)
(***************************************************************************)
EXTENDS Integers, Sequences, FiniteSets

CONSTANTS
  Events,     \* engine events of the instance
  Workers,    \* delivery workers (10 in the code)
  Patchers,   \* requests that patch the settings, one patch at a time each
  Capacity,   \* jobs the queue holds (1000 in the code)
  Attempts,   \* POSTs per delivery (3 in the code)
  Deadline,   \* seconds until the context of a delivery expires (30)
  Timeout,    \* seconds the HTTP client waits for one answer (10)
  Durations,  \* bound: the seconds a settings read, a lookup or an answer may take
  MaxFaults,  \* bound: failed reads, panics and stops, together
  Idle,       \* a worker waiting for a job
  NoPatch     \* a patcher waiting for a request

ASSUME DeliveryAssumption ==
  /\ Capacity \in Nat \ {0} /\ Attempts \in Nat \ {0}
  /\ Deadline \in Nat \ {0} /\ Timeout \in Nat \ {0}
  /\ Durations \subseteq Nat
  /\ MaxFaults \in Nat

\* Of the settings, those that decide whether an event is wanted: a webhook URL
\* is set, and the event filter lets the event pass.
Settings == [url : BOOLEAN, filter : BOOLEAN]

\* A patch carries one field and holds the settings it has read.
Patch == [field : {"url", "filter"}, value : BOOLEAN, read : Settings]

\* A delivery under way: attempt is the POST to be made next, 0 before the
\* settings are read; spent is the seconds since its context was created, lookup
\* those of them that the lookup of the endpoint's host took.
Job == [event : Events, attempt : 0 .. Attempts, spent : Nat, lookup : Nat]

\* How an event has ended.  "unraised" and "open" ones have not; "delivered" and
\* "failed" are those that WebhookDeliveries and WebhookFailures count.
Verdict == {"unraised", "open", "dropped", "skipped", "delivered", "failed", "lost"}

ASSUME NoValueAssumption == Idle \notin Job /\ NoPatch \notin Patch

VARIABLES
  running,   \* whether the process is up
  handling,  \* events whose handler goroutine has still to run
  queue,     \* the jobs channel
  job,       \* what each worker is delivering
  settings,  \* the row's settings
  patching,  \* the patch each patcher is merging
  verdict,   \* history: how each event has ended
  received,  \* history: the POSTs of each event the endpoint has got
  late,      \* POSTs the worker has given up on that may still arrive
  faults     \* how many faults have happened

delivery == <<handling, queue, job>>
endpoint == <<received, late>>
patches == <<settings, patching>>
vars == <<running, delivery, patches, verdict, endpoint, faults>>

Init ==
  /\ running = TRUE
  /\ handling = {} /\ queue = <<>>
  /\ job = [w \in Workers |-> Idle]
  /\ settings \in Settings
  /\ patching = [p \in Patchers |-> NoPatch]
  /\ verdict = [e \in Events |-> "unraised"]
  /\ received = [e \in Events |-> 0] /\ late = [e \in Events |-> 0]
  /\ faults = 0

Fault == faults < MaxFaults /\ faults' = faults + 1

Wanted == settings.url /\ settings.filter

Least(a, b) == IF a < b THEN a ELSE b

-----------------------------------------------------------------------------
(* Events.                                                                 *)

\* The engine starts the handler's goroutine.
Raise(e) ==
  /\ running /\ verdict[e] = "unraised"
  /\ verdict' = [verdict EXCEPT ![e] = "open"]
  /\ handling' = handling \cup {e}
  /\ UNCHANGED <<running, queue, job, patches, endpoint, faults>>

\* Faulty variant: the event is queued, and counted as dropped all the same.
EnqueueDropping(e) ==
  /\ e \in handling /\ handling' = handling \ {e}
  /\ queue' = Append(queue, e)
  /\ verdict' = IF Len(queue) < Capacity THEN verdict ELSE [verdict EXCEPT ![e] = "dropped"]
  /\ UNCHANGED <<running, job, patches, endpoint, faults>>

\* Faulty variant: the queue takes one event more than it has room for.
EnqueueOverflowing(e) ==
  /\ e \in handling /\ handling' = handling \ {e}
  /\ IF Len(queue) <= Capacity
     THEN queue' = Append(queue, e) /\ UNCHANGED verdict
     ELSE verdict' = [verdict EXCEPT ![e] = "dropped"] /\ UNCHANGED queue
  /\ UNCHANGED <<running, job, patches, endpoint, faults>>

\* handleEngineEvent: queue the event, or drop it when the queue is full.
Enqueue(e) ==
  /\ e \in handling /\ handling' = handling \ {e}
  /\ IF Len(queue) < Capacity
     THEN queue' = Append(queue, e) /\ UNCHANGED verdict
     ELSE verdict' = [verdict EXCEPT ![e] = "dropped"] /\ UNCHANGED queue
  /\ UNCHANGED <<running, job, patches, endpoint, faults>>

-----------------------------------------------------------------------------
(* Workers.                                                                *)

Take(w) ==
  /\ job[w] = Idle /\ queue # <<>>
  /\ job' = [job EXCEPT ![w] = [event |-> Head(queue), attempt |-> 0, spent |-> 0, lookup |-> 0]]
  /\ queue' = Tail(queue)
  /\ UNCHANGED <<running, handling, patches, verdict, endpoint, faults>>

Reading(w) == job[w] # Idle /\ job[w].attempt = 0

Posting(w) == job[w] # Idle /\ job[w].attempt > 0

\* deliver returns: the worker is free for another job.
Finish(w, v) ==
  /\ job' = [job EXCEPT ![w] = Idle]
  /\ verdict' = [verdict EXCEPT ![job[w].event] = v]

\* The settings are read once, before the first attempt, within the context; then
\* ValidateWebhookURL looks the host up, for as long as the resolver takes: the
\* context does not end the lookup, but counts on meanwhile.
ReadSettings(w) ==
  /\ Reading(w)
  /\ IF Wanted
     THEN /\ \E t, l \in Durations :
               /\ t < Deadline
               /\ job' = [job EXCEPT ![w].attempt = 1, ![w].spent = t + l, ![w].lookup = l]
          /\ UNCHANGED verdict
     ELSE Finish(w, "skipped")
  /\ UNCHANGED <<running, handling, queue, patches, endpoint, faults>>

\* The read fails, the instance is gone, or the context expires first; or the host
\* is not found, or is a private one.
ReadFails(w) ==
  /\ Reading(w)
  /\ Finish(w, "skipped")
  /\ Fault
  /\ UNCHANGED <<running, handling, queue, patches, endpoint>>

\* Faulty variant: the attempts are counted from one, and one too many is made.
FailAttemptOffByOne(w, t) ==
  LET n == job[w].attempt IN
  IF n <= Attempts
  THEN /\ job' = [job EXCEPT ![w].attempt = n + 1, ![w].spent = @ + t + n * n]
       /\ UNCHANGED verdict
  ELSE Finish(w, "failed")

\* The attempt failed after t seconds: sleep attempt^2 seconds before the next
\* one, whether or not the context has expired, or give up.
FailAttempt(w, t) ==
  LET n == job[w].attempt IN
  IF n < Attempts
  THEN /\ job' = [job EXCEPT ![w].attempt = n + 1, ![w].spent = @ + t + n * n]
       /\ UNCHANGED verdict
  ELSE Finish(w, "failed")

\* Faulty variant: the loop goes on after a delivery (no return).
AnsweredWithoutReturn(w) ==
  /\ Posting(w)
  /\ received' = [received EXCEPT ![job[w].event] = @ + 1]
  /\ verdict' = [verdict EXCEPT ![job[w].event] = "delivered"]
  /\ job' = [job EXCEPT ![w] = IF @.attempt < Attempts THEN [@ EXCEPT !.attempt = @ + 1] ELSE Idle]
  /\ UNCHANGED <<running, handling, queue, patches, late, faults>>

\* The endpoint answers in time.
Answered(w) ==
  /\ Posting(w)
  /\ received' = [received EXCEPT ![job[w].event] = @ + 1]
  /\ \E t \in Durations :
       /\ t < Timeout /\ job[w].spent + t < Deadline
       /\ \/ Finish(w, "delivered")  \* below 500: even a refusal is a delivery
          \/ FailAttempt(w, t)       \* 500 and above
  /\ UNCHANGED <<running, handling, queue, patches, late, faults>>

\* No connection, or none any more: nothing reaches the endpoint.
Unreachable(w) ==
  /\ Posting(w)
  /\ \E t \in Durations :
       /\ t < Timeout /\ job[w].spent + t < Deadline
       /\ FailAttempt(w, t)
  /\ UNCHANGED <<running, handling, queue, patches, endpoint, faults>>

\* Faulty variant: the request does not carry the context, so only the client's
\* own timeout ends it.
NoAnswerInTimeoutOnly(w) ==
  /\ Posting(w) /\ job[w].spent < Deadline
  /\ late' = [late EXCEPT ![job[w].event] = @ + 1]
  /\ FailAttempt(w, Timeout)
  /\ UNCHANGED <<running, handling, queue, patches, received, faults>>

\* Faulty variant: a request that was sent is taken for delivered.
NoAnswerIsDelivery(w) ==
  /\ Posting(w) /\ job[w].spent < Deadline
  /\ late' = [late EXCEPT ![job[w].event] = @ + 1]
  /\ Finish(w, "delivered")
  /\ UNCHANGED <<running, handling, queue, patches, received, faults>>

\* The client's timeout or the context ends the wait for an answer; the request
\* is on its way all the same.
NoAnswer(w) ==
  /\ Posting(w) /\ job[w].spent < Deadline
  /\ late' = [late EXCEPT ![job[w].event] = @ + 1]
  /\ FailAttempt(w, Least(Timeout, Deadline - job[w].spent))
  /\ UNCHANGED <<running, handling, queue, patches, received, faults>>

\* Faulty variant: an attempt that cannot be made does not count as one.
ExpiredIsNoAttempt(w) ==
  /\ Posting(w) /\ job[w].spent >= Deadline
  /\ UNCHANGED vars

\* The context has expired: the attempt fails before anything is sent.
Expired(w) ==
  /\ Posting(w) /\ job[w].spent >= Deadline
  /\ FailAttempt(w, 0)
  /\ UNCHANGED <<running, handling, queue, patches, endpoint, faults>>

\* deliverSafe recovers a panic: the event is lost, the worker is not.
Panic(w) ==
  /\ Posting(w)
  /\ Finish(w, "lost")
  /\ Fault
  /\ UNCHANGED <<running, handling, queue, patches, endpoint>>

Work(w) == ReadSettings(w) \/ Answered(w) \/ Unreachable(w) \/ NoAnswer(w) \/ Expired(w)

\* A request the worker has given up on gets through.
ArriveLate(e) ==
  /\ late[e] > 0
  /\ late' = [late EXCEPT ![e] = @ - 1]
  /\ received' = [received EXCEPT ![e] = @ + 1]
  /\ UNCHANGED <<running, delivery, patches, verdict, faults>>

-----------------------------------------------------------------------------
(* Settings: UpdateSettings of the HTTP handler.                           *)

\* Load all of the settings...
LoadSettings(p) ==
  /\ running /\ patching[p] = NoPatch
  /\ \E field \in {"url", "filter"}, value \in BOOLEAN :
       patching' = [patching EXCEPT ![p] = [field |-> field, value |-> value, read |-> settings]]
  /\ UNCHANGED <<running, delivery, settings, verdict, endpoint, faults>>

\* ...and store all of them, with the patched field replaced.
StoreSettings(p) ==
  /\ patching[p] # NoPatch
  /\ settings' = [patching[p].read EXCEPT ![patching[p].field] = patching[p].value]
  /\ patching' = [patching EXCEPT ![p] = NoPatch]
  /\ UNCHANGED <<running, delivery, verdict, endpoint, faults>>

-----------------------------------------------------------------------------
(* The process.                                                            *)

InHand == handling \cup {queue[k] : k \in DOMAIN queue} \cup
          {job[w].event : w \in {v \in Workers : job[v] # Idle}}

\* A crash, or the end of main: nothing drains the queue or waits for a worker.
Stop ==
  /\ running /\ running' = FALSE
  /\ Fault
  /\ handling' = {} /\ queue' = <<>>
  /\ job' = [w \in Workers |-> Idle]
  /\ patching' = [p \in Patchers |-> NoPatch]
  /\ verdict' = [e \in Events |-> IF e \in InHand THEN "lost" ELSE verdict[e]]
  /\ late' = [e \in Events |->
       IF \E w \in Workers : Posting(w) /\ job[w].event = e THEN late[e] + 1 ELSE late[e]]
  /\ UNCHANGED <<settings, received>>

Start ==
  /\ ~running /\ running' = TRUE
  /\ UNCHANGED <<delivery, patches, verdict, endpoint, faults>>

Next ==
  \/ \E e \in Events : Raise(e) \/ Enqueue(e) \/ ArriveLate(e)
  \/ \E w \in Workers : Take(w) \/ Work(w) \/ ReadFails(w) \/ Panic(w)
  \/ \E p \in Patchers : LoadSettings(p) \/ StoreSettings(p)
  \/ Stop \/ Start

\* Goroutines run, and no call lasts longer than its context, or its resolver.
Fairness ==
  /\ \A e \in Events : WF_vars(Enqueue(e))
  /\ \A w \in Workers : WF_vars(Take(w) \/ Work(w))

Spec == Init /\ [][Next]_vars

FairSpec == Spec /\ Fairness

-----------------------------------------------------------------------------
(* Properties.                                                             *)

\* Every variable keeps its type.
TypeOK ==
  /\ running \in BOOLEAN
  /\ handling \subseteq Events
  /\ queue \in Seq(Events) /\ Len(queue) <= Capacity
  /\ job \in [Workers -> Job \cup {Idle}]
  /\ settings \in Settings
  /\ patching \in [Patchers -> Patch \cup {NoPatch}]
  /\ verdict \in [Events -> Verdict]
  /\ received \in [Events -> Nat] /\ late \in [Events -> Nat]
  /\ faults \in 0 .. MaxFaults

\* In how many places the service holds e.
Places(e) ==
  (IF e \in handling THEN 1 ELSE 0)
    + Cardinality({k \in DOMAIN queue : queue[k] = e})
    + Cardinality({w \in Workers : job[w] # Idle /\ job[w].event = e})

\* The service holds an event in one place exactly while the event is open: none
\* vanishes without a verdict, is worked on twice, or is delivered after one.
OpenIsInOnePlace ==
  \A e \in Events : Places(e) = (IF verdict[e] = "open" THEN 1 ELSE 0)

\* The endpoint gets an event at most once per attempt, however many answers are
\* late, and even when the process stops in the middle of an attempt.
ReceivedAtMostAttempts == \A e \in Events : received[e] + late[e] <= Attempts

\* A delivery the service counts has reached the endpoint; an event it dropped or
\* found unwanted has not, and never will.
VerdictMatchesReceipt ==
  \A e \in Events :
    /\ verdict[e] = "delivered" => received[e] > 0
    /\ verdict[e] \in {"dropped", "skipped"} => received[e] + late[e] = 0

\* The seconds the retries sleep: 1 + 4 with three attempts.
Backoffs[n \in 1 .. Attempts] == IF n = 1 THEN 0 ELSE Backoffs[n - 1] + (n - 1) * (n - 1)

\* No delivery keeps a worker longer than its context lives, its retries sleep and
\* the one lookup of its host takes, however slow the answers: the lookup is the
\* only call that can outlast the context.
WorkerIsFreedInTime ==
  \A w \in Workers :
    job[w] # Idle => job[w].spent <= Deadline + job[w].lookup + Backoffs[Attempts]

\* Every event that is raised gets a verdict.
EventsSettle == \A e \in Events : verdict[e] = "open" ~> verdict[e] # "open"

\* The handler merges "only ... fields that were actually sent": storing a patch
\* changes no other field.
UnsentFieldsAreKept ==
  [][\A p \in Patchers, f \in {"url", "filter"} :
       StoreSettings(p) /\ f # patching[p].field => settings'[f] = settings[f]]_vars

-----------------------------------------------------------------------------
(* The service keeps the promise of Deliveries.                            *)

D == INSTANCE Deliveries WITH pending <- late

\* Every step of queue, workers and process is one that the endpoint's owner may
\* see, or one he does not: a verdict is final, and nothing is posted after it.
ImplementsDeliveries == D!Spec
=============================================================================
