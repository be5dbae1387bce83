------------------------- MODULE WebhookDeliveryProofs -------------------------
(***************************************************************************)
(* Proofs about WebhookDelivery for any events, workers, patchers, queue   *)
(* capacity, attempts and durations: its type, that the endpoint gets no   *)
(* event more often than there are attempts, and that verdicts are true.   *)
(* The argument: an event is in one place at a time, so that only the      *)
(* worker that holds it adds to its POSTs, one per attempt.                *)
(***************************************************************************)
EXTENDS WebhookDelivery, FiniteSetTheorems, WellFoundedInduction, TLAPS

Queued(e) == \E k \in DOMAIN queue : queue[k] = e

Busy(w) == job[w] # Idle

Posts(e) == received[e] + late[e]

\* An event that is held is open, and held in one place: OpenIsInOnePlace without
\* the counting.
OnePlace ==
  /\ \A e \in handling : verdict[e] = "open" /\ ~Queued(e)
  /\ \A k, l \in DOMAIN queue : queue[k] = queue[l] => k = l
  /\ \A k \in DOMAIN queue : verdict[queue[k]] = "open"
  /\ \A w \in Workers :
       Busy(w) => verdict[job[w].event] = "open" /\ job[w].event \notin handling /\ ~Queued(job[w].event)
  /\ \A v, w \in Workers : Busy(v) /\ Busy(w) /\ job[v].event = job[w].event => v = w

\* An event that has not been worked on, or is not wanted, has not been posted...
UntriedInv ==
  \A e \in Events :
    verdict[e] \in {"unraised", "dropped", "skipped"} \/ e \in handling \/ Queued(e) => Posts(e) = 0

\* ...and one that is being posted was posted once for each attempt made, at most.
PostingInv ==
  \A w \in Workers :
    Busy(w) => IF job[w].attempt = 0 THEN Posts(job[w].event) = 0 ELSE Posts(job[w].event) < job[w].attempt

DeliveredInv == \A e \in Events : verdict[e] = "delivered" => received[e] > 0

CountInv == UntriedInv /\ PostingInv /\ ReceivedAtMostAttempts /\ DeliveredInv

IInv == TypeOK /\ OnePlace /\ CountInv

-----------------------------------------------------------------------------

\* In a step of the worker w only the POSTs of its own event change.
OnlyItsPosts(w) ==
  /\ received' \in [Events -> Nat] /\ late' \in [Events -> Nat]
  /\ \A e \in Events \ {job[w].event} : received'[e] = received[e] /\ late'[e] = late[e]

\* What the invariant says of a busy worker's job.
LEMMA BusyJob ==
  ASSUME TypeOK, NEW w \in Workers, Busy(w)
  PROVE  job[w] \in Job /\ job[w].event \in Events /\ job[w].attempt \in 0 .. Attempts
         /\ job[w].spent \in Nat /\ job[w].lookup \in Nat
BY DEF TypeOK, Busy, Job

\* A worker goes on to the next attempt after at most one POST in the one it made.
LEMMA Advance ==
  ASSUME IInv, NEW w \in Workers, Busy(w), NEW j \in Job,
         j.event = job[w].event, j.attempt = job[w].attempt + 1,
         job' = [job EXCEPT ![w] = j],
         UNCHANGED <<running, handling, queue, patches, verdict>>, faults' \in 0 .. MaxFaults,
         OnlyItsPosts(w), received'[job[w].event] + late'[job[w].event] <= job[w].attempt,
         received'[job[w].event] >= received[job[w].event]
  PROVE  IInv'
<1> DEFINE e0 == job[w].event
<1>0. job[w] \in Job /\ e0 \in Events /\ job[w].attempt \in 0 .. Attempts
  BY BusyJob DEF IInv
<1>1. j # Idle BY NoValueAssumption
<1>2. /\ job \in [Workers -> Job \cup {Idle}] /\ job' \in [Workers -> Job \cup {Idle}]
      /\ job'[w] = j /\ \A v \in Workers \ {w} : job'[v] = job[v]
  BY DEF IInv, TypeOK
<1>3. \A v \in Workers : Busy(v)' <=> Busy(v)
  BY <1>1, <1>2 DEF Busy
<1>4. \A v \in Workers : Busy(v) => job'[v].event = job[v].event
  BY <1>2
<1>5. TypeOK'
  BY <1>2 DEF IInv, TypeOK, patches, OnlyItsPosts
<1>6. OnePlace'
  <2>1. \A e : Queued(e)' <=> Queued(e) BY DEF Queued
  <2>2. QED BY <1>3, <1>4, <2>1 DEF IInv, OnePlace
<1>7. CountInv'
  <2>0. verdict[e0] = "open" /\ e0 \notin handling /\ ~Queued(e0) BY DEF IInv, OnePlace
  <2>1. \A e \in Events \ {e0} : Posts(e)' = Posts(e) BY DEF OnlyItsPosts, Posts
  <2>2. UntriedInv'
    <3>1. \A e : Queued(e)' <=> Queued(e) BY DEF Queued
    <3>2. QED BY <2>0, <2>1, <3>1 DEF IInv, CountInv, UntriedInv
  <2>3. PostingInv'
    <3>1. Posts(e0)' < job'[w].attempt /\ job'[w].attempt # 0 /\ job'[w].event = e0
      BY <1>0, <1>2 DEF OnlyItsPosts, Posts
    <3>2. \A v \in Workers \ {w} : Busy(v) => job[v].event \in Events \ {e0}
      BY BusyJob DEF IInv, OnePlace
    <3>3. ASSUME NEW v \in Workers \ {w}, Busy(v)'
          PROVE  IF job'[v].attempt = 0 THEN Posts(job[v].event)' = 0 ELSE Posts(job[v].event)' < job'[v].attempt
      BY <1>2, <1>3, <2>1, <3>2, <3>3 DEF IInv, CountInv, PostingInv
    <3>4. \A v \in Workers \ {w} : job'[v] = job[v] BY <1>2
    <3>5. ASSUME NEW v \in Workers, Busy(v)'
          PROVE  (IF job[v].attempt = 0 THEN Posts(job[v].event) = 0 ELSE Posts(job[v].event) < job[v].attempt)'
      <4>1. CASE v = w BY <3>1, <4>1 DEF Posts
      <4>2. CASE v # w BY <3>3, <3>4, <3>5, <4>2 DEF Posts
      <4>3. QED BY <4>1, <4>2
    <3>6. QED BY <3>5 DEF PostingInv
  <2>4. ReceivedAtMostAttempts'
    <3>1. \A e \in Events \ {e0} : Posts(e)' <= Attempts
      BY <2>1 DEF IInv, CountInv, ReceivedAtMostAttempts, Posts
    <3>2. Posts(e0)' <= Attempts
      BY <1>0, DeliveryAssumption DEF OnlyItsPosts, Posts
    <3>3. QED BY <3>1, <3>2 DEF ReceivedAtMostAttempts, Posts
  <2>5. DeliveredInv'
    BY <2>0 DEF IInv, CountInv, DeliveredInv, OnlyItsPosts
  <2>6. QED BY <2>2, <2>3, <2>4, <2>5 DEF CountInv
<1>8. QED BY <1>5, <1>6, <1>7 DEF IInv

\* A worker ends its delivery with a verdict that its POSTs bear out.
LEMMA Finished ==
  ASSUME IInv, NEW w \in Workers, Busy(w), NEW v \in {"skipped", "delivered", "failed", "lost"},
         Finish(w, v),
         UNCHANGED <<running, handling, queue, patches>>, faults' \in 0 .. MaxFaults,
         OnlyItsPosts(w), received'[job[w].event] + late'[job[w].event] <= Attempts,
         v = "skipped" => received'[job[w].event] + late'[job[w].event] = 0,
         v = "delivered" => received'[job[w].event] > 0
  PROVE  IInv'
<1> DEFINE e0 == job[w].event
<1>0. e0 \in Events
  BY BusyJob DEF IInv
<1>1. /\ job \in [Workers -> Job \cup {Idle}] /\ job' \in [Workers -> Job \cup {Idle}]
      /\ job'[w] = Idle /\ \A u \in Workers \ {w} : job'[u] = job[u]
  BY DEF IInv, TypeOK, Finish
<1>2. /\ verdict \in [Events -> Verdict] /\ verdict' \in [Events -> Verdict]
      /\ verdict'[e0] = v /\ \A e \in Events \ {e0} : verdict'[e] = verdict[e]
  BY <1>0 DEF IInv, TypeOK, Finish, Verdict
<1>3. ~Busy(w)' /\ \A u \in Workers \ {w} : Busy(u)' <=> Busy(u)
  BY <1>1 DEF Busy
<1>4. e0 \notin handling /\ ~Queued(e0) /\ \A e : Queued(e)' <=> Queued(e)
  BY DEF IInv, OnePlace, Queued
<1>5. \A u \in Workers \ {w} : Busy(u) => job[u].event \in Events \ {e0}
  BY BusyJob DEF IInv, OnePlace
<1>6. TypeOK'
  BY <1>1, <1>2 DEF IInv, TypeOK, patches, OnlyItsPosts
<1>7. OnePlace'
  <2>1. handling \subseteq Events /\ \A k \in DOMAIN queue : queue[k] \in Events
    BY DEF IInv, TypeOK
  <2>2. \A e \in handling' : verdict'[e] = "open" /\ ~Queued(e)'
    BY <1>2, <1>4, <2>1 DEF IInv, OnePlace
  <2>3. \A k \in DOMAIN queue' : verdict'[queue'[k]] = "open"
    BY <1>2, <1>4, <2>1 DEF IInv, OnePlace, Queued
  <2>4. \A u \in Workers \ {w} :
          Busy(u)' => verdict'[job'[u].event] = "open" /\ job'[u].event \notin handling' /\ ~Queued(job[u].event)'
    BY <1>1, <1>2, <1>3, <1>4, <1>5 DEF IInv, OnePlace
  <2>5. \A u \in Workers : Busy(u)' => u \in Workers \ {w} BY <1>3
  <2>6. QED BY <1>1, <1>3, <2>2, <2>3, <2>4, <2>5 DEF IInv, OnePlace, Queued
<1>8. CountInv'
  <2>1. \A e \in Events \ {e0} : Posts(e)' = Posts(e) BY DEF OnlyItsPosts, Posts
  <2>2. UntriedInv'
    <3>1. ASSUME NEW e \in Events,
                 (verdict[e] \in {"unraised", "dropped", "skipped"} \/ e \in handling \/ Queued(e))'
          PROVE  Posts(e)' = 0
      <4>1. CASE e = e0
        <5>1. v = "skipped" BY <1>2, <1>4, <3>1, <4>1
        <5>2. QED BY <4>1, <5>1 DEF Posts
      <4>2. CASE e # e0
        BY <1>2, <1>4, <2>1, <3>1, <4>2 DEF IInv, CountInv, UntriedInv
      <4>3. QED BY <4>1, <4>2
    <3>2. QED BY <3>1 DEF UntriedInv
  <2>3. PostingInv'
    <3>1. ASSUME NEW u \in Workers, Busy(u)'
          PROVE  (IF job[u].attempt = 0 THEN Posts(job[u].event) = 0 ELSE Posts(job[u].event) < job[u].attempt)'
      <4>1. u # w /\ Busy(u) /\ job'[u] = job[u] /\ job[u].event \in Events \ {e0} BY <1>1, <1>3, <1>5, <3>1
      <4>3. received'[job[u].event] = received[job[u].event] /\ late'[job[u].event] = late[job[u].event]
        BY <4>1 DEF OnlyItsPosts
      <4>4. QED BY <4>1, <4>3 DEF IInv, CountInv, PostingInv, Posts
    <3>2. QED BY <3>1 DEF PostingInv
  <2>4. ReceivedAtMostAttempts'
    <3>1. \A e \in Events \ {e0} : Posts(e)' <= Attempts
      BY <2>1 DEF IInv, CountInv, ReceivedAtMostAttempts, Posts
    <3>2. QED BY <3>1 DEF ReceivedAtMostAttempts, Posts
  <2>5. DeliveredInv'
    BY <1>2 DEF IInv, CountInv, DeliveredInv, OnlyItsPosts
  <2>6. QED BY <2>2, <2>3, <2>4, <2>5 DEF CountInv
<1>9. QED BY <1>6, <1>7, <1>8 DEF IInv

\* An attempt that failed after at most one POST keeps the invariant.
LEMMA FailedAttempt ==
  ASSUME IInv, NEW w \in Workers, Posting(w), NEW t \in Nat, FailAttempt(w, t),
         UNCHANGED <<running, handling, queue, patches, faults>>,
         OnlyItsPosts(w),
         received'[job[w].event] + late'[job[w].event] <= received[job[w].event] + late[job[w].event] + 1,
         received'[job[w].event] >= received[job[w].event]
  PROVE  IInv'
<1> DEFINE e0 == job[w].event
           n == job[w].attempt
<1>1. /\ Busy(w) /\ n # 0 /\ job[w] \in Job /\ e0 \in Events /\ n \in 0 .. Attempts
      /\ job[w].spent \in Nat /\ job[w].lookup \in Nat /\ job \in [Workers -> Job \cup {Idle}]
  BY BusyJob DEF IInv, Posting, Busy, TypeOK
<1>2. Posts(e0) < n BY <1>1 DEF IInv, CountInv, PostingInv
<1>3. received'[e0] + late'[e0] <= n
  BY <1>1, <1>2 DEF OnlyItsPosts, Posts, IInv, TypeOK
<1>4. faults' \in 0 .. MaxFaults BY DEF IInv, TypeOK
<1>5. CASE n < Attempts
  <2> DEFINE j == [event |-> e0, attempt |-> n + 1, spent |-> job[w].spent + t + n * n,
                   lookup |-> job[w].lookup]
  <2>1. n * n \in Nat BY <1>1
  <2>2. j \in Job BY <1>1, <1>5, <2>1, DeliveryAssumption DEF Job
  <2>3. job' = [job EXCEPT ![w] = j] /\ UNCHANGED verdict
    BY <1>1, <1>5 DEF FailAttempt, Job
  <2>4. QED BY <1>1, <1>3, <1>4, <2>2, <2>3, Advance
<1>6. CASE ~(n < Attempts)
  <2>1. Finish(w, "failed") BY <1>6 DEF FailAttempt
  <2>2. received'[e0] + late'[e0] <= Attempts
    BY <1>1, <1>3, DeliveryAssumption DEF OnlyItsPosts
  <2>3. QED BY <1>1, <1>4, <2>1, <2>2, Finished
<1>7. QED BY <1>5, <1>6

\* What a wanted event's job is when its settings are read and its host is found.
LEMMA ReadSpends ==
  ASSUME TypeOK, NEW w \in Workers, ReadSettings(w), Wanted
  PROVE  /\ Busy(w) /\ job[w].attempt = 0
         /\ UNCHANGED <<running, handling, queue, patches, verdict, endpoint, faults>>
         /\ \E k, l \in Nat :
              /\ k <= Deadline + l
              /\ job' = [job EXCEPT ![w] = [event |-> job[w].event, attempt |-> 1, spent |-> k, lookup |-> l]]
<1>1. PICK t, l \in Durations :
        t < Deadline /\ job' = [job EXCEPT ![w].attempt = 1, ![w].spent = t + l, ![w].lookup = l]
  BY DEF ReadSettings
<1>2. t \in Nat /\ l \in Nat /\ Deadline \in Nat
  BY DeliveryAssumption
<1>3. t + l \in Nat /\ t + l <= Deadline + l
  BY <1>1, <1>2
<1>4. Reading(w) /\ UNCHANGED <<running, handling, queue, patches, verdict, endpoint, faults>>
  BY DEF ReadSettings
<1>5. Busy(w) /\ job[w].attempt = 0
  BY <1>4 DEF Reading, Busy
<1>6. job[w] \in Job /\ job \in [Workers -> Job \cup {Idle}]
  BY <1>5, BusyJob DEF TypeOK
<1>7. ASSUME NEW k
      PROVE  job' = [job EXCEPT ![w].attempt = 1, ![w].spent = k, ![w].lookup = l]
               => job' = [job EXCEPT ![w] = [event |-> job[w].event, attempt |-> 1, spent |-> k, lookup |-> l]]
  <2> DEFINE j == [event |-> job[w].event, attempt |-> 1, spent |-> k, lookup |-> l]
  <2>1. SUFFICES ASSUME job' = [job EXCEPT ![w].attempt = 1, ![w].spent = k, ![w].lookup = l]
                 PROVE  job' = [job EXCEPT ![w] = j]
    OBVIOUS
  <2>2. job'[w] = [[[job[w] EXCEPT !.attempt = 1] EXCEPT !.spent = k] EXCEPT !.lookup = l]
    BY <1>6, <2>1
  <2>3. job'[w] \in [event : {job[w].event}, attempt : {1}, spent : {k}, lookup : {l}]
    BY <1>6, <2>2 DEF Job
  <2>4. job'[w] = j
    BY <2>3
  <2>5. \A v \in Workers \ {w} : job'[v] = job[v]
    BY <1>6, <2>1
  <2>6. job' = [v \in Workers |-> job'[v]]
    BY <1>6, <2>1
  <2>7. QED BY <1>6, <2>4, <2>5, <2>6
<1>8. job' = [job EXCEPT ![w] = [event |-> job[w].event, attempt |-> 1, spent |-> t + l, lookup |-> l]]
  BY <1>1, <1>7
<1>9. QED BY <1>2, <1>3, <1>4, <1>5, <1>8

\* Each action of a worker with a job keeps the invariant.
LEMMA WorkStep ==
  ASSUME IInv, NEW w \in Workers, Work(w) \/ ReadFails(w) \/ Panic(w)
  PROVE  IInv'
<1> DEFINE e0 == job[w].event
<1>1. Busy(w) BY DEF Work, ReadSettings, ReadFails, Answered, Unreachable, NoAnswer, Expired, Panic, Reading, Posting, Busy
<1>2. /\ job[w] \in Job /\ e0 \in Events /\ job[w].attempt \in 0 .. Attempts /\ job[w].spent \in Nat
      /\ job \in [Workers -> Job \cup {Idle}] /\ received \in [Events -> Nat] /\ late \in [Events -> Nat]
      /\ faults \in 0 .. MaxFaults
  BY <1>1, BusyJob DEF IInv, TypeOK
<1>3. Posts(e0) <= Attempts /\ (Reading(w) => Posts(e0) = 0)
  BY <1>1, <1>2 DEF IInv, CountInv, ReceivedAtMostAttempts, PostingInv, Posts, Reading
<1>4. UNCHANGED endpoint => /\ OnlyItsPosts(w) /\ received'[e0] + late'[e0] = Posts(e0)
                            /\ received'[e0] = received[e0]
  BY <1>2 DEF endpoint, OnlyItsPosts, Posts
<1>5. CASE ReadSettings(w)
  <2>1. CASE Wanted
    <3>1. PICK k, l \in Nat :
            job' = [job EXCEPT ![w] = [event |-> e0, attempt |-> 1, spent |-> k, lookup |-> l]]
      BY <1>5, <2>1, ReadSpends DEF IInv
    <3> DEFINE j == [event |-> e0, attempt |-> 1, spent |-> k, lookup |-> l]
    <3>2. j \in Job /\ job[w].attempt = 0
      BY <1>2, <1>5, <2>1, ReadSpends, DeliveryAssumption DEF Job, IInv
    <3>3. job' = [job EXCEPT ![w] = j]
      BY <3>1
    <3>6. j.event = job[w].event /\ j.attempt = job[w].attempt + 1 BY <3>2
    <3>7. UNCHANGED <<running, handling, queue, patches, verdict, endpoint, faults>>
      BY <1>5, <2>1, ReadSpends DEF IInv
    <3>8. OnlyItsPosts(w) /\ received'[e0] + late'[e0] <= job[w].attempt /\ received'[e0] >= received[e0]
      BY <1>1, <1>2, <1>3, <1>4, <3>2, <3>7 DEF Reading, Busy
    <3>9. QED BY <1>1, <1>2, <3>2, <3>3, <3>6, <3>7, <3>8, Advance
  <2>2. CASE ~Wanted
    BY <1>1, <1>2, <1>3, <1>4, <1>5, <2>2, Finished DEF ReadSettings
  <2>3. QED BY <2>1, <2>2
<1>6. CASE ReadFails(w)
  <2>1. faults' \in 0 .. MaxFaults BY <1>2, <1>6, DeliveryAssumption DEF ReadFails, Fault
  <2>2. QED BY <1>1, <1>3, <1>4, <1>6, <2>1, Finished DEF ReadFails
<1>7. CASE Answered(w)
  <2>1. Posting(w) /\ Posts(e0) < job[w].attempt
    BY <1>1, <1>2, <1>7 DEF Answered, IInv, CountInv, PostingInv, Posting
  <2>2. received' = [received EXCEPT ![e0] = @ + 1] /\ late' = late BY <1>7 DEF Answered
  <2>3. OnlyItsPosts(w) /\ received'[e0] = received[e0] + 1 BY <1>2, <2>2 DEF OnlyItsPosts
  <2>4. received'[e0] + late'[e0] = received[e0] + late[e0] + 1 BY <1>2, <2>2, <2>3
  <2>5. received'[e0] + late'[e0] <= Attempts /\ received'[e0] > 0
    BY <1>2, <2>1, <2>2, <2>3, DeliveryAssumption DEF Posts
  <2>6. PICK t \in Durations : Finish(w, "delivered") \/ FailAttempt(w, t) BY <1>7 DEF Answered
  <2>7. CASE Finish(w, "delivered")
    BY <1>1, <1>2, <1>7, <2>3, <2>5, <2>7, Finished DEF Answered
  <2>8. CASE FailAttempt(w, t)
    <3>1. t \in Nat /\ received'[e0] >= received[e0] BY <1>2, <2>3, DeliveryAssumption
    <3>2. received'[e0] + late'[e0] <= received[e0] + late[e0] + 1 BY <1>2, <2>4
    <3>3. QED BY <1>7, <2>1, <2>3, <2>8, <3>1, <3>2, FailedAttempt DEF Answered
  <2>9. QED BY <2>6, <2>7, <2>8
<1>8. CASE Unreachable(w)
  <2>1. PICK t \in Durations : FailAttempt(w, t) BY <1>8 DEF Unreachable
  <2>2. t \in Nat BY DeliveryAssumption
  <2>3. /\ received'[e0] + late'[e0] <= received[e0] + late[e0] + 1 /\ received'[e0] >= received[e0]
    BY <1>2, <1>8 DEF Unreachable, endpoint
  <2>4. QED BY <1>4, <1>8, <2>1, <2>2, <2>3, FailedAttempt DEF Unreachable
<1>9. CASE NoAnswer(w)
  <2>1. late' = [late EXCEPT ![e0] = @ + 1] /\ received' = received BY <1>9 DEF NoAnswer
  <2>2. OnlyItsPosts(w) /\ received'[e0] + late'[e0] = received[e0] + late[e0] + 1
    BY <1>2, <2>1 DEF OnlyItsPosts
  <2>3. received'[e0] >= received[e0] /\ received'[e0] + late'[e0] <= received[e0] + late[e0] + 1
    BY <1>2, <2>1, <2>2
  <2>4. Least(Timeout, Deadline - job[w].spent) \in Nat
    BY <1>2, <1>9, DeliveryAssumption DEF NoAnswer, Least
  <2>5. QED BY <1>9, <2>2, <2>3, <2>4, FailedAttempt DEF NoAnswer
<1>10. CASE Expired(w)
  <2>1. /\ received'[e0] + late'[e0] <= received[e0] + late[e0] + 1 /\ received'[e0] >= received[e0]
    BY <1>2, <1>10 DEF Expired, endpoint
  <2>2. QED BY <1>4, <1>10, <2>1, FailedAttempt DEF Expired
<1>11. CASE Panic(w)
  <2>1. faults' \in 0 .. MaxFaults BY <1>2, <1>11, DeliveryAssumption DEF Panic, Fault
  <2>2. QED BY <1>1, <1>3, <1>4, <1>11, <2>1, Finished DEF Panic
<1>12. QED BY <1>5, <1>6, <1>7, <1>8, <1>9, <1>10, <1>11 DEF Work

\* A goroutine that is started, and one that queues its event or drops it.
LEMMA EventStep ==
  ASSUME IInv, NEW e0 \in Events, Raise(e0) \/ Enqueue(e0)
  PROVE  IInv'
<1>1. CASE Raise(e0)
  <2>0. UNCHANGED <<queue, job, patches, endpoint, faults>> /\ handling' = handling \cup {e0}
    BY <1>1 DEF Raise
  <2>1. /\ verdict[e0] = "unraised" /\ verdict'[e0] = "open" /\ verdict' \in [Events -> Verdict]
        /\ \A e \in Events \ {e0} : verdict'[e] = verdict[e]
    BY <1>1 DEF Raise, IInv, TypeOK, Verdict
  <2>2. handling \subseteq Events /\ \A k \in DOMAIN queue : queue[k] \in Events
    BY DEF IInv, TypeOK
  <2>3. e0 \notin handling /\ ~Queued(e0) /\ \A e : Queued(e)' <=> Queued(e)
    BY <2>0, <2>1 DEF IInv, OnePlace, Queued
  <2>4. \A w \in Workers : (Busy(w)' <=> Busy(w)) /\ job'[w] = job[w] BY <2>0 DEF Busy
  <2>5. \A w \in Workers : Busy(w) => job[w].event \in Events \ {e0}
    BY <2>1, BusyJob DEF IInv, OnePlace
  <2>6. TypeOK'
    BY <1>1, <2>0, <2>1, <2>2 DEF Raise, IInv, TypeOK, patches, endpoint
  <2>7. OnePlace'
    <3>1. \A e \in handling' : verdict'[e] = "open" /\ ~Queued(e)'
      BY <2>0, <2>1, <2>2, <2>3 DEF IInv, OnePlace
    <3>2. \A k \in DOMAIN queue' : verdict'[queue'[k]] = "open"
      BY <2>0, <2>1, <2>2, <2>3 DEF IInv, OnePlace, Queued
    <3>3. \A w \in Workers :
            Busy(w)' => verdict'[job'[w].event] = "open" /\ job'[w].event \notin handling' /\ ~Queued(job[w].event)'
      BY <2>0, <2>1, <2>3, <2>4, <2>5 DEF IInv, OnePlace, Queued
    <3>4. QED BY <2>0, <2>4, <3>1, <3>2, <3>3 DEF IInv, OnePlace
  <2>8. \A e \in Events : Posts(e)' = Posts(e) BY <2>0 DEF Posts, endpoint
  <2>9. UntriedInv' /\ DeliveredInv'
    BY <2>0, <2>1, <2>3, <2>8 DEF IInv, CountInv, UntriedInv, DeliveredInv, endpoint
  <2>10. PostingInv' /\ ReceivedAtMostAttempts'
    BY <2>0, <2>4, <2>5 DEF IInv, CountInv, PostingInv, ReceivedAtMostAttempts, Posts, endpoint
  <2>11. QED BY <2>6, <2>7, <2>9, <2>10 DEF IInv, CountInv
<1>2. CASE Enqueue(e0)
  <2>0. UNCHANGED <<job, patches, endpoint, faults>> /\ e0 \in handling /\ handling' = handling \ {e0}
    BY <1>2 DEF Enqueue
  <2>1. verdict[e0] = "open" /\ ~Queued(e0) /\ Posts(e0) = 0
    BY <2>0 DEF IInv, OnePlace, CountInv, UntriedInv
  <2>2. handling \subseteq Events /\ queue \in Seq(Events) /\ \A k \in DOMAIN queue : queue[k] \in Events
    BY DEF IInv, TypeOK
  <2>3. \A w \in Workers : (Busy(w)' <=> Busy(w)) /\ job'[w] = job[w] BY <2>0 DEF Busy
  <2>4. \A w \in Workers : Busy(w) => job[w].event \in Events \ {e0}
    BY <2>0, BusyJob DEF IInv, OnePlace
  <2>5. \A e \in Events : Posts(e)' = Posts(e) BY <2>0 DEF Posts, endpoint
  <2>6. PostingInv' /\ ReceivedAtMostAttempts'
    BY <2>0, <2>3, <2>4 DEF IInv, CountInv, PostingInv, ReceivedAtMostAttempts, Posts, endpoint
  <2>7. CASE Len(queue) < Capacity
    <3>1. queue' = Append(queue, e0) /\ verdict' = verdict BY <1>2, <2>7 DEF Enqueue
    <3>2. /\ queue' \in Seq(Events) /\ Len(queue') = Len(queue) + 1 /\ queue'[Len(queue) + 1] = e0
          /\ DOMAIN queue = 1 .. Len(queue) /\ DOMAIN queue' = 1 .. Len(queue) + 1
          /\ \A k \in 1 .. Len(queue) : queue'[k] = queue[k]
      BY <2>2, <3>1
    <3>3. \A e : Queued(e)' <=> Queued(e) \/ e = e0 BY <2>2, <3>2 DEF Queued
    <3>4. TypeOK'
      BY <1>2, <2>0, <2>2, <2>7, <3>1, <3>2, DeliveryAssumption DEF Enqueue, IInv, TypeOK, patches, endpoint
    <3>5. \A k, l \in DOMAIN queue' : queue'[k] = queue'[l] => k = l
      BY <2>1, <2>2, <3>2 DEF IInv, OnePlace, Queued
    <3>6. \A k \in DOMAIN queue' : verdict'[queue'[k]] = "open"
      BY <2>1, <2>2, <3>1, <3>2 DEF IInv, OnePlace
    <3>7. \A e \in handling' : verdict'[e] = "open" /\ ~Queued(e)'
      BY <2>0, <3>1, <3>3 DEF IInv, OnePlace
    <3>8. \A w \in Workers :
            Busy(w)' => verdict'[job'[w].event] = "open" /\ job'[w].event \notin handling' /\ ~Queued(job[w].event)'
      BY <2>0, <2>3, <2>4, <3>1, <3>3 DEF IInv, OnePlace, Queued
    <3>9. OnePlace' BY <2>0, <2>3, <3>5, <3>6, <3>7, <3>8 DEF IInv, OnePlace
    <3>10. UntriedInv' /\ DeliveredInv'
      BY <2>0, <2>1, <2>5, <3>1, <3>3 DEF IInv, CountInv, UntriedInv, DeliveredInv, endpoint
    <3>11. QED BY <2>6, <3>4, <3>9, <3>10 DEF IInv, CountInv
  <2>8. CASE ~(Len(queue) < Capacity)
    <3>1. queue' = queue /\ verdict' = [verdict EXCEPT ![e0] = "dropped"] BY <1>2, <2>8 DEF Enqueue
    <3>2. /\ verdict'[e0] = "dropped" /\ verdict' \in [Events -> Verdict]
          /\ \A e \in Events \ {e0} : verdict'[e] = verdict[e]
      BY <3>1 DEF IInv, TypeOK, Verdict
    <3>3. \A e : Queued(e)' <=> Queued(e) BY <3>1 DEF Queued
    <3>4. TypeOK'
      BY <1>2, <2>0, <2>2, <3>1, <3>2 DEF Enqueue, IInv, TypeOK, patches, endpoint
    <3>5. \A k \in DOMAIN queue' : verdict'[queue'[k]] = "open"
      BY <2>1, <2>2, <3>1, <3>2 DEF IInv, OnePlace, Queued
    <3>6. \A e \in handling' : verdict'[e] = "open" /\ ~Queued(e)'
      BY <2>0, <2>2, <3>2, <3>3 DEF IInv, OnePlace
    <3>7. \A w \in Workers :
            Busy(w)' => verdict'[job'[w].event] = "open" /\ job'[w].event \notin handling' /\ ~Queued(job[w].event)'
      BY <2>0, <2>3, <2>4, <3>1, <3>2, <3>3 DEF IInv, OnePlace, Queued
    <3>8. OnePlace' BY <2>0, <2>3, <3>1, <3>5, <3>6, <3>7 DEF IInv, OnePlace
    <3>9. UntriedInv' /\ DeliveredInv'
      BY <2>0, <2>1, <2>5, <3>2, <3>3 DEF IInv, CountInv, UntriedInv, DeliveredInv, endpoint
    <3>10. QED BY <2>6, <3>4, <3>8, <3>9 DEF IInv, CountInv
  <2>9. QED BY <2>7, <2>8
<1>3. QED BY <1>1, <1>2

\* A worker that takes the head of the queue is the only one to hold its event.
LEMMA TakeStep ==
  ASSUME IInv, NEW w \in Workers, Take(w)
  PROVE  IInv'
<1> DEFINE e0 == Head(queue)
           j == [event |-> e0, attempt |-> 0, spent |-> 0, lookup |-> 0]
<1>0. /\ UNCHANGED <<running, handling, patches, verdict, endpoint, faults>>
      /\ job[w] = Idle /\ queue # <<>> /\ job' = [job EXCEPT ![w] = j] /\ queue' = Tail(queue)
  BY DEF Take
<1>1. queue \in Seq(Events) /\ Len(queue) \in Nat \ {0} /\ e0 = queue[1] /\ DOMAIN queue = 1 .. Len(queue)
  BY <1>0 DEF IInv, TypeOK
<1>2. /\ queue' \in Seq(Events) /\ Len(queue') = Len(queue) - 1 /\ DOMAIN queue' = 1 .. Len(queue) - 1
      /\ \A k \in DOMAIN queue' : queue'[k] = queue[k + 1] /\ k + 1 \in DOMAIN queue
  BY <1>0, <1>1
<1>3. /\ e0 \in Events /\ 1 \in DOMAIN queue /\ Queued(e0) /\ verdict[e0] = "open" /\ e0 \notin handling
      /\ Posts(e0) = 0
  <2>1. e0 \in Events /\ 1 \in DOMAIN queue /\ Queued(e0) BY <1>1 DEF Queued
  <2>2. QED BY <1>1, <2>1 DEF IInv, OnePlace, CountInv, UntriedInv, Queued
<1>4. \A e : Queued(e)' => Queued(e)
  BY <1>1, <1>2 DEF Queued
<1>5. \A k \in DOMAIN queue' : queue'[k] # e0
  <2>1. \A k \in DOMAIN queue' : k + 1 # 1 BY <1>2
  <2>2. \A k, l \in DOMAIN queue : queue[k] = queue[l] => k = l BY DEF IInv, OnePlace
  <2>3. QED BY <1>1, <1>2, <1>3, <2>1, <2>2
<1>6. j \in Job /\ j # Idle BY <1>3, DeliveryAssumption, NoValueAssumption DEF Job
<1>7. /\ job' \in [Workers -> Job \cup {Idle}] /\ job'[w] = j /\ Busy(w)' /\ ~Busy(w)
      /\ \A v \in Workers \ {w} : job'[v] = job[v] /\ (Busy(v)' <=> Busy(v))
  BY <1>0, <1>6 DEF IInv, TypeOK, Busy
<1>8. \A v \in Workers : Busy(v) => job[v].event \in Events \ {e0}
  BY <1>3, BusyJob DEF IInv, OnePlace
<1>9. TypeOK'
  <2>1. Len(queue') <= Capacity BY <1>1, <1>2, DeliveryAssumption DEF IInv, TypeOK
  <2>2. QED BY <1>0, <1>2, <1>7, <2>1 DEF IInv, TypeOK, patches, endpoint
<1>10. OnePlace'
  <2>1. \A e \in handling' : verdict'[e] = "open" /\ ~Queued(e)' BY <1>0, <1>4 DEF IInv, OnePlace
  <2>2. \A k, l \in DOMAIN queue' : queue'[k] = queue'[l] => k = l
    BY <1>1, <1>2 DEF IInv, OnePlace
  <2>3. \A k \in DOMAIN queue' : verdict'[queue'[k]] = "open" BY <1>0, <1>2 DEF IInv, OnePlace
  <2>4. ASSUME NEW v \in Workers, Busy(v)'
        PROVE  verdict'[job'[v].event] = "open" /\ job'[v].event \notin handling' /\ ~Queued(job[v].event)'
    <3>1. CASE v = w
      <4>1. job'[v].event = e0 BY <1>7, <3>1
      <4>2. verdict'[job'[v].event] = "open" /\ job'[v].event \notin handling' BY <1>0, <1>3, <4>1
      <4>3. \A k \in DOMAIN queue' : queue'[k] # job'[v].event BY <1>5, <4>1
      <4>4. QED BY <4>2, <4>3 DEF Queued
    <3>2. CASE v # w
      <4>1. job'[v] = job[v] /\ Busy(v) BY <1>7, <2>4, <3>2
      <4>2. ~Queued(job[v].event) BY <4>1 DEF IInv, OnePlace
      <4>3. ~Queued(job[v].event)' BY <1>4, <4>1, <4>2 DEF Queued
      <4>4. QED BY <1>0, <4>1, <4>3 DEF IInv, OnePlace
    <3>3. QED BY <3>1, <3>2
  <2>5. \A u, v \in Workers : Busy(u)' /\ Busy(v)' /\ job'[u].event = job'[v].event => u = v
    BY <1>7, <1>8 DEF IInv, OnePlace
  <2>6. QED BY <2>1, <2>2, <2>3, <2>4, <2>5 DEF OnePlace
<1>11. CountInv'
  <2>1. UntriedInv' /\ DeliveredInv' /\ ReceivedAtMostAttempts'
    BY <1>0, <1>4 DEF IInv, CountInv, UntriedInv, DeliveredInv, ReceivedAtMostAttempts, Posts, endpoint
  <2>2. ASSUME NEW v \in Workers, Busy(v)'
        PROVE  (IF job[v].attempt = 0 THEN Posts(job[v].event) = 0 ELSE Posts(job[v].event) < job[v].attempt)'
    <3>1. CASE v = w BY <1>0, <1>3, <1>7, <3>1 DEF Posts, endpoint
    <3>2. CASE v # w
      <4>1. job'[v] = job[v] /\ Busy(v) BY <1>7, <2>2, <3>2
      <4>2. QED BY <1>0, <4>1 DEF IInv, CountInv, PostingInv, Posts, endpoint
    <3>3. QED BY <3>1, <3>2
  <2>3. QED BY <2>1, <2>2 DEF CountInv, PostingInv
<1>12. QED BY <1>9, <1>10, <1>11 DEF IInv

\* A late request adds to what was received what it takes from what may come.
LEMMA LateStep ==
  ASSUME IInv, NEW e0 \in Events, ArriveLate(e0)
  PROVE  IInv'
<1>0. UNCHANGED <<running, delivery, patches, verdict, faults>> BY DEF ArriveLate
<1>1. /\ received \in [Events -> Nat] /\ late \in [Events -> Nat] /\ late[e0] > 0
      /\ late' = [late EXCEPT ![e0] = late[e0] - 1] /\ received' = [received EXCEPT ![e0] = received[e0] + 1]
  BY DEF ArriveLate, IInv, TypeOK
<1>2. /\ received' \in [Events -> Nat] /\ late' \in [Events -> Nat]
      /\ \A e \in Events : received'[e] >= received[e] /\ received'[e] + late'[e] = received[e] + late[e]
  BY <1>1
<1>3. \A e \in Events : Posts(e)' = Posts(e) BY <1>2 DEF Posts
<1>4. TypeOK' BY <1>0, <1>2 DEF IInv, TypeOK, delivery, patches
<1>5. OnePlace' BY <1>0 DEF IInv, OnePlace, Queued, Busy, delivery
<1>6. UntriedInv' /\ ReceivedAtMostAttempts'
  BY <1>0, <1>2, <1>3 DEF IInv, CountInv, UntriedInv, ReceivedAtMostAttempts, Queued, Posts, delivery
<1>7. PostingInv'
  <2>1. \A w \in Workers : Busy(w) => job[w].event \in Events BY BusyJob DEF IInv
  <2>2. \A w \in Workers : Busy(w) => received'[job[w].event] + late'[job[w].event] = Posts(job[w].event)
    BY <1>2, <2>1 DEF Posts
  <2>3. job' = job BY <1>0 DEF delivery
  <2>4. QED BY <2>2, <2>3 DEF IInv, CountInv, PostingInv, Posts, Busy
<1>8. DeliveredInv'
  BY <1>0, <1>1, <1>2 DEF IInv, CountInv, DeliveredInv
<1>9. QED BY <1>4, <1>5, <1>6, <1>7, <1>8 DEF IInv, CountInv

\* A stop ends every attempt: the request of the one under way may still arrive.
LEMMA StopStep ==
  ASSUME IInv, Stop
  PROVE  IInv'
<1>0. /\ handling' = {} /\ queue' = <<>> /\ job' = [w \in Workers |-> Idle]
      /\ patching' = [p \in Patchers |-> NoPatch] /\ running' = FALSE
      /\ UNCHANGED <<settings, received>>
  BY DEF Stop
<1>1. DOMAIN queue' = {} /\ queue' \in Seq(Events) /\ Len(queue') = 0 BY <1>0
<1>2. /\ verdict' \in [Events -> Verdict]
      /\ \A e \in Events : verdict'[e] = IF e \in InHand THEN "lost" ELSE verdict[e]
  BY DEF Stop, IInv, TypeOK, Verdict
<1>3. /\ late' \in [Events -> Nat]
      /\ \A e \in Events :
           late'[e] = IF \E w \in Workers : Posting(w) /\ job[w].event = e THEN late[e] + 1 ELSE late[e]
  BY DEF Stop, IInv, TypeOK
<1>4. faults' \in 0 .. MaxFaults BY DeliveryAssumption DEF Stop, Fault, IInv, TypeOK
<1>5. TypeOK'
  <2>1. Len(queue') <= Capacity BY <1>1, DeliveryAssumption
  <2>2. running' \in BOOLEAN BY <1>0
  <2>3. handling' \subseteq Events /\ job' \in [Workers -> Job \cup {Idle}]
        /\ patching' \in [Patchers -> Patch \cup {NoPatch}]
    BY <1>0
  <2>4. settings' \in Settings /\ received' \in [Events -> Nat] BY <1>0 DEF IInv, TypeOK
  <2>5. QED BY <1>1, <1>2, <1>3, <1>4, <2>1, <2>2, <2>3, <2>4 DEF TypeOK
<1>6. \A w \in Workers : ~Busy(w)' BY <1>0 DEF Busy
<1>7. OnePlace' BY <1>0, <1>1, <1>6 DEF OnePlace
<1>8. UntriedInv'
  <2>1. ASSUME NEW e \in Events, verdict'[e] \in {"unraised", "dropped", "skipped"}
        PROVE  Posts(e)' = 0
    <3>1. e \notin InHand /\ verdict'[e] = verdict[e] BY <1>2, <2>1
    <3>2. ~ \E w \in Workers : Posting(w) /\ job[w].event = e BY <3>1 DEF InHand, Posting
    <3>3. Posts(e) = 0 BY <2>1, <3>1 DEF IInv, CountInv, UntriedInv
    <3>4. QED BY <1>0, <1>3, <3>2, <3>3 DEF Posts
  <2>2. QED BY <1>0, <1>1, <2>1 DEF UntriedInv, Queued
<1>9. PostingInv' BY <1>6 DEF PostingInv
<1>10. ReceivedAtMostAttempts'
  <2>1. ASSUME NEW e \in Events PROVE received'[e] + late'[e] <= Attempts
    <3>1. received[e] + late[e] <= Attempts BY DEF IInv, CountInv, ReceivedAtMostAttempts
    <3>2. CASE \E w \in Workers : Posting(w) /\ job[w].event = e
      <4>1. PICK w \in Workers : Posting(w) /\ job[w].event = e BY <3>2
      <4>2. Busy(w) /\ job[w].attempt \in 0 .. Attempts /\ job[w].attempt # 0
        BY <4>1, BusyJob DEF IInv, Posting, Busy
      <4>3. received[e] + late[e] < job[w].attempt BY <4>1, <4>2 DEF IInv, CountInv, PostingInv, Posts
      <4>4. received[e] \in Nat /\ late[e] \in Nat /\ received[e] + late[e] + 1 <= Attempts
        BY <4>2, <4>3, DeliveryAssumption DEF IInv, TypeOK
      <4>5. received'[e] = received[e] /\ late'[e] = late[e] + 1 BY <1>0, <1>3, <3>2
      <4>6. QED BY <4>4, <4>5
    <3>3. CASE ~ \E w \in Workers : Posting(w) /\ job[w].event = e
      BY <1>0, <1>3, <3>1, <3>3
    <3>4. QED BY <3>2, <3>3
  <2>2. QED BY <2>1 DEF ReceivedAtMostAttempts
<1>11. DeliveredInv' BY <1>0, <1>2 DEF IInv, CountInv, DeliveredInv
<1>12. QED BY <1>5, <1>7, <1>8, <1>9, <1>10, <1>11 DEF IInv, CountInv

\* Patches and starts leave deliveries alone.
LEMMA OtherStep ==
  ASSUME IInv, (\E p \in Patchers : LoadSettings(p) \/ StoreSettings(p)) \/ Start \/ UNCHANGED vars
  PROVE  IInv'
<1>1. UNCHANGED <<delivery, verdict, endpoint, faults>>
  BY DEF LoadSettings, StoreSettings, Start, vars
<1>2. OnePlace' BY <1>1 DEF IInv, OnePlace, Queued, Busy, delivery
<1>3. CountInv'
  BY <1>1 DEF IInv, CountInv, UntriedInv, PostingInv, ReceivedAtMostAttempts, DeliveredInv,
              Queued, Busy, Posts, delivery, endpoint
<1>4. running' \in BOOLEAN BY DEF LoadSettings, StoreSettings, Start, vars, IInv, TypeOK
<1>5. settings' \in Settings /\ patching' \in [Patchers -> Patch \cup {NoPatch}]
  <2>1. ASSUME NEW p \in Patchers, LoadSettings(p)
        PROVE  settings' \in Settings /\ patching' \in [Patchers -> Patch \cup {NoPatch}]
    BY <2>1 DEF LoadSettings, IInv, TypeOK, Patch
  <2>2. ASSUME NEW p \in Patchers, StoreSettings(p)
        PROVE  settings' \in Settings /\ patching' \in [Patchers -> Patch \cup {NoPatch}]
    <3>1. patching[p] \in Patch BY <2>2 DEF StoreSettings, IInv, TypeOK
    <3>2. patching[p].read \in Settings /\ patching[p].field \in {"url", "filter"} /\ patching[p].value \in BOOLEAN
      BY <3>1 DEF Patch
    <3>3. \A s \in Settings, f \in {"url", "filter"}, b \in BOOLEAN : [s EXCEPT ![f] = b] \in Settings
      BY DEF Settings
    <3>4. QED BY <2>2, <3>2, <3>3 DEF StoreSettings, IInv, TypeOK
  <2>3. QED BY <2>1, <2>2 DEF Start, patches, vars, IInv, TypeOK
<1>6. TypeOK' BY <1>1, <1>4, <1>5 DEF IInv, TypeOK, delivery, endpoint
<1>7. QED BY <1>2, <1>3, <1>6 DEF IInv

-----------------------------------------------------------------------------

\* The strengthened invariant holds in every behaviour.
THEOREM InductiveInvariant == Spec => []IInv
<1>1. Init => IInv
  <2> SUFFICES ASSUME Init PROVE IInv
    OBVIOUS
  <2>1. DOMAIN queue = {} /\ queue \in Seq(Events) /\ Len(queue) = 0 BY DEF Init
  <2>2. TypeOK BY <2>1, DeliveryAssumption DEF Init, TypeOK, Verdict
  <2>3. OnePlace BY <2>1 DEF Init, OnePlace, Busy
  <2>4. CountInv
    BY DeliveryAssumption
       DEF Init, CountInv, UntriedInv, PostingInv, ReceivedAtMostAttempts, DeliveredInv, Posts, Busy
  <2>5. QED BY <2>2, <2>3, <2>4 DEF IInv
<1>2. IInv /\ [Next]_vars => IInv'
  BY EventStep, LateStep, TakeStep, WorkStep, StopStep, OtherStep DEF Next
<1>3. QED BY <1>1, <1>2, PTL DEF Spec

\* Every variable keeps its type.
THEOREM TypeCorrect == Spec => []TypeOK
<1>1. IInv => TypeOK BY DEF IInv
<1>2. QED BY <1>1, InductiveInvariant, PTL

\* The endpoint gets no event more often than the service makes attempts, however
\* late requests arrive and whenever the process stops.
THEOREM AttemptsBoundReceipts == Spec => []ReceivedAtMostAttempts
<1>1. IInv => ReceivedAtMostAttempts BY DEF IInv, CountInv
<1>2. QED BY <1>1, InductiveInvariant, PTL

\* What counts as delivered was received, and what was dropped or skipped never is.
THEOREM VerdictsAreTrue == Spec => []VerdictMatchesReceipt
<1>1. IInv => VerdictMatchesReceipt
  BY DEF IInv, CountInv, UntriedInv, DeliveredInv, VerdictMatchesReceipt, Posts
<1>2. QED BY <1>1, InductiveInvariant, PTL

-----------------------------------------------------------------------------

\* An open event is held by the service.
HeldInv ==
  \A e \in Events : verdict[e] = "open" =>
    e \in handling \/ Queued(e) \/ \E w \in Workers : Busy(w) /\ job[w].event = e

\* The worker goes on with its event, for attempt n and with t seconds spent, l of
\* them on the lookup.
GoesOn(w, n, t, l) ==
  /\ job' = [job EXCEPT ![w] = [event |-> job[w].event, attempt |-> n, spent |-> t, lookup |-> l]]
  /\ UNCHANGED verdict
  /\ n = job[w].attempt + 1 /\ n <= Attempts
  /\ IF n = 1 THEN t <= Deadline + l
     ELSE LET sleep == job[w].attempt * job[w].attempt IN
          l = job[w].lookup /\ (t <= Deadline + sleep \/ t <= job[w].spent + sleep)

\* A failed attempt leads to the next one, or to the verdict "failed".
LEMMA FailMoves ==
  ASSUME TypeOK, NEW w \in Workers, Posting(w), NEW t \in Nat, FailAttempt(w, t),
         t = 0 \/ job[w].spent + t <= Deadline
  PROVE  (\E n, s, l \in Nat : GoesOn(w, n, s, l)) \/ Finish(w, "failed")
<1> DEFINE n == job[w].attempt
           s == job[w].spent + t + n * n
<1>1. /\ job[w] \in Job /\ n \in 0 .. Attempts /\ n # 0 /\ job[w].spent \in Nat /\ job[w].lookup \in Nat
      /\ job \in [Workers -> Job \cup {Idle}]
  BY BusyJob DEF Posting, Busy, TypeOK
<1>2. CASE n < Attempts
  <2>1. n * n \in Nat
    BY <1>1
  <2>2. n + 1 \in Nat /\ s \in Nat /\ (s <= Deadline + n * n \/ s <= job[w].spent + n * n)
    BY <1>1, <2>1, DeliveryAssumption
  <2>3. job' = [job EXCEPT ![w] = [event |-> job[w].event, attempt |-> n + 1, spent |-> s,
                                   lookup |-> job[w].lookup]]
        /\ UNCHANGED verdict
    BY <1>1, <1>2 DEF FailAttempt, Job
  <2>4. n + 1 # 1 /\ n + 1 <= Attempts
    BY <1>1, <1>2, DeliveryAssumption
  <2>5. GoesOn(w, n + 1, s, job[w].lookup)
    BY <2>2, <2>3, <2>4 DEF GoesOn
  <2>6. QED BY <1>1, <2>2, <2>5
<1>3. CASE ~(n < Attempts)
  BY <1>3 DEF FailAttempt
<1>4. QED BY <1>2, <1>3

\* A worker goes on with its event, or ends with a verdict.
LEMMA WorkMoves ==
  ASSUME TypeOK, NEW w \in Workers, Work(w) \/ ReadFails(w) \/ Panic(w)
  PROVE  /\ Busy(w) /\ UNCHANGED <<running, handling, queue, patches>>
         /\ \/ \E n, t, l \in Nat : GoesOn(w, n, t, l)
            \/ \E v \in {"skipped", "delivered", "failed", "lost"} : Finish(w, v)
<1>1. Busy(w) /\ UNCHANGED <<running, handling, queue, patches>>
  BY DEF Work, ReadSettings, ReadFails, Answered, Unreachable, NoAnswer, Expired, Panic, Reading,
         Posting, Busy
<1>2. job[w] \in Job /\ job[w].spent \in Nat /\ job \in [Workers -> Job \cup {Idle}]
  BY <1>1, BusyJob DEF TypeOK
<1>3. CASE ReadSettings(w)
  <2>1. CASE Wanted
    <3>1. PICK k, l \in Nat :
            /\ k <= Deadline + l
            /\ job' = [job EXCEPT ![w] = [event |-> job[w].event, attempt |-> 1, spent |-> k, lookup |-> l]]
      BY <1>3, <2>1, ReadSpends
    <3>2. 1 <= Attempts /\ job[w].attempt = 0 /\ UNCHANGED verdict
      BY <1>3, <2>1, ReadSpends, DeliveryAssumption
    <3>4. GoesOn(w, 1, k, l)
      BY <3>1, <3>2 DEF GoesOn
    <3>5. QED BY <1>1, <3>4
  <2>2. CASE ~Wanted
    BY <1>1, <1>3, <2>2 DEF ReadSettings
  <2>3. QED BY <2>1, <2>2
<1>4. CASE Answered(w) \/ Unreachable(w)
  <2>1. PICK t \in Durations :
          job[w].spent + t < Deadline /\ (Finish(w, "delivered") \/ FailAttempt(w, t))
    BY <1>4 DEF Answered, Unreachable
  <2>2. t \in Nat /\ job[w].spent + t <= Deadline /\ Posting(w)
    BY <1>2, <1>4, <2>1, DeliveryAssumption DEF Answered, Unreachable
  <2>3. QED BY <1>1, <2>1, <2>2, FailMoves
<1>5. CASE NoAnswer(w)
  <2> DEFINE t == Least(Timeout, Deadline - job[w].spent)
  <2>1. t \in Nat /\ job[w].spent + t <= Deadline
    BY <1>2, <1>5, DeliveryAssumption DEF NoAnswer, Least
  <2>2. Posting(w) /\ FailAttempt(w, t)
    BY <1>5 DEF NoAnswer
  <2>3. QED BY <1>1, <2>1, <2>2, FailMoves
<1>6. CASE Expired(w)
  BY <1>1, <1>6, FailMoves DEF Expired
<1>7. CASE ReadFails(w) \/ Panic(w)
  BY <1>1, <1>7 DEF ReadFails, Panic
<1>8. QED BY <1>3, <1>4, <1>5, <1>6, <1>7 DEF Work

\* What a worker's job is when it goes on.
LEMMA OnwardJob ==
  ASSUME TypeOK, NEW w \in Workers, Busy(w), NEW n \in Nat, NEW t \in Nat, NEW l \in Nat, GoesOn(w, n, t, l)
  PROVE  /\ job'[w] = [event |-> job[w].event, attempt |-> n, spent |-> t, lookup |-> l] /\ Busy(w)'
         /\ \A v \in Workers \ {w} : job'[v] = job[v]
<1>1. /\ job'[w] = [event |-> job[w].event, attempt |-> n, spent |-> t, lookup |-> l]
      /\ \A v \in Workers \ {w} : job'[v] = job[v]
  BY DEF TypeOK, GoesOn
<1>2. job'[w] \in Job
  BY <1>1, BusyJob DEF Job, GoesOn
<1>3. QED BY <1>1, <1>2, NoValueAssumption DEF Busy

\* The workers but w, and the events but its own, are not touched by its steps.
LEMMA WorkIsOwn ==
  ASSUME TypeOK, NEW w \in Workers, Work(w) \/ ReadFails(w) \/ Panic(w)
  PROVE  /\ \A v \in Workers \ {w} : job'[v] = job[v]
         /\ \A e \in Events \ {job[w].event} : verdict'[e] = verdict[e]
         /\ Busy(w)' => job'[w].event = job[w].event /\ UNCHANGED verdict
         /\ ~Busy(w)' => verdict'[job[w].event] # "open"
<1>1. /\ Busy(w)
      /\ \/ \E n, t, l \in Nat : GoesOn(w, n, t, l)
         \/ \E v \in {"skipped", "delivered", "failed", "lost"} : Finish(w, v)
  BY WorkMoves
<1>2. ASSUME NEW n \in Nat, NEW t \in Nat, NEW l \in Nat, GoesOn(w, n, t, l)
      PROVE  /\ \A v \in Workers \ {w} : job'[v] = job[v]
             /\ Busy(w)' /\ job'[w].event = job[w].event /\ UNCHANGED verdict
  <2>1. /\ job'[w] = [event |-> job[w].event, attempt |-> n, spent |-> t, lookup |-> l] /\ Busy(w)'
        /\ \A v \in Workers \ {w} : job'[v] = job[v]
    BY <1>1, <1>2, OnwardJob
  <2>2. job'[w].event = job[w].event /\ UNCHANGED verdict
    BY <1>2, <2>1 DEF GoesOn
  <2>3. QED BY <2>1, <2>2
<1>3. ASSUME NEW v \in {"skipped", "delivered", "failed", "lost"}, Finish(w, v)
      PROVE  /\ \A u \in Workers \ {w} : job'[u] = job[u]
             /\ \A e \in Events \ {job[w].event} : verdict'[e] = verdict[e]
             /\ ~Busy(w)' /\ verdict'[job[w].event] # "open"
  BY <1>1, <1>3, BusyJob DEF TypeOK, Finish, Busy
<1>4. QED BY <1>1, <1>2, <1>3

\* An event stays held until it has a verdict.
LEMMA HeldStep ==
  ASSUME TypeOK, HeldInv, [Next]_vars
  PROVE  HeldInv'
<1>1. ASSUME NEW e0 \in Events, Raise(e0) PROVE HeldInv'
  BY <1>1 DEF Raise, TypeOK, HeldInv, Queued, Busy
<1>2. ASSUME NEW e0 \in Events, Enqueue(e0) PROVE HeldInv'
  <2>1. CASE Len(queue) < Capacity
    <3>1. \A e : Queued(e)' <=> Queued(e) \/ e = e0
      <4>1. queue \in Seq(Events) /\ queue' = Append(queue, e0)
        BY <1>2, <2>1 DEF Enqueue, TypeOK
      <4>2. DOMAIN queue = 1 .. Len(queue) /\ DOMAIN queue' = 1 .. Len(queue) + 1
            /\ Len(queue) \in Nat
            /\ queue'[Len(queue) + 1] = e0 /\ \A k \in 1 .. Len(queue) : queue'[k] = queue[k]
        BY <4>1
      <4>3. QED BY <4>2 DEF Queued
    <3>2. QED BY <1>2, <2>1, <3>1 DEF Enqueue, HeldInv, Busy
  <2>2. CASE ~(Len(queue) < Capacity)
    BY <1>2, <2>2 DEF Enqueue, TypeOK, HeldInv, Queued, Busy
  <2>3. QED BY <2>1, <2>2
<1>3. ASSUME NEW w \in Workers, Take(w) PROVE HeldInv'
  <2> DEFINE e0 == Head(queue)
             j == [event |-> e0, attempt |-> 0, spent |-> 0, lookup |-> 0]
  <2>1. queue \in Seq(Events) /\ queue # <<>> /\ queue' = Tail(queue)
        /\ job' = [job EXCEPT ![w] = j] /\ job[w] = Idle /\ UNCHANGED <<handling, verdict>>
    BY <1>3 DEF Take, TypeOK
  <2>2. /\ e0 = queue[1] /\ e0 \in Events /\ Len(queue) \in Nat \ {0}
        /\ \A k \in DOMAIN queue : k = 1 \/ (k - 1 \in DOMAIN queue' /\ queue'[k - 1] = queue[k])
    BY <2>1
  <2>3. \A e : Queued(e) => e = e0 \/ Queued(e)'
    BY <2>2 DEF Queued
  <2>4. j \in Job
    BY <2>2, DeliveryAssumption DEF Job
  <2>5. job'[w] = j /\ Busy(w)' /\ \A v \in Workers \ {w} : job'[v] = job[v]
    BY <2>1, <2>4, NoValueAssumption DEF TypeOK, Busy
  <2>6. job'[w].event = e0
    BY <2>5
  <2>7. ASSUME NEW v \in Workers, Busy(v) PROVE Busy(v)' /\ job'[v] = job[v]
    BY <2>1, <2>5, <2>7 DEF Busy
  <2>8. QED BY <2>1, <2>3, <2>5, <2>6, <2>7 DEF HeldInv
<1>4. ASSUME NEW w \in Workers, Work(w) \/ ReadFails(w) \/ Panic(w) PROVE HeldInv'
  <2>1. UNCHANGED <<handling, queue>> /\ Busy(w)
    BY <1>4, WorkMoves
  <2>2. \A e : Queued(e)' <=> Queued(e)
    BY <2>1 DEF Queued
  <2>3. SUFFICES ASSUME NEW e \in Events, verdict'[e] = "open", e \notin handling, ~Queued(e)
                 PROVE  \E v \in Workers : Busy(v)' /\ job'[v].event = e
    BY <2>1, <2>2 DEF HeldInv
  <2>4. CASE e = job[w].event
    BY <1>4, <2>3, <2>4, WorkIsOwn
  <2>5. CASE e # job[w].event
    <3>1. verdict[e] = "open"
      BY <1>4, <2>3, <2>5, WorkIsOwn
    <3>2. PICK v \in Workers : Busy(v) /\ job[v].event = e
      BY <2>3, <3>1 DEF HeldInv
    <3>3. job'[v] = job[v]
      BY <1>4, <2>5, <3>2, WorkIsOwn
    <3>4. QED BY <3>2, <3>3 DEF Busy
  <2>6. QED BY <2>4, <2>5
<1>5. CASE Stop
  <2>1. ASSUME NEW e \in Events, verdict'[e] = "open" PROVE FALSE
    <3>1. e \notin InHand /\ verdict[e] = "open"
      BY <1>5, <2>1 DEF Stop, TypeOK
    <3>2. QED BY <3>1 DEF HeldInv, InHand, Queued, Busy
  <2>2. QED BY <2>1 DEF HeldInv
<1>6. CASE \/ \E e \in Events : ArriveLate(e)
           \/ \E p \in Patchers : LoadSettings(p) \/ StoreSettings(p)
           \/ Start \/ UNCHANGED vars
  BY <1>6 DEF ArriveLate, LoadSettings, StoreSettings, Start, vars, delivery, HeldInv, Queued, Busy
<1>7. QED BY <1>1, <1>2, <1>3, <1>4, <1>5, <1>6 DEF Next

\* Places that exclude one another are counted without counting.
LEMMA PlacesOf ==
  ASSUME TypeOK, OnePlace, NEW e \in Events
  PROVE  /\ Cardinality({k \in DOMAIN queue : queue[k] = e}) = IF Queued(e) THEN 1 ELSE 0
         /\ Cardinality({w \in Workers : job[w] # Idle /\ job[w].event = e})
              = IF \E w \in Workers : Busy(w) /\ job[w].event = e THEN 1 ELSE 0
<1> DEFINE K == {k \in DOMAIN queue : queue[k] = e}
           W == {w \in Workers : job[w] # Idle /\ job[w].event = e}
<1>1. Cardinality(K) = IF Queued(e) THEN 1 ELSE 0
  <2>1. CASE Queued(e)
    <3>1. PICK k \in DOMAIN queue : queue[k] = e
      BY <2>1 DEF Queued
    <3>2. K = {k}
      BY <3>1 DEF OnePlace
    <3>3. QED BY <2>1, <3>2, FS_Singleton
  <2>2. CASE ~Queued(e)
    <3>1. K = {}
      BY <2>2 DEF Queued
    <3>2. QED BY <2>2, <3>1, FS_EmptySet
  <2>3. QED BY <2>1, <2>2
<1>2. Cardinality(W) = IF \E w \in Workers : Busy(w) /\ job[w].event = e THEN 1 ELSE 0
  <2>1. CASE \E w \in Workers : Busy(w) /\ job[w].event = e
    <3>1. PICK w \in Workers : Busy(w) /\ job[w].event = e
      BY <2>1
    <3>2. W = {w}
      BY <3>1 DEF OnePlace, Busy
    <3>3. QED BY <2>1, <3>2, FS_Singleton
  <2>2. CASE ~\E w \in Workers : Busy(w) /\ job[w].event = e
    <3>1. W = {}
      BY <2>2 DEF Busy
    <3>2. QED BY <2>2, <3>1, FS_EmptySet
  <2>3. QED BY <2>1, <2>2
<1>3. QED BY <1>1, <1>2

\* An event is in exactly one place while it is open and in none before and after:
\* none vanishes without a verdict, is worked on twice, or is delivered after one.
THEOREM OpenEventsAreInOnePlace == Spec => []OpenIsInOnePlace
<1>1. Init => HeldInv
  BY DEF Init, HeldInv
<1>2. IInv /\ HeldInv /\ [Next]_vars => HeldInv'
  BY HeldStep DEF IInv
<1>3. IInv /\ HeldInv => OpenIsInOnePlace
  <2>1. SUFFICES ASSUME IInv, HeldInv, NEW e \in Events
                 PROVE  Places(e) = IF verdict[e] = "open" THEN 1 ELSE 0
    BY DEF OpenIsInOnePlace
  <2>2. verdict[e] = "open"
          <=> e \in handling \/ Queued(e) \/ \E w \in Workers : Busy(w) /\ job[w].event = e
    BY <2>1 DEF IInv, OnePlace, HeldInv, Queued
  <2>3. /\ e \in handling => ~Queued(e)
        /\ e \in handling \/ Queued(e) => ~\E w \in Workers : Busy(w) /\ job[w].event = e
    BY <2>1 DEF IInv, OnePlace
  <2>4. QED BY <2>1, <2>2, <2>3, PlacesOf DEF IInv, Places
<1>4. QED BY <1>1, <1>2, <1>3, InductiveInvariant, PTL DEF Spec

-----------------------------------------------------------------------------
(* How long a delivery takes.                                              *)

\* A set of natural numbers has a least element: induction, for a set.
Below == {p \in Nat \X Nat : p[1] < p[2]}

LEMMA LeastElement ==
  ASSUME NEW T \in SUBSET Nat, T # {}
  PROVE  \E n \in T : \A m \in T : n <= m
<1>1. IsWellFoundedOn(Below, Nat)
  BY NatLessThanWellFounded DEF OpToRel, Below
<1>2. PICK n \in T : \A m \in T : <<m, n>> \notin Below
  BY <1>1, WFMin
<1>3. ASSUME NEW m \in T PROVE n <= m
  <2>1. <<m, n>> \notin Below
    BY <1>2
  <2>2. n \in Nat /\ m \in Nat
    OBVIOUS
  <2>3. ~(m < n)
    BY <2>1, <2>2 DEF Below
  <2>4. QED BY <2>2, <2>3
<1>4. QED BY <1>3

\* The sum of the squares below n, as a product.
Squares(n) == ((n - 1) * n * (2 * n - 1)) \div 6

LEMMA SquaresAdd ==
  /\ Squares(1) = 0
  /\ \A n \in Nat : Squares(n) \in Int /\ Squares(n + 1) = Squares(n) + n * n
<1> DEFINE P(n) == (n - 1) * n * (2 * n - 1)
<1>1. P(1) = 0 /\ \A n \in Nat : P(n) \in Int
  OBVIOUS
<1>2. \A n \in Nat : P(n + 1) = P(n) + 6 * (n * n)
  OBVIOUS
<1>3. \A a, b \in Int : (a + 6 * b) \div 6 = a \div 6 + b
  OBVIOUS
<1>4. \A n \in Nat : n * n \in Int
  OBVIOUS
<1>5. \A n : Squares(n) = P(n) \div 6
  BY DEF Squares
<1> HIDE DEF P
<1>6. Squares(1) = 0
  BY <1>1, <1>5
<1>7. ASSUME NEW n \in Nat PROVE Squares(n) \in Int /\ Squares(n + 1) = Squares(n) + n * n
  <2>1. P(n) \in Int /\ n * n \in Int /\ P(n + 1) = P(n) + 6 * (n * n)
    BY <1>1, <1>2, <1>4
  <2>2. (P(n) + 6 * (n * n)) \div 6 = P(n) \div 6 + n * n
    BY <1>3, <2>1
  <2>3. P(n) \div 6 \in Int
    BY <2>1
  <2>4. QED BY <1>5, <2>1, <2>2, <2>3
<1>8. QED BY <1>6, <1>7

\* So the recursion that defines Backoffs has a solution...
LEMMA BackoffsDefined ==
  Backoffs = [n \in 1 .. Attempts |-> IF n = 1 THEN 0 ELSE Backoffs[n - 1] + (n - 1) * (n - 1)]
<1> DEFINE g == [n \in 1 .. Attempts |-> Squares(n)]
<1>1. ASSUME NEW n \in 1 .. Attempts, n # 1 PROVE g[n] = g[n - 1] + (n - 1) * (n - 1)
  <2>1. PICK m \in Nat : n = m + 1 /\ m \in 1 .. Attempts
    BY <1>1, DeliveryAssumption
  <2>2. QED BY <2>1, SquaresAdd
<1>2. g[1] = 0
  BY SquaresAdd, DeliveryAssumption
<1>3. g = [n \in 1 .. Attempts |-> IF n = 1 THEN 0 ELSE g[n - 1] + (n - 1) * (n - 1)]
  <2>1. \A n \in 1 .. Attempts : g[n] = IF n = 1 THEN 0 ELSE g[n - 1] + (n - 1) * (n - 1)
    BY <1>1, <1>2
  <2>2. QED BY <2>1
<1> HIDE DEF g
<1>4. QED BY <1>3 DEF Backoffs

\* ...and no other: the sleeps before attempt n are the squares below n.
LEMMA BackoffsValue == \A n \in 1 .. Attempts : Backoffs[n] = Squares(n)
<1> DEFINE T == {n \in 1 .. Attempts : Backoffs[n] # Squares(n)}
<1>1. SUFFICES ASSUME T # {} PROVE FALSE
  OBVIOUS
<1>2. T \in SUBSET Nat
  BY DeliveryAssumption
<1>3. PICK n \in T : \A m \in T : n <= m
  BY <1>1, <1>2, LeastElement
<1>4. n # 1
  BY <1>3, BackoffsDefined, SquaresAdd
<1>5. PICK m \in Nat : n = m + 1 /\ m \in 1 .. Attempts
  BY <1>3, <1>4, DeliveryAssumption
<1>6. Backoffs[m] = Squares(m)
  BY <1>3, <1>5
<1>7. Backoffs[n] = Backoffs[m] + m * m
  BY <1>3, <1>4, <1>5, BackoffsDefined
<1>8. QED BY <1>3, <1>5, <1>6, <1>7, SquaresAdd

\* The sleeps before one attempt are part of those before any later one.
LEMMA BackoffsGrow ==
  \A m \in 1 .. Attempts : \A n \in 1 .. m :
    Backoffs[n] \in Nat /\ Backoffs[m] \in Nat /\ Backoffs[n] <= Backoffs[m]
<1>1. \A n \in 1 .. Attempts : n \in Nat /\ Backoffs[n] \in Int
  <2>1. \A n \in 1 .. Attempts : n \in Nat
    BY DeliveryAssumption
  <2>2. QED BY <2>1, BackoffsValue, SquaresAdd
<1>2. ASSUME NEW m \in 1 .. Attempts, NEW n \in 1 .. m PROVE Backoffs[n] <= Backoffs[m]
  <2> DEFINE T == {k \in 0 .. m - 1 : ~(Backoffs[m - k] <= Backoffs[m])}
  <2>1. T = {}
    <3>1. SUFFICES ASSUME T # {} PROVE FALSE
      OBVIOUS
    <3>2. T \in SUBSET Nat
      BY DeliveryAssumption
    <3>3. PICK k \in T : \A l \in T : k <= l
      BY <3>1, <3>2, LeastElement
    <3>4. k \in 0 .. m - 1 /\ ~(Backoffs[m - k] <= Backoffs[m])
      BY <3>3
    <3>5. k # 0
      BY <1>1, <3>4, DeliveryAssumption
    <3>6. PICK i \in Nat : i = m - k /\ i \in 1 .. Attempts /\ i + 1 \in 1 .. Attempts
      BY <3>4, <3>5, DeliveryAssumption
    <3>7. k - 1 \in 0 .. m - 1 /\ k - 1 \notin T /\ m - (k - 1) = i + 1
      BY <3>3, <3>4, <3>5, <3>6, DeliveryAssumption
    <3>8. Backoffs[i + 1] <= Backoffs[m]
      BY <3>7
    <3>9. Backoffs[i + 1] = Backoffs[i] + i * i
      BY <3>6, BackoffsValue, SquaresAdd
    <3>10. i * i \in Nat
      BY <3>6
    <3>11. QED
      BY <1>1, <3>4, <3>6, <3>8, <3>9, <3>10, DeliveryAssumption
  <2>2. m - n \in 0 .. m - 1 /\ m - (m - n) = n
    BY DeliveryAssumption
  <2>3. QED BY <2>1, <2>2
<1>3. ASSUME NEW n \in 1 .. Attempts PROVE Backoffs[n] \in Nat
  <2>1. 1 \in 1 .. n /\ Backoffs[1] = 0
    BY BackoffsDefined, DeliveryAssumption
  <2>2. QED BY <1>1, <1>2, <2>1
<1>4. ASSUME NEW m \in 1 .. Attempts, NEW n \in 1 .. m PROVE n \in 1 .. Attempts
  BY DeliveryAssumption
<1>5. QED BY <1>2, <1>3, <1>4

\* A worker that reads the settings has spent nothing yet, and one that posts for
\* the n-th time no more than its context lives, its lookup took and the sleeps
\* before that attempt.
TimeInv ==
  \A w \in Workers :
    Busy(w) => IF job[w].attempt = 0 THEN job[w].spent = 0
                                     ELSE job[w].spent <= Deadline + job[w].lookup + Backoffs[job[w].attempt]

\* A worker that goes on keeps to the time.
LEMMA OnwardInTime ==
  ASSUME TypeOK, TimeInv, NEW w \in Workers, Busy(w), NEW n \in Nat, NEW t \in Nat, NEW l \in Nat, GoesOn(w, n, t, l)
  PROVE  n # 0 /\ t <= Deadline + l + Backoffs[n]
<1> DEFINE a == job[w].attempt
           b == a * a
<1>1. /\ a \in 0 .. Attempts /\ job[w].spent \in Nat /\ n = a + 1 /\ n \in 1 .. Attempts
      /\ a \in Nat /\ b \in Nat /\ Deadline \in Nat
      /\ IF n = 1 THEN t <= Deadline + l
         ELSE l = job[w].lookup /\ (t <= Deadline + b \/ t <= job[w].spent + b)
  BY BusyJob, DeliveryAssumption DEF GoesOn
<1>2. Backoffs[n] = IF n = 1 THEN 0 ELSE Backoffs[n - 1] + (n - 1) * (n - 1)
  BY <1>1, BackoffsDefined
<1>3. CASE n = 1
  <2>1. t <= Deadline + l /\ Backoffs[n] = 0
    BY <1>1, <1>2, <1>3
  <2> HIDE DEF a, b
  <2>2. QED BY <1>1, <1>3, <2>1
<1>4. CASE n # 1
  <2>1. a \in 1 .. Attempts /\ a # 0 /\ n - 1 = a
    BY <1>1, <1>4
  <2>2. Backoffs[a] \in Nat
    <3>1. a \in 1 .. a
      BY <2>1
    <3>2. QED BY <2>1, <3>1, BackoffsGrow
  <2>3. Backoffs[n] = Backoffs[a] + b
    BY <1>2, <1>4, <2>1
  <2>4. job[w].spent <= Deadline + job[w].lookup + Backoffs[a]
    BY <2>1 DEF TimeInv
  <2> HIDE DEF a, b
  <2>5. QED BY <1>1, <1>4, <2>2, <2>3, <2>4
<1>5. QED BY <1>3, <1>4

\* Every step keeps every worker to its time.
LEMMA TimeStep ==
  ASSUME TypeOK, TimeInv, [Next]_vars
  PROVE  TimeInv'
<1>1. ASSUME NEW w \in Workers, Take(w) PROVE TimeInv'
  <2> DEFINE j == [event |-> Head(queue), attempt |-> 0, spent |-> 0, lookup |-> 0]
  <2>1. job'[w] = j /\ \A v \in Workers \ {w} : job'[v] = job[v]
    BY <1>1 DEF Take, TypeOK
  <2>2. QED BY <2>1 DEF TimeInv, Busy
<1>2. ASSUME NEW w \in Workers, Work(w) \/ ReadFails(w) \/ Panic(w) PROVE TimeInv'
  <2>1. SUFFICES ASSUME NEW v \in Workers, Busy(v)'
                 PROVE  IF job'[v].attempt = 0 THEN job'[v].spent = 0
                        ELSE job'[v].spent <= Deadline + job'[v].lookup + Backoffs[job'[v].attempt]
    BY DEF TimeInv
  <2>2. CASE v # w
    <3>1. job'[v] = job[v]
      BY <1>2, <2>2, WorkIsOwn
    <3>2. QED BY <2>1, <3>1 DEF TimeInv, Busy
  <2>3. CASE v = w
    <3>1. /\ Busy(w)
          /\ \/ \E n, t, l \in Nat : GoesOn(w, n, t, l)
             \/ \E u \in {"skipped", "delivered", "failed", "lost"} : Finish(w, u)
      BY <1>2, WorkMoves
    <3>2. PICK n, t, l \in Nat : GoesOn(w, n, t, l)
      BY <2>1, <2>3, <3>1 DEF TypeOK, Finish, Busy
    <3>3. job'[w] = [event |-> job[w].event, attempt |-> n, spent |-> t, lookup |-> l]
      BY <3>1, <3>2, OnwardJob
    <3>4. n # 0 /\ t <= Deadline + l + Backoffs[n]
      BY <3>1, <3>2, OnwardInTime
    <3>5. QED BY <2>3, <3>3, <3>4
  <2>4. QED BY <2>2, <2>3
<1>3. CASE Stop
  BY <1>3 DEF Stop, TimeInv, Busy
<1>4. CASE \/ \E e \in Events : Raise(e) \/ Enqueue(e) \/ ArriveLate(e)
           \/ \E p \in Patchers : LoadSettings(p) \/ StoreSettings(p)
           \/ Start \/ UNCHANGED vars
  <2>1. UNCHANGED job
    BY <1>4 DEF Raise, Enqueue, ArriveLate, LoadSettings, StoreSettings, Start, vars, delivery
  <2>2. QED BY <2>1 DEF TimeInv, Busy
<1>5. QED BY <1>1, <1>2, <1>3, <1>4 DEF Next

\* However slow the answers, no delivery keeps a worker longer than its context
\* lives, its retries sleep and the lookup of its host takes, for any number of
\* attempts.
THEOREM WorkersAreFreed == Spec => []WorkerIsFreedInTime
<1>1. Init => TimeInv
  BY DEF Init, TimeInv, Busy
<1>2. IInv /\ TimeInv /\ [Next]_vars => TimeInv'
  BY TimeStep DEF IInv
<1>3. IInv /\ TimeInv => WorkerIsFreedInTime
  <2>1. SUFFICES ASSUME TypeOK, TimeInv, NEW w \in Workers, Busy(w)
                 PROVE  job[w].spent <= Deadline + job[w].lookup + Backoffs[Attempts]
    BY DEF IInv, WorkerIsFreedInTime, Busy
  <2>2. job[w].attempt \in 0 .. Attempts /\ job[w].spent \in Nat /\ job[w].lookup \in Nat
    BY <2>1, BusyJob
  <2>3. Attempts \in 1 .. Attempts /\ Deadline \in Nat /\ 1 \in 1 .. Attempts
    BY DeliveryAssumption
  <2>4. Backoffs[Attempts] \in Nat
    BY <2>3, BackoffsGrow
  <2>5. CASE job[w].attempt = 0
    BY <2>1, <2>2, <2>3, <2>4, <2>5 DEF TimeInv
  <2>6. CASE job[w].attempt # 0
    <3>1. job[w].attempt \in 1 .. Attempts
      BY <2>2, <2>6, DeliveryAssumption
    <3>2. Backoffs[job[w].attempt] \in Nat /\ Backoffs[job[w].attempt] <= Backoffs[Attempts]
      BY <2>3, <3>1, BackoffsGrow
    <3>3. job[w].spent <= Deadline + job[w].lookup + Backoffs[job[w].attempt]
      BY <2>1, <2>6 DEF TimeInv
    <3>4. QED BY <2>2, <2>3, <2>4, <3>2, <3>3
  <2>7. QED BY <2>5, <2>6
<1>4. QED BY <1>1, <1>2, <1>3, InductiveInvariant, PTL DEF Spec
-----------------------------------------------------------------------------
(* The refinement: every step of the service is a step of Deliveries.      *)

\* An attempt is made of an open event, and is one that is left to make.
LEMMA MayBePosted ==
  ASSUME IInv, NEW w \in Workers, Posting(w)
  PROVE  job[w].event \in Events /\ verdict[job[w].event] = "open" /\ D!MayPost(job[w].event)
<1> DEFINE e0 == job[w].event
<1>1. Busy(w) /\ e0 \in Events /\ job[w].attempt \in 0 .. Attempts /\ job[w].attempt # 0
  BY BusyJob DEF IInv, Posting, Busy
<1>2. verdict[e0] = "open" /\ received[e0] + late[e0] < job[w].attempt
  BY <1>1 DEF IInv, OnePlace, CountInv, PostingInv, Posts
<1>3. received[e0] \in Nat /\ late[e0] \in Nat
  BY <1>1 DEF IInv, TypeOK
<1>4. QED BY <1>1, <1>2, <1>3, DeliveryAssumption DEF D!MayPost

\* An attempt that failed leaves the event open, or fails it.
LEMMA FailureCloses ==
  ASSUME IInv, NEW w \in Workers, Posting(w), NEW t, FailAttempt(w, t)
  PROVE  \E v \in {"open", "failed"} : D!Close(job[w].event, v)
<1>1. CASE job[w].attempt < Attempts
  <2>1. verdict' = [verdict EXCEPT ![job[w].event] = "open"]
    BY <1>1, MayBePosted DEF FailAttempt, IInv, TypeOK
  <2>2. QED BY <2>1 DEF D!Close
<1>2. CASE ~(job[w].attempt < Attempts)
  BY <1>2 DEF FailAttempt, Finish, D!Close
<1>3. QED BY <1>1, <1>2

\* What a worker does to its event, its owner may see.
LEMMA WorkRefines ==
  ASSUME IInv, NEW w \in Workers, Work(w) \/ ReadFails(w) \/ Panic(w)
  PROVE  [D!Next]_D!vars
<1> DEFINE e0 == job[w].event
<1>1. Busy(w) /\ e0 \in Events
  BY WorkMoves, BusyJob DEF IInv
<1>2. verdict[e0] = "open" /\ verdict \in [Events -> Verdict] /\ late \in [Events -> Nat]
  BY <1>1 DEF IInv, OnePlace, TypeOK
<1>3. ASSUME Reading(w), Finish(w, "skipped"), UNCHANGED endpoint PROVE D!Refuse(e0)
  <2>1. received[e0] + late[e0] = 0
    BY <1>1, <1>3 DEF IInv, CountInv, PostingInv, Posts, Reading
  <2>2. QED BY <1>2, <1>3, <2>1 DEF D!Refuse, D!Close, Finish, endpoint
<1>4. CASE ReadSettings(w)
  <2>1. CASE Wanted
    BY <1>4, <2>1 DEF ReadSettings, endpoint, D!vars
  <2>2. CASE ~Wanted
    BY <1>1, <1>3, <1>4, <2>2 DEF ReadSettings, D!Next
  <2>3. QED BY <2>1, <2>2
<1>5. CASE ReadFails(w)
  BY <1>1, <1>3, <1>5 DEF ReadFails, D!Next
<1>6. CASE Answered(w)
  <2>1. D!MayPost(e0) /\ UNCHANGED late /\ received' = [received EXCEPT ![e0] = @ + 1]
    BY <1>6, MayBePosted DEF Answered
  <2>2. \E v \in {"open", "delivered", "failed"} : D!Close(e0, v)
    <3>1. PICK t \in Durations : Finish(w, "delivered") \/ FailAttempt(w, t)
      BY <1>6 DEF Answered
    <3>2. CASE Finish(w, "delivered")
      BY <3>2 DEF Finish, D!Close
    <3>3. CASE FailAttempt(w, t)
      BY <1>6, <3>3, FailureCloses DEF Answered
    <3>4. QED BY <3>1, <3>2, <3>3
  <2>3. D!Answer(e0)
    BY <2>1, <2>2 DEF D!Answer
  <2>4. QED BY <1>1, <2>3 DEF D!Next
<1>7. CASE NoAnswer(w)
  <2>1. D!MayPost(e0) /\ UNCHANGED received /\ late' = [late EXCEPT ![e0] = @ + 1]
    BY <1>7, MayBePosted DEF NoAnswer
  <2>2. \E v \in {"open", "failed"} : D!Close(e0, v)
    BY <1>7, FailureCloses DEF NoAnswer
  <2>3. D!Overdue(e0)
    BY <2>1, <2>2 DEF D!Overdue
  <2>4. QED BY <1>1, <2>3 DEF D!Next
<1>8. CASE Unreachable(w) \/ Expired(w)
  <2>1. UNCHANGED <<received, late>> /\ \E v \in {"open", "failed"} : D!Close(e0, v)
    BY <1>8, FailureCloses DEF Unreachable, Expired, endpoint
  <2>2. CASE D!Close(e0, "failed")
    <3>1. D!GiveUp(e0)
      BY <1>2, <2>1, <2>2 DEF D!GiveUp
    <3>2. QED BY <1>1, <3>1 DEF D!Next
  <2>3. CASE D!Close(e0, "open")
    <3>1. UNCHANGED verdict
      BY <1>2, <2>3 DEF D!Close
    <3>2. QED BY <2>1, <3>1 DEF D!vars
  <2>4. QED BY <2>1, <2>2, <2>3
<1>9. CASE Panic(w)
  <2>1. verdict' = [e \in Events |-> IF e \in {e0} THEN "lost" ELSE verdict[e]]
    BY <1>2, <1>9 DEF Panic, Finish
  <2>2. late' = [e \in Events |-> IF e \in {} THEN late[e] + 1 ELSE late[e]] /\ UNCHANGED received
    BY <1>2, <1>9 DEF Panic, endpoint
  <2>3. D!Lose({e0}, {})
    BY <1>2, <2>1, <2>2 DEF D!Lose
  <2>4. {e0} \in SUBSET Events /\ {} \in SUBSET Events
    BY <1>1
  <2>5. QED BY <2>3, <2>4 DEF D!Next
<1>10. QED BY <1>4, <1>5, <1>6, <1>7, <1>8, <1>9 DEF Work

\* A stop loses what the service holds, with the POSTs under way.
LEMMA StopRefines ==
  ASSUME IInv, Stop
  PROVE  D!Next
<1> DEFINE P == {job[w].event : w \in {v \in Workers : Posting(v)}}
<1>1. InHand \in SUBSET Events /\ \A e \in InHand : verdict[e] = "open"
  <2>1. handling \subseteq Events /\ \A e \in handling : verdict[e] = "open"
    BY DEF IInv, TypeOK, OnePlace
  <2>2. \A k \in DOMAIN queue : queue[k] \in Events /\ verdict[queue[k]] = "open"
    BY DEF IInv, TypeOK, OnePlace
  <2>3. \A w \in Workers : job[w] # Idle => job[w].event \in Events /\ verdict[job[w].event] = "open"
    BY BusyJob DEF IInv, OnePlace, Busy
  <2>4. QED BY <2>1, <2>2, <2>3 DEF InHand
<1>2. P \subseteq InHand /\ \A e \in P : D!MayPost(e)
  BY MayBePosted DEF InHand, Posting
<1>3. late' = [e \in Events |-> IF e \in P THEN late[e] + 1 ELSE late[e]]
  BY DEF Stop
<1>4. /\ verdict' = [e \in Events |-> IF e \in InHand THEN "lost" ELSE verdict[e]]
      /\ UNCHANGED received
  BY DEF Stop
<1> HIDE DEF P
<1>5. D!Lose(InHand, P)
  BY <1>1, <1>2, <1>3, <1>4 DEF D!Lose
<1>6. QED BY <1>1, <1>2, <1>5 DEF D!Next

\* Every step of the service is a step of Deliveries, or invisible.
LEMMA DeliveriesStep ==
  ASSUME IInv, [Next]_vars
  PROVE  [D!Next]_D!vars
<1>1. ASSUME NEW e \in Events, Raise(e) PROVE [D!Next]_D!vars
  <2>1. D!Raise(e)
    BY <1>1 DEF Raise, D!Raise, D!Close, endpoint
  <2>2. QED BY <2>1 DEF D!Next
<1>2. ASSUME NEW e \in Events, Enqueue(e) PROVE [D!Next]_D!vars
  <2>1. verdict[e] = "open" /\ received[e] + late[e] = 0
    BY <1>2 DEF Enqueue, IInv, OnePlace, CountInv, UntriedInv, Posts
  <2>2. CASE Len(queue) < Capacity
    BY <1>2, <2>2 DEF Enqueue, endpoint, D!vars
  <2>3. CASE ~(Len(queue) < Capacity)
    <3>1. D!Refuse(e)
      BY <1>2, <2>1, <2>3 DEF Enqueue, endpoint, D!Refuse, D!Close
    <3>2. QED BY <3>1 DEF D!Next
  <2>4. QED BY <2>2, <2>3
<1>3. ASSUME NEW e \in Events, ArriveLate(e) PROVE [D!Next]_D!vars
  <2>1. D!Arrive(e)
    BY <1>3 DEF ArriveLate, D!Arrive
  <2>2. QED BY <2>1 DEF D!Next
<1>4. ASSUME NEW w \in Workers, Work(w) \/ ReadFails(w) \/ Panic(w) PROVE [D!Next]_D!vars
  BY <1>4, WorkRefines
<1>5. CASE Stop
  BY <1>5, StopRefines
<1>6. CASE \/ \E w \in Workers : Take(w)
           \/ \E p \in Patchers : LoadSettings(p) \/ StoreSettings(p)
           \/ Start \/ UNCHANGED vars
  BY <1>6 DEF Take, LoadSettings, StoreSettings, Start, vars, endpoint, D!vars
<1>7. QED BY <1>1, <1>2, <1>3, <1>4, <1>5, <1>6 DEF Next

\* Whatever is queued, retried, late or cut short, the endpoint's owner sees only
\* what Deliveries allows: one verdict for an event, and no POST after it.
THEOREM ServiceImplementsDeliveries == Spec => ImplementsDeliveries
<1>1. Init => D!Init
  BY DEF Init, D!Init
<1>2. IInv /\ [Next]_vars => [D!Next]_D!vars
  BY DeliveriesStep
<1>3. QED BY <1>1, <1>2, InductiveInvariant, PTL DEF Spec, ImplementsDeliveries, D!Spec
=============================================================================
