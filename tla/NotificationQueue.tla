-------------------------- MODULE NotificationQueue --------------------------
(***************************************************************************)
(* The notifications of the lab: the bounded queue and the history of      *)
(* MemoryQueue, the workers of NotificationService that deliver and retry, *)
(* and the fault mode of the pod, which expires by itself.  Order and      *)
(* payment services submit; everything is in the memory of one process.    *)
(***************************************************************************)
EXTENDS Naturals, Sequences, FiniteSets, Functions

CONSTANTS Notification, Worker,
          Capacity,      \* of the channel of pending jobs
          HistoryLimit,  \* of the table of jobs, 10000 in the code
          MaxFaults      \* how often an experiment sets the fault mode

VARIABLES jobs,      \* the history: status and attempts of a job
          pending,   \* the channel
          holds,     \* the job a worker has taken
          timers,    \* the jobs an AfterFunc will enqueue again
          mode, faults, leaked,
          reply,     \* what the submitter was told
          delivered, \* how often a job was delivered
          dropped    \* the jobs whose second enqueue was refused

vars == <<jobs, pending, holds, timers, mode, faults, leaked, reply, delivered, dropped>>

Modes == {"normal", "random_error", "external_unstable", "goroutine_leak"}
Nothing == <<>>
Job(st, n) == [status |-> st, attempts |-> n]

Init ==
  /\ jobs = <<>> /\ pending = <<>> /\ holds = [w \in Worker |-> Nothing] /\ timers = {}
  /\ mode = "normal" /\ faults = 0 /\ leaked = 0
  /\ reply = [n \in Notification |-> "none"]
  /\ delivered = [n \in Notification |-> 0] /\ dropped = {}

Without(n) == Restrict(jobs, DOMAIN jobs \ {n})

\* A new job at the limit of the history takes the place of any that is done.
Evictions(n) ==
  LET done == {m \in DOMAIN jobs : jobs[m].status = "DELIVERED"} IN
  IF n \notin DOMAIN jobs /\ Cardinality(DOMAIN jobs) >= HistoryLimit /\ done # {}
  THEN {Without(m) : m \in done} ELSE {jobs}

\* Mutant: the refused job goes, whether it was new or not.
RefusedForgets(n, kept) == Restrict(kept, DOMAIN kept \ {n})
\* The row of the refused job is put back as it was.
Refused(n, kept) == kept

\* Enqueue: the row, then the channel without waiting, under one lock.
Enqueue(n, job, ok) ==
  \E kept \in Evictions(n) :
    IF n \notin DOMAIN jobs /\ Cardinality(DOMAIN kept) >= HistoryLimit
    THEN ~ok /\ jobs' = kept /\ UNCHANGED pending
    ELSE IF Len(pending) < Capacity
    THEN /\ ok /\ pending' = Append(pending, n)
         /\ jobs' = [m \in DOMAIN kept \union {n} |-> IF m = n THEN job ELSE kept[m]]
    ELSE ~ok /\ jobs' = Refused(n, kept) /\ UNCHANGED pending

\* POST /notifications: 202, or 503 for the simulated failure and for a
\* full queue or history.
Submit(n) ==
  /\ reply[n] = "none"
  /\ \/ /\ mode = "random_error" /\ reply' = [reply EXCEPT ![n] = "503"]
        /\ UNCHANGED <<jobs, pending>>
     \/ \E ok \in BOOLEAN : /\ Enqueue(n, Job("QUEUED", 0), ok)
                            /\ reply' = [reply EXCEPT ![n] = IF ok THEN "202" ELSE "503"]
  /\ UNCHANGED <<holds, timers, mode, faults, leaked, delivered, dropped>>

\* A worker takes the next identifier and copies its job.
Take(w) ==
  /\ holds[w] = Nothing /\ pending # <<>>
  /\ pending' = Tail(pending)
  /\ holds' = [holds EXCEPT ![w] = <<Head(pending), jobs[Head(pending)].attempts + 1>>]
  /\ UNCHANGED <<jobs, timers, mode, faults, leaked, reply, delivered, dropped>>

\* The provider is unstable: the first two attempts end in a timer.
Retry(w) ==
  /\ holds[w] # Nothing /\ mode = "external_unstable" /\ holds[w][2] < 3
  /\ jobs' = [jobs EXCEPT ![holds[w][1]] = Job("RETRYING", holds[w][2])]
  /\ timers' = timers \union {holds[w]}
  /\ holds' = [holds EXCEPT ![w] = Nothing]
  /\ UNCHANGED <<pending, mode, faults, leaked, reply, delivered, dropped>>

Deliver(w) ==
  /\ holds[w] # Nothing /\ ~(mode = "external_unstable" /\ holds[w][2] < 3)
  /\ jobs' = [jobs EXCEPT ![holds[w][1]] = Job("DELIVERED", holds[w][2])]
  /\ delivered' = [delivered EXCEPT ![holds[w][1]] = @ + 1]
  /\ leaked' = IF mode = "goroutine_leak" THEN leaked + 1 ELSE leaked
  /\ holds' = [holds EXCEPT ![w] = Nothing]
  /\ UNCHANGED <<pending, timers, mode, faults, reply, dropped>>

\* The timer enqueues the job again; nobody reads whether it could.
TimerFires(t) ==
  /\ t \in timers /\ timers' = timers \ {t}
  /\ \E ok \in BOOLEAN : /\ Enqueue(t[1], Job("RETRYING", t[2]), ok)
                         /\ dropped' = IF ok THEN dropped ELSE dropped \union {t[1]}
  /\ UNCHANGED <<holds, mode, faults, leaked, reply, delivered>>

\* An experiment begins, or another takes its place; the expiry and the
\* DELETE lead back to normal, where the ticker closes what had leaked.
SetFault ==
  /\ faults < MaxFaults /\ faults' = faults + 1
  /\ mode' \in Modes \ {"normal"}
  /\ UNCHANGED <<jobs, pending, holds, timers, leaked, reply, delivered, dropped>>
FaultEnds ==
  /\ mode # "normal" /\ mode' = "normal" /\ leaked' = 0
  /\ UNCHANGED <<jobs, pending, holds, timers, faults, reply, delivered, dropped>>

Next == \/ \E n \in Notification : Submit(n)
        \/ \E w \in Worker : Take(w) \/ Retry(w) \/ Deliver(w)
        \/ \E t \in timers : TimerFires(t)
        \/ SetFault \/ FaultEnds

Spec == Init /\ [][Next]_vars

Attempted == Notification \X (1..3)
TypeOK ==
  /\ DOMAIN jobs \subseteq Notification
  /\ \A n \in DOMAIN jobs : jobs[n] \in [status: {"QUEUED", "RETRYING", "DELIVERED"}, attempts: 0..3]
  /\ pending \in Seq(Notification) /\ holds \in [Worker -> Attempted \union {Nothing}]
  /\ timers \subseteq Attempted /\ mode \in Modes /\ faults \in 0..MaxFaults /\ leaked \in Nat
  /\ reply \in [Notification -> {"none", "202", "503"}]
  /\ delivered \in [Notification -> Nat] /\ dropped \subseteq Notification

\* The places of a notification that is still to be delivered.
Places(n) == {<<"pending", i>> : i \in {j \in DOMAIN pending : pending[j] = n}}
       \union {<<"worker", w>> : w \in {v \in Worker : holds[v] # Nothing /\ holds[v][1] = n}}
       \union {<<"timer", t>> : t \in {u \in timers : u[1] = n}}

\* A notification answered with 202 is in one place on its way, or was
\* delivered once, or - the one loss of the code, README.md section 7 -
\* its retry met a full queue; until it is delivered its status can be
\* asked for.  One answered with 503 leaves nothing.
NotificationKept ==
  \A n \in Notification :
    /\ reply[n] = "202" => /\ Cardinality(Places(n)) + delivered[n] + Cardinality({n} \cap dropped) = 1
                           /\ delivered[n] = 0 => n \in DOMAIN jobs
                           /\ n \in dropped => jobs[n].status = "RETRYING"
    /\ reply[n] # "202" => Places(n) = {} /\ n \notin DOMAIN jobs
    /\ n \in DOMAIN jobs => (jobs[n].status = "DELIVERED" <=> delivered[n] = 1)
=============================================================================
