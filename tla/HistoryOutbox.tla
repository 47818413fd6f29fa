---------------------------- MODULE HistoryOutbox ----------------------------
(***************************************************************************)
(* The history index: every completed diagnosis is copied to a row of      *)
(* diagnosis_history_items and from there to an Elasticsearch document,    *)
(* and every diagnosis event is posted to Logstash.  Both deliveries are   *)
(* recorded in MySQL after they happened, so that they may be repeated but *)
(* not lost.  Several processes (API servers, scripts/sync_history.py) run *)
(* the same loop with no lock between them.                                *)
(*                                                                         *)
(* A row's next_retry_at is abstracted to whether it has passed (due); the *)
(* batch of rows is never full (20 in the code), the batch of events holds *)
(* Limit ids.  A failed statement on MySQL ends the round (_loop catches   *)
(* it) and has the effect of Abandon, which is also a process that stops.  *)
(***************************************************************************)
EXTENDS Integers, FiniteSets, SequencesExt

CONSTANTS Task,         \* diagnoses
          Worker,       \* processes that run HistorySyncWorker
          MaxEvent,     \* event ids are 1 .. MaxEvent
          Limit,        \* the batch of events
          MaxFailures,  \* bound on refused calls and abandoned rounds
          MaxLosses     \* bound on the times the index is lost (and rebuilt)

Event == 1 .. MaxEvent

VARIABLES completed,  \* tasks whose session is COMPLETED
          row,        \* index_status of the history row, or "none"
          due,        \* rows whose next_retry_at has passed
          doc,        \* tasks with a document in the index
          open,       \* event ids taken by a transaction that is not committed
          committed,  \* event ids other connections can read
          delivered,  \* ids in history_event_deliveries
          received,   \* ids Logstash has
          worker,     \* where each worker is in run_once, and its batch
          failures, losses

vars == <<completed, row, due, doc, open, committed, delivered, received, worker, failures, losses>>
rows == <<row, due>>
events == <<open, committed, delivered, received>>

Idle == [at |-> "idle", todo |-> <<>>]

TypeOK ==
  /\ completed \subseteq Task /\ due \subseteq Task /\ doc \subseteq Task
  /\ row \in [Task -> {"none", "pending", "indexed"}]
  /\ open \cup committed \cup received \subseteq Event /\ delivered \subseteq committed
  /\ worker \in [Worker -> [at : {"idle", "pending", "write", "written", "events", "post", "posted"},
                            todo : Seq(Task \cup Event)]]
  /\ failures \in 0 .. MaxFailures /\ losses \in 0 .. MaxLosses

Init ==
  /\ completed = {} /\ row = [t \in Task |-> "none"] /\ due = {} /\ doc = {}
  /\ open = {} /\ committed = {} /\ delivered = {} /\ received = {}
  /\ worker = [w \in Worker |-> Idle] /\ failures = 0 /\ losses = 0

-----------------------------------------------------------------------------
\* The rest of the platform: a diagnosis completes; an event takes the next
\* id, and its transaction commits when it does.
Complete(t) ==
  /\ completed' = completed \cup {t}
  /\ UNCHANGED <<rows, doc, events, worker, failures, losses>>

InsertEvent ==
  /\ \E e \in Event : /\ open \cup committed = 1 .. e - 1
                      /\ open' = open \cup {e}
  /\ UNCHANGED <<completed, rows, doc, committed, delivered, received, worker, failures, losses>>

CommitEvent(e) ==
  /\ e \in open
  /\ open' = open \ {e} /\ committed' = committed \cup {e}
  /\ UNCHANGED <<completed, rows, doc, delivered, received, worker, failures, losses>>

-----------------------------------------------------------------------------
\* capture_completed: a row, already due, for every completed task without one.
CaptureCompleted(w) ==
  LET new == {t \in completed : row[t] = "none"} IN
  /\ worker[w].at = "idle"
  /\ row' = [t \in Task |-> IF t \in new THEN "pending" ELSE row[t]]
  /\ due' = due \cup new
  /\ worker' = [worker EXCEPT ![w].at = "pending"]
  /\ UNCHANGED <<completed, doc, events, failures, losses>>

PendingRows == {t \in due : row[t] = "pending"}

\* The next statement of the round: the next row, or the events.
Continue(todo) ==
  IF todo = <<>> THEN [at |-> "events", todo |-> <<>>] ELSE [at |-> "write", todo |-> todo]

\* Ordered by next_retry_at: in any order here.
ReadPending(w) ==
  /\ worker[w].at = "pending"
  /\ \E todo \in SetToSeqs(PendingRows) : worker' = [worker EXCEPT ![w] = Continue(todo)]
  /\ UNCHANGED <<completed, rows, doc, events, failures, losses>>

\* index: PUT of the same document id.
Write(w) ==
  /\ worker[w].at = "write"
  /\ doc' = doc \cup {Head(worker[w].todo)}
  /\ worker' = [worker EXCEPT ![w].at = "written"]
  /\ UNCHANGED <<completed, rows, events, failures, losses>>

\* acknowledge: whatever the row's status has become.
AcknowledgeRow(w) ==
  LET t == Head(worker[w].todo) IN
  /\ worker[w].at = "written"
  /\ row' = [row EXCEPT ![t] = "indexed"]
  /\ worker' = [worker EXCEPT ![w] = Continue(Tail(worker[w].todo))]
  /\ UNCHANGED <<completed, due, doc, events, failures, losses>>

\* A worker that takes every answer of the index for an acceptance.
RetryAcknowledges(t) == row' = [row EXCEPT ![t] = "indexed"] /\ UNCHANGED due
\* retry: the row, if still pending, is not due before its back-off ends.
Retry(t) == due' = (IF row[t] = "pending" THEN due \ {t} ELSE due) /\ UNCHANGED row

\* The index refuses, or answers too late: the document may be there.
WriteFails(w) ==
  LET t == Head(worker[w].todo) IN
  /\ worker[w].at = "write" /\ failures < MaxFailures
  /\ failures' = failures + 1
  /\ doc' \in {doc, doc \cup {t}}
  /\ Retry(t)
  /\ worker' = [worker EXCEPT ![w] = Continue(Tail(worker[w].todo))]
  /\ UNCHANGED <<completed, events, losses>>

BackoffEnds(t) ==
  /\ row[t] = "pending" /\ t \notin due
  /\ due' = due \cup {t}
  /\ UNCHANGED <<completed, row, doc, events, worker, failures, losses>>

-----------------------------------------------------------------------------
\* pending_events: the first Limit ids that have no delivery of their own.
Undelivered == committed \ delivered
PendingEvents == {e \in Undelivered : Cardinality({f \in Undelivered : f < e}) < Limit}
InOrder(ids) == \A i, j \in DOMAIN ids : i < j => ids[i] < ids[j]

ContinueEvents(todo) == IF todo = <<>> THEN Idle ELSE [at |-> "post", todo |-> todo]

ReadEvents(w) ==
  /\ worker[w].at = "events"
  /\ \E todo \in SetToSeqs(PendingEvents) :
       InOrder(todo) /\ worker' = [worker EXCEPT ![w] = ContinueEvents(todo)]
  /\ UNCHANGED <<completed, rows, doc, events, failures, losses>>

Post(w) ==
  /\ worker[w].at = "post"
  /\ received' = received \cup {Head(worker[w].todo)}
  /\ worker' = [worker EXCEPT ![w].at = "posted"]
  /\ UNCHANGED <<completed, rows, doc, open, committed, delivered, failures, losses>>

AcknowledgeEvent(w) ==
  /\ worker[w].at = "posted"
  /\ delivered' = delivered \cup {Head(worker[w].todo)}
  /\ worker' = [worker EXCEPT ![w] = ContinueEvents(Tail(worker[w].todo))]
  /\ UNCHANGED <<completed, rows, doc, open, committed, received, failures, losses>>

\* The first refused event ends the round.
PostFails(w) ==
  /\ worker[w].at = "post" /\ failures < MaxFailures
  /\ failures' = failures + 1
  /\ received' \in {received, received \cup {Head(worker[w].todo)}}
  /\ worker' = [worker EXCEPT ![w] = Idle]
  /\ UNCHANGED <<completed, rows, doc, open, committed, delivered, losses>>

\* The process stops, or MySQL fails: what it was doing is forgotten.
Abandon(w) ==
  /\ worker[w] # Idle /\ failures < MaxFailures
  /\ failures' = failures + 1
  /\ worker' = [worker EXCEPT ![w] = Idle]
  /\ UNCHANGED <<completed, rows, doc, events, losses>>

-----------------------------------------------------------------------------
LoseIndex ==
  /\ losses < MaxLosses
  /\ losses' = losses + 1 /\ doc' = {}
  /\ UNCHANGED <<completed, rows, events, worker, failures>>

\* rebuild requeues every row; the operator runs it after a loss.
Rebuild ==
  /\ losses > 0
  /\ row' = [t \in Task |-> IF row[t] = "none" THEN "none" ELSE "pending"]
  /\ due' = {t \in Task : row[t] # "none"}
  /\ UNCHANGED <<completed, doc, events, worker, failures, losses>>

RunOnce(w) ==
  \/ CaptureCompleted(w) \/ ReadPending(w) \/ Write(w) \/ WriteFails(w) \/ AcknowledgeRow(w)
  \/ ReadEvents(w) \/ Post(w) \/ PostFails(w) \/ AcknowledgeEvent(w)

Next ==
  \/ \E t \in Task : Complete(t) \/ BackoffEnds(t)
  \/ InsertEvent \/ (\E e \in Event : CommitEvent(e))
  \/ \E w \in Worker : RunOnce(w) \/ Abandon(w)
  \/ LoseIndex \/ Rebuild

Spec == Init /\ [][Next]_vars

\* Each process runs its loop every sync_interval seconds, a back-off ends.
Fairness == /\ \A w \in Worker : WF_vars(RunOnce(w))
            /\ \A t \in Task : WF_vars(BackoffEnds(t))

-----------------------------------------------------------------------------
Written(t) == \E w \in Worker : worker[w].at = "written" /\ Head(worker[w].todo) = t
Waiting(t) == t \in completed /\ row[t] # "indexed" /\ ~Written(t)

\* What is marked is there: an event that Logstash took and a row whose document
\* was written (as long as the index keeps it), whatever call was refused or
\* answered too late and whoever else delivers.  Only a committed event and only
\* a completed diagnosis go out.
MarkedIsThere ==
  /\ delivered \subseteq received /\ received \subseteq committed
  /\ losses = 0 => {t \in Task : row[t] = "indexed"} \subseteq doc
  /\ doc \cup {t \in Task : row[t] # "none"} \subseteq completed

\* A completed diagnosis that is not marked as indexed reaches the index,
\* whatever fails and whoever else delivers it: also after the index was lost
\* and its rows requeued, unless a worker was just then between its write to
\* the lost index and its acknowledgement (which the exception ~Written names).
EveryCaseIndexed == \A t \in Task : Waiting(t) ~> (t \in doc)

\* Every committed event reaches Logstash, also one that commits after events
\* with a higher id were delivered, and also when the round that should have
\* delivered it ended at an earlier event.
EveryEventReceived == \A e \in Event : (e \in committed) ~> (e \in received)
=============================================================================
