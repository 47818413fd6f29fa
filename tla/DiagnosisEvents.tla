--------------------------- MODULE DiagnosisEvents ---------------------------
(***************************************************************************)
(* GET /api/diagnoses/{id}/events: the persisted events of one diagnosis   *)
(* read through a cursor and pushed to a client that may lose the          *)
(* connection and come back with Last-Event-ID (diagnosis_events in        *)
(* app/diagnosis/router.py, list_events in app/diagnosis/repository.py).   *)
(*                                                                         *)
(* The writer is the executor of DiagnosisLease.  All its events are       *)
(* inserted under the lock of the session row, so the identifiers of one   *)
(* diagnosis appear in the order of the commits, and the terminal event    *)
(* commits together with the terminal status.                              *)
(*                                                                         *)
(* Simplifications: an event is its position in the log of the diagnosis;  *)
(* keep-alive comments carry nothing.                                      *)
(***************************************************************************)
EXTENDS Naturals, Sequences

CONSTANTS MaxEvents,  \* bound: events of the diagnosis
          Limit,      \* LIMIT of list_events (200)
          MaxDrops,   \* bound: times the connection breaks
          SameLoop    \* the executor runs on the event loop that serves the stream

ASSUME StreamAssumption == /\ MaxEvents \in Nat \ {0, 1} /\ Limit \in Nat \ {0}
                           /\ MaxDrops \in Nat /\ SameLoop \in BOOLEAN

VARIABLES
  logged,     \* diagnosis_events: how many are committed
  terminal,   \* the status of the session is COMPLETED, FAILED or CANCELLED
  pc,         \* the generator: "list", "yield", "check", "sleep", "ended", "dropped"
  cursor,     \* id of the last event it yielded
  batch,      \* events that list_events returned and it has still to yield
  idle,       \* idle_rounds, up to the 2 that matter
  received,   \* what reached the client, in order
  drops       \* connections lost so far

stream == <<pc, cursor, batch, idle>>
vars   == <<logged, terminal, stream, received, drops>>
-----------------------------------------------------------------------------
Least(m, n) == IF m < n THEN m ELSE n

\* The POST returned after diagnosis.created was committed.
Init ==
  /\ logged = 1 /\ terminal = FALSE
  /\ pc = "list" /\ cursor = 0 /\ batch = <<>> /\ idle = 0
  /\ received = <<>> /\ drops = 0

\* Mutant: an await between the two reads.
LoopYields == TRUE
\* Statements of the generator without an await between them let nothing else
\* of their own event loop run: list_events and, when it is empty, get.
LoopIsFree == SameLoop => pc # "check"

Emit ==
  /\ ~terminal /\ logged < MaxEvents - 1 /\ LoopIsFree
  /\ logged' = logged + 1
  /\ UNCHANGED <<terminal, stream, received, drops>>

\* complete_owned_session, fail_owned_session or mark_max_attempts_exceeded.
Finish ==
  /\ ~terminal /\ LoopIsFree
  /\ terminal' = TRUE /\ logged' = logged + 1
  /\ UNCHANGED <<stream, received, drops>>

\* list_events: at most Limit events after the one named.
After(id) == [i \in 1..Least(Limit, logged - id) |-> id + i]
Page == After(cursor)

List ==
  /\ pc = "list"
  /\ batch' = Page
  /\ IF Page # <<>>
     THEN pc' = "yield" /\ idle' = 0
     ELSE pc' = "check" /\ idle' = Least(idle + 1, 2)
  /\ UNCHANGED <<logged, terminal, cursor, received, drops>>

Yield ==
  /\ pc = "yield"
  /\ cursor' = Head(batch)
  /\ received' = Append(received, Head(batch))
  /\ batch' = Tail(batch)
  /\ pc' = IF Len(batch) = 1 THEN "sleep" ELSE "yield"
  /\ UNCHANGED <<logged, terminal, idle, drops>>

\* Mutant: two empty rounds end the stream of a diagnosis that still runs.
StopsWhenIdle == idle >= 2
\* The status is read after the events.
Stops == terminal /\ idle >= 2

Check ==
  /\ pc = "check"
  /\ pc' = IF Stops THEN "ended" ELSE "sleep"
  /\ UNCHANGED <<logged, terminal, cursor, batch, idle, received, drops>>

Sleep ==
  /\ pc = "sleep" /\ pc' = "list"
  /\ UNCHANGED <<logged, terminal, cursor, batch, idle, received, drops>>

\* The connection breaks while the generator is suspended; an event may have
\* been yielded and lost.
Drop ==
  /\ pc \in {"yield", "sleep"} /\ drops < MaxDrops
  /\ drops' = drops + 1 /\ pc' = "dropped"
  /\ \/ UNCHANGED received
     \/ received # <<>> /\ received' = SubSeq(received, 1, Len(received) - 1)
  /\ UNCHANGED <<logged, terminal, cursor, batch, idle>>

\* Mutant: the server trusts the cursor it had reached.
WhereItWas == cursor
\* max(after, Last-Event-ID), the identifier of the last event that arrived.
ResumePoint == IF received = <<>> THEN 0 ELSE received[Len(received)]

Reconnect ==
  /\ pc = "dropped"
  /\ pc' = "list" /\ cursor' = ResumePoint /\ batch' = <<>> /\ idle' = 0
  /\ UNCHANGED <<logged, terminal, received, drops>>

Stream == List \/ Yield \/ Check \/ Sleep \/ Reconnect
Next == Emit \/ Finish \/ Stream \/ Drop

\* The stream stops for good once the diagnosis is over.
Spec == Init /\ [][Next]_vars

\* The event loop keeps running the generator and, whenever it sleeps, the
\* executor (hence strong fairness); the browser reconnects, and the
\* diagnosis ends (EventuallyTerminal of DiagnosisLease).
FairSpec == Spec /\ WF_vars(Stream) /\ SF_vars(Finish)
-----------------------------------------------------------------------------
TypeOK ==
  /\ logged \in 1..MaxEvents /\ terminal \in BOOLEAN
  /\ pc \in {"list", "yield", "check", "sleep", "ended", "dropped"}
  /\ cursor \in 0..logged /\ batch \in Seq(cursor + 1..logged) /\ idle \in 0..2
  /\ received \in Seq(1..logged) /\ drops \in 0..MaxDrops

\* Whatever connections broke and wherever a batch was cut, the client holds
\* the first events of the log, each once and in order: Last-Event-ID resumes
\* without a gap and without a repetition.
ReceivedIsPrefix == \A i \in 1..Len(received) : received[i] = i

\* A stream that the server ends has delivered every persisted event, the one
\* that says how the diagnosis ended included: the status is read after an
\* empty list, and both are transactions of their own.
EndedMeansComplete == pc = "ended" => terminal /\ Len(received) = logged

\* Once the diagnosis is over the client learns it: every event arrives, also
\* those a broken connection lost.
TerminalEventArrives == <>(terminal /\ Len(received) = logged)
=============================================================================
