-------------------------- MODULE ValidationEvents --------------------------
(***************************************************************************)
(* GET /api/validations/{id}/events: the events of one validation run,     *)
(* listed through a cursor and pushed to the browser, which reads the run  *)
(* again when the stream is over and never asks for it a second time.      *)
(*                                                                         *)
(* Every event is inserted by the transaction that changes the run or one  *)
(* of its executions.  The INSERT takes the identifier before the shared   *)
(* lock on the row of the run that its foreign key asks for: when another  *)
(* process (one executes, one cancels) is about to insert under the lock of*)
(* its own UPDATE, the event of a side waits with the smaller identifier   *)
(* and can be read last.  The contents of events, and those of other runs, *)
(* are left out.                                                           *)
(***************************************************************************)
EXTENDS Naturals, Sequences, FiniteSets

CONSTANTS Process,       \* those that write events: one transaction at a time
          MaxIds,        \* bound: identifiers taken
          PageSize       \* LIMIT of list_events (200)

VARIABLES taken,      \* identifiers taken so far
          open,       \* the transaction each process has open
          committed,  \* the events other connections can read
          overtaken,  \* those that became readable after a later one
          ended,      \* the status of the run is COMPLETED, FAILED or CANCELLED
          place,      \* the generator: "list", "yield", "status", "sleep", "done", "gone"
          cursor, page,
          arrived,    \* what the browser got, in order
          shown       \* what the page shows when it has read the run again

log    == <<taken, open, committed, overtaken, ended>>
stream == <<place, cursor, page, arrived>>
vars   == <<log, stream, shown>>

Id == 1 .. MaxIds
\* A side, a status on the way or the last one: these two update the run first.
Kinds == {"side", "status", "end"}
None == [id |-> 0, kind |-> "side"]
Elements(s) == {s[i] : i \in 1 .. Len(s)}

TypeOK ==
  /\ taken \in 0 .. MaxIds /\ open \in [Process -> [id : 0 .. MaxIds, kind : Kinds]]
  /\ overtaken \subseteq committed /\ committed \subseteq 1 .. taken
  /\ ended \in BOOLEAN /\ place \in {"list", "yield", "status", "sleep", "done", "gone"}
  /\ cursor \in 0 .. taken /\ page \subseteq committed /\ arrived \in Seq(Id)
  /\ shown \in {"nothing", "working", "ended"}

Init ==
  /\ taken = 0 /\ open = [p \in Process |-> None] /\ committed = {} /\ overtaken = {}
  /\ ended = FALSE /\ place = "list" /\ cursor = 0 /\ page = {} /\ arrived = <<>>
  /\ shown = "nothing"
-----------------------------------------------------------------------------
\* _event, in a transaction of begin_execution or complete_execution (side) or
\* of one that has updated the run and excludes another of its kind.
Insert(p, kind) ==
  /\ open[p] = None /\ taken < MaxIds
  /\ kind # "side" => \A q \in Process : open[q].kind = "side"
  /\ taken' = taken + 1
  /\ open' = [open EXCEPT ![p] = [id |-> taken + 1, kind |-> kind]]
  /\ UNCHANGED <<committed, overtaken, ended, stream, shown>>

CommitEvent(p) ==
  LET id == open[p].id IN
  /\ open[p] # None
  /\ committed' = committed \cup {id}
  /\ overtaken' = IF \E e \in committed : e > id THEN overtaken \cup {id} ELSE overtaken
  /\ ended' = (ended \/ open[p].kind = "end")
  /\ open' = [open EXCEPT ![p] = None]
  /\ UNCHANGED <<taken, stream, shown>>

\* A failed statement, or the end of the process.
RollBack(p) ==
  /\ open[p] # None
  /\ open' = [open EXCEPT ![p] = None]
  /\ UNCHANGED <<taken, committed, overtaken, ended, stream, shown>>
-----------------------------------------------------------------------------
\* A page of the newest events.
NewestAfter(id) ==
  LET new == {e \in committed : e > id}
  IN  {e \in new : Cardinality({f \in new : f > e}) < PageSize}
\* list_events: ORDER BY id LIMIT 200.
After(id) ==
  LET new == {e \in committed : e > id}
  IN  {e \in new : Cardinality({f \in new : f < e}) < PageSize}

\* Behind the events of a page comes the status.
Behind(p) == IF p = {} THEN "status" ELSE "yield"

List ==
  /\ place = "list"
  /\ page' = After(cursor) /\ place' = Behind(page')
  /\ UNCHANGED <<log, cursor, arrived, shown>>

Yield(e) ==
  /\ place = "yield" /\ e \in page /\ \A f \in page : e <= f
  /\ cursor' = e /\ arrived' = Append(arrived, e)
  /\ page' = page \ {e} /\ place' = Behind(page')
  /\ UNCHANGED <<log, shown>>

\* done tells the status just read, whatever was committed since the list.
ReadStatus ==
  /\ place = "status"
  /\ place' = IF ended THEN "done" ELSE "sleep"
  /\ UNCHANGED <<log, cursor, page, arrived, shown>>

Sleep ==
  /\ place = "sleep" /\ place' = "list"
  /\ UNCHANGED <<log, cursor, page, arrived, shown>>

\* The connection breaks, or the browser leaves the page.
Disconnect ==
  /\ place \in {"yield", "sleep"} /\ place' = "gone"
  /\ UNCHANGED <<log, cursor, page, arrived, shown>>

\* openValidationResult, after consumeSse has returned (a broken connection
\* that raises leaves the page as it is).
ReadRun ==
  /\ place \in {"done", "gone"} /\ shown = "nothing"
  /\ shown' = IF ended THEN "ended" ELSE "working"
  /\ UNCHANGED <<log, stream>>

Next ==
  \/ \E p \in Process : (\E kind \in Kinds : Insert(p, kind)) \/ CommitEvent(p) \/ RollBack(p)
  \/ List \/ (\E e \in Id : Yield(e)) \/ ReadStatus \/ Sleep \/ Disconnect \/ ReadRun

Spec == Init /\ [][Next]_vars
-----------------------------------------------------------------------------
\* The browser gets committed events in the order of their identifiers, each
\* once.  An event behind the cursor that it did not get was committed after a
\* later one; nothing is lost to the limit of a page.
NothingSkipped ==
  /\ \A i, j \in 1 .. Len(arrived) : i < j => arrived[i] < arrived[j]
  /\ Elements(arrived) \subseteq committed
  /\ \A e \in committed : e <= cursor => e \in Elements(arrived) \cup overtaken

\* Events may still be missing when the stream is done, that of the last status
\* too; the page then shows the end of the run all the same.
DoneIsShown == place = "done" => ended /\ shown # "working"
=============================================================================
