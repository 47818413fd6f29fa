---------------------------- MODULE EventDelivery ----------------------------
(***************************************************************************)
(* Six that must arrive although parts of them fail, as one specification: *)
(* the diagnosis at its report (Investigation), its events at one browser  *)
(* (DiagnosisEvents), those of a validation (ValidationEvents), the        *)
(* completed case at the history index and Logstash (HistoryOutbox), the   *)
(* code index at the deployed commit (CodeState), and the lab's            *)
(* notifications (NotificationQueue).  What one hears of another is in its *)
(* constants, so a behaviour exercises one of them: part names it, the     *)
(* variables of the others keep their initial value.                       *)
(***************************************************************************)
EXTENDS DiagnosisEvents, Integers, FiniteSets

CONSTANTS Task, Worker, MaxEvent, Batch, MaxFailures, MaxLosses,  \* HistoryOutbox
          Path, Navigation, Commit, Tree, Caller, ProcessOf,      \* CodeState
          MaxFiles, MaxGitFailures,
          Notification, Courier, Capacity, HistoryLimit, MaxFaults,  \* NotificationQueue
          Case, Shows(_, _), Guess, MaxSteps, MaxCallFailures, MaxCrashes,  \* Investigation
          Process, MaxIds, PageSize                               \* ValidationEvents

VARIABLES part,
          completed, row, due, doc, open, committed, delivered, posted, worker,
          failures, losses,
          head, rows, lock, caller, gitFailures, skipped, late, astray,
          case, pos, opened, running, stale, pending, records, shown, synthesis, verdict,
          callFailures, crashes,
          jobs, queued, holds, timers, mode, faults, leaked, reply, sent, dropped,
          taken, writing, readable, overtaken, ended, place, position, page, arrived, reread

ASSUME ValidationAssumption == MaxIds \in Nat /\ PageSize \in Nat \ {0}

ASSUME CodeAssumption ==
  /\ 0 \notin Commit /\ 0 \notin Caller /\ Navigation \subseteq Path
  /\ Tree \in [Commit -> [Path -> Nat]] /\ MaxGitFailures \in Nat

ASSUME HistoryAssumption ==
  MaxEvent \in Nat /\ Batch \in Nat /\ MaxFailures \in Nat /\ MaxLosses \in Nat

ASSUME NotificationAssumption == MaxFaults \in Nat

H == INSTANCE HistoryOutbox WITH Limit <- Batch, received <- posted
S == INSTANCE CodeState WITH MaxFailures <- MaxGitFailures, failures <- gitFailures
I == INSTANCE Investigation WITH MaxFailures <- MaxCallFailures, failures <- callFailures, open <- opened
N == INSTANCE NotificationQueue WITH Worker <- Courier, pending <- queued, delivered <- sent
V == INSTANCE ValidationEvents WITH open <- writing, committed <- readable, cursor <- position,
       shown <- reread

history == <<completed, row, due, doc, open, committed, delivered, posted, worker, failures, losses>>
code == <<head, rows, lock, caller, gitFailures, skipped, late, astray>>
investigation == <<case, pos, opened, running, stale, pending, records, shown, synthesis,
                   verdict, callFailures, crashes>>
notifications == <<jobs, queued, holds, timers, mode, faults, leaked, reply, sent, dropped>>
validation == <<taken, writing, readable, overtaken, ended, place, position, page, arrived, reread>>
all == <<part, vars, history, code, investigation, notifications, validation>>

\* The questions are asked only in their own part.
AllInit ==
  /\ Init /\ H!Init /\ S!Init /\ I!Init /\ N!Init /\ V!Init
  /\ part \in {"stream", "history", "code", "investigation", "notifications", "validation"}
  /\ part # "investigation" => case = CHOOSE c \in Case : TRUE

\* A step of one part: the others do not move.
InStream(A) == /\ part = "stream" /\ A
               /\ UNCHANGED <<part, history, code, investigation, notifications, validation>>
InHistory(A) == /\ part = "history" /\ A
                /\ UNCHANGED <<part, vars, code, investigation, notifications, validation>>
InCode(A) == /\ part = "code" /\ A
             /\ UNCHANGED <<part, vars, history, investigation, notifications, validation>>
InInvestigation(A) == /\ part = "investigation" /\ A
                      /\ UNCHANGED <<part, vars, history, code, notifications, validation>>
InNotifications(A) == /\ part = "notifications" /\ A
                      /\ UNCHANGED <<part, vars, history, code, investigation, validation>>
InValidation(A) == /\ part = "validation" /\ A
                   /\ UNCHANGED <<part, vars, history, code, investigation, notifications>>

AllNext == \/ InStream(Next) \/ InHistory(H!Next) \/ InCode(S!Next)
           \/ InInvestigation(I!Next) \/ InNotifications(N!Next) \/ InValidation(V!Next)

\* The fairness of the three that state one.  A behaviour stays in its part, so
\* one condition on what two parts may do is a condition on each of them.
AllSpec ==
  /\ AllInit /\ [][AllNext]_all
  /\ SF_all(InStream(Finish))
  /\ \A w \in Worker : WF_all(InHistory(H!RunOnce(w)))
  /\ \A t \in Task :
       WF_all(InStream(Stream) \/ InInvestigation(I!Work) \/ InHistory(H!BackoffEnds(t)))

\* Each part is well typed, and:
\* See DiagnosisEvents and ValidationEvents: a browser gets events in their
\* order, each once, and knows how it ended when the stream is done.
EventsInOrder ==
  /\ ReceivedIsPrefix
  /\ part = "validation" => V!TypeOK /\ V!NothingSkipped /\ V!DoneIsShown
\* See DiagnosisEvents: every stream comes to its terminal event.
StreamedToTheEnd == part = "stream" => TerminalEventArrives
\* See HistoryOutbox: every completed diagnosis comes into the index, and
\* every committed event to Logstash.
IndexedAndReceived == H!EveryCaseIndexed /\ H!EveryEventReceived
\* See CodeState: the index is that of the commit it names.
NavigationIsCurrent == part = "code" => S!TypeOK /\ S!NavigationIsCurrent
\* See Investigation: every diagnosis comes to a report.
EventuallyReported == part = "investigation" => I!EventuallyReported
\* See HistoryOutbox and NotificationQueue: what an outbox marks as delivered
\* was delivered, and an accepted notification is on its way or delivered once,
\* unless its retry met a full queue.
OutboxesAreTrue ==
  /\ part = "history" => H!TypeOK /\ H!MarkedIsThere
  /\ part = "notifications" => N!TypeOK /\ N!NotificationKept
=============================================================================
