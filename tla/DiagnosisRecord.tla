--------------------------- MODULE DiagnosisRecord ---------------------------
(***************************************************************************)
(* What diagnoses find and leave behind, as one specification: their tool  *)
(* calls and conclusions (Investigation), their messages in the            *)
(* conversation (ConversationLog), those of the chat page (ChatStream),    *)
(* the compaction of them (ContextCompaction), the tables a report is      *)
(* projected to (IncidentProjection), and the usage and audit rows of the  *)
(* model calls (ModelCalls).  What one hears of another is in its          *)
(* constants and inputs, so a behaviour exercises one of them: part names  *)
(* it, the variables of the others keep their initial value.               *)
(***************************************************************************)
EXTENDS ConversationLog, Integers

CONSTANTS MaxMessages, UserTurn, Fact, Reference, Compactor, SameLoop, MaxCompactions,
          Service, DependsOn, Call, Names, Candidates, SqlCalls, Target, Trigger, Findings,
          Outside, MaxAttempts, MaxInterrupted,            \* IncidentProjection
          Provider, Retries, MaxIterations, Disabler,      \* ModelCalls
          Request, Nobody, Old, MaxFaults,                 \* ChatStream
          Case, Shows(_, _), Guess, MaxSteps, MaxCallFailures, MaxCrashes  \* Investigation

VARIABLES part,
          writing, texts, latest, memory, compactor,
          status, attempts, at, report, rows, facts, nodes, edges, root, events,
          kind, loop, call, ledger, key, disable,
          req, transcript, directories, page,
          case, pos, opened, running, stale, pending, records, shown, synthesis, verdict,
          callFailures, crashes

C == INSTANCE ContextCompaction WITH messages <- texts
P == INSTANCE IncidentProjection WITH steps <- rows, evidence <- facts
M == INSTANCE ModelCalls
S == INSTANCE ChatStream
I == INSTANCE Investigation WITH MaxFailures <- MaxCallFailures, failures <- callFailures,
       open <- opened

ASSUME ContextAssumption == C!BoundAssumption
ASSUME ProjectionAssumption == P!CatalogAssumption /\ P!RequestAssumption
ASSUME CallingAssumption == M!LimitAssumption
ASSUME StepsAssumption == I!StepsAssumption

context == <<writing, texts, latest, memory, compactor>>
projection == <<status, attempts, at, report, rows, facts, nodes, edges, root, events>>
calling == <<kind, loop, call, ledger, key, disable>>
chat == <<req, transcript, directories, page>>
investigation == <<case, pos, opened, running, stale, pending, records, shown, synthesis,
                   verdict, callFailures, crashes>>
all == <<part, vars, context, projection, calling, chat, investigation>>

\* The incidents, and both loops of model calls, are asked about only in
\* their own part.
AllInit ==
  /\ Init /\ C!Init /\ P!Init /\ M!Init /\ S!Init /\ I!Init
  /\ part \in {"log", "context", "tables", "calls", "chat", "investigation"}
  /\ part # "calls" => kind = "agent"
  /\ part # "investigation" => case = CHOOSE c \in Case : TRUE

AllNext ==
  /\ UNCHANGED part
  /\ \/ part = "log" /\ Next /\ UNCHANGED <<context, projection, calling, chat, investigation>>
     \/ part = "context" /\ C!Next /\ UNCHANGED <<vars, projection, calling, chat, investigation>>
     \/ part = "tables" /\ P!Next /\ UNCHANGED <<vars, context, calling, chat, investigation>>
     \/ part = "calls" /\ M!Next /\ UNCHANGED <<vars, context, projection, chat, investigation>>
     \/ part = "chat" /\ S!Next /\ UNCHANGED <<vars, context, projection, calling, investigation>>
     \/ part = "investigation" /\ I!Next
          /\ UNCHANGED <<vars, context, projection, calling, chat>>

AllSpec == AllInit /\ [][AllNext]_all

\* Every variable of the first three has its type; a message identifier has one row.
RecordTypesOK == CASE part = "log" -> TypeOK [] part = "context" -> C!TypeOK
                   [] part = "tables" -> P!TypeOK [] OTHER -> TRUE
\* See ContextCompaction: every message is summarised or still in the context.
NothingForgotten == part = "context" => C!NothingForgotten
\* See ContextCompaction: the active facts are those of the last compaction.
ActiveStateIsLatest == part = "context" => C!ActiveStateIsLatest
\* See IncidentProjection: no row refers to one that is not there.
TablesAgree == part = "tables" => P!TablesAgree
\* See IncidentProjection: a COMPLETED diagnosis shows its own report.
CompletedIsShown == part = "tables" => P!CompletedIsShown
\* See IncidentProjection: no report fails for what another diagnosis stored.
ReportIsStored == P!ReportIsStored
\* See ModelCalls: rows, tokens, the bounds of the loops and disabled keys
\* agree with what the clients were told.
CallsAreAccounted == part = "calls" => M!CallsAreAccounted
\* See ChatStream: what the chat page was shown is in the conversation.
ChatIsRecorded == part = "chat" => S!ChatIsRecorded
\* See Investigation: the timeline keeps to max_steps, the scripted observation
\* is complete before any plan, and the gate turns down no root cause that a
\* rule confirms.
ObservationIsSound ==
  part = "investigation" =>
    I!TypeOK /\ I!BudgetKept /\ I!BaselineComplete /\ I!RuleConclusionStands
\* See Investigation: undisturbed, the diagnosis confirms the incident.
IncidentFound == part = "investigation" => I!IncidentFound
=============================================================================
