# Formal models of the SRE agent platform

TLA+ modules, TLC configurations and TLAPS proofs about the platform: above all the
Python service `sre-agent-backend/sre-agent`, which runs diagnoses and pre-merge
validations as background tasks on several processes over one MySQL database, and the
programs around it, its model gateway, the page that talks to it and the lab system it
diagnoses. Paths below are relative to `src/`; `app/` stands for
`src/sre-agent-backend/sre-agent/app/`.

1. [The system](#1-the-system)
2. [Modules](#2-modules)
3. [Runs](#3-runs)
4. [Bounds](#4-bounds)
5. [Fairness](#5-fairness)
6. [Proofs](#6-proofs)
7. [Disagreements between code and documents](#7-disagreements-between-code-and-documents)
8. [Not modelled, and the plan](#8-not-modelled-and-the-plan)

To check everything, in this directory:

    tlc -workers 2 -config LeaseSafety.cfg MCDiagnosisLease.tla     # and the others of section 3
    tlapm DiagnosisLeaseProofs.tla         # and DiagnosisOutcomeProofs, DiagnosisRecordProofs,
                                           # EventDeliveryProofs, RepeatedRequestsProofs,
                                           # ValidationPartsProofs, OrderSagaProofs, SumTheorems

## 1. The system

### Components, their state and how they meet

| Component | State | Operations | Meets |
| --- | --- | --- | --- |
| Diagnosis execution (`app/diagnosis/execution.py`, `repository.py`, `orchestrator.py`, `service.py`, `app/workflow/diagnosis.py`) | `diagnosis_sessions` (status, lease, version, attempt, checkpoint), `_investigation_steps`, `_evidence`, `_root_causes`, `_events`; per process a task with a `DurableWorkflowRuntime` | create, submit, recover stale, claim, checkpoint, heartbeat, phases, begin/complete tool, report, complete, fail, interrupt, shutdown | other processes through the session row; conversation store; event stream |
| Conversation store (`app/conversation/service.py`) | `conversations`, `conversation_messages` | append (upsert on a stable id), read, `get_tool_result` | every tool call and report of a durable run |
| Diagnosis event stream (`app/diagnosis/router.py`) | `diagnosis_events`; per connection a cursor | list, yield, end, reconnect with `Last-Event-ID` | the executor that writes events and the status |
| Validation runs (`app/validation/service.py`, `repository.py`, `comparator.py`) | `validation_runs`, `_request_configs`, `_uploaded_tests`, `_executions`, `_regressions`, `_events`; per process a dictionary of tasks | create with an Idempotency-Key, execute, cancel, shutdown, startup scan, diagnose | other processes through the run's row; diagnosis execution |
| Validation event stream (`app/validation/router.py`) | a cursor | list, yield, done | validation runs |
| Test suites and interface generation (`app/validation/service.py`) | suites, versions, generation operations | create, version, archive, generate | validation runs, model gateway |
| Validation sandbox (`app/validation/runner.py`) | a workspace, threads and containers of each side | extract, build, test, time out, remove, normalise reports | validation runs, the Docker daemon |
| Regression to diagnosis (`ValidationService.diagnose`) | `validation_runs.diagnosis_id` | read, create, evidence, link, submit | diagnosis execution and its recovery scan |
| Workflow, planner, evidence gate (`app/workflow`) | timeline, evidence, synthesis of a `DiagnosisState` | scripted groups of calls, rules, model decisions, synthesis, gate | tools, model gateway; checkpoints of diagnosis execution |
| Incident projection (`app/diagnosis/orchestrator.py`, `repository.py`) and self-check (`self_check.py`) | evidence, steps, graph nodes and edges, root cause, events | start projection, tool step, report, rules on the rows | all diagnoses through the shared tables |
| Conversation memory (`app/conversation_memory`) | compaction boundary, summary, memory items | snapshot, compact, commit, search | conversation store, model gateway |
| Diagnosis history (`app/history`) | history rows and delivered event ids | capture, index, acknowledge, retry, rebuild | diagnosis tables, Elasticsearch, Logstash |
| Code state index (`app/code_state`) | components of navigation files, anchored at a commit | ensure: scan or incremental update | Git, model gateway, other processes through the tables |
| Interactive chat and quick diagnosis (`app/api/router.py`, `app/intent`, quick route of `app/diagnosis/router.py`) | per request a task, a queue and a workspace directory | classify, append, diagnose, send, cancel | conversation store, the page |
| Model loops and client (`app/agent/tool_agent.py`, `app/llm`) | counters of a loop | ask, parse, refill, call a tool | `sre-gateway` |
| `sre-gateway` | keys, usage rows, audit rows | authenticate, call a provider, log, answer, disable a key | providers, the client |
| Frontend (`sre-agent-frontend/src/App.vue`) | what the page shows | send, open, leave, reload | chat and quick streams |
| Lab services (`sre-broken-system`) | orders, stock, payments, notification queue | the order saga, refunds, notifications, fault modes | each other over HTTP |
| Authentication, tool policy, CI and GitOps | tokens, policies, files | lookups, scripts | |

Everything durable goes through short SQL transactions, each on a connection of its
own. Inside a process there is one asyncio event loop and the database calls are
synchronous: two statements without an `await` between them are not interleaved with
another coroutine of the process, but other processes come in between. The GitOps
values run two replicas in staging and production
(`deploy/gitops-template/environments/prod/values.yaml`), so that several processes
are a configuration of the repository and not a hypothesis.

### What is hard, and what must hold

| Behaviour | What must hold |
| --- | --- |
| Leases expire while an executor is paused; clocks differ; several scanners see the same stale session | whoever writes is the latest claimant; a terminal row never changes |
| Crash at any statement; graceful shutdown; resume from the checkpoint | every recorded call is in the checkpoint; one conclusion is reported; recorded steps stay |
| Attempts run out while the last one runs or dies | the session ends, once, with its terminal event |
| Unfenced appends of concurrent attempts, with stable ids | evidence can be read back; transcripts keep their order; rows belong to one conversation |
| Broken SSE connections; the status read apart from the events | resumption without a gap; an ended stream is complete |
| Retried and conflicting POSTs with one key, on two processes | what runs is what was accepted, once |
| Cancellation against a running task, shutdown, startup scans | CANCELLED stays; a run that was taken ends |
| Tool calls that fail or are repeated after a resume, with a budget | the baseline is complete, the incident is found, the diagnosis comes to a report |
| Reports of several diagnoses and attempts in shared tables | no row refers to one that is not there; a completed diagnosis shows its own report |
| Compactions that overlap messages and each other | no message leaves the context unread |
| At-least-once delivery by workers without a lock; bounded queues with retries | everything accepted arrives, or its loss has a name |
| Awaits that are given up while their thread, container or server goes on | nothing is left over, charged, sold or logged that the result does not tell |
| A page that navigates while streams are open | what was shown is stored, under the right question |

`PROJECT.json` lists each hazard at its line with the properties that watch it, or the reason why none does.

## 2. Modules

    DiagnosisTask            what a durable diagnosis promises
      ^ implemented by       DiagnosisLeaseRefinement
    DiagnosisLease           one session row and the executors that compete for it
      ^ proved about         DiagnosisLeaseProofs, DiagnosisOutcomeProofs (with the refinement)

    DiagnosisRecord          what diagnoses find and leave behind, the sum of
      Investigation            what the phases call and conclude (LabIncidents: the lab's cases)
      IncidentProjection       the tables that reports of several diagnoses share
      ConversationLog          the messages the attempts append, two diagnoses
      ContextCompaction        the summary of a conversation and its memory items
      ChatStream               questions asked from the page, answered in a stream
      ModelCalls               the loops of model calls and the gateway behind them
      ^ proved about         DiagnosisRecordProofs

    EventDelivery            what must arrive although parts of it fail, the sum of
      DiagnosisEvents          the events of a diagnosis as a client sees them
      ValidationEvents         those of a validation
      HistoryOutbox            completed diagnoses and events on their way to search
      CodeState                the index of a repository at a commit
      NotificationQueue        the notifications of the lab
      Investigation            (its longest cases, for liveness)
      ^ proved about         EventDeliveryProofs

    RepeatedRequests         requests that meet, are repeated or are served late, the sum of
      ValidationRun            one validation row, the POSTs that make it, the processes that run it
      InterfaceGeneration      suites, versions and generated tests behind a validation
      RegressionDiagnosis      the link from a validation to its diagnosis
      ValidationSandbox        the workspace and the containers of its two sides
      OrderSaga                orders, stock and payments of the lab
      ^ proved about         RepeatedRequestsProofs, which lifts OrderSagaProofs;
                             ValidationPartsProofs

    ValidationTask           what a validation run promises
      ^ implemented by       ValidationRunRefinement, where one process serves the run
      ^ proved about         RepeatedRequestsProofs

    SumTheorems              sums over finite sets, for OrderSagaProofs and DiagnosisRecordProofs

The modules `MC...` only give constants their values: `MCDiagnosisLease`,
`MCDiagnosisLeaseRefinement`, `MCDiagnosisRecord`, `MCEventDelivery`, `MCRepeatedRequests`,
and `MCConversationLog`, `MCValidationRun`, `MCInvestigation` for runs of one part.

Three modules are sums. What a component hears of another is in its constants and
inputs (a tool call answers or fails, a message arrives, a process stops), so that
components with no common variable can be checked as one instance without the product
of their state spaces: `part` names the component whose actions a behaviour takes, the
variables of the others keep their initial value. A property `P` of the part `x` is
there `part = "x" => X!P`, often together with the type invariant of the part. The
proofs are about the sums too: a step of the sum is a step or a stutter of each of its
parts, so that an invariant of a part is one of the sum.

### DiagnosisLease

One diagnosis. An action is one SQL transaction of one process. The variables are the
columns of `diagnosis_sessions`, the other tables reduced to what matters, and for each
process where its `_execute` task stands (`pc`), its runtime (`ver`, `mem`, `cursor`,
`called`, `inflight`, `beats`) and `epoch`, a history variable: the attempt it claimed.

| Code | Model |
| --- | --- |
| `claim`, its re-read, checkpoint validation | `Claim`, `ReadClaim`, `RejectCheckpoint`, `AppendRecovered` |
| `_lock_owner` and the version test of every durable write | `Owns` (a guard of `SaveCheckpoint`, `BeginTool`, `CompleteTool`, `CompleteSession`, ...) |
| `recover_stale_diagnoses`: list, submit or mark exhausted | `ScanSubmit`, `ScanExhausted`, `MarkMaxAttempts` |
| phases: started, calls, completed, checkpoints, resume cursor | `PhaseStarted`, `BeginTool`, `ReuseTool`, `CompleteTool`, `PhaseCompleted`, `PhaseCheckpoint`, `ResumeCursor` |
| the commit error that `_call_concurrently` swallows | `SwallowCommitError` |
| deadline, failure, ownership lost, shutdown, crash | `Deadline`, `FailSession`, `OwnershipLost`, `Shutdown`, `Crash` |
| report and completion | `PersistReport`, `CompleteSession` |

A `DiagnosisState` is reduced to its run, the calls on its timeline, the evidence and
the attempt whose synthesis it holds. Which calls a phase makes is left open. Time is
what is left of the lease; each process has a constant clock error (`Skew`). A process
that goes down never comes back under the same `executor_id`; a restart is another
member of `Executor`.

Two observations from building it. `executor_id` is unique, so the owner test alone
fences almost every write; `state_version` matters where a claim is committed and then
read again by another connection (`repository.py:509`), and there alone: replacing
`Owns` by a test of the version breaks `NoStaleWrite`, because the re-read may return
the version of the next claim. And a session whose lease is live on true time is never
taken only if clocks agree (`NoLiveLeaseTaken` is checked with `Skew` zero; `LeaseSafety`
uses a fast clock, and fencing holds all the same).

### DiagnosisTask and DiagnosisLeaseRefinement

The promise without leases, versions, phases and clocks: one holder at a time, at most
`MaxAttempts` attempts, what was learnt survives the holder, one end. The refinement
maps the row's owner to the holder, the COMPLETED steps to the results and the
checkpoint to what the next executor will know.

### ConversationLog

`messages` is the table, each row with the attempt that wrote it and the conversation.
Attempts take the lease from each other at any time (when they may is the business of
DiagnosisLease), and go through run, `_call` and `_update_conversation_context` with
their fenced and unfenced writes as separate steps. `CallId` leaves the diagnosis out,
`ResultId` has it in, as in the code.

### DiagnosisEvents

The generator of `GET /api/diagnoses/{id}/events` with its cursor and the two reads of
an idle round as separate steps, a writer, and a connection that breaks, perhaps with
the last event lost. `SameLoop` says that the executor of the diagnosis runs on the
event loop that serves the stream, so that nothing comes between the two reads.

### ValidationEvents

The stream of a validation. An event takes its identifier (`Insert`) before its
transaction waits for the row of the run, so that another process may commit a later one
first: `overtaken` are the events that became readable behind one that was already there.
The generator lists a page, yields it, reads the status and ends (`List`, `Yield`,
`ReadStatus`); the page does not connect again but reads the run (`ReadRun`). What
arrives is in order, and complete up to the cursor but for the events in `overtaken`.

### ValidationRun

One row of `validation_runs`. `handler[p]` is the POST that p serves (`Post`,
`CheckRequest`, `Store`: the transactions of `create`), `task[p]` the place of `execute`,
`work[p]` its two `_run_side` coroutines, `up[p]` the process. `update_run` has no
condition, so `StartSides`, `Compare`, `Conclude`, `RecordError` and `Abort` have none.
`LoopIsFree` keeps the statements of one process that no `await` separates together.
`Fault` is a statement that raises; a side that raises leaves the other one running, as
`asyncio.gather` does. A request is its target (the compared columns) and its suite
(what the fingerprint hashes); every request brings test files, so `store_uploaded_tests`
always runs. A side ends with its execution row: its status (COMPLETED, TIMEOUT, FAILED),
how the build and the test process ended and, for each test, whether the report names it
and it passed; `RunnerResult` says which rows the runner can produce. `Inconclusive` and
`Regression` follow `ValidationComparator.compare` over two such rows (both builds, then
the cases both reports name, then the test processes), and `Verdict` is what decides
between COMPLETED and FAILED. Not kept: `set_test_suite_hash`, evidence rows, events,
classifications that do not change the verdict (fixes, existing failures, the confidence),
and the source of a test, which selects between classes of the same verdict.

### ValidationTask and ValidationRunRefinement

The promise without coroutines, transactions, restarts and failed statements: the tests
are settled by the first request that gets so far (`Receive`), and whoever is told of the
run wants the same target and tests; each side is started once (`StartSide`), on those
tests, and has one result (`EndSide`); the verdict is drawn once, from both (`Compare`,
`Judge`), and is clean exactly if nobody gave up a side (`Reliable`) and the candidate is
built and does no worse than base in what base was asked (`NoWorse`), which is stated from
what a user wants to know and not along the returns of the comparator; the status moves forward to one end (`Advance`, `Conclude`, `Fail`, `Cancel`).
The refinement maps the columns of the row, the statuses of the executions and the
identifiers that were answered to the state of the promise. A side may be started or end
after the run has failed or was cancelled, and a completed run may become FAILED, because
`add_result_evidence` comes after the status (`app/validation/service.py:562`): the promise
says both. It holds where one process serves the run. With two, the status may leave
CANCELLED (`CancelOverwritten`), while what is run, and how often, is still as promised
(`RunsWhatWasAccepted`, `StartedOnce`).

### Investigation and LabIncidents

One diagnosis from TRIAGE to END. `pos` is the phase, with the groups of calls that the
baseline and the propagation dispatch together; `records` is the timeline (how often a
call was recorded), `shown` what it found, `running`, `stale` and `pending` the calls
under way, left RUNNING by a crash, and to be made again. `CallGroup`, `Answer` and
`NextScripted` are `_call_concurrently` and the scripted phases, `FollowRule` the decision
rules in their order, `FollowModel` the planner where none applies, `Synthesize` the
synthesis rules and the model, `Report` the gate. An incident is the set of signals each
tool shows while it lasts; LabIncidents has those of `evals/SRE-001` to `SRE-010`.

### IncidentProjection

The rows of `diagnosis_investigation_steps`, `_evidence`, `_graph_nodes`, `_graph_edges`,
`_root_causes` and `_events` for two diagnoses with attempts that may stop anywhere.
`PersistReport` is the one transaction of `_persist_report`; `EdgeExists` is the primary
key of the edges, whose identifier leaves the diagnosis out. `Issues` is the self-check's
Level 3 (`app/diagnosis/self_check.py`). The self-check reads in one snapshot
(`autocommit=False` on REPEATABLE READ, `app/core/database.py`), so that it is a state
predicate. The catalog is smaller than the 20 services at which the expansion stops.

### ContextCompaction

A message is its rank by (created_at, id). `StartCompaction` takes the snapshot, `Commit`
writes boundary, summary and items, `CompactionFails` is a refused model call. `Stamp` and
`Append` separate the clock from the commit, which only a second process can (`SameLoop`).

### ChatStream

`req[r]` is the task of a request with its queue and its client; a step goes from one
await of `execute`, `dispatch` or the quick route to the next. `Raise` is the handler that
appends the error and sends it, `Over` the end that removes the workspace. The page keeps
the conversation it sends to, the one it shows, and the quick diagnosis it began; an
answer whose frame comes after the user opened something else is an action like any
other. The frames of phases and tools are left out, since no property tells them apart.
`transcript[r]` are the messages that request r left in its conversation, in their order;
how the requests of one conversation interleave is left out, since no property relates
the messages of two requests.

### ModelCalls

`loop` is `ToolAgent.run` or `generate_structured`, `call` the request in the client, the
gateway and its rows. Each row is a commit of its own that may fail. The outcomes are
those of the adapters: the sets of all providers are one of three, or part of one, and
the run takes the largest. A key is disabled by two clients meanwhile.

### HistoryOutbox, CodeState

HistoryOutbox: workers without a lock that capture, write, acknowledge, back off and
deliver events by identifier; statements that fail, processes that stop, an index that is
lost and rebuilt. CodeState: `ensure` of several callers in several processes, over commits
in which files come and go. The lock (`app/code_state/service.py:52`) is one of the process,
the tables are shared by the replicas: `lock` has one entry for each process, and callers of
different processes read and write in any order. `skipped` are files that Git could not read
or that were over the limit; `late` are callers whose old commit another process has replaced
since they read it, and `astray` the files that the update of such a caller did not know of.

### InterfaceGeneration, RegressionDiagnosis, ValidationSandbox

InterfaceGeneration: a version is the set of those whose tests it holds; uploads and
archiving go on while a request waits for the model, and also between the commit of its
version (`StoreVersion`) and the transaction in which `get_test_suite` reads the suite back
(`ReadBack`), of which the service takes `versions[0]`; `followed` are the keys for which
somebody else's version came first there. RegressionDiagnosis: the five
transactions of `diagnose` in several processes, and the recovery scan. ValidationSandbox:
the coroutine of a side (`pc`) apart from the thread it awaits (`thread`) and the container
that thread started (`container`), because each of them may outlive the one before.

### OrderSaga, NotificationQueue

OrderSaga: the order service's request threads, the tables of orders, stock and payments,
and `late`, the calls whose client has gone and which the server may serve at any time.
NotificationQueue: the channel, the table of jobs, workers and timers. The counter of
leaked goroutines is a number that grows with a delivery in that mode.

## 3. Runs

Runs that pass:

| Run | Instance | Shows |
| --- | --- | --- |
| `LeaseSafety` | 2 executors, one clock ahead, 1 call, 2 attempts, 1 heartbeat | `TypeOK`, `OwnerIsLatestClaimant`, `SelfCheckErrors` (whenever the self-check looks, the only ERRORs of a session are of one out of attempts or claimed a moment ago; one report and one terminal event for every outcome), `NoStaleWrite`, `TerminalIsFinal` |
| `LeaseRefinement` | 2 executors, one clock ahead, a scripted and a planned call, 2 attempts | `ImplementsTask`: the protocol implements `DiagnosisTask`; `CheckpointCoversCompleted`, `ReportIsConsistent`, `CompletedStepsFixed` |
| `LeaseLiveness` | 2 executors with agreeing clocks, one of which stays up | `EventuallyTerminal`, `NoLiveLeaseTaken` |
| `ValidationLifecycle` | 1 process, 2 POSTs of 4 requests that differ in suite, target or both, 9 kinds of result over 2 tests, 2 stops, 1 fault | `ImplementsPromise`: the coroutines implement `ValidationTask`, so that CANCELLED stays, and the comparator's verdict is the promised one; `ComparedSidesAreDone` (both sides have ended, and in a COMPLETED run the candidate is built and no worse than base, within the limits that section 7 tells), `TakenRunEnds` |
| `ConversationPair` (MCDiagnosisRecord) | 2 diagnoses making the same call, 3 attempts | `RecordTypesOK`, `EvidenceHasMessage`, `TranscriptInOrder` (never a result without its call, nor a call or a report without the question) |
| | 4 messages, 2 compactors, 3 compactions, one loop | `NothingForgotten`: a message is in the summary or after the boundary; `ActiveStateIsLatest` |
| | 2 diagnoses of a catalog of 2 services, 2 attempts, one of them interrupted | `TablesAgree`: the self-check's relations at every moment; `CompletedIsShown` |
| | either loop, 5 or 4 calls, 2 disablers | `CallsAreAccounted`: rows, tokens, bounds of the loops and disabled keys agree with what clients were told |
| | 2 requests of three kinds, 2 faults, one page | `ChatIsRecorded`: what the page was shown is stored, once, and the page agrees with itself |
| | the ten lab incidents, 12 calls, 1 failed call, 1 crash | `ObservationIsSound` (`BudgetKept`, `BaselineComplete` and `RuleConclusionStands`: the gate turns down no rule's conclusion), `IncidentFound` |
| `EventStream` (MCEventDelivery) | 6 events, pages of 2, 3 broken connections, one loop | `EventsInOrder`, `EndedMeansComplete`, `StreamedToTheEnd` |
| | a validation, 4 identifiers, pages of 2, 2 processes | `EventsInOrder`: in order, once, nothing lost but what was committed behind a later event; a stream that is done has said how the run ended |
| | 1 diagnosis, 2 workers, 2 events in batches of 1, 2 failures, 1 lost index | `OutboxesAreTrue`: what is marked as indexed or delivered was taken, and nothing goes out before its commit; `IndexedAndReceived`: everything arrives |
| | 4 files, 3 commits, 2 callers in one process and 1 in another, 1 Git failure | `NavigationIsCurrent` |
| | the five questions whose answers take the most calls, 12 calls, 1 failed call, 1 crash | `EventuallyReported` |
| | 3 notifications, 2 workers, a queue of 1, a history of 2, 2 faults | `OutboxesAreTrue`: delivered once, or on its way (`NotificationKept`) |
| `ValidationRetries` (MCRepeatedRequests) | 2 processes, 4 requests that differ in suite, target or both, 3 POSTs, 1 stop | `AcceptedIsExecuted`, `RunsOnce` |
| | 2 keys, 2 callers, 2 suites of 3 versions, 1 crash | `OneResultPerKey` |
| | 3 calls of diagnose, each may stop | `OneDiagnosisAnswered` |
| | both sides, four kinds of report file | `SandboxIsClean` |
| | 2 orders over 2 SKUs with one unit each, 2 threads, 2 late calls | `StockAccounted`, `StatusIsTrue`, `RefundIsFinal` |

Where the code loses something that no document promises, or does so in a way section 7
tells, the invariant names exactly that cause as its exception (`kept` in SandboxIsClean,
`dropped` in NotificationKept, `faults` in ChatIsRecorded, `skipped` and `astray` in
NavigationIsCurrent, `followed` in OneResultPerKey, the repeated call in BaselineComplete, `TakenTwice` in
TranscriptInOrder, `losses` and `~Written` in HistoryOutbox), so that any other loss
violates it.

Every property of these runs is also checked against a mutant of the code, an operator
beside the original with the plausible mistake, which TLC must reject (for instance
`StopsWhenIdle`, `OwnsByVersion`, `RemovedOther`, `TakesReportForWritten`, `ThroughNow`; they carry
the comment "Mutant" or say what the mistake is).

Runs that end in a violation, each for a sentence of the repository that the code does
not keep, are in section 7.

## 4. Bounds

| Bound | Value | Why it is enough |
| --- | --- | --- |
| `Executor` | 2 | a takeover needs two; with two attempts a third process adds only symmetric interleavings. The proofs are for any number |
| `MaxAttempts` | 2 | one takeover, and the exhausted case after the last attempt |
| `EndPhase` | 5 | one scripted phase, INVESTIGATE, VERIFY, REPORT, END: each kind of phase once, in the code's order |
| `LeaseTtl`, `Skew` | 1, up to 1 | live, just expired, and a clock for which a live lease is over |
| `MaxHeartbeats` | 1, 0 in the larger runs | one renewal against a claim; more repeat it |
| `Survives` | guard of `Crash` and `Shutdown` | the models ask what happens while one process lives |
| `Attempt` (ConversationLog) | 3, each once | a stale attempt and its successor, beside another diagnosis |
| `MaxEvents`, `Limit`, `MaxDrops` | 6, 2, 3 | three pages; a break in, at the end of and between pages. The proofs are for any values |
| `MaxIds`, `PageSize`, `Process` (ValidationEvents) | 4, 2, 2 | an event of each kind and one more, two pages, and one event that is overtaken. The proof is for any values |
| `MaxSteps`, `MaxCallFailures`, `MaxCrashes` (Investigation) | 12 (the default), 1, 1 | the budget ends in the middle of a plan for the longer incidents; a failed call and a crash before or after it |
| `Diagnosis`, catalog, `MaxAttempts`, `MaxInterrupted` (IncidentProjection) | 2, 2 services, 2, 1 | two reports that share an edge, either of them projected twice; the diagnoses share nothing but edges, so interrupting both adds little |
| `MaxMessages`, `MaxCompactions`, `Compactor` | 4, 3, 2 | a question after the boundary, an overlap in either order, an item that comes back |
| `Request`, `MaxFaults` (ChatStream) | 2, 2 | a stream and another question, conversation or service meanwhile; an error whose append fails too. The requests are symmetric |
| `MaxIterations`, `Retries`, `Disabler` (ModelCalls) | 5, 2 (the code's), 2 | four failures in a row reach the refill; two clients disable one key |
| `Worker`, `MaxEvent`, `Batch`, `MaxFailures`, `MaxLosses` (HistoryOutbox) | 2, 2, 1, 2, 1 | an event committed late behind a delivered one; a worker overtaken between write and acknowledgement |
| `Path`, `Commit`, `MaxFiles`, `MaxGitFailures`, `Caller`, `ProcessOf` (CodeState) | 4, 3, 2, 1, 3 callers in 2 processes | a file that stays, goes and returns, or comes late; one over the limit; updates to older and newer commits; a caller that waits for the lock of its process while one of the other process writes. The proof is for any values |
| `Notification`, `Capacity`, `HistoryLimit` | 3, 1, 2 | a full channel and a full table, each with a retry under way |
| `Order`, `Sku`, `Worker`, `MaxLate` (OrderSaga) | 2, 2, 2, 2 | two orders for the last unit, a request and a reconcile of one order, two late calls of it. Threads are symmetric |
| `Side`, `Report` (ValidationSandbox) | 2, 4 files | the sides meet in a cancellation or a crash only; a readable, a skipped, an unreadable and an ill-timed report |
| `Test`, `Results` (ValidationRun) | 2 tests, 9 rows in `ValidationLifecycle`, 3 elsewhere | each return of the comparator by some pair of rows: a side given up or raised, a build that fails on either or both, no report, one report, tests that fail on one side, on both, or in a case the other lacks. The runs with 3 rows look at requests and processes, which no result influences |
| `Requests`, `MaxRequests`, `MaxStops`, `MaxFaults` (ValidationRun) | 4, 3/2, 2/1, 1 | a request, a conflicting one and a retry around a stop. With two faults the handler of an exception can fail too, and the row then waits for the next restart |

## 5. Fairness

- DiagnosisLease: time passes; a process that is up runs its tasks and its scanner
  (`asyncio` and the recovery loop); work is weakly fair since `wait_for` bounds every tool
  and model call and the deadline bounds the workflow. `Claim` is strongly fair: the
  database may refuse a claim (`ClaimError`) again and again, but not for ever. Without
  it `EventuallyTerminal` is false, and so it is if every process may go down.
- DiagnosisEvents: the loop runs the generator; the executor gets the loop whenever the
  generator sleeps (strong fairness, as `Finish` is blocked between the two reads); the
  browser reconnects. That the diagnosis ends is `EventuallyTerminal`.
- Investigation: weak fairness of its work as a whole: the event loop runs the diagnosis,
  every tool has a time-out of its own, and an abandoned diagnosis is taken up again
  (`EventuallyTerminal`). The deadline and crashes have none, so `EventuallyReported` does
  not rest on the deadline.
- HistoryOutbox: each worker runs its loop every interval; a back-off ends. Rounds that
  fail are bounded, as `MaxFailures` says. Losses and rebuilds have no fairness.
- ValidationRun: every coroutine that can go on does; a container ends at the latest with
  `overall_timeout_seconds`; a process that is down is started again by its supervisor.
  POSTs, cancellation, faults and stops have no fairness.

## 6. Proofs

All but one of the safety properties of the passing runs (`IncidentFound`) are proved, for every value of
the constants that the assumptions named below admit. `PROJECT.json` lists the theorems;
each is of the form `Spec => []P` for the specification whose run checks `P`.

### The lease protocol

`DiagnosisLeaseProofs` and `DiagnosisOutcomeProofs`, which extends it, prove every safety
property that the runs check of `DiagnosisLease`, for any finite or infinite set of
executors and calls, any number of attempts and any clock errors, from the assumptions of
`DiagnosisLease` on its constants:

| Theorem | Property | Argument |
| --- | --- | --- |
| `TypeCorrect` | `TypeOK` | `TypeInv` adds to the types where a task may stand with which runtime (`TaskShape`, `OwnerShape`) and how row columns go together (`RowShape`); a case for each action |
| `OwnershipCorrect` | `OwnerIsLatestClaimant` | only `Claim` installs an owner and counts an attempt (`OnlyClaimInstalls`); no epoch exceeds `attemptNo` (`Tenure`) |
| `Fencing` | `NoStaleWrite` | a running task that changes a durable row owns it (`WriterOwns`), the owner is the latest claimant, and a step of one process leaves the others' tasks alone (`StepIsLocal`) |
| `Finality` | `TerminalIsFinal` | a row that is not INVESTIGATING has no lease (`LeaseInv`), so no fenced write is enabled and no claim either |
| `ResumeCorrect` | `CheckpointCoversCompleted` | not inductive: a checkpoint could be overwritten by a smaller state. `ResumeInv` adds that the owner's memory contains the checkpoint and what it has recorded (`OwnerKnows`) and that nothing is recorded before the run is opened (`BlankUntilRun`) |
| `LiveLeaseKept` | `NoLiveLeaseTaken`, under `SameClock` | a claim needs a lease that is over. `mark_max_attempts_exceeded` tests no lease; `MarkInv` says why that is harmless: the row was listed with its lease over and out of attempts, so that nobody can claim or renew it any more. With clocks that differ this fails |
| `RecordedOnce` | `CompletedStepsFixed` | `InflightInv`: what the owner has in flight is RUNNING, so no answer lands on a COMPLETED step |
| `OneConclusion` | `ReportIsConsistent` | `ReportInv`: a REPORT step exists only once the row says that END is completed (`RowReports`); from there an attempt resumes in the report and synthesises nothing (`TaskReports`), so what it writes is what is there |
| `SelfCheckPasses` | `SelfCheckErrors` | `LeaseInv`, `ReportInv` and `RowLinks` (one logical run, a phase, the events of the status) |
| `Implementation` | `ImplementsTask` | initial states map to the initial state; `TaskStep` maps each action: the owner's writes to `Learn` (`OwnerLearns`), claims to `Start`, the ends to `Conclude` and `Fail`, `Shutdown` to `Release`, everything else to stuttering. It uses all the invariants above (`TaskInv`) |

### The sums

`DiagnosisRecordProofs`, `EventDeliveryProofs`, `RepeatedRequestsProofs` and
`ValidationPartsProofs` are about the specifications that the runs check. For each part there is an invariant over the part's variables, a lemma
`...Init` or `...Start`, one lemma for each action or group of actions, a lemma `...Step`
that combines them, and a lemma `...Moves`: a step of the sum is a step of the part or
leaves its variables alone. The theorem follows by `PTL`.

`DiagnosisRecordProofs`:

| Theorem | Property | Argument |
| --- | --- | --- |
| `RecordTypes` | `RecordTypesOK` | follows from the invariants below; that a message identifier has one row is `TypeStep` |
| `EvidenceReadable`, `TranscriptReadable` | `EvidenceHasMessage`, `TranscriptInOrder` | `Upsert` says what one append does to the table, whoever makes it: it adds one identifier, removes none, and a row keeps its conversation. With it `LogInv` is inductive: a call at "asked" or later has its messages (`Written`), evidence has its result and every result its call (`Stored`), and a `ResultId` has rows in the conversation of its own diagnosis only (`ResultsAtHome`, which the shared `CallId` would not have). For the question `QuestionInv` adds that an attempt which works comes behind it or is not the first that took the diagnosis |
| `MemoryIsCurrent` | `ActiveStateIsLatest` | `ItemWritten`: what a commit makes of an item depends on its own summary only, and the last row of the compactions is written in the same transaction |
| `NoneForgotten` | `NothingForgotten`, under `SameLoop` | `NothingForgotten` says nothing of a compaction that is under way. `ContextInv` adds that a snapshot misses only messages that come after everything it has, and that a message being written comes after all that are stored. The second is what another process breaks |
| `SelfCheckIsClean`, `ReportIsShown` | `TablesAgree`, `CompletedIsShown` | `TablesInv`, for each diagnosis: a logical step has one row which cites stored evidence (`StepsInv`), evidence names a step that is there (`FactsInv`), the report of the checkpoint cites stored evidence (`ReportInv`), edges join nodes of the same diagnosis and the projection precedes completion (`GraphInv`), events follow the status (`ProgressInv`). `OthersKeep` keeps the rows of the other diagnoses; `GraphOf` needs that the expansion of the catalog is closed under dependencies: the step at which it adds nothing is found with `WFMin`, as there are fewer services than rounds |
| `CallsAddUp` | `CallsAreAccounted` | the position of a call tells which of its rows exist (`RowsInv`), the loop waits exactly while its client does (`LoopInv`), the retries a result reports are the calls after the first (`CountInv`), at most one client has disabled the key and a call that was let through late has not reached a provider (`KeyInv`) |
| `ChatKept` | `ChatIsRecorded` | `Under` tells, for each place of a request, what it has stored, what it has put into its queue and which faults it has had; `Fits` is that relation at its end, with the exceptions of the property. `PageInv`: the page has one question and one quick diagnosis under way |

| `ObservationKept` | `ObservationIsSound` | `FindInv`, in three parts. `WithinBudget`: the rows of the timeline and the calls under way, one row each, are at most `MaxSteps`; a group is granted no more than what is left (`SelectedIs`). `Observed`: while no call has two rows, the timeline has as many rows as calls (`OnceIsCounted`). Before any crash there are at most three when the five calls of the baseline are opened, and 3 + 5 fits into the smallest budget of 8. After a crash the group is opened again; if one of the eight scripted calls is missing, there are at most seven rows, and 7 + 5 fits into 12 (`ScriptedCount`). `Concluded`: each rule of the synthesis cites evidence of two tools, one of them direct, so that its conclusion passes the gate (`RulesHold`, `HoldsPasses`); this depends on no incident |

`EventDeliveryProofs`:

| Theorem | Property | Argument |
| --- | --- | --- |
| `InOrder` | `EventsInOrder` | `StreamInv`: a page continues where the cursor stands (`PageInv`), and a live connection has delivered exactly up to the cursor (`Progress`). `ValidationInv`: open transactions have identifiers of their own that are not yet readable (`OpenInv`), a page holds every readable event between the cursor and each of its own but for those that were overtaken (`NextInv`, with `PageIsFirst` for the limit of a page), and the run is read only when the stream is over (`DoneInv`) |
| `Completeness` | `EndedMeansComplete`, under `SameLoop` | the generator that is about to read the status stands at the end of the log (`Progress`). Without `SameLoop` this fails, which is the run `LostTerminalEvent` |
| `IndexIsCurrent` | `NavigationIsCurrent` | for any callers in any processes: who has entered holds the lock of its process, and unless another process has written since (`late`), the commit it has read is still the one of the index (`CallerInv`); what it has read are selected files of its target (`ContentsInv`). The commit that is anchored and the rows change in one step. An update of a late caller knows the files that differ between the commit it read and its target; those that differ between that commit and the one of the index are the exception, `astray`. Callers of one process exclude each other (`Alone`), so that with one process `late` and `astray` stay empty |
| `Accounted` | `OutboxesAreTrue` | Notifications: each is in one place, the channel, a courier, a timer, delivered or dropped (`PlaceInv`), and its row tells which (`RowInv`). History: `MarkedIsThere` says nothing of the workers, and is not inductive. `HistoryInv` adds what a worker holds where it stands (`Shaped`: a batch of rows that exist or of committed events, not empty between a write and its acknowledgement, and that what it is about to acknowledge was taken: the document is in the index unless one was lost, the event is with Logstash). A step of one worker leaves the shape of the others (`OthersKept`), as documents go only with the index, rows never, and events neither (`ShapeKept`); that a batch is read as a sequence over the rows or events there are is `Enumerated` |

`RepeatedRequestsProofs`:

| Theorem | Property | Argument |
| --- | --- | --- |
| `StartedOnce` | `RunsOnce` | `begin` needs PENDING and is the only way to a side, so that at most one process is on its way to starting it (`OnceInv`) |
| `RunsWhatWasAccepted` | `AcceptedIsExecuted` | the fingerprint is written once and before any file is stored, so that what a request was compared with is what the stored files are of (`AcceptInv`) |
| `ComparedWhenDone` | `ComparedSidesAreDone` | one process has the run (`OneHolder`), its sides are behind it when it compares (`SidesWritten`), and what it compared is what the rows still hold (`VerdictHolds`). What a clean verdict means for two rows that the runner can produce is `CleanIsNoWorse`, for any tests and results |
| `CancelledStays` | `CancelledIsFinal`, under `OneProcess` | no task is in a phase that writes the status once the run is CANCELLED (`CancelInv`). With two processes this fails, which is the run `CancelOverwritten` |
| `PromiseKept` | `ImplementsPromise`, under `OneProcess` | initial states map to the initial state, and each action to one of the promise or to stuttering (`PromiseServe` for the requests, `PromiseSides`, `PromisePhases` for `execute`, `PromiseFails` for exceptions, cancellation, stops and scans). It needs `ServedInv`: the three invariants above; a task that is queued stands behind an answered request and stored tests, and what the containers are given was read from them (`SuppliedInv`); the row of a side tells where it stands (`SideInv`); status and verdict are those of the place where `execute` stands (`PhaseInv`). That the comparator's verdict is one the promise allows is `VerdictIsPromised`. With two processes `PhaseInv` and `CancelInv` fail |
| `OneAnswer` | `OneDiagnosisAnswered` | `InOrder` says what a request has written when it stands at each transaction; `LinkWrittenOnce`: `set_diagnosis` writes the link only where it is NULL, and at that moment nobody has been answered, so that no earlier answer can be contradicted |
| `StatusKept`, `StockKept`, `RefundKept` | `StatusIsTrue`, `StockAccounted`, `RefundIsFinal` | `OrderSagaProofs`, instantiated; `SameSaga` says that its definitions and those of the sum's instance agree |

`OrderSagaProofs` holds for any SKUs, request threads, payment attempts and delayed calls.
`StatusIsTrue` is not inductive: it says nothing of the calls that are still under way.
`OrderInv` adds, for one order, who may be busy with it: one thread opens it, and while it
does nobody pays (`OpenedOnce`); as long as no call of it failed, it holds exactly what it
has reserved and no call of it is delayed (`Reserving`), so that an order which enters
payment leaves no late reserve or release behind (`InPayment`); and what a compensation was
told is released stays so, as a reserve call that comes later finds RELEASED (`Clean`). A
step touches one order (`OneOrder`), and each keeps one half of the invariant while the
other is void (`OpeningStep`, `PayingStep`).

`StockAccounted` is about a sum over all orders. `HeldMoves` says what a reservation that
goes from one state to another does to the sums, and the invariant is the property itself
(`StockInv`). It needs `OrderAssumption`: there are finitely many orders.

`SumTheorems` has the facts about sums that the library lacks, for this proof and that of
`ObservationKept`: the fold of the community modules, on the subsets of a finite set, is the
function `SumOn` that adds one chosen element after the other (`Counts`; it exists by the
well-foundedness of cardinalities, `CountsExist`); any element may be taken first
(`SumTakes`); the sum of zeros is zero and that of ones the cardinality (`SumIsZero`,
`SumOfOnes`); and a change of one summand, or one element more, changes it by as much
(`SumChanges`, `SumGrows`).

`ValidationPartsProofs` proves `OneResult` (`OneResultPerKey`) for any keys, callers,
suites and versions. `GenInv`: a version names the request that stored it and holds its tests,
and a key has at most one version (`VersionInv`); a caller has a key for itself while it is at work and
knows what it has stored, and what it read back is that version or, if its key is `followed`,
a later one of the same suite (`CallerInv`); a key that was seen COMPLETED has one version and
one validation, of what was read back (`KeyInv`). `SameVersions` and `IsKept` carry a version through
the uploads and archivings of others.

It also proves `SandboxLeft` (`SandboxIsClean`) for any sides and report files. `SandboxInv` says for each side which threads and containers can outlive which place
of its coroutine (`ThreadInv`, `ContainerInv`), and that the row of a side that is done is
what its containers returned, with nothing left over but for the causes in `kept`
(`DoneInv`).

### Assumptions and hypotheses

The assumptions on the constants (`ASSUME` in the modules) are what the code has by its
types or its configuration: sentinels are no identifiers (`ExecutorAssumption`,
`AttemptAssumption`, `RunAssumption`, `LinkAssumption`, `GenerationAssumption`), limits are
numbers and positive where zero would mean no page or no attempt at all
(`LimitAssumption`, `StreamAssumption`, `ValidationAssumption`, `CallingAssumption`,
`ContextAssumption`, `NotificationAssumption`, `HistoryAssumption`), identifiers of commits and callers are not 0,
the value for none (`CodeAssumption`), the catalog has fewer than the 20 services at which
its expansion stops and a request names one of them (`ProjectionAssumption`), a diagnosis
has at least 8 calls (`StepsAssumption`; `app/main.py:170` gives it 8 to 12), and orders are
finitely many (`SagaAssumption`). TLC evaluates all of them.

Five theorems have a hypothesis about the deployment, named in their statement, since the
property fails without it: `SameLoop` (`Completeness`, see the run `LostTerminalEvent`;
`NoneForgotten`, see section 7), `SameClock` (`LiveLeaseKept`: a process whose clock is ahead
claims a lease that its owner takes for valid) and `OneProcess` (`CancelledStays` and
`PromiseKept`, see the run `CancelOverwritten`).

### Only model-checked

- Liveness: `EventuallyTerminal`, `StreamedToTheEnd`, `IndexedAndReceived`,
  `EventuallyReported`, `TakenRunEnds`. Fairness and ENABLED are out of the prover's reach.
- `IncidentFound`: which conclusion the rules come to depends on the signals of the ten
  incidents, that is on data.

## 7. Disagreements between code and documents

| Run | What happens |
| --- | --- |
| `SharedCallMessage` | the `tool_call` id leaves the diagnosis out: two diagnoses with the same call write one row |
| `LostTerminalEvent` | the stream ends without the terminal event when the executor is another process |
| `CancelOverwritten` | CANCELLED becomes RUNNING when another process executes the run |
| `EdgeIsTaken` | the id of a graph edge leaves the diagnosis out and is the primary key: the second report that shows the edge fails its diagnosis |
| `RetryEvidenceSplit` | `retry_storm_rule` looks for one trace that has the spans it counted over all traces, and ends the diagnosis FAILED when there is none |

The quoted sentences are in `PROJECT.json` under `findings`. `CancelOverwritten` needs
two processes; with one, `ValidationLifecycle` shows that CANCELLED stays, as `ValidationTask`
has it (`CancelledStays` states it by itself). `EdgeIsTaken`
and `RetryEvidenceSplit` need one process only.

More states that the code's own words, or its documents, call wrong are reachable in the
models, by short traces that can be followed by hand, and have no run of their own.

Diagnoses:

- A terminal diagnosis with a RUNNING step, ORPHAN_RUNNING_STEP of the self-check
  (`app/diagnosis/self_check.py:245`): `BeginTool`, then `Deadline` and `FailSession`; or
  `SwallowCommitError` and a normal end.
- INVESTIGATING without a checkpoint, MISSING_CHECKPOINT of the self-check
  (`self_check.py:159`): between `Claim` and `Initialize` of every first attempt, and
  after a crash there. MISSING_RECOVERY_EVENT likewise between a second claim and
  `AppendRecovered`.
- Evidence whose stored `tool_result` another attempt replaced: in ConversationLog an
  attempt takes the diagnosis over and completes the call; the one that lost it still
  runs `AppendResult` under the same id, and only then fails at `CompleteCall`.
- A crash between `initialize` and the append of the question
  (`app/workflow/diagnosis.py:110`): the resumed run never appends it, which is the exception
  `TakenTwice` of TranscriptInOrder.
- `BaselineComplete` with the default of 12 steps: a system scan whose `list_pods` failed
  before a crash repeats the scan, and the repetition takes the place of the last
  scripted call.
- A report that names a pod, for a question without a target: `_build_graph` reads
  `request.initial_target.namespace` (`app/diagnosis/orchestrator.py:286`) of None, while
  the request's schema demands that a QUESTION has no target. `LacksNamespace` in
  IncidentProjection; the diagnosis ends FAILED.
- Compaction against a second process (`SameLoop` FALSE in ContextCompaction): a message
  whose `created_at` is before the boundary and whose commit comes after it is never
  summarised and never in the context.
- A navigation file that Git could not read is anchored at the new commit with its old
  components, or without any, and is not looked at again until it changes.
- Two replicas and one code index: the lock of `ensure` is an `asyncio.Lock` of the process
  (`app/code_state/service.py:52`, `:58`). While one of them waits for Git between the old
  commit and the new one, another may bring the index to a third; the update that was
  computed from the outdated commit is then applied to rows of the third, and the files that
  differ between the outdated and the third commit keep wrong components, or components of
  files the commit has not, under the new commit (`astray` in CodeState). Nothing repairs
  them until they change or a scan is made.

Validations:

- PENDING for ever when the process stops between the POST and `begin` (`PendingRunIsTaken`
  of ValidationRun); a refused request that records its fingerprint, so that the one which
  made the row is refused (`CreatorIsNotRejected`).
- A validation that a live process executes and a starting one fails: `MarkLeftOver` asks
  nothing about the process (`app/validation/repository.py:396`).
- Two diagnoses for one regression (`NotCreatedTwice` of RegressionDiagnosis), against the
  README's promise that repeated requests create no second conversation. The superfluous
  one stays PENDING and the recovery scan starts it; the scan may also start the linked
  one before its evidence is written.
- An upload through another process between the commit of a generated version and the
  transaction that reads the suite back (`app/validation/repository.py:147-150`,
  `app/validation/service.py:398`): the uploaded version is validated and answered as the
  generated one (`followed` in InterfaceGeneration).
- COMPLETED does not mean that the candidate's tests pass: if base could not be built and the
  candidate could, the comparator returns POSSIBLE_FIX whatever the candidate's tests did
  (`app/validation/comparator.py:33-40`), and a failing case that base does not have is
  NEW_TEST (`:91-92`). `ComparedSidesAreDone` and `NoWorse` claim nothing for these. The
  README says that a base which cannot serve as a baseline gives INCONCLUSIVE
  (`README.md:1583`).
- The validation's event stream sends a page, then reads the status and ends
  (`app/validation/router.py:182-190`): events committed while the page was being sent are
  not delivered, in one process too.
- Sandbox: "超时后仅删除该任务拥有的精确容器名" (`README.md:1559`) holds for a stage's own
  timeout. After the overall timeout, a cancellation or a stop of the process the container
  runs on; a failure of `docker rm` is not looked at. "Workspace 是一次性工作目录，任务结束
  后清理" (`README.md:1777`): a thread that still extracts writes the directory again after
  its removal, and nothing cleans up at a start. A daemon that refuses to start a container
  counts as a FAILED build.

Around them:

- Gateway: an adapter's AttributeError (a provider's body that is null or a list) ends the
  call before both rows, although the usage repository says that it records every provider
  call; a provider's 429 becomes 502, so that `LLMRateLimitError` of the client is never
  raised; tokens of an answer that the client no longer awaits are in the ledger.
- Chat: the question is stored after the model has classified it, so that an error there
  leaves an error without a question; a stream whose error cannot be appended ends without
  an `error` frame; when the removal of the workspace raises, an `error` follows the `final`.
- Page: `conversation` frames set the conversation the next question goes to, whatever the
  user has opened meanwhile (`App.vue:129`, `:162`); a quick diagnosis that was left goes on
  and shows its result under the next target (`App.vue:108`, `:173`).
- Lab: a cancellation between the insert of an order and `setStatus` is overwritten and
  the order is charged (`CancelledIsNotCharged` of OrderSaga), against
  `docs/lab-commerce.md:82`. A notification whose retry meets a full queue stays RETRYING
  for ever.

## 8. Not modelled, and the plan

Left out for good: authentication (single-row reads and writes), tool policy and scope
(stateless decisions, a table of cases for unit tests), the MCP clients and servers
(adapters; the models see that a call answers, fails or takes for ever), the content of
texts, prompts and documents, layout, and the delivery scripts, of which the models take
the number of replicas.

What is left to do, in this order:

1. DiagnosisLease: the CHECKPOINT_PHASE_MISMATCH window of the self-check, which depends on
   the order of the steps behind a RUNNING row.
2. A promise of the order saga in the style of `ValidationTask`, for which its mapping would
   have to say what an order owes to calls that are still on their way.
3. The fault switches of the lab's services that expire by themselves, beyond those of
   NotificationQueue; interface discovery; reading and deleting conversations against
   running diagnoses.
