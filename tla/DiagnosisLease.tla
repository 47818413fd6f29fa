--------------------------- MODULE DiagnosisLease ---------------------------
(***************************************************************************)
(* One durable diagnosis and the executor processes that compete to run it *)
(* (app/diagnosis/repository.py and execution.py, with the phases of       *)
(* app/workflow/diagnosis.py and the report of app/diagnosis/orchestrator  *)
(* .py).  The row of diagnosis_sessions is the only shared state: every    *)
(* action below is one SQL transaction of one process, so the              *)
(* interleavings are those of the transactions.  A process runs one event  *)
(* loop and calls the database synchronously, so nothing of the same       *)
(* process comes between two statements without an await.                  *)
(*                                                                         *)
(* Simplifications:                                                        *)
(*  - rows of different diagnoses share no lock and no column: one         *)
(*    diagnosis is modelled;                                               *)
(*  - executor_id is minted when a process starts, so a process that goes  *)
(*    down never comes back: a restart is another member of Executor;      *)
(*  - time is the true time left on the lease (leaseLeft = expiry - now)   *)
(*    and a constant clock error per process;                              *)
(*  - a DiagnosisState is its logical run, the tool calls on its timeline, *)
(*    the evidence collected and the synthesis (named by the attempt that  *)
(*    produced it);                                                        *)
(*  - which calls a phase makes is left open: any subset of its tools      *)
(*    (catalogue, planner and step budget decide).                         *)
(***************************************************************************)
EXTENDS Integers, FiniteSets

CONSTANTS Executor,       \* process incarnations (hostname:pid:uuid)
          NoOwner,        \* SQL NULL in lease_owner
          Tool,           \* logical tool calls, named by idempotency key
          ToolPhase,      \* the phase that makes each call
          EndPhase,       \* index of END; VERIFY and REPORT come just before
          MaxAttempts,    \* diagnosis_max_attempts
          LeaseTtl,       \* lease_ttl_seconds, in ticks
          Skew,           \* clock error of each process, in ticks
          MaxHeartbeats   \* bound: heartbeats of one attempt (deadline / interval)

\* Phases are numbered in the order of _ORDER.
VerifyPhase == EndPhase - 2
\* INVESTIGATE: its calls come one at a time from the planner.
PlannedPhase == EndPhase - 3

ASSUME ExecutorAssumption == NoOwner \notin Executor
ASSUME PhaseAssumption == /\ EndPhase \in Nat /\ EndPhase >= 5
                          /\ ToolPhase \in [Tool -> 1..PlannedPhase]
ASSUME LimitAssumption == /\ MaxAttempts \in Nat \ {0}
                          /\ LeaseTtl \in Nat \ {0}
                          /\ MaxHeartbeats \in Nat
ASSUME SkewAssumption == Skew \in [Executor -> Nat]

VARIABLES
  \* diagnosis_sessions
  status, leaseOwner, leaseLeft, attemptNo, stateVersion, runId,
  phase, phaseStatus, checkpoint, summary,
  \* diagnosis_investigation_steps, _evidence, _root_causes, _events
  steps, evidence, reportStep, rootCause, terminalEvents,
  \* each process: the task it runs, its DurableWorkflowRuntime, its scanner
  pc, epoch, ver, mem, cursor, called, inflight, beats, marking

session == <<status, leaseOwner, leaseLeft, attemptNo, stateVersion, runId,
             phase, phaseStatus, checkpoint, summary>>
tables  == <<steps, evidence, reportStep, rootCause, terminalEvents>>
runtime == <<ver, mem, cursor, called, inflight, beats>>
vars    == <<session, tables, pc, epoch, runtime, marking>>
-----------------------------------------------------------------------------
Terminal  == {"COMPLETED", "FAILED"}
Live      == {"PENDING", "INVESTIGATING"}
\* Where a task of _execute stands, once it has built its runtime.
Executing == {"recovering", "starting", "initializing", "phase", "inPhase",
              "report", "finalize"}
\* A lease of Expired ticks is over on every clock.
Expired == -1

\* run = 0 stands for a checkpoint_json that is NULL.
NoState == [run |-> 0, timeline |-> {}, evidence |-> {}, synthesis |-> 0]
States  == [run : 0..MaxAttempts, timeline : SUBSET Tool,
            evidence : SUBSET Tool, synthesis : 0..MaxAttempts]
StepRow == [status : {"ABSENT", "RUNNING", "COMPLETED", "FAILED"}, attempt : Nat]
Completed == {k \in Tool : steps[k].status = "COMPLETED"}

Init ==
  /\ status = "PENDING" /\ leaseOwner = NoOwner /\ leaseLeft = Expired
  /\ attemptNo = 0 /\ stateVersion = 0 /\ runId = 0
  /\ phase = 0 /\ phaseStatus = "PENDING" /\ checkpoint = NoState /\ summary = 0
  /\ steps = [k \in Tool |-> [status |-> "ABSENT", attempt |-> 0]]
  /\ evidence = {} /\ reportStep = 0 /\ rootCause = 0 /\ terminalEvents = {}
  \* POST /api/diagnoses inserted the row; its process submitted the task,
  \* or crashed before it could.
  /\ \/ pc = [e \in Executor |-> "idle"]
     \/ \E s \in Executor : pc = [e \in Executor |-> IF e = s THEN "submitted" ELSE "idle"]
  /\ epoch = [e \in Executor |-> 0] /\ ver = [e \in Executor |-> 0]
  /\ mem = [e \in Executor |-> NoState] /\ cursor = [e \in Executor |-> 1]
  /\ called = [e \in Executor |-> {}] /\ inflight = [e \in Executor |-> {}]
  /\ beats = [e \in Executor |-> 0] /\ marking = {}
-----------------------------------------------------------------------------
(* What the WHERE clauses test.                                            *)

\* Mutant: the owner is left out, the version alone fences.
OwnsByVersion(e) ==
  status = "INVESTIGATING" /\ stateVersion = ver[e] /\ leaseLeft > Skew[e]

\* owner, version, status and expiry: every fenced write of an executor.
Owns(e) ==
  /\ status = "INVESTIGATING" /\ leaseOwner = e
  /\ stateVersion = ver[e] /\ leaseLeft > Skew[e]

\* fail_owned_session leaves the version out.
Holds(e) == status = "INVESTIGATING" /\ leaseOwner = e /\ leaseLeft > Skew[e]

\* No lease, or one that is over on the clock of e.
LeaseFree(e) == leaseOwner = NoOwner \/ leaseLeft < Skew[e]

\* Mutant: the attempt limit is left to the scanner.
ClaimableWithoutLimit(e) == status \in Live /\ LeaseFree(e)

Claimable(e) == status \in Live /\ attemptNo < MaxAttempts /\ LeaseFree(e)

\* Mutants: the scanner lists rows under a valid lease; only PENDING rows.
RecoverableIgnoringLease(e) == status \in Live
RecoverableIfPending(e) == status = "PENDING"

Recoverable(e) == status = "PENDING" \/ (status = "INVESTIGATING" /\ LeaseFree(e))

\* The attempt number a claim takes.  Mutant: a takeover goes on with the
\* number of the attempt it replaces.
SameAttempt == IF status = "PENDING" THEN attemptNo + 1 ELSE attemptNo
NextAttempt == attemptNo + 1

\* mark_max_attempts_exceeded tests the row again.  Mutant: not its status.
OutOfAttempts == attemptNo >= MaxAttempts
Condemnable == status \in Live /\ attemptNo >= MaxAttempts

\* The phase a claimed row resumes at (should_skip_phase).
ResumeCursor == IF phase = 0 THEN 1
                ELSE IF phaseStatus = "COMPLETED" THEN phase + 1 ELSE phase

\* begin_tool_step runs the call.  Mutant: whatever the row says.
AlwaysRuns(k) == TRUE
Runs(k) == steps[k].status # "COMPLETED"

(* Parts of the UPDATE statements.                                         *)

RenewLease(e) == leaseLeft' = LeaseTtl + Skew[e] /\ leaseOwner' = leaseOwner
\* Mutant: the lease is left on the row.
KeepLease == leaseOwner' = leaseOwner /\ leaseLeft' = leaseLeft
ClearLease == leaseOwner' = NoOwner /\ leaseLeft' = Expired
BumpVersion(e) == /\ stateVersion' = stateVersion + 1
                  /\ ver' = [ver EXCEPT ![e] = stateVersion + 1]

\* The task of e is over: its runtime is garbage.
TaskEnds(e, next) ==
  /\ pc' = [pc EXCEPT ![e] = next]
  /\ ver' = [ver EXCEPT ![e] = 0]
  /\ mem' = [mem EXCEPT ![e] = NoState]
  /\ cursor' = [cursor EXCEPT ![e] = 1]
  /\ called' = [called EXCEPT ![e] = {}]
  /\ inflight' = [inflight EXCEPT ![e] = {}]
  /\ beats' = [beats EXCEPT ![e] = 0]

\* status = FAILED, with the single diagnosis.failed event.
RowFails ==
  /\ status' = "FAILED" /\ ClearLease /\ stateVersion' = stateVersion + 1
  /\ terminalEvents' = terminalEvents \cup {"diagnosis.failed"}
  /\ UNCHANGED <<attemptNo, runId, phase, phaseStatus, checkpoint, summary,
                 steps, evidence, reportStep, rootCause>>
-----------------------------------------------------------------------------
(* Recovery scanner: list_recoverable, then submit or condemn.             *)

ScanSubmit(e) ==
  /\ pc[e] = "idle" /\ Recoverable(e) /\ attemptNo < MaxAttempts
  /\ pc' = [pc EXCEPT ![e] = "submitted"]
  /\ UNCHANGED <<session, tables, epoch, runtime, marking>>

\* The listed row is out of attempts.  The scanner does not ask whether this
\* process is itself executing it (claim and the read after it have no await
\* between them, so the scanner cannot run there).
ScanExhausted(e) ==
  /\ pc[e] \notin {"down", "claimed"} /\ Recoverable(e) /\ attemptNo >= MaxAttempts
  /\ marking' = marking \cup {e}
  /\ UNCHANGED <<session, tables, pc, epoch, runtime>>

\* mark_max_attempts_exceeded: a second transaction, without a lease check.
MarkMaxAttempts(e) ==
  /\ e \in marking
  /\ marking' = marking \ {e}
  /\ IF Condemnable
     THEN RowFails
     ELSE UNCHANGED <<session, tables>>
  /\ UNCHANGED <<pc, epoch, runtime>>

\* claim: PENDING or abandoned, and attempts left.
Claim(e) ==
  /\ pc[e] = "submitted"
  /\ IF Claimable(e)
     THEN /\ status' = "INVESTIGATING" /\ leaseOwner' = e
          /\ leaseLeft' = LeaseTtl + Skew[e]
          /\ attemptNo' = NextAttempt /\ stateVersion' = stateVersion + 1
          /\ pc' = [pc EXCEPT ![e] = "claimed"]
          /\ epoch' = [epoch EXCEPT ![e] = NextAttempt]
          /\ UNCHANGED <<runId, phase, phaseStatus, checkpoint, summary>>
     ELSE /\ pc' = [pc EXCEPT ![e] = "idle"]
          /\ UNCHANGED <<session, epoch>>
  /\ UNCHANGED <<tables, runtime, marking>>

\* The statement of claim, or the read after it, fails on the database: the
\* task dies outside the try of _execute and the row keeps a lease.
ClaimError(e) ==
  /\ pc[e] \in {"submitted", "claimed"}
  /\ pc' = [pc EXCEPT ![e] = "idle"]
  /\ UNCHANGED <<session, tables, epoch, runtime, marking>>

\* claim returns get_unscoped: a read after the commit, by then perhaps the
\* row of another claim.  The runtime is built from what it shows; a
\* checkpoint that does not validate fails the session.
ReadClaim(e) ==
  /\ pc[e] = "claimed"
  /\ ver' = [ver EXCEPT ![e] = stateVersion]
  /\ mem' = [mem EXCEPT ![e] = checkpoint]
  /\ cursor' = [cursor EXCEPT ![e] = ResumeCursor]
  /\ pc' = [pc EXCEPT ![e] = IF attemptNo > 1 THEN "recovering" ELSE "starting"]
  /\ UNCHANGED <<session, tables, epoch, called, inflight, beats, marking>>

RejectCheckpoint(e) ==
  /\ pc[e] = "claimed" /\ checkpoint # NoState
  /\ IF Holds(e) THEN RowFails ELSE UNCHANGED <<session, tables>>
  /\ TaskEnds(e, "idle")
  /\ UNCHANGED <<epoch, marking>>
-----------------------------------------------------------------------------
(* Projections: transactions that lock and check the row but do not bump   *)
(* its version.                                                            *)

\* diagnosis.recovered, then _start_projection; the next stop is initialize,
\* or the first phase that is not skipped.
AppendRecovered(e) ==
  /\ pc[e] = "recovering" /\ Owns(e)
  /\ pc' = [pc EXCEPT ![e] = "starting"]
  /\ UNCHANGED <<session, tables, epoch, runtime, marking>>

\* Mutants: a resumed run is initialised again; one whose last phase is
\* complete takes its report for written.
AlwaysInitializes(m, c) == "initializing"
TakesReportForWritten(m, c) ==
  IF m.run = 0 THEN "initializing" ELSE IF c > EndPhase THEN "finalize" ELSE "phase"
NextStop(m, c) ==
  IF m.run = 0 THEN "initializing" ELSE IF c > EndPhase THEN "report" ELSE "phase"

StartProjection(e) ==
  /\ pc[e] = "starting" /\ Owns(e)
  /\ pc' = [pc EXCEPT ![e] = NextStop(mem[e], cursor[e])]
  /\ UNCHANGED <<session, tables, epoch, runtime, marking>>

\* _persist_report: evidence and root cause are upserts, the REPORT step is
\* written once under the key final-report.
PersistReport(e) ==
  /\ pc[e] = "report" /\ Owns(e)
  /\ evidence' = evidence \cup mem[e].evidence
  /\ rootCause' = mem[e].synthesis
  /\ reportStep' = IF reportStep = 0 THEN mem[e].synthesis ELSE reportStep
  /\ pc' = [pc EXCEPT ![e] = "finalize"]
  /\ UNCHANGED <<session, steps, terminalEvents, epoch, runtime, marking>>
-----------------------------------------------------------------------------
(* Checkpoints, heartbeat and phases of the owner.                         *)

\* save_checkpoint with the state m at phase p.
SaveCheckpoint(e, m, p, s) ==
  /\ Owns(e) /\ BumpVersion(e) /\ RenewLease(e)
  /\ runId' = IF runId = 0 THEN m.run ELSE runId
  /\ phase' = p /\ phaseStatus' = s /\ checkpoint' = m
  /\ mem' = [mem EXCEPT ![e] = m]
  /\ UNCHANGED <<status, attemptNo, summary, tables, epoch, beats, marking>>

Heartbeat(e) ==
  /\ pc[e] \in Executing /\ beats[e] < MaxHeartbeats /\ Owns(e)
  /\ BumpVersion(e) /\ RenewLease(e)
  /\ beats' = [beats EXCEPT ![e] = beats[e] + 1]
  /\ UNCHANGED <<status, attemptNo, runId, phase, phaseStatus, checkpoint, summary,
                 tables, pc, epoch, mem, cursor, called, inflight, marking>>

\* initialize: the logical run is durable before any other side effect.
Initialize(e) ==
  /\ pc[e] = "initializing"
  /\ SaveCheckpoint(e, [NoState EXCEPT !.run = epoch[e]], 1, "PENDING")
  /\ pc' = [pc EXCEPT ![e] = "phase"]
  /\ UNCHANGED <<cursor, called, inflight>>

PhaseStarted(e) ==
  /\ pc[e] = "phase"
  /\ SaveCheckpoint(e, mem[e], cursor[e], "RUNNING")
  /\ pc' = [pc EXCEPT ![e] = "inPhase"]
  /\ UNCHANGED <<cursor, called, inflight>>

\* VERIFY synthesises before it completes.
PhaseCompleted(e) ==
  /\ pc[e] = "inPhase" /\ inflight[e] = {}
  /\ LET m == IF cursor[e] = VerifyPhase
              THEN [mem[e] EXCEPT !.synthesis = epoch[e]] ELSE mem[e]
     IN  SaveCheckpoint(e, m, cursor[e], "COMPLETED")
  /\ cursor' = [cursor EXCEPT ![e] = cursor[e] + 1]
  /\ pc' = [pc EXCEPT ![e] = IF cursor[e] = EndPhase THEN "report" ELSE "phase"]
  /\ UNCHANGED <<called, inflight>>

\* runtime.checkpoint inside a phase: planner rounds and pod discovery.  One
\* that would only bump the version is left to Heartbeat.
PhaseCheckpoint(e) ==
  /\ pc[e] = "inPhase" /\ cursor[e] <= PlannedPhase
  /\ checkpoint # mem[e]
  /\ SaveCheckpoint(e, mem[e], cursor[e], "RUNNING")
  /\ UNCHANGED <<pc, cursor, called, inflight>>

\* wait_for(deadline) cancels the calls in flight and goes to VERIFY with an
\* insufficient_evidence synthesis.
Deadline(e) ==
  /\ pc[e] = "inPhase" /\ cursor[e] < VerifyPhase
  /\ inflight' = [inflight EXCEPT ![e] = {}]
  /\ cursor' = [cursor EXCEPT ![e] = VerifyPhase]
  /\ pc' = [pc EXCEPT ![e] = "phase"]
  /\ UNCHANGED <<session, tables, epoch, ver, mem, called, beats, marking>>
-----------------------------------------------------------------------------
(* Tool calls.                                                             *)

\* A scripted phase issues its calls together; the planner one by one, and
\* never one that the timeline already holds.
MayCall(e, k) ==
  /\ pc[e] = "inPhase" /\ ToolPhase[k] = cursor[e] /\ k \notin called[e]
  /\ cursor[e] = PlannedPhase => inflight[e] = {} /\ k \notin mem[e].timeline

\* begin_tool_step on a COMPLETED row: the stored result is used.
Reused(m, k) == [m EXCEPT !.timeline = @ \cup {k}, !.evidence = @ \cup ({k} \cap evidence)]

ReuseTool(e, k) ==
  /\ MayCall(e, k) /\ Owns(e) /\ ~Runs(k)
  /\ called' = [called EXCEPT ![e] = called[e] \cup {k}]
  /\ mem' = [mem EXCEPT ![e] = Reused(mem[e], k)]
  /\ UNCHANGED <<session, tables, pc, epoch, ver, cursor, inflight, beats, marking>>

\* begin_tool_step otherwise: insert the row or run it again.  The lease is
\* not renewed.
BeginTool(e, k) ==
  /\ MayCall(e, k) /\ Owns(e) /\ Runs(k)
  /\ steps' = [steps EXCEPT ![k] = [status |-> "RUNNING", attempt |-> @.attempt + 1]]
  /\ BumpVersion(e)
  /\ called' = [called EXCEPT ![e] = called[e] \cup {k}]
  /\ inflight' = [inflight EXCEPT ![e] = inflight[e] \cup {k}]
  /\ UNCHANGED <<status, leaseOwner, leaseLeft, attemptNo, runId, phase, phaseStatus,
                 checkpoint, summary, evidence, reportStep, rootCause,
                 terminalEvents, pc, epoch, mem, cursor, beats, marking>>

\* Mutant: the evidence is left to the next checkpoint.
RecordedCall(m, k, ok) == [m EXCEPT !.timeline = @ \cup {k}]

\* What _call records in memory when the tool has answered (ok) or raised.
Recorded(m, k, ok) ==
  [m EXCEPT !.timeline = @ \cup {k}, !.evidence = IF ok THEN @ \cup {k} ELSE @]

\* complete_tool_step: step, evidence and checkpoint in one transaction.
CompleteTool(e, k, ok) ==
  /\ pc[e] = "inPhase" /\ k \in inflight[e]
  /\ Owns(e) /\ BumpVersion(e) /\ RenewLease(e)
  /\ steps' = [steps EXCEPT ![k].status = IF ok THEN "COMPLETED" ELSE "FAILED"]
  /\ evidence' = IF ok THEN evidence \cup {k} ELSE evidence
  /\ mem' = [mem EXCEPT ![e] = Recorded(mem[e], k, ok)]
  /\ checkpoint' = Recorded(mem[e], k, ok)
  /\ runId' = IF runId = 0 THEN mem[e].run ELSE runId
  /\ inflight' = [inflight EXCEPT ![e] = inflight[e] \ {k}]
  /\ UNCHANGED <<status, attemptNo, phase, phaseStatus, summary, reportStep, rootCause,
                 terminalEvents, pc, epoch, cursor, called, beats, marking>>

\* The transaction of complete_tool_step fails on a database error.  In a
\* scripted phase _call_concurrently swallows it and goes on.
SwallowCommitError(e, k, ok) ==
  /\ pc[e] = "inPhase" /\ k \in inflight[e] /\ cursor[e] < PlannedPhase
  /\ mem' = [mem EXCEPT ![e] = Recorded(mem[e], k, ok)]
  /\ inflight' = [inflight EXCEPT ![e] = inflight[e] \ {k}]
  /\ UNCHANGED <<session, tables, pc, epoch, ver, cursor, called, beats, marking>>
-----------------------------------------------------------------------------
(* The end of a task.                                                      *)

\* complete_owned_session.  Its second branch (already COMPLETED by the same
\* run) changes nothing and ends the task, like OwnershipLost.
CompleteSession(e) ==
  /\ pc[e] = "finalize" /\ Owns(e)
  /\ status' = "COMPLETED" /\ ClearLease /\ stateVersion' = stateVersion + 1
  /\ runId' = mem[e].run /\ summary' = mem[e].synthesis
  /\ phase' = EndPhase /\ phaseStatus' = "COMPLETED"
  /\ terminalEvents' = terminalEvents \cup {"diagnosis.completed"}
  /\ TaskEnds(e, "idle")
  /\ UNCHANGED <<attemptNo, checkpoint, steps, evidence, reportStep, rootCause,
                 epoch, marking>>

\* An exception of the work: fail_owned_session, itself perhaps out of reach
\* of the database.
FailSession(e) ==
  /\ pc[e] \in Executing
  /\ \/ Holds(e) /\ RowFails
     \/ UNCHANGED <<session, tables>>
  /\ TaskEnds(e, "idle")
  /\ UNCHANGED <<epoch, marking>>

\* The next write, of the work or of the heartbeat, finds the row taken.
OwnershipLost(e) ==
  /\ pc[e] \in Executing /\ ~Owns(e)
  /\ TaskEnds(e, "idle")
  /\ UNCHANGED <<session, tables, epoch, marking>>

\* shutdown cancels the task: interrupt checks owner and status only.
Shutdown(e) ==
  /\ pc[e] \in {"idle", "submitted"} \cup Executing
  /\ IF pc[e] \in Executing /\ status = "INVESTIGATING" /\ leaseOwner = e
     THEN /\ ClearLease /\ stateVersion' = stateVersion + 1
          /\ UNCHANGED <<status, attemptNo, runId, phase, phaseStatus, checkpoint, summary>>
     ELSE UNCHANGED session
  /\ TaskEnds(e, "down")
  /\ UNCHANGED <<tables, epoch, marking>>

\* kill -9, OOM, power: nothing is written.
Crash(e) ==
  /\ pc[e] # "down"
  /\ TaskEnds(e, "down")
  /\ marking' = marking \ {e}
  /\ UNCHANGED <<session, tables, epoch>>

Tick ==
  /\ leaseLeft > Expired
  /\ leaseLeft' = leaseLeft - 1
  /\ UNCHANGED <<status, leaseOwner, attemptNo, stateVersion, runId, phase, phaseStatus,
                 checkpoint, summary, tables, pc, epoch, runtime, marking>>
-----------------------------------------------------------------------------
\* Bound: one process survives, for the liveness of recovery.
Survives(e) == \E f \in Executor \ {e} : pc[f] # "down"

\* The statements an executor runs on its way to COMPLETED.
Work(e) ==
  \/ AppendRecovered(e) \/ StartProjection(e) \/ Initialize(e)
  \/ PhaseStarted(e) \/ PhaseCompleted(e)
  \/ \E k \in Tool, ok \in BOOLEAN : CompleteTool(e, k, ok)
  \/ PersistReport(e) \/ CompleteSession(e)

Step(e) ==
  \/ ScanSubmit(e) \/ ScanExhausted(e)
  \/ Claim(e) \/ ClaimError(e) \/ ReadClaim(e)
  \/ RejectCheckpoint(e) \/ Work(e) \/ Heartbeat(e) \/ PhaseCheckpoint(e) \/ Deadline(e)
  \/ \E k \in Tool : ReuseTool(e, k) \/ BeginTool(e, k)
  \/ \E k \in Tool, ok \in BOOLEAN : SwallowCommitError(e, k, ok)
  \/ FailSession(e) \/ OwnershipLost(e)
  \/ Survives(e) /\ Shutdown(e)

Next ==
  \/ \E e \in Executor \ marking : Step(e)
  \/ \E e \in Executor : MarkMaxAttempts(e) \/ (Survives(e) /\ Crash(e))
  \/ Tick

Spec == Init /\ [][Next]_vars

\* Time passes; a live process runs its tasks, its scanner and its cleanup.
\* The database does not refuse every claim forever (strong fairness).
\* The work is fair because wait_for bounds every tool and model call.
Fairness ==
  /\ WF_vars(Tick)
  /\ \A e \in Executor :
       /\ WF_vars(MarkMaxAttempts(e))
       /\ WF_vars(e \notin marking /\ ScanSubmit(e))
       /\ WF_vars(e \notin marking /\ ScanExhausted(e))
       /\ SF_vars(e \notin marking /\ Claim(e))
       /\ WF_vars(e \notin marking /\ ReadClaim(e))
       /\ WF_vars(e \notin marking /\ Work(e))
       /\ WF_vars(e \notin marking /\ OwnershipLost(e))

FairSpec == Spec /\ Fairness
-----------------------------------------------------------------------------
(* Correctness.                                                            *)

\* Each variable has the type its column or Python attribute has.
RowTypes ==
  /\ status \in Live \cup Terminal /\ leaseOwner \in Executor \cup {NoOwner}
  /\ leaseLeft \in Int /\ attemptNo \in 0..MaxAttempts /\ stateVersion \in Nat
  /\ runId \in 0..MaxAttempts /\ phase \in 0..EndPhase
  /\ phaseStatus \in {"PENDING", "RUNNING", "COMPLETED"}
  /\ checkpoint \in States /\ summary \in 0..MaxAttempts
TableTypes ==
  /\ steps \in [Tool -> StepRow] /\ evidence \subseteq Tool
  /\ reportStep \in 0..MaxAttempts /\ rootCause \in 0..MaxAttempts
  /\ terminalEvents \subseteq {"diagnosis.completed", "diagnosis.failed"}
ProcessTypes ==
  /\ pc \in [Executor -> {"down", "idle", "submitted", "claimed"} \cup Executing]
  /\ epoch \in [Executor -> 0..MaxAttempts] /\ ver \in [Executor -> Nat]
  /\ mem \in [Executor -> States] /\ cursor \in [Executor -> 1..EndPhase + 1]
  /\ called \in [Executor -> SUBSET Tool] /\ inflight \in [Executor -> SUBSET Tool]
  /\ beats \in [Executor -> 0..MaxHeartbeats] /\ marking \subseteq Executor
TypeOK == RowTypes /\ TableTypes /\ ProcessTypes

\* Whoever the row names as owner made the latest claim, and no other process
\* ever ran under the same attempt number (the value that names its task
\* workspace and its diagnosis.recovered event).
OwnerIsLatestClaimant ==
  \A e \in Executor : leaseOwner = e =>
    epoch[e] = attemptNo /\ \A f \in Executor \ {e} : epoch[f] < attemptNo

\* README: after a failed CAS the executor must stop writing and must not
\* overwrite a newer checkpoint.  A step of a running task that changes any
\* durable row is a step of the latest claimant.
Local(e) == <<pc[e], ver[e], mem[e], cursor[e], called[e], inflight[e], beats[e]>>
NoStaleWrite ==
  [][\A e \in Executor :
       pc[e] \in Executing /\ Local(e)' # Local(e) /\ <<session, tables>>' # <<session, tables>>
         => epoch[e] = attemptNo]_vars

\* Resume never forgets: every call whose step is COMPLETED is in the
\* checkpoint that the next attempt will load, with its stored evidence.
CheckpointCoversCompleted ==
  Completed \subseteq checkpoint.evidence \cap checkpoint.timeline \cap evidence

\* A COMPLETED step is never run again, by any attempt.
CompletedStepsFixed ==
  [][\A k \in Tool : steps[k].status = "COMPLETED" => steps'[k] = steps[k]]_vars

\* Once the row is terminal nothing about the diagnosis changes any more.
TerminalIsFinal ==
  [][(status \in Terminal) => UNCHANGED <<session, tables>>]_vars

\* The idempotent REPORT step, the upserted root cause and the summary of
\* the session tell the same conclusion, whichever attempts wrote them, and
\* all the evidence they rest on is stored.
ReportIsConsistent ==
  status = "COMPLETED" =>
    /\ summary # 0 /\ reportStep = summary /\ rootCause = summary
    /\ checkpoint.evidence \subseteq evidence

\* DiagnosisSelfCheck._check_session: the ERROR rules by their codes, when each
\* is reported.  Left out: what a checkpoint without errors cannot show (it
\* does not parse, or lacks the current phase), and counters below zero.
Unleased == leaseOwner = NoOwner \/ leaseLeft <= 0
SessionRule ==
  [MISSING_CHECKPOINT |-> status = "INVESTIGATING" /\ checkpoint = NoState,
   CHECKPOINT_RUN_ID_MISMATCH |->
     status = "INVESTIGATING" /\ checkpoint # NoState /\ checkpoint.run # runId,
   RECOVERY_ATTEMPTS_EXHAUSTED |->
     status = "INVESTIGATING" /\ Unleased /\ attemptNo >= MaxAttempts,
   TERMINAL_SESSION_HOLDS_LEASE |-> status \in Terminal /\ leaseOwner # NoOwner,
   PENDING_SESSION_HOLDS_LEASE |-> status = "PENDING" /\ leaseOwner # NoOwner,
   COMPLETED_PHASE_NOT_END |-> status = "COMPLETED" /\ phase # EndPhase,
   MAX_ATTEMPTS_EXCEEDED |-> attemptNo > MaxAttempts]
SessionErrors == {code \in DOMAIN SessionRule : SessionRule[code]}

\* Whenever the self-check looks, between two transactions of any executor, the
\* only errors it reports of a session are of one that is out of attempts, or
\* that was claimed and has not stored anything yet.  Every outcome has its
\* report and its one terminal event, and a row never changes its logical run.
SelfCheckErrors ==
  /\ SessionErrors \subseteq {"MISSING_CHECKPOINT", "RECOVERY_ATTEMPTS_EXHAUSTED"}
  /\ "MISSING_CHECKPOINT" \in SessionErrors => runId = 0 /\ phase = 0 /\ reportStep = 0
  /\ checkpoint.run = runId
  /\ runId # 0 => phase # 0
  /\ status = "COMPLETED" => reportStep # 0
  /\ terminalEvents = CASE status = "COMPLETED" -> {"diagnosis.completed"}
                        [] status = "FAILED"    -> {"diagnosis.failed"}
                        [] OTHER                -> {}

\* README: a process does not take a lease that is still valid.  Neither a
\* claim nor the attempt limit ends the tenure of an owner whose own clock
\* still shows the lease as valid (synchronised clocks).
NoLiveLeaseTaken ==
  [][\A e \in Executor :
       /\ leaseOwner = e /\ leaseLeft > Skew[e]
       /\ \/ leaseOwner' \in Executor \ {e}
          \/ Local(e)' = Local(e) /\ status' \in Terminal
       => FALSE]_vars

\* Every diagnosis ends, whatever processes die on the way.
EventuallyTerminal == <>(status \in Terminal)
=============================================================================
