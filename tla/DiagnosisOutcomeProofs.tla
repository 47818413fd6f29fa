----------------------- MODULE DiagnosisOutcomeProofs -----------------------
(* What a finished diagnosis says: one conclusion in three tables, and rows *)
(* that agree with each other as the self-check wants them; and that every  *)
(* step of the lease protocol is a step of DiagnosisTask or changes nothing *)
(* that DiagnosisTask speaks of.                                            *)
EXTENDS DiagnosisLeaseRefinement, DiagnosisLeaseProofs

USE ExecutorAssumption, PhaseAssumption, LimitAssumption, SkewAssumption

-----------------------------------------------------------------------------
(* The conclusion.  The REPORT step is written once; it agrees with what    *)
(* later attempts write because a report only exists once every phase is    *)
(* over, and an attempt that resumes there synthesises nothing.             *)

Concluded == phase = EndPhase /\ phaseStatus = "COMPLETED"

\* Past VERIFY the checkpoint has a synthesis, and a report shows that one.
RowReports ==
  /\ phase > VerifyPhase \/ (phase = VerifyPhase /\ phaseStatus = "COMPLETED")
       => checkpoint.synthesis # 0
  /\ reportStep # 0 => Concluded /\ reportStep = checkpoint.synthesis
  /\ status = "COMPLETED" => Concluded

\* The owner's task holds the synthesis of the row and is in the report
\* exactly when the row says that every phase is over.
TaskReports(e) ==
  leaseOwner = e /\ pc[e] \in Executing =>
    /\ mem[e].synthesis = checkpoint.synthesis
    /\ cursor[e] > VerifyPhase => mem[e].synthesis # 0
    /\ pc[e] \in {"initializing", "phase", "inPhase"} => ~Concluded
    /\ pc[e] \in {"recovering", "starting"} => (cursor[e] > EndPhase <=> Concluded)
    /\ pc[e] \in {"report", "finalize"} => Concluded
    /\ pc[e] = "finalize" => /\ reportStep = checkpoint.synthesis
                             /\ rootCause = checkpoint.synthesis
                             /\ mem[e].evidence \subseteq evidence

ReportInv == RowReports /\ (\A e \in Executor : TaskReports(e)) /\ ReportIsConsistent

\* Steps that leave the phases and the conclusions of the row alone.
RowKept == /\ UNCHANGED <<phase, phaseStatus, reportStep, rootCause, summary>>
           /\ checkpoint'.synthesis = checkpoint.synthesis
           /\ evidence \subseteq evidence'
           /\ status' = "COMPLETED" => status = "COMPLETED" /\ UNCHANGED checkpoint

\* What TaskReports says of f is as before, or no longer asked.
TaskKept(f) ==
  \/ ~(leaseOwner' = f /\ pc'[f] \in Executing)
  \/ /\ leaseOwner = f /\ pc[f] \in Executing
     /\ UNCHANGED <<pc[f], cursor[f]>>
     /\ mem'[f].synthesis = mem[f].synthesis
     /\ pc[f] = "finalize" => UNCHANGED mem[f]

LEMMA KeptStep ==
  ASSUME TypeInv, ReportInv, RowKept
  PROVE  /\ RowReports' /\ ReportIsConsistent'
         /\ \A f \in Executor : TaskKept(f) => TaskReports(f)'
<1> USE DEF ReportInv, RowKept
<1>1. RowReports'
  BY DEF RowReports, Concluded
<1>2. ReportIsConsistent'
  BY DEF ReportIsConsistent
<1>3. ASSUME NEW f \in Executor, TaskKept(f) PROVE TaskReports(f)'
  BY <1>3 DEF TaskKept, TaskReports, Concluded
<1> QED
  BY <1>1, <1>2, <1>3

\* The owner saves the state m at phase p.
LEMMA SavedStep ==
  ASSUME TypeInv, ReportInv, NEW e \in Executor, NEW m \in States, NEW p \in 1..EndPhase,
         NEW s \in {"PENDING", "RUNNING", "COMPLETED"},
         SaveCheckpoint(e, m, p, s), ~Concluded,
         p > VerifyPhase \/ (p = VerifyPhase /\ s = "COMPLETED") => m.synthesis # 0,
         \A f \in Executor \ {e} : pc'[f] = pc[f]
  PROVE  /\ RowReports' /\ ReportIsConsistent' /\ mem'[e] = m /\ checkpoint' = m
         /\ phase' = p /\ phaseStatus' = s
         /\ \A f \in Executor \ {e} : TaskReports(f)'
<1> USE DEF ReportInv, SaveCheckpoint, RenewLease, Owns, tables
<1>1. mem' = [mem EXCEPT ![e] = m] /\ mem'[e] = m /\ checkpoint' = m /\ phase' = p
      /\ phaseStatus' = s
  BY DEF TypeInv, TypeOK, ProcessTypes
<1>2. reportStep = 0 /\ reportStep' = 0 /\ status' = "INVESTIGATING"
  BY DEF RowReports
<1>3. RowReports' /\ ReportIsConsistent'
  BY <1>1, <1>2 DEF RowReports, ReportIsConsistent
<1>4. \A f \in Executor \ {e} : TaskReports(f)'
  BY DEF TaskReports
<1> QED
  BY <1>1, <1>3, <1>4

LEMMA PhaseReports ==
  ASSUME TypeInv, ReportInv, NEW e \in Executor,
         Initialize(e) \/ PhaseStarted(e) \/ PhaseCompleted(e) \/ PhaseCheckpoint(e)
  PROVE  ReportInv'
<1> USE DEF TypeInv, TypeOK, RowTypes, ProcessTypes, VerifyPhase, PlannedPhase
<1>1. /\ mem[e] \in States /\ epoch[e] \in 0..MaxAttempts /\ EndPhase \in Nat /\ EndPhase >= 5
      /\ cursor[e] \in 1..EndPhase + 1
  OBVIOUS
<1>2. /\ leaseOwner = e /\ leaseOwner' = e /\ pc[e] \in {"initializing", "phase", "inPhase"}
      /\ pc[e] \in Executing /\ epoch[e] # 0
  BY DEF Initialize, PhaseStarted, PhaseCompleted, PhaseCheckpoint, SaveCheckpoint, Owns,
         RenewLease, Executing, TaskShape
<1>3. /\ ~Concluded /\ mem[e].synthesis = checkpoint.synthesis
      /\ cursor[e] > VerifyPhase => mem[e].synthesis # 0
  BY <1>2 DEF ReportInv, TaskReports
<1>4. CASE Initialize(e)
  <2> DEFINE m == [NoState EXCEPT !.run = epoch[e]]
  <2>1. m \in States
    BY <1>1, EmptyState
  <2>2. /\ SaveCheckpoint(e, m, 1, "PENDING") /\ pc' = [pc EXCEPT ![e] = "phase"]
        /\ cursor' = cursor /\ cursor[e] = 1
    BY <1>2, <1>4 DEF Initialize, TaskShape
  <2> HIDE DEF m
  <2>3. /\ RowReports' /\ ReportIsConsistent' /\ mem'[e] = m /\ checkpoint' = m
        /\ phase' = 1 /\ \A f \in Executor \ {e} : TaskReports(f)'
    BY <1>1, <1>3, <2>1, <2>2, SavedStep
  <2>4. TaskReports(e)'
    BY <1>1, <2>2, <2>3 DEF TaskReports, Concluded
  <2> QED
    BY <2>3, <2>4 DEF ReportInv
<1>5. CASE PhaseStarted(e) \/ PhaseCheckpoint(e)
  <2>1. /\ SaveCheckpoint(e, mem[e], cursor[e], "RUNNING") /\ cursor' = cursor
        /\ cursor[e] \in 1..EndPhase
        /\ pc' = [pc EXCEPT ![e] = "inPhase"]
    BY <1>1, <1>5 DEF PhaseStarted, PhaseCheckpoint, TaskShape
  <2>2. /\ RowReports' /\ ReportIsConsistent' /\ mem'[e] = mem[e] /\ checkpoint' = mem[e]
        /\ phaseStatus' = "RUNNING" /\ \A f \in Executor \ {e} : TaskReports(f)'
    BY <1>1, <1>3, <2>1, SavedStep
  <2>3. TaskReports(e)'
    BY <1>3, <2>1, <2>2 DEF TaskReports, Concluded
  <2> QED
    BY <2>2, <2>3 DEF ReportInv
<1>6. CASE PhaseCompleted(e)
  <2> DEFINE m == IF cursor[e] = VerifyPhase
                  THEN [mem[e] EXCEPT !.synthesis = epoch[e]] ELSE mem[e]
  <2>1. m \in States
    BY <1>1, SynthesisedState
  <2>2. cursor[e] >= VerifyPhase => m.synthesis # 0
    BY <1>1, <1>2, <1>3 DEF States
  <2>3. /\ SaveCheckpoint(e, m, cursor[e], "COMPLETED") /\ cursor[e] \in 1..EndPhase
        /\ cursor' = [cursor EXCEPT ![e] = cursor[e] + 1]
        /\ pc' = [pc EXCEPT ![e] = IF cursor[e] = EndPhase THEN "report" ELSE "phase"]
    BY <1>1, <1>6 DEF PhaseCompleted, TaskShape
  <2> HIDE DEF m
  <2>4. /\ RowReports' /\ ReportIsConsistent' /\ mem'[e] = m /\ checkpoint' = m
        /\ phase' = cursor[e] /\ phaseStatus' = "COMPLETED"
        /\ \A f \in Executor \ {e} : TaskReports(f)'
    BY <1>1, <1>3, <2>1, <2>2, <2>3, SavedStep
  <2>5. /\ cursor'[e] = cursor[e] + 1
        /\ pc'[e] = IF cursor[e] = EndPhase THEN "report" ELSE "phase"
    BY <2>3
  <2>6. TaskReports(e)'
    BY <1>1, <2>2, <2>4, <2>5 DEF TaskReports, Concluded
  <2> QED
    BY <2>4, <2>6 DEF ReportInv
<1> QED
  BY <1>4, <1>5, <1>6

\* A step that changes the task of e alone, and keeps the row: what is left to
\* prove is TaskReports of e.
LEMMA OneTaskStep ==
  ASSUME TypeInv, ReportInv, RowKept, NEW e \in Executor, TaskReports(e)',
         UNCHANGED leaseOwner, \A f \in Executor \ {e} : Local(f)' = Local(f)
  PROVE  ReportInv'
<1>1. \A f \in Executor \ {e} : TaskKept(f)
  BY DEF TaskKept, Local
<1> QED
  BY <1>1, KeptStep DEF ReportInv

LEMMA NoTaskStep ==
  ASSUME TypeInv, ReportInv, RowKept, \A f \in Executor : TaskKept(f)
  PROVE  ReportInv'
BY KeptStep DEF ReportInv

LEMMA ProjectionReports ==
  ASSUME TypeInv, ReportInv, NEW e \in Executor, Step(e),
         AppendRecovered(e) \/ StartProjection(e) \/ Deadline(e) \/ PersistReport(e)
  PROVE  ReportInv'
<1> USE DEF TypeInv, TypeOK, RowTypes, ProcessTypes, session, tables, runtime,
            VerifyPhase, PlannedPhase
<1>1. \A f \in Executor \ {e} : Local(f)' = Local(f)
  BY StepIsLocal
<1>2. CASE AppendRecovered(e) \/ StartProjection(e) \/ Deadline(e)
  <2>1. RowKept /\ UNCHANGED <<leaseOwner, mem, checkpoint, phase, phaseStatus>>
    BY <1>2 DEF RowKept, AppendRecovered, StartProjection, Deadline
  <2>2. CASE AppendRecovered(e)
    <3>1. TaskReports(e)'
      BY <2>1, <2>2 DEF ReportInv, TaskReports, Concluded, AppendRecovered, Executing
    <3> QED
      BY <1>1, <2>1, <3>1, OneTaskStep
  <2>3. CASE StartProjection(e)
    <3>1. mem[e].run = 0 => cursor[e] = 1
      BY <2>3 DEF StartProjection, TaskShape, Executing
    <3>2. TaskReports(e)'
      BY <2>1, <2>3, <3>1 DEF ReportInv, TaskReports, Concluded, StartProjection, NextStop, Executing
    <3> QED
      BY <1>1, <2>1, <3>2, OneTaskStep
  <2>4. CASE Deadline(e)
    <3>1. TaskReports(e)'
      BY <2>1, <2>4 DEF ReportInv, TaskReports, Concluded, Deadline, Executing
    <3> QED
      BY <1>1, <2>1, <3>1, OneTaskStep
  <2> QED
    BY <1>2, <2>2, <2>3, <2>4
<1>3. CASE PersistReport(e)
  <2>1. /\ pc[e] = "report" /\ leaseOwner = e /\ status = "INVESTIGATING"
        /\ UNCHANGED <<session, mem, cursor>> /\ pc' = [pc EXCEPT ![e] = "finalize"]
        /\ evidence' = evidence \cup mem[e].evidence /\ rootCause' = mem[e].synthesis
        /\ reportStep' = IF reportStep = 0 THEN mem[e].synthesis ELSE reportStep
    BY <1>3 DEF PersistReport, Owns
  <2>2. Concluded /\ mem[e].synthesis = checkpoint.synthesis
    BY <2>1 DEF ReportInv, TaskReports, Executing
  <2>3. reportStep' = checkpoint.synthesis
    BY <2>1, <2>2 DEF ReportInv, RowReports
  <2>4. RowReports'
    BY <2>1, <2>2, <2>3 DEF ReportInv, RowReports, Concluded
  <2>5. ReportIsConsistent'
    BY <2>1 DEF ReportIsConsistent
  <2>6. TaskReports(e)'
    BY <2>1, <2>2, <2>3 DEF ReportInv, TaskReports, Concluded
  <2>7. \A f \in Executor \ {e} : TaskReports(f)'
    BY <2>1 DEF TaskReports
  <2> QED
    BY <2>4, <2>5, <2>6, <2>7 DEF ReportInv
<1> QED
  BY <1>2, <1>3

LEMMA ToolReports ==
  ASSUME TypeInv, ReportInv, NEW e \in Executor, NEW k \in Tool, NEW ok \in BOOLEAN, Step(e),
         ReuseTool(e, k) \/ BeginTool(e, k) \/ CompleteTool(e, k, ok)
           \/ SwallowCommitError(e, k, ok)
  PROVE  ReportInv'
<1> USE DEF TypeInv, TypeOK, RowTypes, ProcessTypes, session, tables, runtime
<1>1. /\ mem[e] \in States /\ Reused(mem[e], k).synthesis = mem[e].synthesis
      /\ Recorded(mem[e], k, ok).synthesis = mem[e].synthesis
  BY DEF States, Reused, Recorded
<1>2. pc[e] = "inPhase" /\ UNCHANGED <<pc, cursor, leaseOwner>>
  BY DEF ReuseTool, BeginTool, CompleteTool, SwallowCommitError, MayCall, RenewLease
<1>3. mem'[e].synthesis = mem[e].synthesis /\ \A f \in Executor \ {e} : mem'[f] = mem[f]
  BY <1>1 DEF ReuseTool, BeginTool, CompleteTool, SwallowCommitError
<1>4. RowKept
  <2>1. CASE ReuseTool(e, k) \/ BeginTool(e, k) \/ SwallowCommitError(e, k, ok)
    BY <2>1 DEF RowKept, ReuseTool, BeginTool, SwallowCommitError
  <2>2. CASE CompleteTool(e, k, ok)
    <3>1. mem[e].synthesis = checkpoint.synthesis
      BY <1>2, <2>2 DEF CompleteTool, Owns, ReportInv, TaskReports, Executing
    <3> QED
      BY <1>1, <2>2, <3>1 DEF RowKept, CompleteTool, Owns
  <2> QED
    BY <2>1, <2>2
<1>5. \A f \in Executor : TaskKept(f)
  BY <1>2, <1>3 DEF TaskKept
<1> QED
  BY <1>4, <1>5, NoTaskStep

LEMMA ReportStep == TypeInv /\ ResumeInv /\ ReportInv /\ [Next]_vars => ReportInv'
<1> SUFFICES ASSUME TypeInv, ResumeInv, ReportInv, [Next]_vars PROVE ReportInv'
  OBVIOUS
<1> USE DEF session, tables, runtime
<1>1. ASSUME NEW e \in Executor, Step(e) PROVE ReportInv'
  <2>1. \A f \in Executor \ {e} : Local(f)' = Local(f)
    BY <1>1, StepIsLocal
  <2>2. CASE ScanSubmit(e) \/ ScanExhausted(e) \/ ClaimError(e) \/ Heartbeat(e)
    <3>1. RowKept
      BY <2>2 DEF RowKept, ScanSubmit, ScanExhausted, ClaimError, Heartbeat
    <3>2. UNCHANGED <<leaseOwner, mem, cursor>>
          /\ (pc'[e] \in Executing => UNCHANGED pc[e])
      BY <2>2 DEF ScanSubmit, ScanExhausted, ClaimError, Heartbeat, RenewLease, Executing,
                  TypeInv, TypeOK, ProcessTypes
    <3>3. \A f \in Executor : TaskKept(f)
      BY <2>1, <3>2 DEF TaskKept, Local
    <3> QED
      BY <3>1, <3>3, NoTaskStep
  <2>3. CASE Claim(e)
    <3>1. RowKept
      BY <2>3 DEF RowKept, Claim
    <3>2. pc'[e] \notin Executing /\ leaseOwner' \in {leaseOwner, e}
      BY <2>3 DEF Claim, Executing, TypeInv, TypeOK, ProcessTypes
    <3>3. \A f \in Executor : TaskKept(f)
      BY <2>1, <3>2 DEF TaskKept, Local
    <3> QED
      BY <3>1, <3>3, NoTaskStep
  <2>4. CASE ReadClaim(e)
    <3>1. RowKept /\ UNCHANGED <<leaseOwner, phase, phaseStatus, checkpoint>>
      BY <2>4 DEF RowKept, ReadClaim
    <3>2. /\ mem'[e] = checkpoint /\ cursor'[e] = ResumeCursor
          /\ pc'[e] \in {"recovering", "starting"}
      BY <2>4 DEF ReadClaim, TypeInv, TypeOK, ProcessTypes
    <3>3. ResumeCursor > VerifyPhase => checkpoint.synthesis # 0
      BY DEF ReportInv, RowReports, ResumeCursor, VerifyPhase, TypeInv, TypeOK, RowTypes
    <3>4. ResumeCursor > EndPhase <=> Concluded
      BY DEF ResumeCursor, Concluded, TypeInv, TypeOK, RowTypes
    <3>5. TaskReports(e)'
      BY <3>1, <3>2, <3>3, <3>4 DEF TaskReports, Concluded
    <3> QED
      BY <2>1, <3>1, <3>5, OneTaskStep
  <2>5. CASE RejectCheckpoint(e) \/ FailSession(e) \/ OwnershipLost(e) \/ Shutdown(e)
    <3>1. RowKept
      BY <2>5 DEF RowKept, RejectCheckpoint, FailSession, OwnershipLost, Shutdown, RowFails
    <3>2. pc'[e] \in {"idle", "down"} /\ leaseOwner' \in {leaseOwner, NoOwner}
      BY <2>5 DEF RejectCheckpoint, FailSession, OwnershipLost, Shutdown, RowFails, ClearLease,
                  TaskEnds, TypeInv, TypeOK, ProcessTypes
    <3>3. \A f \in Executor : TaskKept(f)
      BY <2>1, <3>2 DEF TaskKept, Local, Executing
    <3> QED
      BY <3>1, <3>3, NoTaskStep
  <2>6. CASE CompleteSession(e)
    <3>1. /\ pc[e] = "finalize" /\ leaseOwner = e /\ leaseOwner' = NoOwner
          /\ status' = "COMPLETED" /\ summary' = mem[e].synthesis
          /\ phase' = EndPhase /\ phaseStatus' = "COMPLETED"
          /\ UNCHANGED <<checkpoint, evidence, reportStep, rootCause>>
      BY <2>6 DEF CompleteSession, Owns, ClearLease
    <3>2. /\ Concluded /\ reportStep = mem[e].synthesis /\ rootCause = mem[e].synthesis
          /\ mem[e].synthesis = checkpoint.synthesis /\ mem[e].evidence \subseteq evidence
      BY <3>1 DEF ReportInv, TaskReports, Executing
    <3>3. checkpoint.synthesis # 0
      BY <3>2 DEF ReportInv, RowReports, Concluded, VerifyPhase
    <3>4. checkpoint.evidence \subseteq mem[e].evidence
      BY <3>1 DEF ResumeInv, OwnerKnows, Within, Executing
    <3>5. RowReports' /\ ReportIsConsistent'
      BY <3>1, <3>2, <3>3, <3>4 DEF RowReports, ReportIsConsistent, Concluded
    <3>6. \A f \in Executor : TaskReports(f)'
      BY <3>1 DEF TaskReports
    <3> QED
      BY <3>5, <3>6 DEF ReportInv
  <2>7. CASE AppendRecovered(e) \/ StartProjection(e) \/ Deadline(e) \/ PersistReport(e)
    BY <1>1, <2>7, ProjectionReports
  <2>8. CASE Initialize(e) \/ PhaseStarted(e) \/ PhaseCompleted(e) \/ PhaseCheckpoint(e)
    BY <2>8, PhaseReports
  <2>9. CASE \E k \in Tool, ok \in BOOLEAN :
               ReuseTool(e, k) \/ BeginTool(e, k) \/ CompleteTool(e, k, ok)
                 \/ SwallowCommitError(e, k, ok)
    BY <1>1, <2>9, ToolReports
  <2> QED
    BY <1>1, <2>2, <2>3, <2>4, <2>5, <2>6, <2>7, <2>8, <2>9 DEF Step, Work
<1>2. ASSUME NEW e \in Executor, MarkMaxAttempts(e) PROVE ReportInv'
  <2>1. RowKept /\ \A f \in Executor : TaskKept(f)
    BY <1>2 DEF RowKept, TaskKept, MarkMaxAttempts, RowFails, ClearLease
  <2> QED
    BY <2>1, NoTaskStep
<1>3. ASSUME NEW e \in Executor, Crash(e) PROVE ReportInv'
  <2>1. RowKept /\ \A f \in Executor : TaskKept(f)
    BY <1>3 DEF RowKept, TaskKept, Crash, TaskEnds, Executing, TypeInv, TypeOK, ProcessTypes
  <2> QED
    BY <2>1, NoTaskStep
<1>4. ASSUME Tick \/ UNCHANGED vars PROVE ReportInv'
  <2>1. RowKept /\ \A f \in Executor : TaskKept(f)
    BY <1>4 DEF RowKept, TaskKept, Tick, vars
  <2> QED
    BY <2>1, NoTaskStep
<1> QED
  BY <1>1, <1>2, <1>3, <1>4 DEF Next

LEMMA Reported == Spec => [](TypeInv /\ ResumeInv /\ ReportInv)
<1>1. Init => ReportInv
  BY DEF Init, ReportInv, RowReports, TaskReports, ReportIsConsistent, NoState, VerifyPhase
<1>2. Init => ResumeInv
  BY DEF Init, ResumeInv, BlankUntilRun, OwnerKnows, CheckpointCoversCompleted, Completed,
         Blank, NoState, Within
<1> QED
  BY <1>1, <1>2, TypeInit, TypeStep, ResumeStep, ReportStep, PTL DEF Spec

\* The REPORT step, the root cause and the summary of a completed diagnosis
\* tell one conclusion, although different attempts may have written them,
\* and all the evidence it rests on is stored.
THEOREM OneConclusion == Spec => []ReportIsConsistent
BY Reported, PTL DEF ReportInv

-----------------------------------------------------------------------------
(* The self-check.  What it says of leases is LeaseInv, and what it says of *)
(* a completed row follows from ReportInv; the rest is inductive.           *)

EventsOf(s) == CASE s = "COMPLETED" -> {"diagnosis.completed"}
                 [] s = "FAILED"    -> {"diagnosis.failed"}
                 [] OTHER           -> {}

RowLinks == /\ checkpoint.run = runId
            /\ runId # 0 => phase # 0
            /\ terminalEvents = EventsOf(status)

\* Steps of the row that are no checkpoint: a claim, a failure, a lease.
LinksKept == /\ UNCHANGED <<runId, phase>> /\ checkpoint'.run = checkpoint.run
             /\ \/ UNCHANGED terminalEvents /\ (UNCHANGED status \/ {status, status'} \subseteq Live)
                \/ /\ status \in Live /\ status' = "FAILED"
                   /\ terminalEvents' = terminalEvents \cup {"diagnosis.failed"}

LEMMA LinksKeptStep == RowLinks /\ LinksKept => RowLinks'
BY DEF RowLinks, LinksKept, EventsOf, Live

LEMMA LinksStep == TypeInv /\ RowLinks /\ [Next]_vars => RowLinks'
<1> SUFFICES ASSUME TypeInv, RowLinks, [Next]_vars PROVE RowLinks'
  OBVIOUS
<1> USE DEF session, tables, runtime
<1>1. ASSUME NEW e \in Executor, Step(e) PROVE RowLinks'
  <2>1. CASE \/ ScanSubmit(e) \/ ScanExhausted(e) \/ ClaimError(e) \/ ReadClaim(e)
             \/ AppendRecovered(e) \/ StartProjection(e) \/ PersistReport(e) \/ Heartbeat(e)
             \/ Deadline(e) \/ OwnershipLost(e)
    <3>1. LinksKept
      BY <2>1 DEF LinksKept, ScanSubmit, ScanExhausted, ClaimError, ReadClaim, AppendRecovered,
                  StartProjection, PersistReport, Heartbeat, Deadline, OwnershipLost
    <3> QED
      BY <3>1, LinksKeptStep
  <2>2. CASE Claim(e) \/ RejectCheckpoint(e) \/ FailSession(e) \/ Shutdown(e)
    <3>1. LinksKept
      BY <2>2 DEF LinksKept, Claim, Claimable, RejectCheckpoint, FailSession, Shutdown,
                  RowFails, Holds, Live
    <3> QED
      BY <3>1, LinksKeptStep
  <2>3. CASE \E k \in Tool, ok \in BOOLEAN :
               ReuseTool(e, k) \/ BeginTool(e, k) \/ SwallowCommitError(e, k, ok)
    <3>1. LinksKept
      BY <2>3 DEF LinksKept, ReuseTool, BeginTool, SwallowCommitError
    <3> QED
      BY <3>1, LinksKeptStep
  <2>4. ASSUME NEW k \in Tool, NEW ok \in BOOLEAN, CompleteTool(e, k, ok) PROVE RowLinks'
    <3>1. Recorded(mem[e], k, ok).run = mem[e].run
      BY RecordedState DEF TypeInv, TypeOK, ProcessTypes
    <3>2. mem[e].run = checkpoint.run /\ mem[e].run # 0
      BY <2>4 DEF CompleteTool, Owns, TypeInv, TaskShape, OwnerShape, Executing
    <3>3. /\ checkpoint'.run = mem[e].run /\ runId' = (IF runId = 0 THEN mem[e].run ELSE runId)
          /\ UNCHANGED <<status, phase, terminalEvents>>
      BY <2>4, <3>1 DEF CompleteTool
    <3> QED
      BY <3>2, <3>3 DEF RowLinks
  <2>5. ASSUME NEW m, NEW p, NEW s, SaveCheckpoint(e, m, p, s), p # 0,
               checkpoint.run \in {0, m.run}
        PROVE  RowLinks'
    BY <2>5 DEF SaveCheckpoint, RowLinks
  <2>6. CASE Initialize(e)
    <3>1. checkpoint.run = 0
      BY <2>6 DEF Initialize, SaveCheckpoint, Owns, TypeInv, TaskShape, OwnerShape, Executing
    <3> QED
      BY <2>5, <2>6, <3>1 DEF Initialize
  <2>7. CASE PhaseStarted(e) \/ PhaseCheckpoint(e)
    <3>1. mem[e].run = checkpoint.run /\ cursor[e] # 0
      BY <2>7 DEF PhaseStarted, PhaseCheckpoint, SaveCheckpoint, Owns, TypeInv, TypeOK,
                  ProcessTypes, OwnerShape, Executing
    <3> QED
      BY <2>5, <2>7, <3>1 DEF PhaseStarted, PhaseCheckpoint
  <2>8. CASE PhaseCompleted(e)
    <3> DEFINE m == IF cursor[e] = VerifyPhase
                    THEN [mem[e] EXCEPT !.synthesis = epoch[e]] ELSE mem[e]
    <3>1. mem[e].run = checkpoint.run /\ cursor[e] # 0 /\ mem[e] \in States
      BY <2>8 DEF PhaseCompleted, SaveCheckpoint, Owns, TypeInv, TypeOK, ProcessTypes,
                  OwnerShape, Executing
    <3>2. m.run = mem[e].run
      BY <3>1 DEF States
    <3>3. SaveCheckpoint(e, m, cursor[e], "COMPLETED")
      BY <2>8 DEF PhaseCompleted
    <3> HIDE DEF m
    <3> QED
      BY <2>5, <3>1, <3>2, <3>3
  <2>9. CASE CompleteSession(e)
    <3>1. /\ status = "INVESTIGATING" /\ status' = "COMPLETED" /\ phase' = EndPhase
          /\ runId' = mem[e].run /\ UNCHANGED checkpoint
          /\ terminalEvents' = terminalEvents \cup {"diagnosis.completed"}
      BY <2>9 DEF CompleteSession, Owns
    <3>2. mem[e].run = checkpoint.run
      BY <2>9 DEF CompleteSession, Owns, TypeInv, OwnerShape, Executing
    <3> QED
      BY <3>1, <3>2 DEF RowLinks, EventsOf
  <2> QED
    BY <1>1, <2>1, <2>2, <2>3, <2>4, <2>6, <2>7, <2>8, <2>9 DEF Step, Work
<1>2. ASSUME NEW e \in Executor, MarkMaxAttempts(e) PROVE RowLinks'
  <2>1. LinksKept
    BY <1>2 DEF LinksKept, MarkMaxAttempts, Condemnable, RowFails
  <2> QED
    BY <2>1, LinksKeptStep
<1>3. ASSUME (\E e \in Executor : Crash(e)) \/ Tick \/ UNCHANGED vars PROVE RowLinks'
  <2>1. LinksKept
    BY <1>3 DEF LinksKept, Crash, Tick, vars
  <2> QED
    BY <2>1, LinksKeptStep
<1> QED
  BY <1>1, <1>2, <1>3 DEF Next

\* The rows of a diagnosis agree as the self-check demands, at every moment:
\* no lease without work, no end without its report and its event, one run.
THEOREM SelfCheckPasses == Spec => []SelfCheckErrors
<1>1. Init => RowLinks
  BY DEF Init, RowLinks, EventsOf, NoState
<1>2. ASSUME TypeInv, ReportInv, LeaseInv, RowLinks PROVE SelfCheckErrors
  <2>1. checkpoint = NoState => runId = 0 /\ phase = 0 /\ reportStep = 0
    BY <1>2 DEF TypeInv, RowShape, RowLinks, ReportInv, RowReports, NoState
  <2>2. attemptNo <= MaxAttempts
    BY <1>2 DEF TypeInv, TypeOK, RowTypes
  <2>3. /\ status # "INVESTIGATING" => leaseOwner = NoOwner
        /\ status = "COMPLETED" => phase = EndPhase /\ reportStep # 0
        /\ checkpoint.run = runId
    BY <1>2 DEF LeaseInv, ReportInv, RowReports, Concluded, ReportIsConsistent, RowLinks
  <2>4. SessionErrors \subseteq {"MISSING_CHECKPOINT", "RECOVERY_ATTEMPTS_EXHAUSTED"}
    <3>1. attemptNo \in Nat /\ MaxAttempts \in Nat /\ ~(attemptNo > MaxAttempts)
      BY <2>2, <1>2 DEF TypeInv, TypeOK, RowTypes
    <3>2. /\ ~SessionRule["MAX_ATTEMPTS_EXCEEDED"]
          /\ ~SessionRule["CHECKPOINT_RUN_ID_MISMATCH"]
          /\ ~SessionRule["TERMINAL_SESSION_HOLDS_LEASE"]
          /\ ~SessionRule["PENDING_SESSION_HOLDS_LEASE"]
          /\ ~SessionRule["COMPLETED_PHASE_NOT_END"]
      BY <2>3, <3>1 DEF SessionRule, Terminal
    <3> QED
      BY <3>2 DEF SessionErrors, SessionRule
  <2>5. "MISSING_CHECKPOINT" \in SessionErrors => checkpoint = NoState
    BY DEF SessionErrors, SessionRule
  <2> QED
    BY <1>2, <2>1, <2>3, <2>4, <2>5 DEF SelfCheckErrors, RowLinks, EventsOf
<1> QED
  BY <1>1, <1>2, LinksStep, Reported, Leased, PTL DEF Spec

-----------------------------------------------------------------------------
(* The refinement of DiagnosisTask.                                         *)

\* A synthesis is named by an attempt that was started.
SynthesisInv == /\ checkpoint.synthesis <= attemptNo
                /\ \A e \in Executor : mem[e].synthesis <= attemptNo

LEMMA SynthesisStep == TypeInv /\ Tenure /\ SynthesisInv /\ [Next]_vars => SynthesisInv'
<1> SUFFICES ASSUME TypeInv, Tenure, SynthesisInv, [Next]_vars PROVE SynthesisInv'
  OBVIOUS
<1> USE DEF TypeInv, TypeOK, RowTypes, ProcessTypes, SynthesisInv, session, tables, runtime
<1>1. attemptNo <= attemptNo' /\ attemptNo' \in Nat
  BY OnlyClaimInstalls DEF Claim, NextAttempt
<1>2. ASSUME NEW e \in Executor, NEW r \in Nat, r <= attemptNo,
             checkpoint'.synthesis \in {checkpoint.synthesis, r},
             \A f \in Executor : mem'[f].synthesis \in {mem[f].synthesis, r}
      PROVE  SynthesisInv'
  <2>1. \A n \in Nat : n <= attemptNo => n <= attemptNo'
    BY <1>1
  <2>2. checkpoint.synthesis \in Nat /\ \A f \in Executor : mem[f].synthesis \in Nat
    BY DEF States
  <2> QED
    BY <1>2, <2>1, <2>2, Zenon
<1>3. NoState.synthesis = 0 /\ \A e \in Executor : mem[e] \in States
  BY DEF NoState
<1>4. checkpoint \in States /\ 0 \in Nat /\ 0 <= attemptNo
  OBVIOUS
<1>5. ASSUME NEW e \in Executor, Step(e) PROVE SynthesisInv'
  <2>1. CASE \/ ScanSubmit(e) \/ ScanExhausted(e) \/ ClaimError(e) \/ Claim(e) \/ Heartbeat(e)
             \/ AppendRecovered(e) \/ StartProjection(e) \/ PersistReport(e) \/ Deadline(e)
             \/ \E k \in Tool : BeginTool(e, k)
    <3>1. UNCHANGED <<checkpoint, mem>>
      BY <2>1 DEF ScanSubmit, ScanExhausted, ClaimError, Claim, Heartbeat, AppendRecovered,
                  StartProjection, PersistReport, Deadline, BeginTool
    <3> QED
      BY <1>2, <1>4, <3>1
  <2>2. CASE ReadClaim(e)
    <3>1. checkpoint' = checkpoint /\ mem' = [mem EXCEPT ![e] = checkpoint]
      BY <2>2 DEF ReadClaim
    <3>2. checkpoint.synthesis \in Nat
      BY <1>4 DEF States
    <3> QED
      BY <1>2, <3>1, <3>2
  <2>3. CASE \/ RejectCheckpoint(e) \/ FailSession(e) \/ OwnershipLost(e) \/ Shutdown(e)
             \/ CompleteSession(e)
    <3>1. checkpoint' = checkpoint /\ mem' = [mem EXCEPT ![e] = NoState]
      BY <2>3 DEF RejectCheckpoint, FailSession, OwnershipLost, Shutdown, CompleteSession,
                  RowFails, TaskEnds
    <3> QED
      BY <1>2, <1>3, <3>1
  <2>4. ASSUME NEW m \in States, NEW p, NEW s, SaveCheckpoint(e, m, p, s),
               m.synthesis <= attemptNo
        PROVE  SynthesisInv'
    <3>1. m.synthesis \in Nat
      BY DEF States
    <3> QED
      BY <1>2, <2>4, <3>1 DEF SaveCheckpoint
  <2>5. CASE Initialize(e)
    <3>1. [NoState EXCEPT !.run = epoch[e]] \in States
          /\ [NoState EXCEPT !.run = epoch[e]].synthesis = 0
      BY EmptyState DEF NoState
    <3>2. SaveCheckpoint(e, [NoState EXCEPT !.run = epoch[e]], 1, "PENDING")
      BY <2>5 DEF Initialize
    <3> QED
      BY <1>4, <2>4, <3>1, <3>2
  <2>6. CASE PhaseStarted(e) \/ PhaseCheckpoint(e)
    BY <1>3, <2>4, <2>6 DEF PhaseStarted, PhaseCheckpoint
  <2>7. CASE PhaseCompleted(e)
    <3> DEFINE m == IF cursor[e] = VerifyPhase
                    THEN [mem[e] EXCEPT !.synthesis = epoch[e]] ELSE mem[e]
    <3>1. m \in States
      BY <1>3, SynthesisedState
    <3>2. m.synthesis <= attemptNo
      BY <1>3 DEF Tenure, States
    <3>3. SaveCheckpoint(e, m, cursor[e], "COMPLETED")
      BY <2>7 DEF PhaseCompleted
    <3> HIDE DEF m
    <3> QED
      BY <2>4, <3>1, <3>2, <3>3
  <2>8. ASSUME NEW k \in Tool, NEW ok \in BOOLEAN,
               ReuseTool(e, k) \/ CompleteTool(e, k, ok) \/ SwallowCommitError(e, k, ok)
        PROVE  SynthesisInv'
    <3>1. /\ Reused(mem[e], k).synthesis = mem[e].synthesis
          /\ Recorded(mem[e], k, ok).synthesis = mem[e].synthesis
      BY <1>3 DEF States, Reused, Recorded
    <3>2. /\ checkpoint'.synthesis \in {checkpoint.synthesis, mem[e].synthesis}
          /\ \A f \in Executor : mem'[f].synthesis = mem[f].synthesis
      BY <2>8, <3>1 DEF ReuseTool, CompleteTool, SwallowCommitError
    <3>3. mem[e].synthesis \in Nat
      BY <1>3 DEF States
    <3> QED
      BY <1>2, <3>2, <3>3
  <2> HIDE DEF SynthesisInv, TypeInv, TypeOK, RowTypes, ProcessTypes, session, tables, runtime
  <2> QED
    BY <1>5, <2>1, <2>2, <2>3, <2>5, <2>6, <2>7, <2>8 DEF Step, Work
<1>6. ASSUME NEW e \in Executor, MarkMaxAttempts(e) \/ Crash(e) PROVE SynthesisInv'
  <2>1. checkpoint' = checkpoint /\ (mem' = mem \/ mem' = [mem EXCEPT ![e] = NoState])
    BY <1>6 DEF MarkMaxAttempts, Crash, RowFails, TaskEnds
  <2> QED
    BY <1>2, <1>3, <2>1
<1>7. ASSUME Tick \/ UNCHANGED vars PROVE SynthesisInv'
  BY <1>7 DEF Tick, vars
<1> HIDE DEF SynthesisInv
<1> QED
  BY <1>5, <1>6, <1>7 DEF Next

-----------------------------------------------------------------------------
TaskInv == /\ TypeInv /\ Tenure /\ LeaseInv /\ ResumeInv /\ InflightInv
           /\ ReportInv /\ RowLinks /\ SynthesisInv

LEMMA TaskInvariant == Spec => []TaskInv
<1>1. Init => Tenure /\ LeaseInv /\ InflightInv /\ RowLinks /\ SynthesisInv
  BY DEF Init, Tenure, OwnerIsLatestClaimant, LeaseInv, InflightInv, RowLinks, EventsOf,
         SynthesisInv, NoState
<1>2. TypeInv /\ InflightInv /\ [Next]_vars => InflightInv'
  BY InflightStep
<1> QED
  BY <1>1, <1>2, Reported, Tenured, Leased, LinksStep, SynthesisStep, PTL DEF Spec, TaskInv

\* The row of the owner only learns: the holder, the attempts and the end are
\* as they were, and the checkpoint grows.
LEMMA OwnerLearns ==
  ASSUME TaskInv, TaskInv', [Next]_vars, NEW e \in Executor, Owns(e),
         UNCHANGED <<status, leaseOwner, attemptNo, summary>>,
         runId' = runId \/ (runId = 0 /\ runId' = attemptNo),
         Within(checkpoint, checkpoint')
  PROVE  Task!Learn
<1>1. Completed \subseteq Completed'
  BY InflightStep DEF TaskInv, StepsKept, Completed
<1>2. Completed' \subseteq checkpoint'.timeline
  BY DEF TaskInv, ResumeInv, CheckpointCoversCompleted
<1>3. leaseOwner # NoOwner /\ status = "INVESTIGATING"
  BY DEF Owns
<1> QED
  BY <1>1, <1>2, <1>3 DEF Task!Learn, Within

TaskIdle == UNCHANGED <<status, leaseOwner, attemptNo, runId, steps, checkpoint, summary>>

LEMMA IdleStutters == TaskIdle => UNCHANGED Task!vars
BY DEF TaskIdle, Task!vars, Completed

LEMMA RowFailsIsFail ==
  ASSUME RowFails, status \in Live, leaseOwner # NoOwner \/ attemptNo >= MaxAttempts
  PROVE  Task!Fail
BY DEF RowFails, ClearLease, Live, Task!Fail, Completed

\* The saves of the owner are steps of Learn.
LEMMA SaveLearns ==
  ASSUME TaskInv, TaskInv', [Next]_vars, NEW e \in Executor,
         Initialize(e) \/ PhaseStarted(e) \/ PhaseCompleted(e) \/ PhaseCheckpoint(e)
  PROVE  Task!Learn
<1> USE DEF TypeInv, TypeOK, RowTypes, ProcessTypes
<1>1. Owns(e) /\ pc[e] \in Executing /\ leaseOwner = e /\ TypeInv
  BY DEF Initialize, PhaseStarted, PhaseCompleted, PhaseCheckpoint, SaveCheckpoint, Owns,
         Executing, TaskInv
<1>2. mem[e] \in States /\ mem[e].run = checkpoint.run /\ checkpoint.run = runId
  BY <1>1 DEF OwnerShape, TaskInv, RowLinks
<1>3. Within(checkpoint, mem[e]) /\ epoch[e] = attemptNo
  BY <1>1 DEF TaskInv, ResumeInv, OwnerKnows, Tenure, OwnerIsLatestClaimant
<1>4. UNCHANGED <<status, leaseOwner, attemptNo, summary>>
  BY DEF Initialize, PhaseStarted, PhaseCompleted, PhaseCheckpoint, SaveCheckpoint, RenewLease
<1>5. CASE Initialize(e)
  <2>1. mem[e].run = 0 /\ runId = 0
    BY <1>1, <1>2, <1>5 DEF TaskShape, Initialize
  <2>2. Blank(mem[e])
    BY <2>1 DEF TaskInv, ResumeInv, BlankUntilRun
  <2>3. runId' = epoch[e]
    BY <1>1, <1>5, <2>1, EmptyState DEF Initialize, SaveCheckpoint
  <2>4. Within(checkpoint, checkpoint')
    BY <1>3, <2>2 DEF Within, Blank
  <2> QED
    BY <1>1, <1>3, <1>4, <2>1, <2>3, <2>4, OwnerLearns
<1>6. CASE PhaseStarted(e) \/ PhaseCompleted(e) \/ PhaseCheckpoint(e)
  <2> DEFINE m == IF cursor[e] = VerifyPhase
                  THEN [mem[e] EXCEPT !.synthesis = epoch[e]] ELSE mem[e]
  <2>1. m.run = mem[e].run /\ Within(mem[e], m)
    BY <1>2, SynthesisAdds DEF States, Within
  <2>2. PICK n \in {mem[e], m} : /\ checkpoint' = n
                                 /\ runId' = IF runId = 0 THEN n.run ELSE runId
    BY <1>6 DEF PhaseStarted, PhaseCompleted, PhaseCheckpoint, SaveCheckpoint
  <2> HIDE DEF m
  <2>3. runId' = runId /\ Within(checkpoint, checkpoint')
    BY <1>2, <1>3, <2>1, <2>2, WithinTransitive
  <2> QED
    BY <1>1, <1>4, <2>3, OwnerLearns
<1> QED
  BY <1>5, <1>6

LEMMA TaskStep == TaskInv /\ TaskInv' /\ [Next]_vars => [Task!Next]_(Task!vars)
<1> SUFFICES ASSUME TaskInv, TaskInv', [Next]_vars PROVE [Task!Next]_(Task!vars)
  OBVIOUS
<1> DEFINE Goal == Task!Next \/ UNCHANGED Task!vars
<1> USE DEF session, tables, runtime
<1>1. ASSUME NEW e \in Executor, Step(e) PROVE Goal
  <2>1. CASE \/ ScanSubmit(e) \/ ScanExhausted(e) \/ ClaimError(e) \/ ReadClaim(e)
             \/ OwnershipLost(e) \/ AppendRecovered(e) \/ StartProjection(e) \/ PersistReport(e)
             \/ Deadline(e)
    <3>1. TaskIdle
      BY <2>1 DEF TaskIdle, ScanSubmit, ScanExhausted, ClaimError, ReadClaim, OwnershipLost,
                  AppendRecovered, StartProjection, PersistReport, Deadline
    <3> QED
      BY <3>1, IdleStutters
  <2>2. CASE \E k \in Tool, ok \in BOOLEAN : ReuseTool(e, k) \/ SwallowCommitError(e, k, ok)
    <3>1. TaskIdle
      BY <2>2 DEF TaskIdle, ReuseTool, SwallowCommitError
    <3> QED
      BY <3>1, IdleStutters
  <2>3. CASE Claim(e)
    <3>1. CASE ~Claimable(e)
      BY <2>3, <3>1, IdleStutters DEF Claim, TaskIdle
    <3>2. CASE Claimable(e)
      <4>1. Task!Start(e)
        BY <2>3, <3>2 DEF Claim, Claimable, Live, NextAttempt, Task!Start, Completed
      <4> QED
        BY <4>1 DEF Task!Next
    <3> QED
      BY <3>1, <3>2
  <2>4. CASE RejectCheckpoint(e) \/ FailSession(e)
    <3>1. CASE UNCHANGED <<session, tables>>
      BY <3>1, IdleStutters DEF TaskIdle
    <3>2. CASE Holds(e) /\ RowFails
      <4>1. Task!Fail
        BY <3>2, RowFailsIsFail DEF Holds, Live
      <4> QED
        BY <4>1 DEF Task!Next
    <3> QED
      BY <2>4, <3>1, <3>2 DEF RejectCheckpoint, FailSession
  <2>5. CASE Shutdown(e)
    <3>1. CASE UNCHANGED session
      BY <2>5, <3>1, IdleStutters DEF Shutdown, TaskIdle
    <3>2. CASE status = "INVESTIGATING" /\ leaseOwner = e /\ ClearLease
      <4>1. UNCHANGED <<status, attemptNo, runId, checkpoint, summary, steps>>
        BY <2>5, <3>2 DEF Shutdown
      <4>2. Task!Release
        BY <3>2, <4>1 DEF ClearLease, Task!Release, Completed
      <4> QED
        BY <4>2 DEF Task!Next
    <3> QED
      BY <2>5, <3>1, <3>2 DEF Shutdown
  <2>6. CASE CompleteSession(e)
    <3>1. /\ status = "INVESTIGATING" /\ leaseOwner = e /\ pc[e] = "finalize"
          /\ status' = "COMPLETED" /\ leaseOwner' = NoOwner
          /\ runId' = mem[e].run /\ summary' = mem[e].synthesis
          /\ UNCHANGED <<attemptNo, checkpoint, steps>>
      BY <2>6 DEF CompleteSession, Owns, ClearLease
    <3>2. mem[e].run = runId /\ mem[e].run # 0
      BY <3>1 DEF TaskInv, TypeInv, OwnerShape, TaskShape, RowLinks, Executing
    <3>3. mem[e].synthesis \in 1..attemptNo
      <4>1. mem[e].synthesis # 0
        BY <3>1 DEF TaskInv, ReportInv, RowReports, TaskReports, Concluded, VerifyPhase, Executing
      <4> QED
        BY <4>1 DEF TaskInv, SynthesisInv, TypeInv, TypeOK, RowTypes, ProcessTypes, States
    <3>4. Task!Conclude
      BY <3>1, <3>2, <3>3 DEF Task!Conclude, Completed
    <3> QED
      BY <3>4 DEF Task!Next
  <2>7. CASE Initialize(e) \/ PhaseStarted(e) \/ PhaseCompleted(e) \/ PhaseCheckpoint(e)
    BY <2>7, SaveLearns DEF Task!Next
  <2>8. CASE Heartbeat(e) \/ \E k \in Tool : BeginTool(e, k)
    <3>1. Owns(e) /\ UNCHANGED <<status, leaseOwner, attemptNo, summary, runId, checkpoint>>
      BY <2>8 DEF Heartbeat, BeginTool, RenewLease
    <3>2. Within(checkpoint, checkpoint')
      BY <3>1 DEF Within
    <3> QED
      BY <3>1, <3>2, OwnerLearns DEF Task!Next
  <2>9. ASSUME NEW k \in Tool, NEW ok \in BOOLEAN, CompleteTool(e, k, ok) PROVE Goal
    <3>1. /\ Owns(e) /\ pc[e] = "inPhase" /\ checkpoint' = Recorded(mem[e], k, ok)
          /\ runId' = (IF runId = 0 THEN mem[e].run ELSE runId)
          /\ UNCHANGED <<status, leaseOwner, attemptNo, summary>>
      BY <2>9 DEF CompleteTool, RenewLease
    <3>2. mem[e].run = runId
      BY <3>1 DEF TaskInv, TypeInv, OwnerShape, RowLinks, Owns, Executing
    <3>3. Within(checkpoint, mem[e]) /\ Within(mem[e], Recorded(mem[e], k, ok))
      BY <3>1, CallsAdd DEF TaskInv, ResumeInv, OwnerKnows, Owns, Executing, TypeInv, TypeOK,
                            ProcessTypes
    <3>4. runId' = runId /\ Within(checkpoint, checkpoint')
      BY <3>1, <3>2, <3>3, WithinTransitive
    <3> QED
      BY <3>1, <3>4, OwnerLearns DEF Task!Next
  <2> QED
    BY <1>1, <2>1, <2>2, <2>3, <2>4, <2>5, <2>6, <2>7, <2>8, <2>9 DEF Step, Work
<1>2. ASSUME NEW e \in Executor, MarkMaxAttempts(e) PROVE Goal
  <2>1. CASE Condemnable /\ RowFails
    BY <2>1, RowFailsIsFail DEF Condemnable, Task!Next
  <2>2. CASE UNCHANGED <<session, tables>>
    BY <2>2, IdleStutters DEF TaskIdle
  <2> QED
    BY <1>2, <2>1, <2>2 DEF MarkMaxAttempts
<1>3. ASSUME (\E e \in Executor : Crash(e)) \/ Tick \/ UNCHANGED vars PROVE Goal
  BY <1>3, IdleStutters DEF TaskIdle, Crash, Tick, vars
<1> QED
  BY <1>1, <1>2, <1>3 DEF Next

\* The lease protocol implements the task for any executors, calls, attempts,
\* phases and clocks: one holder at a time, nothing learnt is ever lost, one
\* logical run, one end.
THEOREM Implementation == Spec => ImplementsTask
<1>1. Init => Task!Init
  BY DEF Init, Task!Init, Completed, NoState
<1> QED
  BY <1>1, TaskInvariant, TaskStep, PTL DEF Spec, ImplementsTask, Task!Spec
=============================================================================
