------------------------ MODULE DiagnosisLeaseProofs ------------------------
(* Theorems of DiagnosisLease for any number of executors, tools, attempts  *)
(* and phases, any lease length and any clock errors.                       *)
EXTENDS DiagnosisLease, TLAPS

USE ExecutorAssumption, PhaseAssumption, LimitAssumption, SkewAssumption

-----------------------------------------------------------------------------
(* The shape of a task: what its program counter says about the attempt     *)
(* number, the loaded state and the phase cursor.                           *)

TaskShape(e) ==
  /\ pc[e] \in {"claimed"} \cup Executing => epoch[e] # 0
  /\ pc[e] \in Executing /\ mem[e].run = 0 => cursor[e] = 1
  /\ pc[e] = "initializing" => mem[e].run = 0
  /\ pc[e] \in {"phase", "inPhase"} => mem[e].run # 0 /\ cursor[e] <= EndPhase
  /\ pc[e] \in {"report", "finalize"} => mem[e].run # 0

\* A row without a checkpoint has no phase.
RowShape == checkpoint.run = 0 => phase = 0

\* The owner's task works in the logical run of the row.
OwnerShape(e) == leaseOwner = e /\ pc[e] \in Executing => mem[e].run = checkpoint.run

TypeInv == /\ TypeOK /\ RowShape
           /\ \A e \in Executor : TaskShape(e) /\ OwnerShape(e)

\* The states a task builds are states, of the same run as the one before.
LEMMA EmptyState ==
  ASSUME NEW r \in 0..MaxAttempts
  PROVE  /\ NoState \in States /\ NoState.run = 0
         /\ [NoState EXCEPT !.run = r] \in States /\ [NoState EXCEPT !.run = r].run = r
BY DEF States, NoState

LEMMA SynthesisedState ==
  ASSUME NEW m \in States, NEW r \in 0..MaxAttempts
  PROVE  [m EXCEPT !.synthesis = r] \in States /\ [m EXCEPT !.synthesis = r].run = m.run
BY DEF States

LEMMA ReusedState ==
  ASSUME NEW m \in States, NEW k \in Tool, TableTypes
  PROVE  Reused(m, k) \in States /\ Reused(m, k).run = m.run
<1>1. m.timeline \cup {k} \in SUBSET Tool /\ m.evidence \cup ({k} \cap evidence) \in SUBSET Tool
  BY DEF States, TableTypes
<1> QED
  BY <1>1 DEF States, Reused

LEMMA RecordedState ==
  ASSUME NEW m \in States, NEW k \in Tool, NEW ok \in BOOLEAN
  PROVE  Recorded(m, k, ok) \in States /\ Recorded(m, k, ok).run = m.run
<1>1. /\ m.timeline \cup {k} \in SUBSET Tool
      /\ (IF ok THEN m.evidence \cup {k} ELSE m.evidence) \in SUBSET Tool
  BY DEF States
<1> QED
  BY <1>1 DEF States, Recorded

LEMMA TypeInit == Init => TypeInv
BY DEF Init, TypeInv, TypeOK, RowTypes, TableTypes, ProcessTypes, RowShape, TaskShape, OwnerShape, Live, Terminal, Executing, Expired,
       NoState, States, StepRow, VerifyPhase, PlannedPhase

LEMMA TypeStep == TypeInv /\ [Next]_vars => TypeInv'
<1> SUFFICES ASSUME TypeInv, [Next]_vars PROVE TypeInv'
  OBVIOUS
<1> USE DEF TypeInv, TypeOK, RowTypes, TableTypes, ProcessTypes, RowShape, TaskShape, OwnerShape, Live, Terminal, Executing, Expired,
            States, StepRow, VerifyPhase, PlannedPhase, session, tables, runtime
<1>1. ASSUME NEW e \in Executor, ScanSubmit(e) PROVE TypeInv'
  BY <1>1 DEF ScanSubmit
<1>2. ASSUME NEW e \in Executor, ScanExhausted(e) PROVE TypeInv'
  BY <1>2 DEF ScanExhausted
<1>3. ASSUME NEW e \in Executor, MarkMaxAttempts(e) PROVE TypeInv'
  <2>1. RowTypes'
    BY <1>3 DEF MarkMaxAttempts, Condemnable, RowFails, ClearLease
  <2>2. TableTypes'
    BY <1>3 DEF MarkMaxAttempts, Condemnable, RowFails, ClearLease
  <2>3. ProcessTypes'
    BY <1>3 DEF MarkMaxAttempts, Condemnable, RowFails, ClearLease
  <2>4. RowShape'
    BY <1>3 DEF MarkMaxAttempts, Condemnable, RowFails, ClearLease
  <2>5. \A f \in Executor : TaskShape(f)' /\ OwnerShape(f)'
    BY <1>3 DEF MarkMaxAttempts, Condemnable, RowFails, ClearLease
  <2> QED
    BY <2>1, <2>2, <2>3, <2>4, <2>5
<1>4. ASSUME NEW e \in Executor, Claim(e) PROVE TypeInv'
  <2>1. Claimable(e) => attemptNo + 1 \in 0..MaxAttempts
    BY DEF Claimable
  <2> HIDE DEF States
  <2>2. RowTypes'
    BY <1>4, <2>1 DEF Claim, NextAttempt
  <2>3. TableTypes'
    BY <1>4, <2>1 DEF Claim, NextAttempt
  <2>4. ProcessTypes'
    BY <1>4, <2>1, SMTT(30) DEF Claim, NextAttempt
  <2>5. RowShape'
    BY <1>4, <2>1 DEF Claim, NextAttempt
  <2>6. \A f \in Executor : TaskShape(f)' /\ OwnerShape(f)'
    BY <1>4, <2>1 DEF Claim, NextAttempt
  <2> QED
    BY <2>2, <2>3, <2>4, <2>5, <2>6
<1>5. ASSUME NEW e \in Executor, ClaimError(e) PROVE TypeInv'
  BY <1>5 DEF ClaimError
<1>6. ASSUME NEW e \in Executor, ReadClaim(e) PROVE TypeInv'
  BY <1>6 DEF ReadClaim, ResumeCursor
<1>7. ASSUME NEW e \in Executor, RejectCheckpoint(e) PROVE TypeInv'
  <2>1. RowTypes'
    BY <1>7 DEF RejectCheckpoint, RowFails, ClearLease, TaskEnds, NoState
  <2>2. TableTypes'
    BY <1>7, ZenonT(40) DEF RejectCheckpoint, RowFails, ClearLease, TaskEnds, NoState
  <2>3. ProcessTypes'
    BY <1>7 DEF RejectCheckpoint, RowFails, ClearLease, TaskEnds, NoState
  <2>4. RowShape'
    BY <1>7 DEF RejectCheckpoint, RowFails, ClearLease, TaskEnds, NoState
  <2>5. \A f \in Executor : TaskShape(f)' /\ OwnerShape(f)'
    BY <1>7 DEF RejectCheckpoint, RowFails, ClearLease, TaskEnds, NoState
  <2> QED
    BY <2>1, <2>2, <2>3, <2>4, <2>5
<1>8. ASSUME NEW e \in Executor, AppendRecovered(e) PROVE TypeInv'
  BY <1>8 DEF AppendRecovered
<1>9. ASSUME NEW e \in Executor, StartProjection(e) PROVE TypeInv'
  BY <1>9 DEF StartProjection, NextStop
<1>10. ASSUME NEW e \in Executor, PersistReport(e) PROVE TypeInv'
  BY <1>10 DEF PersistReport
<1>11. ASSUME NEW e \in Executor, Heartbeat(e) PROVE TypeInv'
  BY <1>11 DEF Heartbeat, BumpVersion, RenewLease
<1>12. ASSUME NEW e \in Executor, Initialize(e) PROVE TypeInv'
  <2>1. /\ [NoState EXCEPT !.run = epoch[e]] \in States
        /\ [NoState EXCEPT !.run = epoch[e]].run = epoch[e] /\ epoch[e] # 0
    BY <1>12, EmptyState DEF Initialize
  <2> HIDE DEF States
  <2>2. RowTypes'
    BY <1>12, <2>1 DEF Initialize, SaveCheckpoint, BumpVersion, RenewLease, Owns
  <2>3. TableTypes'
    BY <1>12, <2>1 DEF Initialize, SaveCheckpoint, BumpVersion, RenewLease, Owns
  <2>4. ProcessTypes'
    BY <1>12, <2>1 DEF Initialize, SaveCheckpoint, BumpVersion, RenewLease, Owns
  <2>5. RowShape'
    BY <1>12, <2>1 DEF Initialize, SaveCheckpoint, BumpVersion, RenewLease, Owns
  <2>6. \A f \in Executor : TaskShape(f)' /\ OwnerShape(f)'
    BY <1>12, <2>1 DEF Initialize, SaveCheckpoint, BumpVersion, RenewLease, Owns
  <2> QED
    BY <2>2, <2>3, <2>4, <2>5, <2>6
<1>13. ASSUME NEW e \in Executor, PhaseStarted(e) PROVE TypeInv'
  <2>1. mem[e] \in States /\ mem[e].run \in 0..MaxAttempts
    OBVIOUS
  <2> HIDE DEF States
  <2>2. RowTypes'
    BY <1>13, <2>1 DEF PhaseStarted, SaveCheckpoint, BumpVersion, RenewLease, Owns
  <2>3. TableTypes'
    BY <1>13, <2>1 DEF PhaseStarted, SaveCheckpoint, BumpVersion, RenewLease, Owns
  <2>4. ProcessTypes'
    BY <1>13, <2>1 DEF PhaseStarted, SaveCheckpoint, BumpVersion, RenewLease, Owns
  <2>5. RowShape'
    BY <1>13, <2>1 DEF PhaseStarted, SaveCheckpoint, BumpVersion, RenewLease, Owns
  <2>6. \A f \in Executor : TaskShape(f)' /\ OwnerShape(f)'
    BY <1>13, <2>1 DEF PhaseStarted, SaveCheckpoint, BumpVersion, RenewLease, Owns
  <2> QED
    BY <2>2, <2>3, <2>4, <2>5, <2>6
<1>14. ASSUME NEW e \in Executor, PhaseCompleted(e) PROVE TypeInv'
  <2> DEFINE m == IF cursor[e] = VerifyPhase
                  THEN [mem[e] EXCEPT !.synthesis = epoch[e]] ELSE mem[e]
  <2>1. mem[e] \in States /\ mem[e].run \in 0..MaxAttempts /\ epoch[e] \in 0..MaxAttempts
    OBVIOUS
  <2> HIDE DEF States
  <2>2. m \in States /\ m.run = mem[e].run
    BY <2>1, SynthesisedState
  <2>3. /\ SaveCheckpoint(e, m, cursor[e], "COMPLETED")
        /\ cursor[e] \in 1..EndPhase /\ mem[e].run # 0 /\ epoch[e] # 0
        /\ cursor' = [cursor EXCEPT ![e] = cursor[e] + 1]
        /\ pc' = [pc EXCEPT ![e] = IF cursor[e] = EndPhase THEN "report" ELSE "phase"]
        /\ UNCHANGED <<called, inflight>>
    BY <1>14 DEF PhaseCompleted
  <2> HIDE DEF m, VerifyPhase
  <2>4. RowTypes'
    BY <2>1, <2>2, <2>3 DEF SaveCheckpoint, BumpVersion, RenewLease, Owns
  <2>5. TableTypes'
    BY <2>1, <2>2, <2>3 DEF SaveCheckpoint, BumpVersion, RenewLease, Owns
  <2>6. ProcessTypes'
    BY <2>1, <2>2, <2>3 DEF SaveCheckpoint, BumpVersion, RenewLease, Owns
  <2>7. RowShape'
    BY <2>1, <2>2, <2>3 DEF SaveCheckpoint, BumpVersion, RenewLease, Owns
  <2>8. TaskShape(e)' /\ OwnerShape(e)'
    <3>1. /\ pc'[e] \in {"report", "phase"} /\ cursor'[e] = cursor[e] + 1
          /\ pc'[e] = "phase" => cursor[e] # EndPhase
          /\ mem'[e] = m /\ checkpoint' = m /\ epoch'[e] = epoch[e]
      BY <2>3 DEF SaveCheckpoint
    <3> QED
      BY <3>1, <2>1, <2>2, <2>3, SMTT(30)
  <2>9. \A f \in Executor \ {e} : TaskShape(f)' /\ OwnerShape(f)'
    BY <2>2, <2>3 DEF SaveCheckpoint, RenewLease, Owns
  <2> QED
    BY <2>4, <2>5, <2>6, <2>7, <2>8, <2>9
<1>15. ASSUME NEW e \in Executor, PhaseCheckpoint(e) PROVE TypeInv'
  <2>1. mem[e] \in States /\ mem[e].run \in 0..MaxAttempts
    OBVIOUS
  <2> HIDE DEF States
  <2>2. RowTypes'
    BY <1>15, <2>1 DEF PhaseCheckpoint, SaveCheckpoint, BumpVersion, RenewLease, Owns
  <2>3. TableTypes'
    BY <1>15, <2>1 DEF PhaseCheckpoint, SaveCheckpoint, BumpVersion, RenewLease, Owns
  <2>4. ProcessTypes'
    BY <1>15, <2>1 DEF PhaseCheckpoint, SaveCheckpoint, BumpVersion, RenewLease, Owns
  <2>5. RowShape'
    BY <1>15, <2>1 DEF PhaseCheckpoint, SaveCheckpoint, BumpVersion, RenewLease, Owns
  <2>6. \A f \in Executor : TaskShape(f)' /\ OwnerShape(f)'
    BY <1>15, <2>1 DEF PhaseCheckpoint, SaveCheckpoint, BumpVersion, RenewLease, Owns
  <2> QED
    BY <2>2, <2>3, <2>4, <2>5, <2>6
<1>16. ASSUME NEW e \in Executor, Deadline(e) PROVE TypeInv'
  BY <1>16 DEF Deadline
<1>17. ASSUME NEW e \in Executor, NEW k \in Tool, ReuseTool(e, k) PROVE TypeInv'
  <2>1. Reused(mem[e], k) \in States /\ Reused(mem[e], k).run = mem[e].run
    BY ReusedState
  <2> HIDE DEF States
  <2>2. RowTypes'
    BY <1>17, <2>1 DEF ReuseTool, MayCall
  <2>3. TableTypes'
    BY <1>17, <2>1 DEF ReuseTool, MayCall
  <2>4. ProcessTypes'
    BY <1>17, <2>1 DEF ReuseTool, MayCall
  <2>5. RowShape'
    BY <1>17, <2>1 DEF ReuseTool, MayCall
  <2>6. \A f \in Executor : TaskShape(f)' /\ OwnerShape(f)'
    BY <1>17, <2>1 DEF ReuseTool, MayCall
  <2> QED
    BY <2>2, <2>3, <2>4, <2>5, <2>6
<1>18. ASSUME NEW e \in Executor, NEW k \in Tool, BeginTool(e, k) PROVE TypeInv'
  BY <1>18 DEF BeginTool, MayCall, BumpVersion
<1>19. ASSUME NEW e \in Executor, NEW k \in Tool, NEW ok \in BOOLEAN,
              CompleteTool(e, k, ok)
       PROVE TypeInv'
  <2>1. Recorded(mem[e], k, ok) \in States /\ Recorded(mem[e], k, ok).run = mem[e].run
    BY RecordedState
  <2>2. mem[e].run \in 0..MaxAttempts
    OBVIOUS
  <2> HIDE DEF States
  <2>3. RowTypes'
    BY <1>19, <2>1, <2>2 DEF CompleteTool, BumpVersion, RenewLease, Owns
  <2>4. TableTypes'
    BY <1>19, <2>1, <2>2 DEF CompleteTool, BumpVersion, RenewLease, Owns
  <2>5. ProcessTypes'
    BY <1>19, <2>1, <2>2 DEF CompleteTool, BumpVersion, RenewLease, Owns
  <2>6. RowShape'
    BY <1>19, <2>1, <2>2 DEF CompleteTool, BumpVersion, RenewLease, Owns
  <2>7. \A f \in Executor : TaskShape(f)' /\ OwnerShape(f)'
    BY <1>19, <2>1, <2>2 DEF CompleteTool, BumpVersion, RenewLease, Owns
  <2> QED
    BY <2>3, <2>4, <2>5, <2>6, <2>7
<1>20. ASSUME NEW e \in Executor, NEW k \in Tool, NEW ok \in BOOLEAN,
              SwallowCommitError(e, k, ok)
       PROVE TypeInv'
  <2>1. Recorded(mem[e], k, ok) \in States /\ Recorded(mem[e], k, ok).run = mem[e].run
    BY RecordedState
  <2> HIDE DEF States
  <2>2. RowTypes'
    BY <1>20, <2>1 DEF SwallowCommitError
  <2>3. TableTypes'
    BY <1>20, <2>1 DEF SwallowCommitError
  <2>4. ProcessTypes'
    BY <1>20, <2>1 DEF SwallowCommitError
  <2>5. RowShape'
    BY <1>20, <2>1 DEF SwallowCommitError
  <2>6. \A f \in Executor : TaskShape(f)' /\ OwnerShape(f)'
    BY <1>20, <2>1 DEF SwallowCommitError
  <2> QED
    BY <2>2, <2>3, <2>4, <2>5, <2>6
<1>21. ASSUME NEW e \in Executor, CompleteSession(e) PROVE TypeInv'
  <2>1. RowTypes'
    BY <1>21 DEF CompleteSession, Owns, ClearLease, TaskEnds, NoState
  <2>2. TableTypes'
    BY <1>21 DEF CompleteSession, Owns, ClearLease, TaskEnds, NoState
  <2>3. ProcessTypes'
    BY <1>21 DEF CompleteSession, Owns, ClearLease, TaskEnds, NoState
  <2>4. RowShape'
    BY <1>21 DEF CompleteSession, Owns, ClearLease, TaskEnds, NoState
  <2>5. \A f \in Executor : TaskShape(f)' /\ OwnerShape(f)'
    BY <1>21 DEF CompleteSession, Owns, ClearLease, TaskEnds, NoState
  <2> QED
    BY <2>1, <2>2, <2>3, <2>4, <2>5
<1>22. ASSUME NEW e \in Executor, FailSession(e) PROVE TypeInv'
  <2>1. RowTypes'
    BY <1>22 DEF FailSession, RowFails, ClearLease, TaskEnds, NoState
  <2>2. TableTypes'
    BY <1>22 DEF FailSession, RowFails, ClearLease, TaskEnds, NoState
  <2>3. ProcessTypes'
    BY <1>22 DEF FailSession, RowFails, ClearLease, TaskEnds, NoState
  <2>4. RowShape'
    BY <1>22 DEF FailSession, RowFails, ClearLease, TaskEnds, NoState
  <2>5. \A f \in Executor : TaskShape(f)' /\ OwnerShape(f)'
    BY <1>22 DEF FailSession, RowFails, ClearLease, TaskEnds, NoState
  <2> QED
    BY <2>1, <2>2, <2>3, <2>4, <2>5
<1>23. ASSUME NEW e \in Executor, OwnershipLost(e) PROVE TypeInv'
  BY <1>23 DEF OwnershipLost, TaskEnds, NoState
<1>24. ASSUME NEW e \in Executor, Shutdown(e) PROVE TypeInv'
  BY <1>24 DEF Shutdown, ClearLease, TaskEnds, NoState
<1>25. ASSUME NEW e \in Executor, Crash(e) PROVE TypeInv'
  BY <1>25 DEF Crash, TaskEnds, NoState
<1>26. ASSUME Tick PROVE TypeInv'
  BY <1>26 DEF Tick
<1>27. ASSUME UNCHANGED vars PROVE TypeInv'
  BY <1>27 DEF vars
<1> HIDE DEF TypeInv
<1> QED
  BY <1>1, <1>2, <1>3, <1>4, <1>5, <1>6, <1>7, <1>8, <1>9, <1>10, <1>11, <1>12, <1>13,
     <1>14, <1>15, <1>16, <1>17, <1>18, <1>19, <1>20, <1>21, <1>22, <1>23, <1>24,
     <1>25, <1>26, <1>27 DEF Next, Step, Work

\* Every variable keeps its type, for any instance.
THEOREM TypeCorrect == Spec => []TypeOK
<1>1. Spec => []TypeInv
  BY TypeInit, TypeStep, PTL DEF Spec
<1> QED
  BY <1>1, PTL DEF TypeInv

-----------------------------------------------------------------------------
(* Tenure: who may write.                                                   *)

\* What a process can do to the row's owner: a claim installs one, anything
\* else leaves it or clears it, and only a claim counts attempts.
LEMMA OnlyClaimInstalls ==
  ASSUME [Next]_vars
  PROVE  \/ \E e \in Executor : Claim(e) /\ Claimable(e)
         \/ UNCHANGED <<epoch, attemptNo>> /\ leaseOwner' \in {leaseOwner, NoOwner}
<1> DEFINE Installed == \E e \in Executor : Claim(e) /\ Claimable(e)
           Kept == UNCHANGED <<epoch, attemptNo>> /\ leaseOwner' \in {leaseOwner, NoOwner}
<1> USE DEF session, tables, runtime
<1>1. ASSUME NEW e \in Executor, Step(e) PROVE Installed \/ Kept
  <2>1. CASE ScanSubmit(e) \/ ScanExhausted(e) \/ ClaimError(e) \/ ReadClaim(e)
    BY <2>1 DEF ScanSubmit, ScanExhausted, ClaimError, ReadClaim
  <2>2. CASE Claim(e)
    BY <2>2 DEF Claim
  <2>3. CASE RejectCheckpoint(e) \/ FailSession(e) \/ OwnershipLost(e) \/ Shutdown(e)
    BY <2>3 DEF RejectCheckpoint, FailSession, OwnershipLost, Shutdown, RowFails, ClearLease
  <2>4. CASE Work(e)
    BY <2>4 DEF Work, AppendRecovered, StartProjection, Initialize, PhaseStarted,
                PhaseCompleted, CompleteTool, PersistReport, CompleteSession,
                SaveCheckpoint, RenewLease, ClearLease
  <2>5. CASE Heartbeat(e) \/ PhaseCheckpoint(e) \/ Deadline(e)
    BY <2>5 DEF Heartbeat, PhaseCheckpoint, Deadline, SaveCheckpoint, RenewLease
  <2>6. CASE \E k \in Tool : ReuseTool(e, k) \/ BeginTool(e, k)
    BY <2>6 DEF ReuseTool, BeginTool
  <2>7. CASE \E k \in Tool, ok \in BOOLEAN : SwallowCommitError(e, k, ok)
    BY <2>7 DEF SwallowCommitError
  <2> QED
    BY <1>1, <2>1, <2>2, <2>3, <2>4, <2>5, <2>6, <2>7 DEF Step
<1>2. ASSUME NEW e \in Executor, MarkMaxAttempts(e) \/ Crash(e) PROVE Kept
  BY <1>2 DEF MarkMaxAttempts, Crash, RowFails, ClearLease
<1>3. ASSUME Tick \/ UNCHANGED vars PROVE Kept
  BY <1>3 DEF Tick, vars
<1> QED
  BY <1>1, <1>2, <1>3 DEF Next

Tenure == /\ \A e \in Executor : epoch[e] <= attemptNo
          /\ OwnerIsLatestClaimant

LEMMA TenureStep == TypeInv /\ Tenure /\ [Next]_vars => Tenure'
<1> SUFFICES ASSUME TypeInv, Tenure, [Next]_vars PROVE Tenure'
  OBVIOUS
<1> USE DEF Tenure, OwnerIsLatestClaimant, TypeInv, TypeOK, RowTypes, ProcessTypes
<1>1. CASE \E e \in Executor : Claim(e) /\ Claimable(e)
  BY <1>1 DEF Claim, NextAttempt
<1>2. CASE UNCHANGED <<epoch, attemptNo>> /\ leaseOwner' \in {leaseOwner, NoOwner}
  BY <1>2
<1> QED
  BY <1>1, <1>2, OnlyClaimInstalls

LEMMA Tenured == Spec => [](TypeInv /\ Tenure)
<1>1. Init => Tenure
  BY DEF Init, Tenure, OwnerIsLatestClaimant
<1> QED
  BY <1>1, TypeInit, TypeStep, TenureStep, PTL DEF Spec

\* Whoever the row names as owner made the latest claim, alone under its
\* attempt number, for any number of executors.
THEOREM OwnershipCorrect == Spec => []OwnerIsLatestClaimant
BY Tenured, PTL DEF Tenure

-----------------------------------------------------------------------------
(* Fencing: the writes of a running task are those of the owner.            *)

\* A step of one process leaves the tasks of the others alone.
LEMMA StepIsLocal ==
  ASSUME TypeInv, NEW e \in Executor, Step(e)
  PROVE  \A f \in Executor \ {e} : Local(f)' = Local(f)
<1> USE DEF TypeInv, TypeOK, ProcessTypes, runtime, Local
<1>1. CASE ScanSubmit(e) \/ ScanExhausted(e) \/ ClaimError(e) \/ ReadClaim(e) \/ Claim(e)
  BY <1>1 DEF ScanSubmit, ScanExhausted, ClaimError, ReadClaim, Claim
<1>2. CASE RejectCheckpoint(e) \/ FailSession(e) \/ OwnershipLost(e) \/ Shutdown(e)
  BY <1>2 DEF RejectCheckpoint, FailSession, OwnershipLost, Shutdown, TaskEnds
<1>3. CASE Work(e)
  BY <1>3 DEF Work, AppendRecovered, StartProjection, Initialize, PhaseStarted,
              PhaseCompleted, CompleteTool, PersistReport, CompleteSession,
              SaveCheckpoint, BumpVersion, TaskEnds
<1>4. CASE Heartbeat(e) \/ PhaseCheckpoint(e) \/ Deadline(e)
  BY <1>4 DEF Heartbeat, PhaseCheckpoint, Deadline, SaveCheckpoint, BumpVersion
<1>5. CASE \E k \in Tool : ReuseTool(e, k) \/ BeginTool(e, k)
  BY <1>5 DEF ReuseTool, BeginTool, BumpVersion
<1>6. CASE \E k \in Tool, ok \in BOOLEAN : SwallowCommitError(e, k, ok)
  BY <1>6 DEF SwallowCommitError
<1> QED
  BY <1>1, <1>2, <1>3, <1>4, <1>5, <1>6 DEF Step

\* A task that changes a durable row is the owner's.
LEMMA WriterOwns ==
  ASSUME NEW e \in Executor, Step(e), pc[e] \in Executing,
         <<session, tables>>' # <<session, tables>>
  PROVE  leaseOwner = e
<1> USE DEF Executing
<1>1. CASE ScanSubmit(e) \/ ScanExhausted(e) \/ ClaimError(e) \/ ReadClaim(e) \/ Claim(e)
           \/ RejectCheckpoint(e)
  BY <1>1 DEF ScanSubmit, ScanExhausted, ClaimError, ReadClaim, Claim, RejectCheckpoint
<1>2. CASE FailSession(e) \/ OwnershipLost(e) \/ Shutdown(e)
  BY <1>2 DEF FailSession, OwnershipLost, Shutdown, Holds
<1>3. CASE Work(e)
  BY <1>3 DEF Work, AppendRecovered, StartProjection, Initialize, PhaseStarted,
              PhaseCompleted, CompleteTool, PersistReport, CompleteSession,
              SaveCheckpoint, Owns
<1>4. CASE Heartbeat(e) \/ PhaseCheckpoint(e) \/ Deadline(e)
  BY <1>4 DEF Heartbeat, PhaseCheckpoint, Deadline, SaveCheckpoint, Owns
<1>5. CASE \E k \in Tool : ReuseTool(e, k) \/ BeginTool(e, k)
  BY <1>5 DEF ReuseTool, BeginTool, Owns
<1>6. CASE \E k \in Tool, ok \in BOOLEAN : SwallowCommitError(e, k, ok)
  BY <1>6 DEF SwallowCommitError
<1> QED
  BY <1>1, <1>2, <1>3, <1>4, <1>5, <1>6 DEF Step

LEMMA FencedStep ==
  ASSUME TypeInv, Tenure, [Next]_vars, NEW e \in Executor,
         pc[e] \in Executing, Local(e)' # Local(e),
         <<session, tables>>' # <<session, tables>>
  PROVE  epoch[e] = attemptNo
<1>1. ASSUME NEW f \in Executor, Step(f) PROVE f = e
  BY <1>1, StepIsLocal
<1>2. ASSUME NEW f \in Executor, MarkMaxAttempts(f) PROVE FALSE
  BY <1>2 DEF MarkMaxAttempts, runtime, Local
<1>3. ASSUME NEW f \in Executor, Crash(f) PROVE FALSE
  BY <1>3 DEF Crash
<1>4. ASSUME Tick \/ UNCHANGED vars PROVE FALSE
  BY <1>4 DEF Tick, runtime, vars, Local
<1>5. Step(e)
  BY <1>1, <1>2, <1>3, <1>4 DEF Next
<1> QED
  BY <1>5, WriterOwns DEF Tenure, OwnerIsLatestClaimant

\* An executor whose lease was taken over never writes again: a running task
\* that changes a durable row belongs to the latest claimant.
THEOREM Fencing == Spec => NoStaleWrite
<1>1. TypeInv /\ Tenure /\ [Next]_vars =>
        [\A e \in Executor :
           pc[e] \in Executing /\ Local(e)' # Local(e) /\ <<session, tables>>' # <<session, tables>>
             => epoch[e] = attemptNo]_vars
  BY FencedStep
<1> QED
  BY <1>1, Tenured, PTL DEF Spec, NoStaleWrite

-----------------------------------------------------------------------------
(* Finality.                                                                *)

\* A row that is not being worked on has no lease.
LeaseInv == status # "INVESTIGATING" => leaseOwner = NoOwner /\ leaseLeft = Expired

\* What a step does to the lease and the tables of a terminal row.
LEMMA LeaseStep ==
  ASSUME TypeInv, LeaseInv, [Next]_vars
  PROVE  LeaseInv' /\ (status \in Terminal => UNCHANGED <<session, tables>>)
<1> DEFINE Goal == LeaseInv' /\ (status \in Terminal => UNCHANGED <<session, tables>>)
<1> USE DEF LeaseInv, Terminal, Live, session, tables, runtime
<1>1. ASSUME NEW e \in Executor, Step(e) PROVE Goal
  <2>1. CASE ScanSubmit(e) \/ ScanExhausted(e) \/ ClaimError(e) \/ ReadClaim(e)
    BY <2>1 DEF ScanSubmit, ScanExhausted, ClaimError, ReadClaim
  <2>2. CASE Claim(e)
    BY <2>2 DEF Claim, Claimable
  <2>3. CASE RejectCheckpoint(e) \/ FailSession(e) \/ OwnershipLost(e)
    BY <2>3 DEF RejectCheckpoint, FailSession, OwnershipLost, RowFails, ClearLease, Holds
  <2>4. CASE Shutdown(e)
    BY <2>4 DEF Shutdown, ClearLease
  <2>5. CASE AppendRecovered(e) \/ StartProjection(e) \/ PersistReport(e) \/ CompleteSession(e)
    BY <2>5 DEF AppendRecovered, StartProjection, PersistReport, CompleteSession, ClearLease, Owns
  <2>6. CASE Initialize(e) \/ PhaseStarted(e) \/ PhaseCompleted(e) \/ PhaseCheckpoint(e)
    BY <2>6 DEF Initialize, PhaseStarted, PhaseCompleted, PhaseCheckpoint, SaveCheckpoint, Owns
  <2>7. CASE \E k \in Tool, ok \in BOOLEAN : CompleteTool(e, k, ok)
    BY <2>7 DEF CompleteTool, Owns
  <2>8. CASE Heartbeat(e) \/ Deadline(e)
    BY <2>8 DEF Heartbeat, Deadline, Owns
  <2>9. CASE \E k \in Tool : ReuseTool(e, k) \/ BeginTool(e, k)
    BY <2>9 DEF ReuseTool, BeginTool, Owns
  <2>10. CASE \E k \in Tool, ok \in BOOLEAN : SwallowCommitError(e, k, ok)
    BY <2>10 DEF SwallowCommitError
  <2> QED
    BY <1>1, <2>1, <2>2, <2>3, <2>4, <2>5, <2>6, <2>7, <2>8, <2>9, <2>10 DEF Step, Work
<1>2. ASSUME NEW e \in Executor, MarkMaxAttempts(e) PROVE Goal
  BY <1>2 DEF MarkMaxAttempts, Condemnable, RowFails, ClearLease
<1>3. ASSUME NEW e \in Executor, Crash(e) PROVE Goal
  BY <1>3 DEF Crash
<1>4. ASSUME Tick \/ UNCHANGED vars PROVE Goal
  BY <1>4 DEF Tick, vars, Expired
<1> HIDE DEF LeaseInv
<1> QED
  BY <1>1, <1>2, <1>3, <1>4 DEF Next

LEMMA Leased == Spec => []LeaseInv
<1>1. Init => LeaseInv
  BY DEF Init, LeaseInv
<1>2. TypeInv /\ LeaseInv /\ [Next]_vars => LeaseInv'
  BY LeaseStep
<1> QED
  BY <1>1, <1>2, TypeInit, TypeStep, PTL DEF Spec

\* A diagnosis that is COMPLETED or FAILED never changes again.
THEOREM Finality == Spec => TerminalIsFinal
<1>1. TypeInv /\ LeaseInv /\ [Next]_vars =>
        [(status \in Terminal) => UNCHANGED <<session, tables>>]_vars
  BY LeaseStep
<1> QED
  BY <1>1, Leased, Tenured, PTL DEF Spec, TerminalIsFinal

-----------------------------------------------------------------------------
(* A lease ends by expiry only, when the clocks agree.  MarkMaxAttempts     *)
(* tests no lease: what protects a live owner from it is that an exhausted  *)
(* row was listed with its lease over, and that nobody can renew it then.   *)

SameClock == \A e, f \in Executor : Skew[e] = Skew[f]
OverForAll == \A e \in Executor : leaseLeft < Skew[e]
MarkInv == marking # {} =>
             attemptNo >= MaxAttempts /\ (leaseOwner # NoOwner => OverForAll)

\* Who changes the lease: a claim, the owner while it is valid, or nobody.
LEMMA LeaseMoves ==
  ASSUME [Next]_vars, TypeInv
  PROVE  \/ \E e \in Executor : Claimable(e) /\ Claim(e)
         \/ \E e \in Executor : Owns(e) /\ UNCHANGED <<marking, attemptNo, leaseOwner>>
         \/ /\ UNCHANGED attemptNo
            /\ leaseOwner' = NoOwner \/ (leaseOwner' = leaseOwner /\ leaseLeft' <= leaseLeft)
<1> DEFINE Claimed == \E e \in Executor : Claimable(e) /\ Claim(e)
           Renewed == \E e \in Executor : Owns(e) /\ UNCHANGED <<marking, attemptNo, leaseOwner>>
           Kept == /\ UNCHANGED attemptNo
                   /\ leaseOwner' = NoOwner \/ (leaseOwner' = leaseOwner /\ leaseLeft' <= leaseLeft)
<1> USE DEF session, tables, runtime, TypeInv, TypeOK, RowTypes
<1>1. ASSUME NEW e \in Executor, Step(e) PROVE Claimed \/ Renewed \/ Kept
  <2>1. CASE ScanSubmit(e) \/ ScanExhausted(e) \/ ClaimError(e) \/ ReadClaim(e) \/ Claim(e)
    BY <2>1 DEF ScanSubmit, ScanExhausted, ClaimError, ReadClaim, Claim
  <2>2. CASE RejectCheckpoint(e) \/ FailSession(e) \/ OwnershipLost(e) \/ Shutdown(e)
    BY <2>2 DEF RejectCheckpoint, FailSession, OwnershipLost, Shutdown, RowFails, ClearLease
  <2>3. CASE AppendRecovered(e) \/ StartProjection(e) \/ PersistReport(e) \/ CompleteSession(e)
    BY <2>3 DEF AppendRecovered, StartProjection, PersistReport, CompleteSession, ClearLease
  <2>4. CASE \/ Heartbeat(e) \/ Initialize(e) \/ PhaseStarted(e) \/ PhaseCompleted(e)
             \/ PhaseCheckpoint(e) \/ \E k \in Tool, ok \in BOOLEAN : CompleteTool(e, k, ok)
    <3>1. Owns(e) /\ UNCHANGED <<marking, attemptNo, leaseOwner>>
      BY <2>4 DEF Heartbeat, Initialize, PhaseStarted, PhaseCompleted, PhaseCheckpoint,
                  CompleteTool, SaveCheckpoint, RenewLease
    <3> QED
      BY <3>1
  <2>5. CASE Deadline(e) \/ (\E k \in Tool : ReuseTool(e, k) \/ BeginTool(e, k))
    BY <2>5 DEF Deadline, ReuseTool, BeginTool
  <2>6. CASE \E k \in Tool, ok \in BOOLEAN : SwallowCommitError(e, k, ok)
    BY <2>6 DEF SwallowCommitError
  <2> QED
    BY <1>1, <2>1, <2>2, <2>3, <2>4, <2>5, <2>6 DEF Step, Work
<1>2. ASSUME NEW e \in Executor, MarkMaxAttempts(e) \/ Crash(e) PROVE Kept
  BY <1>2 DEF MarkMaxAttempts, Crash, RowFails, ClearLease
<1>3. ASSUME Tick \/ UNCHANGED vars PROVE Kept
  BY <1>3 DEF Tick, vars
<1> QED
  BY <1>1, <1>2, <1>3 DEF Next

\* A process lists an exhausted row, or the list only gets shorter.
LEMMA MarkingGrows ==
  ASSUME [Next]_vars
  PROVE  \/ marking' \subseteq marking
         \/ \E e \in Executor : ScanExhausted(e)
<1>1. ASSUME NEW e \in Executor, Step(e), ~ScanExhausted(e) PROVE marking' = marking
  <2>1. CASE Work(e)
    BY <2>1 DEF Work, AppendRecovered, StartProjection, Initialize, PhaseStarted,
                PhaseCompleted, CompleteTool, PersistReport, CompleteSession, SaveCheckpoint
  <2>2. CASE ~Work(e)
    BY <1>1, <2>2 DEF Step, ScanSubmit, Claim, ClaimError, ReadClaim, RejectCheckpoint,
       Heartbeat, PhaseCheckpoint, Deadline, ReuseTool, BeginTool, SwallowCommitError,
       FailSession, OwnershipLost, Shutdown, SaveCheckpoint
  <2> QED
    BY <2>1, <2>2
<1>2. ASSUME NEW e \in Executor, MarkMaxAttempts(e) \/ Crash(e) PROVE marking' \subseteq marking
  BY <1>2 DEF MarkMaxAttempts, Crash
<1>3. ASSUME Tick \/ UNCHANGED vars PROVE marking' = marking
  BY <1>3 DEF Tick, vars
<1> QED
  BY <1>1, <1>2, <1>3 DEF Next

LEMMA MarkStep == SameClock /\ TypeInv /\ LeaseInv /\ MarkInv /\ [Next]_vars => MarkInv'
<1> SUFFICES ASSUME SameClock, TypeInv, LeaseInv, MarkInv, [Next]_vars, marking' # {}
             PROVE  attemptNo' >= MaxAttempts /\ (leaseOwner' # NoOwner => OverForAll')
  BY DEF MarkInv
<1> USE DEF TypeInv, TypeOK, RowTypes
<1>1. CASE \E e \in Executor : ScanExhausted(e)
  <2>1. PICK e \in Executor : ScanExhausted(e)
    BY <1>1
  <2>2. leaseOwner = NoOwner \/ leaseLeft < Skew[e]
    BY <2>1 DEF ScanExhausted, Recoverable, LeaseFree, LeaseInv
  <2> QED
    BY <2>1, <2>2 DEF ScanExhausted, SameClock, OverForAll, session
<1>2. CASE marking # {}
  <2>1. attemptNo >= MaxAttempts /\ (leaseOwner # NoOwner => OverForAll)
    BY <1>2 DEF MarkInv
  <2>2. \A e \in Executor : ~Claimable(e) /\ ~Owns(e)
    BY <2>1 DEF Claimable, Owns, OverForAll
  <2>3. /\ UNCHANGED attemptNo
        /\ leaseOwner' = NoOwner \/ (leaseOwner' = leaseOwner /\ leaseLeft' <= leaseLeft)
    BY <2>2, LeaseMoves
  <2>4. leaseLeft' \in Int
    BY TypeStep
  <2> QED
    BY <2>1, <2>3, <2>4 DEF OverForAll
<1> QED
  BY <1>1, <1>2, MarkingGrows

\* Who ends a diagnosis: the owner's own task, or the attempt limit.
LEMMA WhoEnds ==
  ASSUME TypeInv, [Next]_vars, status = "INVESTIGATING", status' \in Terminal
  PROVE  \/ \E e \in Executor : MarkMaxAttempts(e)
         \/ leaseOwner \in Executor /\ pc'[leaseOwner] # pc[leaseOwner]
<1> USE DEF session, tables, runtime, Terminal, TypeInv, TypeOK, ProcessTypes
<1>1. ASSUME NEW e \in Executor, Step(e) PROVE leaseOwner = e /\ pc'[e] # pc[e]
  <2>1. CASE RejectCheckpoint(e) \/ FailSession(e) \/ CompleteSession(e)
    BY <2>1 DEF RejectCheckpoint, FailSession, CompleteSession, Holds, Owns, TaskEnds, Executing
  <2>2. CASE ~(RejectCheckpoint(e) \/ FailSession(e) \/ CompleteSession(e))
    <3>1. UNCHANGED status \/ Claim(e)
      BY <1>1, <2>2 DEF Step, Work, ScanSubmit, ScanExhausted, ClaimError, ReadClaim,
         AppendRecovered, StartProjection, Initialize, PhaseStarted, PhaseCompleted,
         CompleteTool, PersistReport, Heartbeat, PhaseCheckpoint, Deadline, ReuseTool,
         BeginTool, SwallowCommitError, OwnershipLost, Shutdown, SaveCheckpoint
    <3> QED
      BY <3>1 DEF Claim
  <2> QED
    BY <2>1, <2>2
<1>2. ASSUME (\E e \in Executor : Crash(e)) \/ Tick \/ UNCHANGED vars PROVE FALSE
  BY <1>2 DEF Crash, Tick, vars
<1> QED
  BY <1>1, <1>2 DEF Next

LEMMA LiveLeaseStep ==
  ASSUME SameClock, TypeInv, LeaseInv, MarkInv, [Next]_vars,
         NEW e \in Executor, leaseOwner = e, leaseLeft > Skew[e]
  PROVE  /\ leaseOwner' \notin Executor \ {e}
         /\ ~(Local(e)' = Local(e) /\ status' \in Terminal)
<1> USE DEF TypeInv, TypeOK, RowTypes
<1>1. \A f \in Executor : ~Claimable(f)
  BY DEF Claimable, LeaseFree, SameClock
<1>2. leaseOwner' \notin Executor \ {e}
  BY <1>1, OnlyClaimInstalls
<1>3. marking = {}
  BY DEF MarkInv, OverForAll
<1>4. \A f \in Executor : ~MarkMaxAttempts(f)
  BY <1>3 DEF MarkMaxAttempts
<1>5. status = "INVESTIGATING"
  BY DEF LeaseInv
<1>6. ~(Local(e)' = Local(e) /\ status' \in Terminal)
  BY <1>4, <1>5, WhoEnds DEF Local
<1> QED
  BY <1>2, <1>6

\* Between processes whose clocks agree, an owner with a valid lease loses the
\* row neither to another claim nor to the attempt limit.
THEOREM LiveLeaseKept ==
  ASSUME SameClock PROVE Spec => NoLiveLeaseTaken
<1>1. Init => MarkInv
  BY DEF Init, MarkInv
<1>2. TypeInv /\ LeaseInv /\ MarkInv /\ [Next]_vars => MarkInv'
  BY MarkStep
<1>3. TypeInv /\ LeaseInv /\ MarkInv /\ [Next]_vars =>
        [\A e \in Executor :
           /\ leaseOwner = e /\ leaseLeft > Skew[e]
           /\ \/ leaseOwner' \in Executor \ {e}
              \/ Local(e)' = Local(e) /\ status' \in Terminal
           => FALSE]_vars
  BY LiveLeaseStep
<1> QED
  BY <1>1, <1>2, <1>3, Leased, Tenured, PTL DEF Spec, NoLiveLeaseTaken

-----------------------------------------------------------------------------
(* Resume: why the next attempt knows every completed call.  The checkpoint *)
(* is always overwritten by a state that contains it, because the owner's   *)
(* state was loaded from it after the claim and nobody else wrote since.    *)

Blank(m) == m.timeline = {} /\ m.evidence = {}
Within(m, n) == m.timeline \subseteq n.timeline /\ m.evidence \subseteq n.evidence

BlankUntilRun == /\ checkpoint.run = 0 => Blank(checkpoint)
                 /\ \A e \in Executor : mem[e].run = 0 => Blank(mem[e])
OwnerKnows == \A e \in Executor :
                leaseOwner = e /\ pc[e] \in Executing => Within(checkpoint, mem[e])
ResumeInv == BlankUntilRun /\ OwnerKnows /\ CheckpointCoversCompleted

\* Steps that touch neither a checkpoint nor a loaded state nor a step row.
Quiet == /\ UNCHANGED <<checkpoint, mem, steps>> /\ evidence \subseteq evidence'
         /\ leaseOwner' \in {leaseOwner, NoOwner}
         /\ \A f \in Executor : pc'[f] \in Executing => pc[f] \in Executing
\* Steps that end a task.
Ends(e) == /\ TaskEnds(e, pc'[e]) /\ pc'[e] \notin Executing
           /\ UNCHANGED <<checkpoint, steps, evidence>>
           /\ leaseOwner' \in {leaseOwner, NoOwner}

LEMMA QuietStep == TypeInv /\ ResumeInv /\ Quiet => ResumeInv'
BY DEF TypeInv, TypeOK, RowTypes, ResumeInv, BlankUntilRun, OwnerKnows,
       CheckpointCoversCompleted, Completed, Quiet, Blank, Within

LEMMA EndsStep ==
  ASSUME TypeInv, ResumeInv, NEW e \in Executor, Ends(e)
  PROVE  ResumeInv'
<1> USE DEF TypeInv, TypeOK, ProcessTypes, ResumeInv, Ends
<1>1. mem' = [mem EXCEPT ![e] = NoState] /\ \A f \in Executor \ {e} : pc'[f] = pc[f]
  BY DEF TaskEnds
<1>2. Blank(NoState)
  BY DEF Blank, NoState
<1>3. BlankUntilRun'
  BY <1>1, <1>2 DEF BlankUntilRun, Blank
<1>4. OwnerKnows'
  BY <1>1 DEF OwnerKnows, Within
<1>5. CheckpointCoversCompleted'
  BY DEF CheckpointCoversCompleted, Completed
<1> QED
  BY <1>3, <1>4, <1>5

\* The owner replaces the checkpoint by a state that contains it.
LEMMA SaveStep ==
  ASSUME TypeInv, ResumeInv, NEW e \in Executor, pc[e] \in Executing, NEW m \in States,
         Owns(e), Within(checkpoint, m), m.run # 0,
         checkpoint' = m, mem' = [mem EXCEPT ![e] = m],
         UNCHANGED <<leaseOwner, steps, evidence>>,
         \A f \in Executor \ {e} : pc'[f] = pc[f]
  PROVE  ResumeInv'
<1> USE DEF TypeInv, TypeOK, RowTypes, ProcessTypes, ResumeInv
<1>1. BlankUntilRun'
  BY DEF BlankUntilRun
<1>2. OwnerKnows'
  BY DEF OwnerKnows, Within, Owns
<1>3. CheckpointCoversCompleted'
  BY DEF CheckpointCoversCompleted, Completed, Within
<1> QED
  BY <1>1, <1>2, <1>3

\* Tool calls only add to a state.
LEMMA CallsAdd ==
  ASSUME NEW m \in States, NEW k \in Tool, NEW ok \in BOOLEAN
  PROVE  /\ Within(m, Reused(m, k))
         /\ Within(m, Recorded(m, k, ok)) /\ k \in Recorded(m, k, ok).timeline
         /\ ok => k \in Recorded(m, k, ok).evidence
BY DEF States, Within, Reused, Recorded

LEMMA SynthesisAdds ==
  ASSUME NEW m \in States, NEW r
  PROVE  Within(m, [m EXCEPT !.synthesis = r])
BY DEF States, Within

LEMMA WithinTransitive ==
  ASSUME NEW a, NEW b, NEW c, Within(a, b), Within(b, c) PROVE Within(a, c)
BY DEF Within

LEMMA PhaseSaveStep ==
  ASSUME TypeInv, ResumeInv, NEW e \in Executor,
         Initialize(e) \/ PhaseStarted(e) \/ PhaseCompleted(e) \/ PhaseCheckpoint(e)
  PROVE  ResumeInv'
<1> USE DEF TypeInv, TypeOK, RowTypes, ProcessTypes
<1>1. mem[e] \in States /\ checkpoint \in States /\ epoch[e] \in 0..MaxAttempts
  OBVIOUS
<1>2. Owns(e) /\ pc[e] \in Executing
  BY DEF Initialize, PhaseStarted, PhaseCompleted, PhaseCheckpoint, SaveCheckpoint, Executing
<1>3. Within(checkpoint, mem[e])
  BY <1>2 DEF ResumeInv, OwnerKnows, Owns
<1>4. CASE Initialize(e)
  <2> DEFINE m == [NoState EXCEPT !.run = epoch[e]]
  <2>1. m \in States /\ m.run # 0 /\ Blank(m)
    BY <1>1, <1>4, EmptyState DEF TaskShape, Initialize, NoState, Blank, Executing
  <2>2. Blank(mem[e])
    BY <1>4 DEF ResumeInv, BlankUntilRun, TaskShape, Initialize
  <2>3. Within(checkpoint, m)
    BY <1>3, <2>1, <2>2 DEF Within, Blank
  <2>4. SaveCheckpoint(e, m, 1, "PENDING") /\ \A f \in Executor \ {e} : pc'[f] = pc[f]
    BY <1>4 DEF Initialize
  <2> HIDE DEF m
  <2> QED
    BY <1>2, <2>1, <2>3, <2>4, SaveStep DEF SaveCheckpoint, RenewLease, tables
<1>5. CASE PhaseStarted(e) \/ PhaseCheckpoint(e)
  <2>1. mem[e].run # 0 /\ \A f \in Executor \ {e} : pc'[f] = pc[f]
    BY <1>5 DEF TaskShape, PhaseStarted, PhaseCheckpoint
  <2>2. SaveCheckpoint(e, mem[e], cursor[e], "RUNNING")
    BY <1>5 DEF PhaseStarted, PhaseCheckpoint
  <2> QED
    BY <1>1, <1>2, <1>3, <2>1, <2>2, SaveStep DEF SaveCheckpoint, RenewLease, tables
<1>6. CASE PhaseCompleted(e)
  <2> DEFINE m == IF cursor[e] = VerifyPhase
                  THEN [mem[e] EXCEPT !.synthesis = epoch[e]] ELSE mem[e]
  <2>1. m \in States /\ m.run # 0 /\ Within(mem[e], m)
    BY <1>1, <1>6, SynthesisedState, SynthesisAdds DEF TaskShape, PhaseCompleted, Within
  <2>2. SaveCheckpoint(e, m, cursor[e], "COMPLETED") /\ \A f \in Executor \ {e} : pc'[f] = pc[f]
    BY <1>6 DEF PhaseCompleted
  <2> HIDE DEF m
  <2> QED
    BY <1>2, <1>3, <2>1, <2>2, SaveStep, WithinTransitive DEF SaveCheckpoint, RenewLease, tables
<1> QED
  BY <1>4, <1>5, <1>6

LEMMA ToolResumeStep ==
  ASSUME TypeInv, ResumeInv, NEW e \in Executor, NEW k \in Tool, NEW ok \in BOOLEAN,
         ReuseTool(e, k) \/ BeginTool(e, k) \/ CompleteTool(e, k, ok)
           \/ SwallowCommitError(e, k, ok)
  PROVE  ResumeInv'
<1> USE DEF TypeInv, TypeOK, RowTypes, TableTypes, ProcessTypes
<1>1. mem[e] \in States /\ checkpoint \in States /\ pc[e] = "inPhase" /\ mem[e].run # 0
  BY DEF ReuseTool, BeginTool, CompleteTool, SwallowCommitError, MayCall, TaskShape
<1>2. CASE ReuseTool(e, k) \/ SwallowCommitError(e, k, ok)
  <2>1. PICK m \in States : /\ mem' = [mem EXCEPT ![e] = m] /\ m.run # 0 /\ Within(mem[e], m)
                            /\ UNCHANGED <<leaseOwner, checkpoint, steps, evidence, pc>>
    <3>1. CASE ReuseTool(e, k)
      <4>1. /\ Reused(mem[e], k) \in States /\ Reused(mem[e], k).run # 0
            /\ Within(mem[e], Reused(mem[e], k))
        BY <1>1, ReusedState, CallsAdd
      <4> QED
        BY <3>1, <4>1 DEF ReuseTool, session, tables
    <3>2. CASE SwallowCommitError(e, k, ok)
      <4>1. /\ Recorded(mem[e], k, ok) \in States /\ Recorded(mem[e], k, ok).run # 0
            /\ Within(mem[e], Recorded(mem[e], k, ok))
        BY <1>1, RecordedState, CallsAdd
      <4> QED
        BY <3>2, <4>1 DEF SwallowCommitError, session, tables
    <3> QED
      BY <1>2, <3>1, <3>2
  <2>2. BlankUntilRun'
    BY <2>1 DEF ResumeInv, BlankUntilRun
  <2>3. OwnerKnows'
    BY <2>1, WithinTransitive DEF ResumeInv, OwnerKnows
  <2>4. CheckpointCoversCompleted'
    BY <2>1 DEF ResumeInv, CheckpointCoversCompleted, Completed
  <2> QED
    BY <2>2, <2>3, <2>4 DEF ResumeInv
<1>3. CASE BeginTool(e, k)
  <2>1. Completed' \subseteq Completed /\ UNCHANGED <<checkpoint, mem, evidence, leaseOwner, pc>>
    BY <1>3 DEF BeginTool, Completed
  <2> QED
    BY <2>1 DEF ResumeInv, BlankUntilRun, OwnerKnows, CheckpointCoversCompleted
<1>4. CASE CompleteTool(e, k, ok)
  <2> DEFINE m == Recorded(mem[e], k, ok)
  <2>1. /\ m \in States /\ m.run # 0 /\ Within(mem[e], m) /\ k \in m.timeline
        /\ ok => k \in m.evidence
    BY <1>1, RecordedState, CallsAdd
  <2>2. /\ mem' = [mem EXCEPT ![e] = m] /\ checkpoint' = m
        /\ UNCHANGED <<leaseOwner, pc>> /\ leaseOwner = e
        /\ evidence' = IF ok THEN evidence \cup {k} ELSE evidence
        /\ steps' = [steps EXCEPT ![k].status = IF ok THEN "COMPLETED" ELSE "FAILED"]
    BY <1>4 DEF CompleteTool, RenewLease, Owns
  <2> HIDE DEF m
  <2>3. Within(checkpoint, m)
    BY <1>1, <2>1, <2>2, WithinTransitive DEF ResumeInv, OwnerKnows, Executing
  <2>4. BlankUntilRun'
    BY <2>1, <2>2 DEF ResumeInv, BlankUntilRun
  <2>5. OwnerKnows'
    BY <2>1, <2>2 DEF OwnerKnows, Within
  <2>6. Completed' \subseteq Completed \cup (IF ok THEN {k} ELSE {})
    BY <2>2 DEF Completed, StepRow
  <2>7. CheckpointCoversCompleted'
    BY <2>1, <2>2, <2>3, <2>6 DEF ResumeInv, CheckpointCoversCompleted, Within
  <2> QED
    BY <2>4, <2>5, <2>7 DEF ResumeInv
<1> QED
  BY <1>2, <1>3, <1>4

LEMMA ResumeStep == TypeInv /\ ResumeInv /\ [Next]_vars => ResumeInv'
<1> SUFFICES ASSUME TypeInv, ResumeInv, [Next]_vars PROVE ResumeInv'
  OBVIOUS
<1> USE DEF session, tables, runtime
<1>1. ASSUME NEW e \in Executor, Step(e) PROVE ResumeInv'
  <2>1. CASE ScanSubmit(e) \/ ScanExhausted(e) \/ ClaimError(e)
    <3>1. pc' = pc \/ \E s \in {"submitted", "idle"} : pc' = [pc EXCEPT ![e] = s]
      BY <2>1 DEF ScanSubmit, ScanExhausted, ClaimError
    <3>2. Quiet
      BY <2>1, <3>1 DEF Quiet, ScanSubmit, ScanExhausted, ClaimError, Executing,
                        TypeInv, TypeOK, ProcessTypes
    <3> QED
      BY <3>2, QuietStep
  <2>2. CASE Claim(e)
    <3>1. \/ pc' = [pc EXCEPT ![e] = "claimed"] /\ leaseOwner' = e
          \/ pc' = [pc EXCEPT ![e] = "idle"] /\ leaseOwner' = leaseOwner
      BY <2>2 DEF Claim
    <3>2. UNCHANGED <<checkpoint, mem, steps, evidence>>
      BY <2>2 DEF Claim
    <3> QED
      BY <3>1, <3>2 DEF ResumeInv, BlankUntilRun, OwnerKnows, CheckpointCoversCompleted,
         Completed, Executing, TypeInv, TypeOK, ProcessTypes
  <2>3. CASE ReadClaim(e)
    <3>1. /\ mem' = [mem EXCEPT ![e] = checkpoint] /\ \A f \in Executor \ {e} : pc'[f] = pc[f]
          /\ UNCHANGED <<checkpoint, leaseOwner, steps, evidence>>
      BY <2>3 DEF ReadClaim
    <3> QED
      BY <3>1 DEF ResumeInv, BlankUntilRun, OwnerKnows, CheckpointCoversCompleted,
         Completed, Within, TypeInv, TypeOK, ProcessTypes
  <2>4. CASE RejectCheckpoint(e) \/ FailSession(e) \/ OwnershipLost(e)
    <3>1. TaskEnds(e, "idle") /\ UNCHANGED <<checkpoint, steps, evidence>>
          /\ leaseOwner' \in {leaseOwner, NoOwner}
      BY <2>4 DEF RejectCheckpoint, FailSession, OwnershipLost, RowFails, ClearLease
    <3>2. Ends(e)
      BY <3>1 DEF Ends, TaskEnds, Executing, TypeInv, TypeOK, ProcessTypes
    <3> QED
      BY <3>2, EndsStep
  <2>5. CASE Shutdown(e)
    <3>1. TaskEnds(e, "down") /\ UNCHANGED <<checkpoint, steps, evidence>>
          /\ leaseOwner' \in {leaseOwner, NoOwner}
      BY <2>5 DEF Shutdown, ClearLease
    <3>2. Ends(e)
      BY <3>1 DEF Ends, TaskEnds, Executing, TypeInv, TypeOK, ProcessTypes
    <3> QED
      BY <3>2, EndsStep
  <2>6. CASE CompleteSession(e)
    <3>1. TaskEnds(e, "idle") /\ UNCHANGED <<checkpoint, steps, evidence>>
          /\ leaseOwner' \in {leaseOwner, NoOwner}
      BY <2>6 DEF CompleteSession, ClearLease
    <3>2. Ends(e)
      BY <3>1 DEF Ends, TaskEnds, Executing, TypeInv, TypeOK, ProcessTypes
    <3> QED
      BY <3>2, EndsStep
  <2>7. CASE AppendRecovered(e) \/ StartProjection(e) \/ PersistReport(e) \/ Heartbeat(e)
             \/ Deadline(e)
    <3>1. pc[e] \in Executing /\ \A f \in Executor \ {e} : pc'[f] = pc[f]
      BY <2>7 DEF AppendRecovered, StartProjection, PersistReport, Heartbeat, Deadline,
         Executing, TypeInv, TypeOK, ProcessTypes
    <3>2. UNCHANGED <<checkpoint, mem, steps, leaseOwner>> /\ evidence \subseteq evidence'
      BY <2>7 DEF AppendRecovered, StartProjection, PersistReport, Heartbeat, Deadline, RenewLease
    <3> QED
      BY <3>1, <3>2, QuietStep DEF Quiet
  <2>8. CASE Initialize(e) \/ PhaseStarted(e) \/ PhaseCompleted(e) \/ PhaseCheckpoint(e)
    BY <2>8, PhaseSaveStep
  <2>9. CASE \E k \in Tool, ok \in BOOLEAN :
               ReuseTool(e, k) \/ BeginTool(e, k) \/ CompleteTool(e, k, ok)
                 \/ SwallowCommitError(e, k, ok)
    BY <2>9, ToolResumeStep
  <2> QED
    BY <1>1, <2>1, <2>2, <2>3, <2>4, <2>5, <2>6, <2>7, <2>8, <2>9 DEF Step, Work
<1>2. ASSUME NEW e \in Executor, MarkMaxAttempts(e) PROVE ResumeInv'
  <2>1. Quiet
    BY <1>2 DEF Quiet, MarkMaxAttempts, RowFails, ClearLease
  <2> QED
    BY <2>1, QuietStep
<1>3. ASSUME NEW e \in Executor, Crash(e) PROVE ResumeInv'
  <2>1. Ends(e)
    BY <1>3 DEF Ends, Crash, TaskEnds, Executing, TypeInv, TypeOK, ProcessTypes
  <2> QED
    BY <2>1, EndsStep
<1>4. ASSUME Tick \/ UNCHANGED vars PROVE ResumeInv'
  <2>1. Quiet
    BY <1>4 DEF Quiet, Tick, vars
  <2> QED
    BY <2>1, QuietStep
<1> QED
  BY <1>1, <1>2, <1>3, <1>4 DEF Next

\* Whatever the crash point, the checkpoint the next attempt loads holds
\* every call whose step is COMPLETED, and the evidence of it is stored.
THEOREM ResumeCorrect == Spec => []CheckpointCoversCompleted
<1>1. Init => ResumeInv
  BY DEF Init, ResumeInv, BlankUntilRun, OwnerKnows, CheckpointCoversCompleted, Completed,
         Blank, NoState, Within
<1> QED
  BY <1>1, TypeInit, TypeStep, ResumeStep, PTL DEF Spec, ResumeInv

-----------------------------------------------------------------------------
(* Recorded calls: a call in flight with the owner is the RUNNING one, so   *)
(* that no answer ever lands on a step that is already COMPLETED.           *)

InflightInv ==
  \A e \in Executor :
    /\ pc[e] \notin Executing => inflight[e] = {}
    /\ leaseOwner = e => \A k \in inflight[e] : steps[k].status = "RUNNING"

StepsKept == \A k \in Tool : steps[k].status = "COMPLETED" => steps'[k] = steps[k]

LEMMA InflightStep ==
  ASSUME TypeInv, InflightInv, [Next]_vars
  PROVE  InflightInv' /\ StepsKept
<1> DEFINE Goal == InflightInv' /\ StepsKept
<1> USE DEF TypeInv, TypeOK, TableTypes, ProcessTypes, StepRow, InflightInv, StepsKept,
            session, tables, runtime
<1>1. ASSUME NEW e \in Executor, Step(e) PROVE Goal
  <2>1. CASE ScanSubmit(e) \/ ScanExhausted(e) \/ ClaimError(e)
    BY <2>1 DEF ScanSubmit, ScanExhausted, ClaimError, Executing
  <2>2. CASE Claim(e) \/ ReadClaim(e)
    BY <2>2 DEF Claim, ReadClaim, Executing
  <2>3. CASE RejectCheckpoint(e) \/ FailSession(e) \/ OwnershipLost(e) \/ Shutdown(e)
             \/ CompleteSession(e)
    <3>1. /\ inflight' = [inflight EXCEPT ![e] = {}] /\ UNCHANGED steps
          /\ \E s \in {"idle", "down"} : pc' = [pc EXCEPT ![e] = s]
          /\ leaseOwner' \in {leaseOwner, NoOwner}
      BY <2>3 DEF RejectCheckpoint, FailSession, OwnershipLost, Shutdown, CompleteSession,
                  RowFails, ClearLease, TaskEnds
    <3> QED
      BY <3>1
  <2>4. CASE \/ AppendRecovered(e) \/ StartProjection(e) \/ PersistReport(e) \/ Heartbeat(e)
             \/ Initialize(e) \/ PhaseStarted(e) \/ PhaseCompleted(e) \/ PhaseCheckpoint(e)
    <3>1. /\ UNCHANGED <<inflight, steps, leaseOwner>> /\ pc[e] \in Executing
          /\ \A f \in Executor \ {e} : pc'[f] = pc[f]
      BY <2>4 DEF AppendRecovered, StartProjection, PersistReport, Heartbeat, Initialize,
                  PhaseStarted, PhaseCompleted, PhaseCheckpoint, SaveCheckpoint, RenewLease,
                  Executing
    <3>2. pc'[e] \in Executing
      BY <2>4 DEF AppendRecovered, StartProjection, PersistReport, Heartbeat, Initialize,
                  PhaseStarted, PhaseCompleted, PhaseCheckpoint, NextStop, Executing
    <3> QED
      BY <3>1, <3>2
  <2>5. CASE Deadline(e)
    BY <2>5 DEF Deadline, Executing
  <2>6. CASE \E k \in Tool : ReuseTool(e, k)
    BY <2>6 DEF ReuseTool
  <2>7. ASSUME NEW k \in Tool, BeginTool(e, k) PROVE Goal
    <3>1. /\ steps' = [steps EXCEPT ![k] = [status |-> "RUNNING", attempt |-> @.attempt + 1]]
          /\ steps[k].status # "COMPLETED" /\ pc[e] = "inPhase"
          /\ inflight' = [inflight EXCEPT ![e] = inflight[e] \cup {k}]
          /\ UNCHANGED <<pc, leaseOwner>>
      BY <2>7 DEF BeginTool, MayCall, Runs
    <3>2. steps'[k].status = "RUNNING" /\ \A j \in Tool \ {k} : steps'[j] = steps[j]
      BY <3>1
    <3> QED
      BY <3>1, <3>2 DEF Executing
  <2>8. ASSUME NEW k \in Tool, NEW ok \in BOOLEAN, CompleteTool(e, k, ok) PROVE Goal
    <3>1. /\ k \in inflight[e] /\ leaseOwner = e /\ pc[e] = "inPhase"
          /\ inflight' = [inflight EXCEPT ![e] = inflight[e] \ {k}]
          /\ UNCHANGED <<pc, leaseOwner>>
          /\ \A j \in Tool \ {k} : steps'[j] = steps[j]
      BY <2>8 DEF CompleteTool, Owns, RenewLease
    <3>2. steps[k].status = "RUNNING"
      BY <3>1
    <3> QED
      BY <3>1, <3>2 DEF Executing
  <2>9. CASE \E k \in Tool, ok \in BOOLEAN : SwallowCommitError(e, k, ok)
    BY <2>9 DEF SwallowCommitError
  <2> HIDE DEF InflightInv, StepsKept
  <2> QED
    BY <1>1, <2>1, <2>2, <2>3, <2>4, <2>5, <2>6, <2>7, <2>8, <2>9 DEF Step, Work
<1>2. ASSUME NEW e \in Executor, MarkMaxAttempts(e) PROVE Goal
  BY <1>2 DEF MarkMaxAttempts, RowFails, ClearLease
<1>3. ASSUME NEW e \in Executor, Crash(e) PROVE Goal
  BY <1>3 DEF Crash, TaskEnds
<1>4. ASSUME Tick \/ UNCHANGED vars PROVE Goal
  BY <1>4 DEF Tick, vars
<1> HIDE DEF InflightInv, StepsKept
<1> QED
  BY <1>1, <1>2, <1>3, <1>4 DEF Next

\* A call that was recorded as COMPLETED is never run or written again, by the
\* attempt that made it or by one that took over while it was in flight.
THEOREM RecordedOnce == Spec => CompletedStepsFixed
<1>1. Init => InflightInv
  BY DEF Init, InflightInv
<1>2. TypeInv /\ InflightInv /\ [Next]_vars => InflightInv'
  BY InflightStep
<1>3. TypeInv /\ InflightInv /\ [Next]_vars =>
        [\A k \in Tool : steps[k].status = "COMPLETED" => steps'[k] = steps[k]]_vars
  BY InflightStep DEF StepsKept
<1> QED
  BY <1>1, <1>2, <1>3, TypeInit, TypeStep, PTL DEF Spec, CompletedStepsFixed
=============================================================================
