---------------------------- MODULE ValidationRun ----------------------------
(***************************************************************************)
(* One row of validation_runs from the POST that creates it to its end     *)
(* (ValidationService and ValidationExecutionManager in                    *)
(* app/validation/service.py, ValidationRepository in                      *)
(* app/validation/repository.py), on the processes that share the          *)
(* database.  Unlike a diagnosis the run has no lease: a process executes  *)
(* it because the request, or a retry of it, reached that process.         *)
(*                                                                         *)
(* All requests carry the same Idempotency-Key.  A request is a record:    *)
(* target stands for the columns that create() compares (repository,       *)
(* commits, flags), suite for what the fingerprint hashes; every request   *)
(* brings test files.  One step is one transaction.  Inside a process the  *)
(* steps between two awaits follow each other without those of another     *)
(* coroutine in between; steps of other processes do fall in between.      *)
(* A side ends with an execution row: how it ended, whether it was built,  *)
(* how its test process ended and what its report says of each test.       *)
(* Simplified: the contents of diffs, tests, evidence and events.          *)
(***************************************************************************)
EXTENDS Naturals, FiniteSets

CONSTANTS Procs, Requests, NoSuite,
          Test,         \* identities of test cases
          Results,      \* the execution rows a side may end with
          MaxRequests,  \* bound: POSTs
          MaxStops,     \* bound: crashes and shutdowns
          MaxFaults     \* bound: statements that the database fails

ASSUME RunAssumption ==
  /\ NoSuite \notin {r.suite : r \in Requests}
  /\ MaxRequests \in Nat /\ MaxStops \in Nat /\ MaxFaults \in Nat

Sides    == {"BASE", "CANDIDATE"}
Stage    == {"NOT_RUN", "PASSED", "FAILED", "TIMEOUT"}
NoCases  == [t \in Test |-> "absent"]
\* A row as begin_execution writes it, and before.
Untouched == [status |-> "NONE", build |-> "NOT_RUN", test |-> "NOT_RUN", cases |-> NoCases]
Running   == [Untouched EXCEPT !.status = "RUNNING"]

\* What complete_execution may be given.  COMPLETED: the containers ended by
\* themselves, and the tests ran if the build did not fail; TIMEOUT: a stage
\* or the whole side was given up; FAILED: the runner raised.  A case that is
\* skipped counts as one that passes.
ExecutionRow ==
  [status : {"COMPLETED", "TIMEOUT", "FAILED"}, build : Stage, test : Stage,
   cases : [Test -> {"absent", "pass", "fail"}]]
RunnerResult(r) ==
  r.status = "COMPLETED" => \/ r.build = "PASSED" /\ r.test \in {"PASSED", "FAILED"}
                            \/ r.build = "FAILED" /\ r.test = "NOT_RUN" /\ r.cases = NoCases
ASSUME ResultAssumption == Results \subseteq {r \in ExecutionRow : RunnerResult(r)}

Working  == {"PREPARING", "RUNNING", "COMPARING"}
Terminal == {"COMPLETED", "FAILED", "CANCELLED"}

VARIABLES
  \* the database
  status,       \* validation_runs.status; "NONE" before the row exists
  creator,      \* the request whose INSERT made the row, as a set
  fingerprint,  \* validation_request_configs.request_fingerprint
  uploads,      \* validation_uploaded_tests: suites whose files are stored
  sides,        \* validation_executions: the row of each side
  verdict,      \* what validation_regressions tells, "none" before it is written
  \* the processes
  up,           \* "up", "closing", "down", or "marking" at startup
  handler,      \* the POST being served
  task,         \* where execute() stands
  files,        \* the suites it loaded
  work,         \* where its two _run_side coroutines stand
  \* what happened
  accepted, rejected,  \* requests answered with the run, with 422
  ran, executed,       \* containers started for each side, suites they were given
  asked, stops, faults

db      == <<status, creator, fingerprint, uploads, sides, verdict>>
local   == <<up, handler, task, files, work>>
answers == <<accepted, rejected>>
counts  == <<asked, stops, faults>>
made    == <<ran, executed>>
vars    == <<db, local, answers, made, counts>>

Target == (CHOOSE r \in creator : TRUE).target
Idle   == [at |-> "idle"]
AllIdle == [s \in Sides |-> "idle"]

Init ==
  /\ status = "NONE" /\ creator = {} /\ fingerprint = NoSuite /\ uploads = {}
  /\ sides = [s \in Sides |-> Untouched] /\ verdict = "none"
  /\ up = [p \in Procs |-> "up"] /\ handler = [p \in Procs |-> Idle]
  /\ task = [p \in Procs |-> "none"] /\ files = [p \in Procs |-> {}]
  /\ work = [p \in Procs |-> AllIdle]
  /\ accepted = {} /\ rejected = {} /\ ran = [s \in Sides |-> 0] /\ executed = {}
  /\ asked = 0 /\ stops = 0 /\ faults = 0

\* No coroutine of p is between two statements that no await separates.
LoopIsFree(p) ==
  /\ handler[p] = Idle
  /\ task[p] \notin {"classify", "final", "evidence", "error", "abort"}
  /\ up[p] \in {"up", "closing"}
-----------------------------------------------------------------------------
(* POST /api/validations *)

Insert(r) == IF status = "NONE" THEN {r} ELSE creator

\* repository.create: INSERT ... ON DUPLICATE KEY UPDATE id = id, and read it.
Post(p, r) ==
  /\ up[p] = "up" /\ LoopIsFree(p) /\ asked < MaxRequests
  /\ asked' = asked + 1
  /\ creator' = Insert(r)
  /\ status'  = IF status = "NONE" THEN "PENDING" ELSE status
  /\ handler' = [handler EXCEPT ![p] = [at |-> "fingerprint", request |-> r, seen |-> status']]
  /\ UNCHANGED <<fingerprint, uploads, sides, verdict, up, task, files, work,
                 answers, made, stops, faults>>

\* Mutant: the last configuration replaces the first.
Replace(r) == r.suite
\* ensure_request_fingerprint keeps the first configuration.
Keep(r) == IF fingerprint = NoSuite THEN r.suite ELSE fingerprint

\* The answer, after submit: one task for each run and process.
Accept(p, r) ==
  /\ accepted' = accepted \union {r}
  /\ task' = [task EXCEPT ![p] = IF @ = "none" THEN "queued" ELSE @]
  /\ handler' = [handler EXCEPT ![p] = Idle]

\* The fingerprint, then the columns of the row as create() read it.
CheckRequest(p) ==
  /\ handler[p].at = "fingerprint"
  /\ LET r == handler[p].request
         same == Keep(r) = r.suite /\ Target = r.target
     IN /\ fingerprint' = Keep(r)
        /\ \/ /\ same /\ handler[p].seen = "PENDING"
              /\ handler' = [handler EXCEPT ![p].at = "store"]
              /\ UNCHANGED <<task, answers>>
           \/ /\ same /\ handler[p].seen # "PENDING"
              /\ Accept(p, r) /\ UNCHANGED rejected
           \/ /\ ~same
              /\ rejected' = rejected \union {r}
              /\ handler' = [handler EXCEPT ![p] = Idle]
              /\ UNCHANGED <<task, accepted>>
  /\ UNCHANGED <<status, creator, uploads, sides, verdict, up, files, work, made, counts>>

\* store_uploaded_tests, which insists on PENDING, and bind_*.
Store(p) ==
  /\ handler[p].at = "store"
  /\ \/ /\ status = "PENDING"
        /\ uploads' = uploads \union {handler[p].request.suite}
        /\ Accept(p, handler[p].request)
     \/ /\ status # "PENDING"
        /\ handler' = [handler EXCEPT ![p] = Idle]
        /\ UNCHANGED <<uploads, task, accepted>>
  /\ UNCHANGED <<status, creator, fingerprint, sides, verdict, up, files, work,
                 rejected, made, counts>>
-----------------------------------------------------------------------------
(* execute() *)

Runs(p, at) == task[p] = at /\ LoopIsFree(p)
GoTo(p, at) == task' = [task EXCEPT ![p] = at]

\* Mutant: the UPDATE lost its status condition.
MayBeginAlways == status # "NONE"
MayBegin == status = "PENDING"

Begin(p) ==
  /\ Runs(p, "queued")
  /\ IF MayBegin THEN status' = "PREPARING" /\ GoTo(p, "prepare")
                 ELSE GoTo(p, "none") /\ UNCHANGED status
  /\ UNCHANGED <<creator, fingerprint, uploads, sides, verdict, up, handler, files,
                 work, answers, made, counts>>

\* The diff, then the stored files; the model is asked for more tests after.
Load(p) ==
  /\ Runs(p, "prepare")
  /\ files' = [files EXCEPT ![p] = uploads] /\ GoTo(p, "frozen")
  /\ UNCHANGED <<db, up, handler, work, answers, made, counts>>

\* update_run(RUNNING) has no condition on the status.
StartSides(p) ==
  /\ Runs(p, "frozen")
  /\ status' = "RUNNING" /\ GoTo(p, "sides")
  /\ work' = [work EXCEPT ![p] = [s \in Sides |-> "begin"]]
  /\ UNCHANGED <<creator, fingerprint, uploads, sides, verdict, up, handler, files,
                 answers, made, counts>>

BeginSide(p, s) ==
  /\ work[p][s] = "begin" /\ LoopIsFree(p)
  /\ sides' = [sides EXCEPT ![s] = IF @ = Untouched THEN Running ELSE @]
  /\ ran' = [ran EXCEPT ![s] = @ + 1] /\ executed' = executed \union files[p]
  /\ work' = [work EXCEPT ![p][s] = "running"]
  /\ UNCHANGED <<status, creator, fingerprint, uploads, verdict, up, handler, task,
                 files, answers, counts>>

\* complete_execution, at the latest after the overall timeout.
EndSide(p, s) ==
  /\ work[p][s] = "running" /\ LoopIsFree(p)
  /\ \E r \in Results : sides' = [sides EXCEPT ![s] = r]
  /\ work' = [work EXCEPT ![p][s] = "done"]
  /\ UNCHANGED <<status, creator, fingerprint, uploads, verdict, up, handler, task,
                 files, answers, made, counts>>

\* Mutant: gather returns with the first side.
FirstDone(p) == \E s \in Sides : work[p][s] = "done"
BothDone(p) == \A s \in Sides : work[p][s] = "done"

Compare(p) ==
  /\ Runs(p, "sides") /\ BothDone(p)
  /\ status' = "COMPARING" /\ GoTo(p, "classify")
  /\ UNCHANGED <<creator, fingerprint, uploads, sides, verdict, up, handler, files,
                 work, answers, made, counts>>

Ended(b, c) == b.status = "COMPLETED" /\ c.status = "COMPLETED"
BothBuilt(b, c) == b.build = "PASSED" /\ c.build = "PASSED"
\* Both reports have cases: they are compared one by one, and how the test
\* processes ended does not matter.
CaseByCase(b, c) == b.cases # NoCases /\ c.cases # NoCases

\* The three answers of ValidationComparator.compare.  Not a regression: a
\* candidate that is built where base is not, whatever its tests do
\* (POSSIBLE_FIX), and a failing case that base does not have (NEW_TEST).
Inconclusive(b, c) ==
  \/ ~Ended(b, c)
  \/ b.build = "FAILED" /\ c.build = "FAILED"
  \/ BothBuilt(b, c) /\ ~CaseByCase(b, c) /\ b.test = "FAILED" /\ c.test = "FAILED"

\* Mutant: the test processes decide, not the cases.
RegressionOfProcess(b, c) ==
  /\ Ended(b, c)
  /\ \/ b.build = "PASSED" /\ c.build = "FAILED"
     \/ BothBuilt(b, c) /\ b.test = "PASSED" /\ c.test = "FAILED"

Regression(b, c) ==
  /\ Ended(b, c)
  /\ \/ b.build = "PASSED" /\ c.build = "FAILED"
     \/ /\ BothBuilt(b, c) /\ CaseByCase(b, c)
        /\ \E t \in Test : b.cases[t] = "pass" /\ c.cases[t] = "fail"
     \/ /\ BothBuilt(b, c) /\ ~CaseByCase(b, c)
        /\ b.test = "PASSED" /\ c.test = "FAILED"

Verdict(b, c) == IF Inconclusive(b, c) THEN "inconclusive"
                 ELSE IF Regression(b, c) THEN "regression" ELSE "clean"

\* compare and replace_regressions.
Classify(p) ==
  /\ task[p] = "classify"
  /\ verdict' = Verdict(sides["BASE"], sides["CANDIDATE"])
  /\ GoTo(p, "final")
  /\ UNCHANGED <<status, creator, fingerprint, uploads, sides, up, handler, files,
                 work, answers, made, counts>>

Conclude(p) ==
  /\ task[p] = "final"
  /\ status' = IF verdict = "clean" THEN "COMPLETED" ELSE "FAILED"
  /\ GoTo(p, "evidence")
  /\ UNCHANGED <<creator, fingerprint, uploads, sides, verdict, up, handler, files,
                 work, answers, made, counts>>

Evidence(p) ==
  /\ task[p] = "evidence" /\ GoTo(p, "none")
  /\ UNCHANGED <<db, up, handler, files, work, answers, made, counts>>

\* A gather that fails leaves the other side running.
SideRaises(p) ==
  /\ Runs(p, "sides") /\ \E s \in Sides : work[p][s] = "raised"
  /\ GoTo(p, "error")
  /\ UNCHANGED <<db, up, handler, files, work, answers, made, counts>>

\* except Exception: update_run(FAILED), without a condition.
RecordError(p) ==
  /\ task[p] = "error"
  /\ status' = "FAILED" /\ GoTo(p, "none")
  /\ UNCHANGED <<creator, fingerprint, uploads, sides, verdict, up, handler, files,
                 work, answers, made, counts>>
-----------------------------------------------------------------------------
(* Cancellation, shutdown, crash, restart, and a database that fails *)

\* task.cancel(): execute() has not begun, or is told at its next await, and
\* the sides it waits for end without writing.
Interrupt(p) ==
  /\ task' = [task EXCEPT ![p] = CASE @ = "queued" -> "none"
                                   [] @ = "none"   -> "none"
                                   [] OTHER        -> "interrupted"]
  /\ work' = [work EXCEPT ![p] = IF task[p] # "sides" THEN @ ELSE
                [s \in Sides |-> IF @[s] \in {"begin", "running"} THEN "idle" ELSE @[s]]]

\* POST /cancel on p, which knows only the task of p.
Cancel(p) ==
  /\ up[p] = "up" /\ LoopIsFree(p)
  /\ status \in Working \union {"PENDING"} /\ status' = "CANCELLED"
  /\ Interrupt(p)
  /\ UNCHANGED <<creator, fingerprint, uploads, sides, verdict, up, handler, files,
                 answers, made, counts>>

\* Mutant: the handler of CancelledError does not look at the row.
WasInterrupted == TRUE
WasNotCancelled == status # "CANCELLED"

\* except CancelledError: read the row, then perhaps update_run(FAILED).
ReadInterrupted(p) ==
  /\ Runs(p, "interrupted")
  /\ GoTo(p, IF WasNotCancelled THEN "abort" ELSE "none")
  /\ UNCHANGED <<db, up, handler, files, work, answers, made, counts>>

Abort(p) ==
  /\ task[p] = "abort"
  /\ status' = "FAILED" /\ GoTo(p, "none")
  /\ UNCHANGED <<creator, fingerprint, uploads, sides, verdict, up, handler, files,
                 work, answers, made, counts>>

\* A statement raises, and its transaction leaves nothing.
Fault(p) ==
  /\ faults < MaxFaults /\ faults' = faults + 1 /\ up[p] \in {"up", "closing"}
  /\ \/ /\ handler[p] # Idle
        /\ handler' = [handler EXCEPT ![p] = Idle] /\ UNCHANGED <<task, work>>
     \/ /\ handler[p] = Idle
        /\ \/ task[p] \in {"prepare", "frozen", "classify", "final", "evidence"} /\ GoTo(p, "error")
           \/ task[p] = "sides" /\ BothDone(p) /\ GoTo(p, "error")
           \/ task[p] \in {"queued", "error", "interrupted", "abort"} /\ GoTo(p, "none")
        /\ UNCHANGED <<handler, work>>
     \/ \E s \in Sides :
          /\ LoopIsFree(p) /\ work[p][s] \in {"begin", "running"}
          /\ work' = [work EXCEPT ![p][s] = "raised"] /\ UNCHANGED <<handler, task>>
  /\ UNCHANGED <<db, up, files, answers, made, asked, stops>>

Down(p) ==
  /\ up' = [up EXCEPT ![p] = "down"]
  /\ handler' = [handler EXCEPT ![p] = Idle] /\ work' = [work EXCEPT ![p] = AllIdle]

Crash(p) ==
  /\ up[p] # "down" /\ stops < MaxStops /\ stops' = stops + 1
  /\ Down(p) /\ GoTo(p, "none")
  /\ UNCHANGED <<db, files, answers, made, asked, faults>>

\* manager.shutdown() cancels the task and waits for it.
Shutdown(p) ==
  /\ up[p] = "up" /\ LoopIsFree(p) /\ stops < MaxStops /\ stops' = stops + 1
  /\ up' = [up EXCEPT ![p] = "closing"] /\ Interrupt(p)
  /\ UNCHANGED <<db, handler, files, answers, made, asked, faults>>

Exit(p) ==
  /\ up[p] = "closing" /\ task[p] = "none" /\ Down(p)
  /\ UNCHANGED <<db, task, files, answers, made, counts>>

\* Mutant: the startup scan forgets a status.
Unfinished == {"PREPARING", "RUNNING"}
LeftOver == Working

\* fail_incomplete_on_startup: the SELECT, then the UPDATE by identifier.
Start(p) ==
  /\ up[p] = "down"
  /\ up' = [up EXCEPT ![p] = IF status \in LeftOver THEN "marking" ELSE "up"]
  /\ UNCHANGED <<db, handler, task, files, work, answers, made, counts>>

MarkLeftOver(p) ==
  /\ up[p] = "marking"
  /\ status' = "FAILED" /\ up' = [up EXCEPT ![p] = "up"]
  /\ UNCHANGED <<creator, fingerprint, uploads, sides, verdict, handler, task, files,
                 work, answers, made, counts>>
-----------------------------------------------------------------------------
Serve(p) == CheckRequest(p) \/ Store(p)
Work(p) == \/ Begin(p) \/ Load(p) \/ StartSides(p)
           \/ \E s \in Sides : BeginSide(p, s) \/ EndSide(p, s)
           \/ Compare(p) \/ Classify(p) \/ Conclude(p) \/ Evidence(p)
           \/ SideRaises(p) \/ RecordError(p) \/ ReadInterrupted(p) \/ Abort(p)
           \/ Start(p) \/ MarkLeftOver(p) \/ Exit(p)
Disturb(p) == Cancel(p) \/ Fault(p) \/ Crash(p) \/ Shutdown(p)
Next == \E p \in Procs : \/ \E r \in Requests : Post(p, r)
                         \/ Serve(p) \/ Work(p) \/ Disturb(p)

Spec == Init /\ [][Next]_vars

\* The event loop runs every coroutine that can go on, a container ends at the
\* latest with the timeout, and a process that is down is started again.
FairSpec == Spec /\ \A p \in Procs : WF_vars(Serve(p)) /\ WF_vars(Work(p))
-----------------------------------------------------------------------------
TypeOK ==
  /\ status \in Working \union Terminal \union {"NONE", "PENDING"}
  /\ creator \subseteq Requests /\ Cardinality(creator) = IF status = "NONE" THEN 0 ELSE 1
  /\ fingerprint \in {r.suite : r \in Requests} \union {NoSuite}
  /\ uploads \subseteq {r.suite : r \in Requests}
  /\ sides \in [Sides -> Results \union {Untouched, Running}]
  /\ verdict \in {"none", "clean", "regression", "inconclusive"}
  /\ up \in [Procs -> {"up", "closing", "down", "marking"}]
  /\ \A p \in Procs : handler[p].at \in {"idle", "fingerprint", "store"}
  /\ task \in [Procs -> {"none", "queued", "prepare", "frozen", "sides", "classify", "final",
                         "evidence", "error", "interrupted", "abort"}]
  /\ files \in [Procs -> SUBSET {r.suite : r \in Requests}]
  /\ work \in [Procs -> [Sides -> {"idle", "begin", "running", "done", "raised"}]]
  /\ accepted \subseteq Requests /\ rejected \subseteq Requests
  /\ ran \in [Sides -> Nat] /\ executed \subseteq {r.suite : r \in Requests}
  /\ asked \in 0..MaxRequests /\ stops \in 0..MaxStops /\ faults \in 0..MaxFaults

\* A run that is cancelled stays cancelled and enters no further phase.
CancelledIsFinal == [][status = "CANCELLED" => status' = "CANCELLED"]_vars

\* A run that is compared has the results of both sides.  In one that is
\* COMPLETED both sides ended by themselves, the candidate was built, no test
\* that passed on base fails on the candidate, and where base was built but
\* the reports cannot be compared case by case the candidate's test process
\* passed.  (Its tests may fail if base could not be built, or in a case base
\* does not have.)
ComparedSidesAreDone ==
  LET b == sides["BASE"]  c == sides["CANDIDATE"] IN
  /\ status \in {"COMPARING", "COMPLETED"} => b \in Results /\ c \in Results
  /\ status = "COMPLETED" =>
       /\ verdict = "clean" /\ b.status = "COMPLETED" /\ c.status = "COMPLETED"
       /\ c.build = "PASSED"
       /\ \A t \in Test : b.cases[t] = "pass" => c.cases[t] # "fail"
       /\ b.build = "PASSED" /\ (b.cases = NoCases \/ c.cases = NoCases) => c.test = "PASSED"

\* However often the POST is repeated and wherever it is served, what runs is
\* what every request that was told the run's identifier asked for, and no
\* two accepted requests differ.
AcceptedIsExecuted ==
  \A r \in accepted : /\ r.target = Target /\ r.suite = fingerprint
                      /\ executed \subseteq {r.suite}

\* No retry, on any process, before or after a restart, runs a side again.
RunsOnce == \A s \in Sides : ran[s] <= 1

\* A run that a process took ends, whatever process stops or statement fails.
TakenRunEnds == (status \in Working) ~> (status \in Terminal)

\* A run whose creator has its identifier does not wait for ever: a process
\* begins it, or somebody cancels it.
PendingRunIsTaken == (status = "PENDING" /\ accepted # {}) ~> (status # "PENDING")

\* The request that made the row is not the one to be refused.
CreatorIsNotRejected == rejected \intersect creator = {}
=============================================================================
