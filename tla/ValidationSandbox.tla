-------------------------- MODULE ValidationSandbox --------------------------
(***************************************************************************)
(* The workspace and the containers of one validation run                  *)
(* (DockerValidationRunner, called for both sides at once by               *)
(* ValidationService._run_side).  A side extracts its commit and runs two  *)
(* docker commands, each in a worker thread the coroutine awaits: when the *)
(* await is given up - the preparation or the whole side times out, the    *)
(* run is cancelled - the thread goes on and nobody takes its result.      *)
(***************************************************************************)
EXTENDS FiniteSets

CONSTANTS Side,       \* BASE and CANDIDATE
          Report,     \* the JUnit files a test container may leave: each the
                      \* set of its test cases, a case the set of its elements
          Unreadable, \* a file that does not parse
          BadTime     \* the element of a case whose time is no number

VARIABLES pc,         \* what the coroutine of a side awaits
          workspace,  \* the directory of a side; "stuck" when it cannot be removed
          thread,     \* the thread at work for a side, awaited or not
          container,  \* the running container of a side, by its stage
          exit,       \* what came of the container of each stage
          result,     \* the execution row of a side
          given,      \* who gave up awaiting the side
          kept        \* the sides whose docker rm did not remove

vars == <<pc, workspace, thread, container, exit, result, given, kept>>

Stages == {"build", "test"}
Row(st, b, t, ts) == [status |-> st, build |-> b, test |-> t, tests |-> ts]
Unfinished == Row("RUNNING", "NOT_RUN", "NOT_RUN", {})
Failed == Row("FAILED", "NOT_RUN", "NOT_RUN", {})
Awaiting(s) == pc[s] \in {"prepare", "build", "test", "remove"}

Init ==
  /\ pc = [s \in Side |-> "start"] /\ workspace = [s \in Side |-> "none"]
  /\ thread = [s \in Side |-> "none"] /\ container = [s \in Side |-> "none"]
  /\ exit = [s \in Side |-> [g \in Stages |-> "none"]]
  /\ result = [s \in Side |-> Unfinished]
  /\ given = [s \in Side |-> "no"] /\ kept = {}

(***************************************************************************)
(* The finally of run() removes the workspace if it is there; when that    *)
(* raises - the container left files the backend may not delete - the      *)
(* error takes the place of the result.  _result writes the artifacts      *)
(* before: a full disk fails the side too.                                 *)
(***************************************************************************)
End(s, row) ==
  /\ pc' = [pc EXCEPT ![s] = "done"]
  /\ \/ /\ workspace' = [workspace EXCEPT ![s] = "none"]
        /\ result' = [result EXCEPT ![s] = row]
     \/ /\ workspace[s] # "none" /\ workspace' = [workspace EXCEPT ![s] = "stuck"]
        /\ result' = [result EXCEPT ![s] = Failed]

Return(s, row) == End(s, row) \/ End(s, Failed)
Abandoned == UNCHANGED <<pc, workspace, result>>

\* The directory of an earlier use goes; a thread extracts the commit.
Start(s) ==
  /\ pc[s] = "start" /\ pc' = [pc EXCEPT ![s] = "prepare"]
  /\ workspace' = [workspace EXCEPT ![s] = "empty"]
  /\ thread' = [thread EXCEPT ![s] = "extract"]
  /\ UNCHANGED <<container, exit, result, given, kept>>

\* Git fails, or the archive is refused: links, size, number of files.
ExtractFails(s) ==
  /\ thread[s] = "extract" /\ thread' = [thread EXCEPT ![s] = "none"]
  /\ IF pc[s] = "prepare" THEN End(s, Failed) ELSE Abandoned
  /\ UNCHANGED <<container, exit, given, kept>>

\* The repository's tests are removed and the extra ones injected before
\* the next await.  A thread nobody awaits writes where it was told to,
\* and makes the directory again when it is gone.
Extracted(s) ==
  /\ thread[s] = "extract"
  /\ IF pc[s] = "prepare"
     THEN \/ /\ workspace' = [workspace EXCEPT ![s] = "ready"]
             /\ pc' = [pc EXCEPT ![s] = "build"] /\ thread' = [thread EXCEPT ![s] = "build"]
             /\ UNCHANGED result
          \/ End(s, Failed) /\ thread' = [thread EXCEPT ![s] = "none"]
     ELSE /\ workspace' = [workspace EXCEPT ![s] = "late"]
          /\ thread' = [thread EXCEPT ![s] = "none"] /\ UNCHANGED <<pc, result>>
  /\ UNCHANGED <<container, exit, given, kept>>

PrepareTimeout(s) ==
  /\ pc[s] = "prepare" /\ End(s, Failed)
  /\ given' = [given EXCEPT ![s] = "prepare"]
  /\ UNCHANGED <<thread, container, exit, kept>>

\* The daemon binds the workspace and starts the container of the command.
ContainerStarts(s) ==
  /\ thread[s] \in Stages /\ exit[s][thread[s]] = "none" /\ workspace[s] # "none"
  /\ container' = [container EXCEPT ![s] = thread[s]]
  /\ exit' = [exit EXCEPT ![s][thread[s]] = "running"]
  /\ UNCHANGED <<pc, workspace, thread, result, given, kept>>

\* normalize_junit: the first element of a case that says so decides, and
\* a file that does not parse is left out.
Status(case) == IF "failure" \in case THEN "FAILED" ELSE IF "error" \in case THEN "ERROR"
                ELSE IF "skipped" \in case THEN "SKIPPED" ELSE "PASSED"
Normalized(s, row) ==
  \E files \in SUBSET Report :
    LET cases == UNION (files \ {Unreadable}) IN
    IF BadTime \in UNION cases THEN End(s, Failed)
    ELSE Return(s, [row EXCEPT !.tests = {Status(case) : case \in cases}])

\* What run() does with the exit code of a stage, if it still awaits it.
TakeExit(s, stage, ok) ==
  IF pc[s] # stage THEN Abandoned /\ thread' = [thread EXCEPT ![s] = "none"]
  ELSE IF stage = "test"
    THEN /\ Normalized(s, Row("COMPLETED", "PASSED", IF ok THEN "PASSED" ELSE "FAILED", {}))
         /\ thread' = [thread EXCEPT ![s] = "none"]
  ELSE IF ok
    THEN /\ pc' = [pc EXCEPT ![s] = "test"] /\ thread' = [thread EXCEPT ![s] = "test"]
         /\ UNCHANGED <<workspace, result>>
    ELSE /\ Return(s, Row("COMPLETED", "FAILED", "NOT_RUN", {}))
         /\ thread' = [thread EXCEPT ![s] = "none"]

\* --rm removes the container that exits; the command, if it was not
\* killed, ends with the container's code.
ContainerExits(s, ok) ==
  /\ container[s] # "none" /\ container' = [container EXCEPT ![s] = "none"]
  /\ exit' = [exit EXCEPT ![s][container[s]] = IF ok THEN "zero" ELSE "nonzero"]
  /\ IF thread[s] = container[s] THEN TakeExit(s, container[s], ok)
     ELSE Abandoned /\ UNCHANGED thread
  /\ UNCHANGED <<given, kept>>

\* The daemon refuses - it is down, or has no image or no such mount - and
\* the command ends with a code, as it does for a container that fails.
\* Where there is no docker command at all, run() raises.
Refused(s) ==
  /\ thread[s] \in Stages /\ exit[s][thread[s]] = "none"
  /\ exit' = [exit EXCEPT ![s][thread[s]] = "refused"]
  /\ \/ TakeExit(s, thread[s], FALSE)
     \/ pc[s] = thread[s] /\ End(s, Failed) /\ thread' = [thread EXCEPT ![s] = "none"]
  /\ UNCHANGED <<container, given, kept>>

\* The stage's time is up: the command is killed, its container is not;
\* the coroutine, where it still awaits, has it removed by its name.
StageTimeout(s) ==
  /\ thread[s] \in Stages
  /\ IF pc[s] = thread[s]
     THEN pc' = [pc EXCEPT ![s] = "remove"] /\ thread' = [thread EXCEPT ![s] = "rm"]
     ELSE thread' = [thread EXCEPT ![s] = "none"] /\ UNCHANGED pc
  /\ exit' = [exit EXCEPT ![s][thread[s]] = IF @ = "none" THEN "never" ELSE @]
  /\ UNCHANGED <<workspace, container, result, given, kept>>

\* After the removal the stage has timed out; of a test the reports that
\* are there are read.
TimedOut(s) == IF exit[s]["test"] = "none"
               THEN Return(s, Row("TIMEOUT", "TIMEOUT", "NOT_RUN", {}))
               ELSE Normalized(s, Row("TIMEOUT", "PASSED", "TIMEOUT", {}))

\* Mutant of Removed: the name is that of another container.
RemovedOther(s) ==
  /\ thread[s] = "rm" /\ thread' = [thread EXCEPT ![s] = "none"]
  /\ IF pc[s] = "remove" THEN TimedOut(s) ELSE Abandoned
  /\ UNCHANGED <<container, exit, given, kept>>

Removed(s) ==
  /\ thread[s] = "rm" /\ thread' = [thread EXCEPT ![s] = "none"]
  /\ container' = [container EXCEPT ![s] = "none"]
  /\ IF pc[s] = "remove" THEN TimedOut(s) ELSE Abandoned
  /\ UNCHANGED <<exit, given, kept>>

\* docker rm ends with a code nobody reads, or raises for its own timeout.
RemoveFails(s) ==
  /\ thread[s] = "rm" /\ thread' = [thread EXCEPT ![s] = "none"]
  /\ kept' = kept \union {s}
  /\ IF pc[s] = "remove" THEN TimedOut(s) \/ End(s, Failed) ELSE Abandoned
  /\ UNCHANGED <<container, exit, given>>

\* wait_for gives the side up after its overall time.  A workspace that
\* cannot be removed then is a failure of the side, no timeout.
OverallTimeout(s) ==
  /\ Awaiting(s) /\ End(s, Row("TIMEOUT", "TIMEOUT", "NOT_RUN", {}))
  /\ given' = [given EXCEPT ![s] = "overall"]
  /\ UNCHANGED <<thread, container, exit, kept>>

\* The run is cancelled, or the process shuts down: both coroutines end
\* through their finally, and the rows of their sides stay RUNNING.
Cancel ==
  /\ \E s \in Side : Awaiting(s)
  /\ \E stuck \in SUBSET {s \in Side : Awaiting(s) /\ workspace[s] # "none"} :
       /\ workspace' = [s \in Side |-> IF s \in stuck THEN "stuck"
                                      ELSE IF Awaiting(s) THEN "none" ELSE workspace[s]]
       /\ result' = [s \in Side |-> IF s \in stuck THEN Failed ELSE result[s]]
  /\ given' = [s \in Side |-> IF Awaiting(s) THEN "cancel" ELSE given[s]]
  /\ pc' = [s \in Side |-> "done"]
  /\ UNCHANGED <<thread, container, exit, kept>>

\* Threads and coroutines end with the process; no start cleans up.
Crash ==
  /\ \E s \in Side : pc[s] # "done" \/ thread[s] # "none"
  /\ pc' = [s \in Side |-> IF pc[s] = "done" THEN "done" ELSE "gone"]
  /\ thread' = [s \in Side |-> "none"]
  /\ UNCHANGED <<workspace, container, exit, result, given, kept>>

Next ==
  \/ \E s \in Side :
       \/ Start(s) \/ ExtractFails(s) \/ Extracted(s) \/ PrepareTimeout(s)
       \/ ContainerStarts(s) \/ Refused(s) \/ StageTimeout(s)
       \/ \E ok \in BOOLEAN : ContainerExits(s, ok)
       \/ Removed(s) \/ RemoveFails(s) \/ OverallTimeout(s)
  \/ Cancel \/ Crash

Spec == Init /\ [][Next]_vars

(***************************************************************************)
(* The documents promise that a timed out side removes exactly its own     *)
(* container and that no workspace outlives its task.  That is so for      *)
(* every side that comes to its end by itself; what is left over names its *)
(* cause: a docker rm that failed, a workspace whose removal raised, or an *)
(* await given up while its thread went on (README.md section 7).          *)
(***************************************************************************)
WorkspaceGone(s) ==
  CASE workspace[s] = "none" -> TRUE
    [] workspace[s] = "stuck" -> result[s].status = "FAILED"
    [] workspace[s] = "late" -> given[s] # "no" /\ \A g \in Stages : exit[s][g] = "none"
    [] OTHER -> FALSE
ContainerGone(s) ==
  container[s] # "none" => s \in kept \/ given[s] \in {"overall", "cancel"}

\* A result is that of containers that ran to their end: a passed stage
\* exited with zero, a failed one did not, and no side that was given up
\* counts as completed.
ResultIsReal(s) ==
  /\ result[s].build = "PASSED" => exit[s]["build"] = "zero"
  /\ result[s].test = "PASSED" => exit[s]["test"] = "zero"
  /\ result[s].build = "FAILED" => exit[s]["build"] \in {"nonzero", "refused"}
  /\ result[s].test = "FAILED" => exit[s]["test"] \in {"nonzero", "refused"}
  /\ result[s].status = "COMPLETED" => given[s] = "no" /\ thread[s] = "none"

SandboxIsClean == \A s \in Side : pc[s] = "done" =>
                    WorkspaceGone(s) /\ ContainerGone(s) /\ ResultIsReal(s)
=============================================================================
