----------------------- MODULE ValidationRunRefinement -----------------------
(* ValidationRun implements ValidationTask where one process serves the     *)
(* run: the row's status is the state, the fingerprint of the configuration *)
(* the tests to run, the rows of the executions the results.                *)
EXTENDS ValidationRun

Promise == INSTANCE ValidationTask
          WITH Request <- Requests, state <- status, owner <- creator,
               suite <- fingerprint, told <- accepted, given <- executed,
               results <- sides

\* Every behaviour of the coroutines, with retries, cancellations, crashes,
\* shutdowns and failed statements, is one of the promised run: the tests of
\* the requests that were told of it are run, each side once, the verdict is
\* of both, and the status moves forward only.
ImplementsPromise == Promise!Spec
=============================================================================
