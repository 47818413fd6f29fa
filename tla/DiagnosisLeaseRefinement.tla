---------------------- MODULE DiagnosisLeaseRefinement ----------------------
(* The lease protocol implements DiagnosisTask: the row's owner is the      *)
(* holder, the COMPLETED steps are the stored results and the checkpoint    *)
(* is what the next executor will know.                                     *)
EXTENDS DiagnosisLease

Task == INSTANCE DiagnosisTask
          WITH Call <- Tool, NoOne <- NoOwner, state <- status, holder <- leaseOwner,
               attempts <- attemptNo, run <- runId, results <- Completed,
               known <- checkpoint.timeline, answer <- summary

\* Every behaviour of the executors is a behaviour of the task: one holder at
\* a time, nothing learnt is lost when the holder changes, the logical run
\* never changes, one end.
ImplementsTask == Task!Spec
=============================================================================
