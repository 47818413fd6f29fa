--------------------- MODULE MCDiagnosisLeaseRefinement ---------------------
(* The instance of MCDiagnosisLease with both tools and clocks that differ. *)
EXTENDS DiagnosisLeaseRefinement, TLC

CONSTANTS p1, p2, scripted, planned

MCToolPhase == (scripted :> 1) @@ (planned :> 2)
\* The first process runs a clock that is ahead by one tick.
FastFirst == (p1 :> 1) @@ (p2 :> 0)
=============================================================================
