-------------------------- MODULE MCDiagnosisLease --------------------------
(* Two processes, one scripted tool call, the shortest phase list that      *)
(* keeps a scripted phase, INVESTIGATE, VERIFY, REPORT and END.             *)
EXTENDS DiagnosisLease, TLC

CONSTANTS p1, p2, scripted

OneToolPhase == scripted :> 1
\* The first process runs a clock that is ahead by one tick.
FastFirst == (p1 :> 1) @@ (p2 :> 0)
InSync2 == (p1 :> 0) @@ (p2 :> 0)
=============================================================================
