-------------------------- MODULE MCConversationLog --------------------------
(* An instance of ConversationLog for TLC.                                   *)
EXTENDS ConversationLog, TLC

CONSTANTS d1, d2, a1, a2, a3

\* Two diagnoses, one of them retried.
TwoDiagnoses == a1 :> d1 @@ a2 :> d1 @@ a3 :> d2
=============================================================================
