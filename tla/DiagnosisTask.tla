---------------------------- MODULE DiagnosisTask ----------------------------
(***************************************************************************)
(* What a durable diagnosis promises to whoever asked for it, without      *)
(* leases, versions, clocks, phases or crashes: it is worked on by one     *)
(* executor at a time, in at most MaxAttempts attempts; what it has learnt *)
(* and the logical run it belongs to survive every change of executor; it  *)
(* ends once, and only an executor that holds it can end it with an        *)
(* answer.                                                                 *)
(***************************************************************************)
EXTENDS Naturals

CONSTANTS Executor, NoOne, Call, MaxAttempts

VARIABLES state,     \* PENDING, INVESTIGATING, COMPLETED or FAILED
          holder,    \* the executor working on it, or NoOne
          attempts,  \* attempts started so far
          run,       \* the attempt that opened the logical run, or 0
          results,   \* the calls whose result is stored
          known,     \* the calls the next executor will know of
          answer     \* the attempt that drew the conclusion, or 0

vars == <<state, holder, attempts, run, results, known, answer>>

Init ==
  /\ state = "PENDING" /\ holder = NoOne /\ attempts = 0 /\ run = 0
  /\ results = {} /\ known = {} /\ answer = 0

\* e begins an attempt, perhaps in place of an executor that is gone.
Start(e) ==
  /\ state \in {"PENDING", "INVESTIGATING"} /\ attempts < MaxAttempts
  /\ state' = "INVESTIGATING" /\ holder' = e /\ attempts' = attempts + 1
  /\ UNCHANGED <<run, results, known, answer>>

\* The holder opens the logical run, or learns something; nothing that was
\* known is lost, and what is stored is known.
Learn ==
  /\ state = "INVESTIGATING" /\ holder # NoOne
  /\ IF run = 0 THEN run' \in {0, attempts} ELSE run' = run
  /\ known \subseteq known' /\ results \subseteq results' /\ results' \subseteq known'
  /\ UNCHANGED <<state, holder, attempts, answer>>

\* The holder gives the work back.
Release ==
  /\ state = "INVESTIGATING" /\ holder # NoOne
  /\ holder' = NoOne
  /\ UNCHANGED <<state, attempts, run, results, known, answer>>

\* The holder concludes, in the logical run it continued.
Conclude ==
  /\ state = "INVESTIGATING" /\ holder # NoOne /\ run # 0
  /\ state' = "COMPLETED" /\ holder' = NoOne
  /\ answer' \in 1..attempts
  /\ UNCHANGED <<attempts, run, results, known>>

\* The holder fails, or the attempts are used up.
Fail ==
  /\ state \in {"PENDING", "INVESTIGATING"}
  /\ holder # NoOne \/ attempts >= MaxAttempts
  /\ state' = "FAILED" /\ holder' = NoOne
  /\ UNCHANGED <<attempts, run, results, known, answer>>

Next == (\E e \in Executor : Start(e)) \/ Learn \/ Release \/ Conclude \/ Fail

Spec == Init /\ [][Next]_vars
=============================================================================
