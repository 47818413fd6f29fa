---------------------------- MODULE ValidationTask ----------------------------
(***************************************************************************)
(* What a validation run promises to whoever asked for it, without         *)
(* coroutines, transactions, retries, restarts or failed statements, where *)
(* one process serves it: every request that is told of the run asked for  *)
(* the same, and both sides are given just that; each side is started once *)
(* and its result stays; the verdict is drawn once, from both results;     *)
(* and the run moves forward only, to one end.                             *)
(***************************************************************************)
CONSTANTS Request, NoSuite, Test,
          Results,            \* what a side may end with
          Untouched, Running  \* what is known of it before and meanwhile

Sides    == {"BASE", "CANDIDATE"}
Working  == {"PREPARING", "RUNNING", "COMPARING"}

VARIABLES state,    \* NONE, PENDING, Working, COMPLETED, FAILED or CANCELLED
          owner,    \* the request that made the run, as a set
          suite,    \* the tests to run, or NoSuite
          told,     \* the requests that were told of the run
          given,    \* the tests the containers got
          results,  \* of each side: Untouched, Running or a result
          verdict   \* none, clean, regression or inconclusive

vars == <<state, owner, suite, told, given, results, verdict>>

Init ==
  /\ state = "NONE" /\ owner = {} /\ suite = NoSuite /\ told = {} /\ given = {}
  /\ results = [s \in Sides |-> Untouched] /\ verdict = "none"

Ask(r) ==
  /\ state = "NONE"
  /\ state' = "PENDING" /\ owner' = {r}
  /\ UNCHANGED <<suite, told, given, results, verdict>>

\* The first request that gets so far settles the tests; one that wants the
\* same as what is there may be told of the run.
Receive(r) ==
  /\ state # "NONE"
  /\ suite' = IF suite = NoSuite THEN r.suite ELSE suite
  /\ \/ UNCHANGED told
     \/ /\ r.suite = suite' /\ \A o \in owner : r.target = o.target
        /\ told' = told \union {r}
  /\ UNCHANGED <<state, owner, given, results, verdict>>

Advance ==
  /\ \/ state = "PENDING" /\ told # {} /\ state' = "PREPARING"
     \/ state = "PREPARING" /\ state' = "RUNNING"
  /\ UNCHANGED <<owner, suite, told, given, results, verdict>>

\* A run that failed or was cancelled meanwhile may still have a side going.
MayRun == state \notin {"NONE", "PENDING", "COMPARING", "COMPLETED"}

StartSide(s) ==
  /\ MayRun /\ results[s] = Untouched /\ suite # NoSuite
  /\ results' = [results EXCEPT ![s] = Running] /\ given' = {suite}
  /\ UNCHANGED <<state, owner, suite, told, verdict>>

EndSide(s) ==
  /\ MayRun /\ results[s] = Running
  /\ \E r \in Results : results' = [results EXCEPT ![s] = r]
  /\ UNCHANGED <<state, owner, suite, told, given, verdict>>

Compare ==
  /\ state = "RUNNING" /\ \A s \in Sides : results[s] \in Results
  /\ state' = "COMPARING"
  /\ UNCHANGED <<owner, suite, told, given, results, verdict>>

Base      == results["BASE"]
Candidate == results["CANDIDATE"]
SomeCase(r) == \E t \in Test : r.cases[t] # "absent"

\* Nobody gave up a side.
Reliable == \A s \in Sides : results[s].status = "COMPLETED"
\* The candidate is built, and does no worse than base in what base was asked:
\* its tests, where both sides name them, or else its test process.
NoWorse ==
  /\ Candidate.build = "PASSED"
  /\ Base.build = "PASSED" =>
       IF SomeCase(Base) /\ SomeCase(Candidate)
       THEN ~\E t \in Test : Base.cases[t] = "pass" /\ Candidate.cases[t] = "fail"
       ELSE Candidate.test = "PASSED"

\* Clean means just that; a regression is told only of a base that was built.
Judge ==
  /\ state = "COMPARING" /\ verdict = "none"
  /\ verdict' \in {"clean", "regression", "inconclusive"}
  /\ verdict' = "clean" <=> Reliable /\ NoWorse
  /\ verdict' = "regression" => Reliable /\ Base.build = "PASSED"
  /\ UNCHANGED <<state, owner, suite, told, given, results>>

Conclude ==
  /\ state = "COMPARING" /\ verdict # "none"
  /\ state' = IF verdict = "clean" THEN "COMPLETED" ELSE "FAILED"
  /\ UNCHANGED <<owner, suite, told, given, results, verdict>>

\* Also a completed run fails, when its evidence cannot be stored.
Fail ==
  /\ state \in Working \union {"COMPLETED"}
  /\ state' = "FAILED"
  /\ UNCHANGED <<owner, suite, told, given, results, verdict>>

Cancel ==
  /\ state \in Working \union {"PENDING"}
  /\ state' = "CANCELLED"
  /\ UNCHANGED <<owner, suite, told, given, results, verdict>>

Next == \/ \E r \in Request : Ask(r) \/ Receive(r)
        \/ \E s \in Sides : StartSide(s) \/ EndSide(s)
        \/ Advance \/ Compare \/ Judge \/ Conclude \/ Fail \/ Cancel

Spec == Init /\ [][Next]_vars
=============================================================================
