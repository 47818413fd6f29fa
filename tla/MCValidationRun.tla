--------------------------- MODULE MCValidationRun ---------------------------
(* Instances of ValidationRun for TLC. *)
EXTENDS ValidationRunRefinement

CONSTANTS caseA, caseB  \* tests

Same == [target |-> "t1", suite |-> "s1"]
Other == [target |-> "t2", suite |-> "s2"]
OneRequest == {Same}
\* Another suite, another target, and both.
Conflicting == {Same, Other, [target |-> "t1", suite |-> "s2"], [target |-> "t2", suite |-> "s1"]}

Ran(test, a, b) == [status |-> "COMPLETED", build |-> "PASSED", test |-> test,
                    cases |-> [t \in Test |-> IF t = caseA THEN a ELSE b]]
GivenUp == [status |-> "TIMEOUT", build |-> "TIMEOUT", test |-> "NOT_RUN", cases |-> NoCases]
Unbuilt == [status |-> "COMPLETED", build |-> "FAILED", test |-> "NOT_RUN", cases |-> NoCases]
\* One side may have what the other has not, a test process may fail with or
\* without a report, and two sides may fail in different tests.
EveryKind ==
  {GivenUp, [GivenUp EXCEPT !.status = "FAILED", !.build = "NOT_RUN"], Unbuilt, Ran("PASSED", "absent", "absent"),
   Ran("FAILED", "absent", "absent"), Ran("PASSED", "pass", "pass"), Ran("FAILED", "pass", "fail"),
   Ran("FAILED", "fail", "pass"), Ran("PASSED", "pass", "absent")}
FewKinds == {GivenUp, Ran("PASSED", "absent", "absent"), Ran("FAILED", "absent", "absent")}
=============================================================================
