--------------------------- MODULE MCEventDelivery ---------------------------
(* The small instance of EventDelivery.                                     *)
EXTENDS EventDelivery, LabIncidents, TLC

CONSTANTS a, b, d, x

\* Three commits: one file stays, one goes and comes back, one is added late;
\* x is a file the index does not look at.
Commits == [c \in 1..3 |-> (a :> c) @@ (b :> <<1, 0, 2>>[c]) @@ (d :> <<0, 1, 1>>[c])
                             @@ (x :> <<1, 2, 2>>[c])]
Watched == Path \ {x}

\* Two tasks of one replica and one of the other.
TwoProcesses == [k \in Caller |-> IF k = 3 THEN "replica" ELSE "api"]

\* The longest investigation of the lab, and those that a system scan or an
\* unknown service leave the least of the budget.
LongCases == {c \in LabCases : c.cause = "deployment_regression" \/ c.scan \/ ~c.known}
=============================================================================
