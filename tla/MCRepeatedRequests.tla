------------------------- MODULE MCRepeatedRequests -------------------------
(* The small instance of RepeatedRequests.                                  *)
EXTENDS RepeatedRequests, MCValidationRun, TLC

CONSTANTS o1, o2, s1, s2, w1, w2

\* Two orders that compete for the last unit of one SKU; the first also
\* wants another.
Wanted == (o1 :> (s1 :> 1 @@ s2 :> 1)) @@ (o2 :> (s1 :> 1 @@ s2 :> 0))
OneOfEach == (s1 :> 1) @@ (s2 :> 1)
Threads == Permutations({w1, w2})

\* No file, files of one case, one that does not parse, one with a bad time.
JUnitFiles == {{{}, {"failure"}}, {{"skipped"}}, Unreadable, {{BadTime}}}
=============================================================================
