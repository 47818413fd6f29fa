------------------------- MODULE RegressionDiagnosis -------------------------
(***************************************************************************)
(* The link from one validation with a confirmed regression to the         *)
(* diagnosis that explains it (ValidationService.diagnose).  diagnose      *)
(* creates a diagnosis, gives it the validation's evidence, links it and   *)
(* submits it, each in a transaction of its own: requests served by        *)
(* several processes interleave, and a process may stop in between.  The   *)
(* recovery scan of the diagnosis executor starts whatever is left PENDING.*)
(***************************************************************************)
EXTENDS Integers, FiniteSets

CONSTANTS Request,     \* calls of diagnose
          NoDiagnosis

VARIABLES link,       \* validation_runs.diagnosis_id
          created,    \* diagnoses: each is named for the request that made it
          evidence,   \* diagnoses with the VALIDATION evidence
          submitted,  \* diagnoses passed to DiagnosisExecutionManager.submit
          recovered,  \* diagnoses the recovery scan has started
          at,         \* how far each request is
          answer      \* the diagnosis it was told

vars == <<link, created, evidence, submitted, recovered, at, answer>>
rows == <<link, created, evidence>>
runs == <<submitted, recovered>>

Places == {"new", "create", "evidence", "link", "submit", "lost", "answered", "crashed"}

TypeOK ==
  /\ link \in Request \cup {NoDiagnosis}
  /\ created \subseteq Request /\ evidence \subseteq created
  /\ submitted \cup recovered \subseteq created
  /\ at \in [Request -> Places] /\ answer \in [Request -> Request \cup {NoDiagnosis}]

Init ==
  /\ link = NoDiagnosis /\ created = {} /\ evidence = {}
  /\ submitted = {} /\ recovered = {}
  /\ at = [r \in Request |-> "new"] /\ answer = [r \in Request |-> NoDiagnosis]

-----------------------------------------------------------------------------
Goto(r, place) == at' = [at EXCEPT ![r] = place]
Tell(r, d) == answer' = [answer EXCEPT ![r] = d] /\ Goto(r, "answered")

\* The run is read once; a linked diagnosis is the answer.
ReadRun(r) ==
  /\ at[r] = "new"
  /\ IF link # NoDiagnosis THEN Tell(r, link) ELSE Goto(r, "create") /\ UNCHANGED answer
  /\ UNCHANGED <<rows, runs>>

CreateDiagnosis(r) ==
  /\ at[r] = "create"
  /\ created' = created \cup {r} /\ Goto(r, "evidence")
  /\ UNCHANGED <<link, evidence, runs, answer>>

WriteEvidence(r) ==
  /\ at[r] = "evidence"
  /\ evidence' = evidence \cup {r} /\ Goto(r, "link")
  /\ UNCHANGED <<link, created, runs, answer>>

\* An UPDATE that trusts the link read at the start.
MayLinkAnyway == TRUE
\* set_diagnosis: WHERE diagnosis_id IS NULL.
MayLink == link = NoDiagnosis

SetDiagnosis(r) ==
  /\ at[r] = "link"
  /\ IF MayLink THEN link' = r /\ Goto(r, "submit") ELSE Goto(r, "lost") /\ UNCHANGED link
  /\ UNCHANGED <<created, evidence, runs, answer>>

\* The loser answers with the other's diagnosis; its own is left PENDING.
ReadLinked(r) ==
  /\ at[r] = "lost"
  /\ Tell(r, IF link # NoDiagnosis THEN link ELSE r)
  /\ UNCHANGED <<rows, runs>>

Submit(r) ==
  /\ at[r] = "submit"
  /\ submitted' = submitted \cup {r} /\ Tell(r, r)
  /\ UNCHANGED <<rows, recovered>>

\* The process stops, or a statement fails.
Crash(r) ==
  /\ at[r] \notin {"answered", "crashed"}
  /\ Goto(r, "crashed")
  /\ UNCHANGED <<rows, runs, answer>>

Diagnose(r) == \/ ReadRun(r) \/ CreateDiagnosis(r) \/ WriteEvidence(r)
               \/ SetDiagnosis(r) \/ ReadLinked(r) \/ Submit(r)

\* recover_stale_diagnoses, in any process: a PENDING diagnosis nobody runs,
\* linked or not, with its evidence or before it.
Recover(d) ==
  /\ d \in created \ (submitted \cup recovered)
  /\ recovered' = recovered \cup {d}
  /\ UNCHANGED <<rows, submitted, at, answer>>

Next == \E r \in Request : Diagnose(r) \/ Crash(r) \/ Recover(r)

Spec == Init /\ [][Next]_vars
-----------------------------------------------------------------------------
\* Whoever asks, and whatever stopped on the way, hears of one diagnosis only:
\* the linked one, which has the regression as evidence.  Diagnoses of requests
\* that lost or stopped are never linked, answered or submitted by diagnose.
OneDiagnosisAnswered ==
  /\ \A r \in Request : at[r] = "answered" => answer[r] = link
  /\ link # NoDiagnosis => link \in evidence
  /\ submitted \subseteq {link}

\* README.md: repeated requests do not create a second conversation.  Two
\* processes, or a request repeated after a crash, do.
NotCreatedTwice == Cardinality(created) <= 1
=============================================================================
