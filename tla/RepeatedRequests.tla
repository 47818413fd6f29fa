-------------------------- MODULE RepeatedRequests --------------------------
(***************************************************************************)
(* Requests that meet, are repeated, or are served after their client has  *)
(* gone, as one specification: validation runs (ValidationRun), the        *)
(* generation of interface tests (InterfaceGeneration), the link of a      *)
(* regression to a diagnosis (RegressionDiagnosis), the containers a       *)
(* validation leaves behind (ValidationSandbox), and the order saga of the *)
(* lab (OrderSaga).  They share no state but what each module says of the  *)
(* others, so a behaviour exercises one of them: part names it, the        *)
(* variables of the others keep their initial value.                       *)
(***************************************************************************)
EXTENDS ValidationRun

CONSTANTS Key, Caller, MaxSuites, MaxVersions, MaxCrashes,   \* InterfaceGeneration
          Request, NoDiagnosis,                              \* RegressionDiagnosis
          Side, Report, Unreadable, BadTime,                 \* ValidationSandbox
          Order, Sku, Want, Stock, Worker, PayAttempts, MaxLate  \* OrderSaga

VARIABLES part,
          suites, operations, generated, caller, followed, crashes,
          link, created, evidence, submitted, recovered, at, answer,
          pc, workspace, thread, container, exit, result, given, kept,
          orders, available, reserved, hold, payment, threads, late

G == INSTANCE InterfaceGeneration WITH runs <- generated
R == INSTANCE RegressionDiagnosis
D == INSTANCE ValidationSandbox
O == INSTANCE OrderSaga WITH status <- orders, task <- threads

ASSUME GenerationAssumption == G!KeyAssumption /\ G!BoundAssumption
\* NULL in validation_runs.diagnosis_id is no identifier.
ASSUME LinkAssumption == NoDiagnosis \notin Request
ASSUME SagaAssumption ==
  O!OrderAssumption /\ O!WantAssumption /\ O!StockAssumption /\ O!LimitAssumption

generation == <<suites, operations, generated, caller, followed, crashes>>
diagnosis == <<link, created, evidence, submitted, recovered, at, answer>>
sandbox == <<pc, workspace, thread, container, exit, result, given, kept>>
saga == <<orders, available, reserved, hold, payment, threads, late>>
all == <<part, vars, generation, diagnosis, sandbox, saga>>

AllInit == /\ Init /\ G!Init /\ R!Init /\ D!Init /\ O!Init
           /\ part \in {"run", "generation", "diagnosis", "sandbox", "orders"}

AllNext ==
  /\ UNCHANGED part
  /\ \/ part = "run" /\ Next /\ UNCHANGED <<generation, diagnosis, sandbox, saga>>
     \/ part = "generation" /\ G!Next /\ UNCHANGED <<vars, diagnosis, sandbox, saga>>
     \/ part = "diagnosis" /\ R!Next /\ UNCHANGED <<vars, generation, sandbox, saga>>
     \/ part = "sandbox" /\ D!Next /\ UNCHANGED <<vars, generation, diagnosis, saga>>
     \/ part = "orders" /\ O!Next /\ UNCHANGED <<vars, generation, diagnosis, sandbox>>

AllSpec == AllInit /\ [][AllNext]_all

\* Each part is well typed, and:
\* See InterfaceGeneration: a key has one version and one validation, of it or
\* of what was stored behind it before the suite was read back.
OneResultPerKey == part = "generation" => G!TypeOK /\ G!OneResultPerKey
\* See RegressionDiagnosis: all requests hear of the one linked diagnosis.
OneDiagnosisAnswered == part = "diagnosis" => R!TypeOK /\ R!OneDiagnosisAnswered
\* See ValidationSandbox: a side that ended leaves no container or workspace,
\* but for the causes the invariant names, and its result is a real one.
SandboxIsClean == part = "sandbox" => D!SandboxIsClean
\* See OrderSaga: no unit of stock is lost or counted twice.
StockAccounted == part = "orders" => O!TypeOK /\ O!StockAccounted
\* See OrderSaga: what an order's status says of stock and payment is so.
StatusIsTrue == part = "orders" => O!StatusIsTrue
\* See OrderSaga: a refunded payment is never captured again.
RefundIsFinal == O!RefundIsFinal
=============================================================================
