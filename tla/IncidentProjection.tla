------------------------- MODULE IncidentProjection -------------------------
(***************************************************************************)
(* What durable diagnoses leave in the shared tables: steps, evidence, the *)
(* incident graph, the root cause and events, written by the transactions  *)
(* of DiagnosisOrchestrator and related to each other as the Level 3       *)
(* self-check demands.  Every diagnosis has at most one live executor (the *)
(* fence is DiagnosisLease's subject); it may stop anywhere, and the next  *)
(* attempt resumes with what the checkpoint holds.                         *)
(*                                                                         *)
(* A tool call is one step here, the evidence it stores is named by the    *)
(* key of its logical step, and a report is what the projection asks of    *)
(* it.  Deadlines, shutdowns and RUNNING steps are in DiagnosisLease.      *)
(***************************************************************************)
EXTENDS Integers, Sequences, FiniteSets

CONSTANTS Diagnosis,
          Service,      \* the service catalog
          DependsOn,    \* its dependencies
          Outside,      \* a downstream service that is not in the catalog
          Call,         \* logical tool calls, each with one evidence
          Names,        \* the services that a call's evidence lists
          Candidates,   \* its dependency candidates
          SqlCalls,     \* query_slow_queries, query_sql_digest, explain_sql
          Target,       \* initial service of a diagnosis, "unknown" when not resolved
          Trigger,      \* QUESTION, SERVICE or POD
          Findings,     \* what a synthesis may say, for the choices of Conclude
          MaxAttempts,
          MaxInterrupted  \* bound: diagnoses whose executor stops

\* What an instance gives, asserted where it is checked.  The expansion over
\* dependencies stops at 20 services; the catalog is smaller.
CatalogAssumption ==
  /\ Cardinality(Service) < 20 /\ DependsOn \in [Service -> SUBSET Service]
  /\ Service \cap {"none", "unknown", "no row"} = {}
  /\ Call \cap {"target-resolution", "final-report"} = {}
  /\ Names \in [Call -> SUBSET Service] /\ SqlCalls \subseteq Call
  /\ Candidates \in [Call -> SUBSET (Service \cup {Outside})]
RequestAssumption ==
  /\ Trigger \in [Diagnosis -> {"QUESTION", "SERVICE", "POD"}]
  /\ Target \in [Diagnosis -> Service \cup {"unknown"}]
  /\ \A d \in Diagnosis : Trigger[d] = "SERVICE" => Target[d] \in Service
  /\ Findings \subseteq [pod : BOOLEAN, sql : BOOLEAN, blamed : SUBSET Service, confirmed : BOOLEAN]
  /\ MaxAttempts \in Nat \ {0} /\ MaxInterrupted \in Nat

VARIABLES status, attempts,
          at,        \* what the executor of a diagnosis is about to do
          report,    \* the report in the checkpoint, NoReport before REPORT
          steps,     \* rows of diagnosis_investigation_steps by sequence_no
          evidence,  \* rows of diagnosis_evidence: the call, and its logical_step_key
          nodes,     \* rows of diagnosis_graph_nodes
          edges,     \* diagnosis_graph_edges: whose row an edge is; the key is the edge alone
          root,      \* row of diagnosis_root_causes
          events     \* event keys

vars == <<status, attempts, at, report, steps, evidence, nodes, edges, root, events>>

NoReport == [service |-> "none"]
NoRoot == [resource |-> "no row", evidence |-> {}]

Node == Service \cup {Outside, "mysql", "pod"}
EdgeId == Node \X Node \X {"DEPENDS_ON", "HTTP", "SQL", "RUNS_ON"}
EdgesOf(d) == {i \in DOMAIN edges : edges[i] = d}

Init ==
  /\ status = [d \in Diagnosis |-> "PENDING"] /\ attempts = [d \in Diagnosis |-> 0]
  /\ at = [d \in Diagnosis |-> "idle"]
  /\ report = [d \in Diagnosis |-> NoReport]
  /\ steps = [d \in Diagnosis |-> <<>>] /\ evidence = [d \in Diagnosis |-> {}]
  /\ nodes = [d \in Diagnosis |-> {}] /\ edges = <<>>
  /\ root = [d \in Diagnosis |-> NoRoot] /\ events = [d \in Diagnosis |-> {}]

-----------------------------------------------------------------------------
Goto(d, place) == at' = [at EXCEPT ![d] = place]
Emit(d, keys) == events' = [events EXCEPT ![d] = @ \cup keys]

StepOf(d, key) == {i \in DOMAIN steps[d] : steps[d][i].key = key}
HasStep(d, key) == StepOf(d, key) # {}
\* append_step: the next sequence_no; the key is unique in a diagnosis.
AppendStep(d, key, state, ids) ==
  steps' = [steps EXCEPT ![d] = Append(@, [key |-> key, status |-> state, evidence |-> ids])]
\* A step that an earlier attempt has written is left as it is.
AppendStepOnce(d, key, ids) ==
  IF HasStep(d, key) THEN UNCHANGED steps ELSE AppendStep(d, key, "COMPLETED", ids)

Claim(d) ==
  /\ at[d] = "idle" /\ status[d] \in {"PENDING", "INVESTIGATING"} /\ attempts[d] < MaxAttempts
  /\ status' = [status EXCEPT ![d] = "INVESTIGATING"]
  /\ attempts' = [attempts EXCEPT ![d] = @ + 1]
  /\ Goto(d, IF attempts[d] > 0 THEN "recover" ELSE "start")
  /\ UNCHANGED <<report, steps, evidence, nodes, edges, root, events>>

\* Between the two a later attempt is without its event (MISSING_RECOVERY_EVENT).
AppendRecovered(d) ==
  /\ at[d] = "recover" /\ Emit(d, {"diagnosis.recovered"}) /\ Goto(d, "start")
  /\ UNCHANGED <<status, attempts, report, steps, evidence, nodes, edges, root>>

\* _start_projection; a resumed workflow goes on where its checkpoint is.
StartProjection(d) ==
  /\ at[d] = "start"
  /\ AppendStepOnce(d, "target-resolution", {})
  /\ Emit(d, {"diagnosis.started"})
  /\ Goto(d, IF report[d] = NoReport THEN "investigate" ELSE "report")
  /\ UNCHANGED <<status, attempts, report, evidence, nodes, edges, root>>

\* Mutant: the step is completed before its evidence, in another transaction.
EvidenceRowLater(d, c) == evidence
\* complete_tool_step: step and evidence in one transaction.
EvidenceRow(d, c) == [evidence EXCEPT ![d] = @ \cup {[id |-> c, step |-> c]}]

CallTool(d, c) ==
  /\ at[d] = "investigate" /\ ~HasStep(d, c)
  /\ \/ AppendStep(d, c, "COMPLETED", {c}) /\ evidence' = EvidenceRow(d, c)
     \/ AppendStep(d, c, "FAILED", {}) /\ UNCHANGED evidence
  /\ UNCHANGED <<status, attempts, at, report, nodes, edges, root, events>>

Stored(d) == {row.id : row \in evidence[d]}

\* The checkpoint after VERIFY: the report is built from it by every attempt.
Conclude(d) ==
  /\ at[d] = "investigate"
  /\ \E service \in (IF Target[d] # "unknown" THEN {Target[d]} ELSE Service \cup {"unknown"}),
        f \in Findings :
       /\ f.pod => service # "unknown"
       /\ report' = [report EXCEPT ![d] =
            [service |-> service, evidence |-> Stored(d), pod |-> f.pod, sql |-> f.sql,
             blamed |-> f.blamed, cited |-> IF f.confirmed THEN Stored(d) ELSE {}]]
  /\ Goto(d, "report")
  /\ UNCHANGED <<status, attempts, steps, evidence, nodes, edges, root, events>>

-----------------------------------------------------------------------------
(* _build_graph and _build_root_cause, functions of the report.            *)

\* Breadth first over the dependencies of what was found: the services that
\* every set has which has the found ones and is closed under DependsOn.
Closed(R) == \A s \in R : DependsOn[s] \subseteq R
Expand(found) == {s \in Service : \A R \in SUBSET Service : found \subseteq R /\ Closed(R) => s \in R}

AffectedServices(d) ==
  Expand(({report[d].service} \cap Service)
           \cup (UNION {Names[c] \cup (Candidates[c] \cap Service) : c \in report[d].evidence})
           \cup (IF Trigger[d] = "SERVICE" THEN {Target[d]} ELSE {}))

HasSql(d) == report[d].evidence \cap SqlCalls # {}
HasPod(d) == Trigger[d] = "POD" \/ report[d].pod

\* Without initial_target there is no namespace to show (AttributeError).
LacksNamespace(d) == HasPod(d) /\ Trigger[d] = "QUESTION"

GraphNodes(d) ==
  AffectedServices(d) \cup (IF HasSql(d) THEN {"mysql"} ELSE {})
                      \cup (IF HasPod(d) THEN {"pod"} ELSE {})

Hub(d) == {report[d].service} \cap AffectedServices(d)
\* The database belongs to the report's service, or else to the first one.
SqlSource(d) ==
  IF Hub(d) # {} \/ AffectedServices(d) = {} THEN Hub(d)
                 ELSE {CHOOSE s \in AffectedServices(d) : TRUE}

HttpTargets(d) == (UNION {Candidates[c] : c \in report[d].evidence}) \cap AffectedServices(d)

GraphEdges(d) ==
  {i \in AffectedServices(d) \X AffectedServices(d) \X {"DEPENDS_ON"} : i[2] \in DependsOn[i[1]]}
  \cup {<<s, t, "HTTP">> : s \in Hub(d), t \in HttpTargets(d)}
  \cup (IF HasSql(d) THEN {<<s, "mysql", "SQL">> : s \in SqlSource(d)} ELSE {})
  \cup (IF HasPod(d) THEN {<<s, "pod", "RUNS_ON">> : s \in Hub(d)} ELSE {})

RootResource(d) ==
  IF HasSql(d) /\ report[d].sql THEN "mysql"
  ELSE IF report[d].blamed \cap AffectedServices(d) = {} THEN "none"
  ELSE CHOOSE s \in report[d].blamed \cap AffectedServices(d) : TRUE

RootEvidence(d) == IF report[d].cited # {} THEN report[d].cited ELSE report[d].evidence

-----------------------------------------------------------------------------
\* Mutant: INSERT ... ON DUPLICATE KEY UPDATE diagnosis_id.
OverwritesEdges(d) == FALSE
\* The edge's identifier does not name the diagnosis: INSERT meets the row of
\* another one.  The diagnosis' own rows were deleted just before.
EdgeExists(d) == \E i \in GraphEdges(d) \cap DOMAIN edges : edges[i] # d

\* Every evidence of the report, with the key of the step that has it.
UpsertEvidence(d) ==
  evidence' = [evidence EXCEPT ![d] =
    {[id |-> c, step |-> IF HasStep(d, c) THEN c ELSE "none"] : c \in report[d].evidence}
      \cup {row \in @ : row.id \notin report[d].evidence}]

ReplaceGraph(d) ==
  /\ nodes' = [nodes EXCEPT ![d] = GraphNodes(d)]
  /\ LET own == GraphEdges(d)
     IN  edges' = [i \in own \cup (DOMAIN edges \ EdgesOf(d)) |->
                     IF i \in own THEN d ELSE edges[i]]

UpsertRootCause(d) ==
  root' = [root EXCEPT ![d] = [resource |-> RootResource(d), evidence |-> RootEvidence(d)]]

\* _persist_report, in one transaction; its exception fails the diagnosis.
PersistReport(d) ==
  /\ at[d] = "report" /\ ~LacksNamespace(d) /\ ~EdgeExists(d)
  /\ UpsertEvidence(d) /\ ReplaceGraph(d) /\ UpsertRootCause(d)
  /\ AppendStepOnce(d, "final-report", RootEvidence(d))
  /\ Emit(d, {"graph.updated", "root_cause.generated"})
  /\ Goto(d, "complete")
  /\ UNCHANGED <<status, attempts, report>>

ProjectionFails(d) ==
  /\ at[d] = "report" /\ (LacksNamespace(d) \/ EdgeExists(d))
  /\ status' = [status EXCEPT ![d] = "FAILED"] /\ Emit(d, {"diagnosis.failed"})
  /\ Goto(d, "idle")
  /\ UNCHANGED <<attempts, report, steps, evidence, nodes, edges, root>>

CompleteSession(d) ==
  /\ at[d] = "complete"
  /\ status' = [status EXCEPT ![d] = "COMPLETED"] /\ Emit(d, {"diagnosis.completed"})
  /\ Goto(d, "idle")
  /\ UNCHANGED <<attempts, report, steps, evidence, nodes, edges, root>>

\* The executor stops.
Crash(d) ==
  /\ at[d] # "idle" /\ Goto(d, "idle")
  /\ LET interrupted == {e \in Diagnosis : attempts[e] > 1 \/ (at[e] = "idle" /\ status[e] = "INVESTIGATING")}
     IN  Cardinality(interrupted \cup {d}) <= MaxInterrupted
  /\ UNCHANGED <<status, attempts, report, steps, evidence, nodes, edges, root, events>>

MarkMaxAttempts(d) ==
  /\ at[d] = "idle" /\ status[d] = "INVESTIGATING" /\ attempts[d] = MaxAttempts
  /\ status' = [status EXCEPT ![d] = "FAILED"] /\ Emit(d, {"diagnosis.failed"})
  /\ UNCHANGED <<attempts, at, report, steps, evidence, nodes, edges, root>>

Next == \E d \in Diagnosis :
  \/ Claim(d) \/ AppendRecovered(d) \/ StartProjection(d) \/ (\E c \in Call : CallTool(d, c)) \/ Conclude(d)
  \/ PersistReport(d) \/ ProjectionFails(d) \/ CompleteSession(d)
  \/ Crash(d) \/ MarkMaxAttempts(d)

Spec == Init /\ [][Next]_vars
-----------------------------------------------------------------------------
(* DiagnosisSelfCheck, Level 3: the issues of severity ERROR that relate   *)
(* rows of different tables, and the warning about the terminal event.     *)
StepKeys(d) == {steps[d][i].key : i \in DOMAIN steps[d]}

Issues(d) ==
  LET found == [
    duplicate |-> \E key \in StepKeys(d) : Cardinality(StepOf(d, key)) > 1,
    stepEvidence |-> \E i \in DOMAIN steps[d] : ~(steps[d][i].evidence \subseteq Stored(d)),
    logicalStep |-> \E row \in evidence[d] : row.step \notin StepKeys(d) \cup {"none"},
    noRoot |-> status[d] = "COMPLETED" /\ root[d] = NoRoot,
    noReport |-> status[d] = "COMPLETED" /\ ~HasStep(d, "final-report"),
    noTerminalEvent |-> \/ status[d] = "COMPLETED" /\ "diagnosis.completed" \notin events[d]
                        \/ status[d] = "FAILED" /\ "diagnosis.failed" \notin events[d],
    rootEvidence |-> ~(root[d].evidence \subseteq Stored(d)),
    danglingEdge |-> \E i \in EdgesOf(d) : ~({i[1], i[2]} \subseteq nodes[d])]
  IN {code \in DOMAIN found : found[code]}

\* At every moment, in the middle of an attempt, between attempts and when a
\* diagnosis has ended, the self-check finds the tables consistent: nothing
\* refers to a row that another transaction has yet to write or has removed.
TablesAgree == \A d \in Diagnosis : Issues(d) = {}

\* A COMPLETED diagnosis shows the graph, the root cause and the evidence of
\* its own report, however many attempts projected it and whatever other
\* diagnoses of the same services have written since; its root cause is on
\* the graph, its REPORT step cites what the root cause cites, and its events
\* tell of its recovery.
CompletedIsShown ==
  \A d \in Diagnosis : status[d] = "COMPLETED" =>
    /\ attempts[d] > 1 => "diagnosis.recovered" \in events[d]
    /\ EdgesOf(d) = GraphEdges(d) /\ nodes[d] = GraphNodes(d)
    /\ root[d].resource \in nodes[d] \cup {"none"} /\ root[d].evidence = RootEvidence(d)
    /\ \A i \in StepOf(d, "final-report") : steps[d][i].evidence = root[d].evidence

\* A diagnosis that has come to its report does not fail for what another
\* diagnosis has stored.
ReportIsStored ==
  [][\A d \in Diagnosis : at[d] = "report" /\ ~LacksNamespace(d) => status'[d] # "FAILED"]_vars

TypeOK ==
  /\ status \in [Diagnosis -> {"PENDING", "INVESTIGATING", "COMPLETED", "FAILED"}]
  /\ attempts \in [Diagnosis -> 0 .. MaxAttempts]
  /\ at \in [Diagnosis -> {"idle", "recover", "start", "investigate", "report", "complete"}]
  /\ \A d \in Diagnosis : /\ Stored(d) \subseteq Call /\ nodes[d] \subseteq Node
                          /\ StepKeys(d) \subseteq Call \cup {"target-resolution", "final-report"}
  /\ DOMAIN edges \subseteq EdgeId /\ \A i \in DOMAIN edges : edges[i] \in Diagnosis
=============================================================================
