---------------------------- MODULE Investigation ----------------------------
(***************************************************************************)
(* What one diagnosis does between TRIAGE and REPORT: the tool calls the   *)
(* workflow scripts (app/workflow/diagnosis.py), the calls the planner     *)
(* chooses from the evidence (app/workflow/planning), the rules that turn  *)
(* evidence into a root cause and the gate every conclusion passes         *)
(* (app/workflow/evidence_gate.py).  DiagnosisLease is about who runs the  *)
(* diagnosis; this module is about what it finds, so it has one executor   *)
(* that crashes and resumes from the checkpoint.                           *)
(*                                                                         *)
(* Simplifications:                                                        *)
(*  - a tool result is an error, empty, or the signals an incident leaves  *)
(*    in that tool (Shows, the environment); texts and numbers are the     *)
(*    signals that the rules read from them;                               *)
(*  - a model gateway is configured, and the SQL of a result can be          *)
(*    explained (is_explainable_sql);                                      *)
(*  - the last of several items a rule could cite is any of them, as the   *)
(*    calls of a group answer in any order;                                *)
(*  - the rows the timeline gets for the planner's failure, the synthesis  *)
(*    and the deadline are no tool calls and are left out of it.           *)
(***************************************************************************)
EXTENDS Integers, Sequences, FiniteSets, FiniteSetsExt, SequencesExt, Functions

CONSTANTS Case,         \* the questions asked, each with the incident behind it
          Shows(_, _),  \* signals that a call finds while an incident lasts
          Guess,        \* calls the model may choose when no rule applies
          MaxSteps,     \* max_steps
          MaxFailures,  \* bound: calls that fail or find nothing
          MaxCrashes    \* bound: crashes of the executor

\* main.py gives it 8 to 12 steps, 12 by default.
StepsAssumption == MaxSteps \in Nat /\ MaxSteps >= 8

VARIABLES case,      \* the diagnosis
          pos,       \* the phase it is in (BASELINE_OBSERVATION is PODS, then BASELINE)
          open,      \* the group of calls of this phase has been issued
          running,   \* calls under way: their steps are RUNNING
          stale,     \* steps that a crashed executor has left RUNNING
          pending,   \* those of them to be run first after a resume
          records,   \* rows of the timeline, for each call
          shown,     \* the evidence: what each COMPLETED call found
          synthesis, verdict,
          failures, crashes

work == <<running, stale, pending, records, shown>>
env  == <<failures, crashes>>
vars == <<case, pos, open, work, synthesis, verdict, env>>

ToolCall(t, a) == [tool |-> t, arg |-> a]

Put(f, c, v) == [x \in DOMAIN f \cup {c} |-> IF x = c THEN v ELSE f[x]]
Timeline == DOMAIN records
Steps == FoldFunction(+, 0, records)

NoSynthesis == [rule |-> "none", cited |-> {}, contradicted |-> FALSE]
Insufficient(rule) == [rule |-> rule, cited |-> {}, contradicted |-> FALSE]

Init ==
  /\ case \in Case
  /\ pos = "SYSTEM_SCAN" /\ open = FALSE
  /\ running = {} /\ stale = {} /\ pending = {}
  /\ records = <<>> /\ shown = <<>>
  /\ synthesis = NoSynthesis /\ verdict = "none"
  /\ failures = 0 /\ crashes = 0
-----------------------------------------------------------------------------
(* TRIAGE.                                                                 *)

SymptomOf == [retry |-> "dependency_timeout", timeout |-> "dependency_timeout",
              slow |-> "latency", error |-> "5xx", restart |-> "pod_restart"]

\* A symptom the intent router gave is read in another order than the query.
Precedence == IF case.routed THEN <<"retry", "timeout", "restart", "slow", "error">>
                             ELSE <<"retry", "timeout", "slow", "error", "restart">>
Symptom ==
  LET said == SelectSeq(Precedence, LAMBDA w : w \in case.words)
  IN  IF said = <<>> THEN "general_incident" ELSE SymptomOf[Head(said)]

Says(word) == word \in case.words
-----------------------------------------------------------------------------
(* Evidence.                                                               *)
MetricTools == {"query_metrics", "get_service_health"}
KubernetesTools == {"get_pod", "get_pod_events", "get_restart_count", "get_deployment",
                    "get_container_image"}
DirectTools == MetricTools \cup KubernetesTools
                 \cup {"query_logs", "query_slow_queries", "explain_sql"}
TraceIds == {"logged", "slowest", "downstream_slowest"}

Supports(c) == c \in DOMAIN shown /\ shown[c] = "found"
Found == {c \in DOMAIN shown : shown[c] = "found"}

\* A search for traces is no direct evidence, a trace is.
IsDirect(c) == IF c.tool = "query_trace" THEN c.arg \in TraceIds ELSE c.tool \in DirectTools

With(signal) == {c \in Found : signal \in Shows(case.incident, c)}
Of(tools) == {c \in Found : c.tool \in tools}
Direct(tools) == {c \in Of(tools) : IsDirect(c)}
Metrics == Direct(MetricTools)
Logs == Direct({"query_logs"})
Traces == Direct({"query_trace"})

\* extract_pod_runtime and find_pod_name read the pods of the service.
Runtime(signal) == ToolCall("list_pods", "service") \in With(signal)
-----------------------------------------------------------------------------
(* The calls each phase makes.                                             *)

Group ==
  CASE pos = "SYSTEM_SCAN" /\ case.scan ->
         <<ToolCall("list_deployments", "all"), ToolCall("list_pods", "all")>>
    [] pos = "TRIAGE" /\ ~case.known /\ ~case.scan ->
         <<ToolCall("list_deployments", "all")>>
    [] pos = "PODS" /\ case.known ->
         <<ToolCall("list_pods", "service")>>
    [] pos = "BASELINE" /\ case.known ->
         <<ToolCall("get_service_health", "service"), ToolCall("query_metrics", "p95"),
           ToolCall("query_metrics", "errors"), ToolCall("query_metrics", "resources"),
           ToolCall("query_logs", "service")>>
    [] pos = "BASELINE" /\ ~case.known /\ case.scan ->
         <<ToolCall("query_metrics", "up"), ToolCall("query_metrics", "all_errors"),
           ToolCall("query_metrics", "all_resources"), ToolCall("query_logs", "all_errors")>>
    [] pos = "BASELINE" /\ ~case.known /\ ~case.scan ->
         <<ToolCall("query_metrics", "up"), ToolCall("query_logs", "all")>>
    [] OTHER -> <<>>

NextPhase == [SYSTEM_SCAN |-> "TRIAGE", TRIAGE |-> "PODS", PODS |-> "BASELINE",
              BASELINE |-> "INVESTIGATE"]
Scripted == DOMAIN NextPhase

\* What is left of the budget is given out before the group starts.
Selected ==
  LET available == MaxSteps - Steps
  IN  Range(SubSeq(Group, 1, IF available < Len(Group) THEN available ELSE Len(Group)))


\* begin_tool_step: a COMPLETED step answers at once and adds nothing.
Begin(calls) ==
  LET runs == calls \ DOMAIN shown
  IN  running' = runs /\ stale' = stale \ runs /\ UNCHANGED <<records, shown>>

CallGroup ==
  /\ pos \in Scripted /\ ~open /\ open' = TRUE
  /\ Begin(Selected)
  /\ UNCHANGED <<case, pos, pending, synthesis, verdict, env>>

NextScripted ==
  /\ pos \in Scripted /\ open /\ running = {}
  /\ pos' = NextPhase[pos] /\ open' = FALSE
  /\ UNCHANGED <<case, work, synthesis, verdict, env>>

\* The record, the evidence and complete_tool, which commits the step with a
\* checkpoint of both: no await in between.  A FAILED step has a record only.
Answer(c, outcome) ==
  /\ c \in running /\ running' = running \ {c}
  /\ outcome # "found" => failures < MaxFailures
  /\ failures' = IF outcome = "found" THEN failures ELSE failures + 1
  /\ records' = Put(records, c, IF c \in Timeline THEN records[c] + 1 ELSE 1)
  /\ shown' = IF outcome = "error" THEN shown ELSE Put(shown, c, outcome)
  /\ UNCHANGED <<case, pos, open, stale, pending, synthesis, verdict, crashes>>
-----------------------------------------------------------------------------
(* The deterministic planner: the calls of the first rule that has one     *)
(* left to make.                                                           *)

Untried(calls) == calls \ Timeline
Tried(tool) == \E c \in Timeline : c.tool = tool

LoggedTrace == Untried({ToolCall("query_trace", "logged") :
                          c \in {d \in With("trace_id") : d.tool # "query_trace"}})
SlowestTrace ==
  Untried({ToolCall("query_trace", IF c.arg = "service" THEN "slowest" ELSE "downstream_slowest") :
             c \in {d \in With("candidates") : d.tool = "query_trace"}})
SlowQueries == IF Symptom \in {"latency", "5xx"} /\ ~Tried("query_slow_queries")
               THEN {ToolCall("query_slow_queries", "recent")} ELSE {}
Explain == Untried({ToolCall("explain_sql", "statement") : c \in With("sql")})

\* Mutant: the logs of the dependencies are left to the model.
RetryTraces(tool) == IF Says("retry") /\ tool = "query_trace"
                     THEN Untried({ToolCall(tool, d) : d \in case.dependencies}) ELSE {}
RetryCalls(tool) == IF Says("retry") THEN Untried({ToolCall(tool, d) : d \in case.dependencies})
                                     ELSE {}
PodCall(tool) == IF Symptom = "pod_restart" /\ Runtime("pod")
                 THEN Untried({ToolCall(tool, "pod")}) ELSE {}
ServiceTrace == IF Symptom \in {"latency", "dependency_timeout"} /\ ~Tried("query_trace")
                THEN {ToolCall("query_trace", "service")} ELSE {}
DownstreamLogs == IF Symptom = "dependency_timeout"
                  THEN Untried({ToolCall("query_logs", "downstream") : c \in With("service")}) ELSE {}
Release(tool) == IF (Runtime("mixed") \/ Says("release")) /\ Runtime("commit")
                 THEN Untried({ToolCall(tool, "running")}) ELSE {}

DecisionRules ==
  <<LoggedTrace, SlowestTrace, SlowQueries, Explain,
    RetryCalls("query_trace"), RetryCalls("query_logs"),
    PodCall("get_pod"), PodCall("get_pod_events"), PodCall("get_restart_count"),
    ServiceTrace, DownstreamLogs, Release("get_commit"), Release("get_commit_diff")>>

FirstOf(rules) ==
  LET left == SelectSeq(rules, LAMBDA r : r # {}) IN IF left = <<>> THEN {} ELSE Head(left)
RuleCalls == FirstOf(DecisionRules)

EnoughEvidence == Cardinality({c \in Found : IsDirect(c)}) >= 2

Planning == /\ pos = "INVESTIGATE" /\ case.known /\ pending = {}
            /\ running = {} /\ Steps < MaxSteps

CallOne(c) ==
  /\ Begin({c})
  /\ UNCHANGED <<case, pos, open, pending, synthesis, verdict, env>>

FollowRule == Planning /\ \E c \in RuleCalls : CallOne(c)

\* No rule applies: the model proposes a call that is not a repetition.
FollowModel ==
  /\ Planning /\ RuleCalls = {} /\ ~EnoughEvidence
  /\ \E c \in Guess \ Timeline : CallOne(c)

\* Calls that the last executor left RUNNING come first.
ResumePending ==
  /\ pos = "INVESTIGATE" /\ case.known /\ running = {} /\ Steps < MaxSteps
  /\ \E c \in pending : Begin({c}) /\ pending' = pending \ {c}
  /\ UNCHANGED <<case, pos, open, synthesis, verdict, env>>

\* Mutant: a budget that is used up is waited for.
StopWhenPlanned ==
  /\ pos = "INVESTIGATE" /\ running = {}
  /\ ~case.known \/ (Planning /\ RuleCalls = {})
  /\ pos' = "VERIFY" /\ pending' = {}
  /\ UNCHANGED <<case, open, running, stale, records, shown, synthesis, verdict, env>>

\* Enough evidence, a model that stops, repeats a call or fails, or no budget.
StopInvestigating ==
  /\ pos = "INVESTIGATE" /\ running = {}
  /\ ~case.known \/ Steps >= MaxSteps \/ (Planning /\ RuleCalls = {})
  /\ pos' = "VERIFY" /\ pending' = {}
  /\ UNCHANGED <<case, open, running, stale, records, shown, synthesis, verdict, env>>
-----------------------------------------------------------------------------
(* The deterministic synthesis: for each rule the sets of items it may     *)
(* cite, none when it does not apply.                                      *)

KubernetesRestart ==
  IF Symptom = "pod_restart"
  THEN {{i, l, r} : i \in Direct({"get_pod"}) \cap With("bad_probe"),
                    l \in Direct({"get_pod_events"}) \cap With("liveness_failed"),
                    r \in Direct({"get_restart_count"})}
  ELSE {}

SinglePod ==
  IF ~Runtime("mixed") /\ Says("intermittent")
  THEN {{p, m} : p \in Of({"list_pods"}), m \in Metrics \cap With("uneven_pods")} ELSE {}

ResourceExhaustion ==
  {{o, m} : o \in Direct(KubernetesTools) \cap With("oomkilled"), m \in Metrics}

CpuSaturation ==
  IF With("cpu_saturation") # {} THEN {{l, m} : l \in Logs, m \in Metrics} ELSE {}

\* Spans to one downstream service on a trace, and on all traces together.
Spans(c) == IF c \in With("three_calls") THEN 3 ELSE IF c \in With("two_calls") THEN 2 ELSE 0
RepeatedSpans == Says("retry") /\ MapThenSumSet(Spans, Traces) >= 3
                 /\ Logs # {} /\ Metrics # {}

RetryStorm ==
  IF RepeatedSpans
  THEN {{t, l, m} : t \in {x \in Traces : Spans(x) >= 3}, l \in Logs, m \in Metrics}
  ELSE IF Says("retry")
  THEN {{t, l, m} : t \in Traces, l \in Logs \cap With("repeated_id"), m \in Metrics}
  ELSE {}

DependencyTimeout ==
  IF Symptom = "dependency_timeout"
  THEN {{t, l} : t \in Traces \cap With("slow_dependency"), l \in Logs} ELSE {}

DeploymentRegression ==
  IF Says("release")
  THEN {{p, d, s, e} : p \in Of({"list_pods"}), d \in Of({"get_commit_diff"}),
                       s \in Of({"query_slow_queries"}),
                       e \in Of({"explain_sql"}) \cap With("full_scan")}
  ELSE {}

ConnectionPool ==
  IF Symptom = "5xx" /\ Logs \cap With("jdbc") # {}
  THEN {{l, s} : l \in Logs, s \in Of({"query_slow_queries"})} ELSE {}

SlowQuery ==
  {{s, e} \cup t : s \in Of({"query_slow_queries"}) \cap With("rows"),
                   e \in Of({"explain_sql"}) \cap With("full_scan"),
                   t \in IF Traces = {} THEN {{}} ELSE {{x} : x \in Traces}}

DatabaseSpan ==
  IF Symptom \in {"latency", "dependency_timeout"}
  THEN {{m, l, t} : m \in Metrics, l \in Logs \cap With("timeout") \cap With("trace_id"),
                    t \in {c \in Traces \cap With("database_span") : c.arg = "logged"}}
  ELSE {}

SynthesisRules ==
  <<"kubernetes_restart", "single_pod_degradation", "resource_exhaustion", "cpu_saturation",
    "retry_storm", "dependency_timeout", "deployment_regression", "connection_pool",
    "slow_query", "database_span">>

\* What a rule may cite for its conclusion; nothing when it does not apply.
Cites(rule) ==
  CASE rule = "kubernetes_restart" -> KubernetesRestart
    [] rule = "single_pod_degradation" -> SinglePod
    [] rule = "resource_exhaustion" -> ResourceExhaustion
    [] rule = "cpu_saturation" -> CpuSaturation
    [] rule = "retry_storm" -> RetryStorm
    [] rule = "dependency_timeout" -> DependencyTimeout
    [] rule = "deployment_regression" -> DeploymentRegression
    [] rule = "connection_pool" -> ConnectionPool
    [] rule = "slow_query" -> SlowQuery
    [] rule = "database_span" -> DatabaseSpan

Applying == {i \in DOMAIN SynthesisRules : Cites(SynthesisRules[i]) # {}}

\* next() without a default: no single trace has the spans the rule counted.
\* The rules before retry_storm come first.
RuleRaises ==
  /\ RepeatedSpans /\ RetryStorm = {}
  /\ \A i \in 1..4 : i \notin Applying

\* The model cites what it likes; identifiers it invents are dropped.
ModelSyntheses ==
  {Insufficient("model")} \cup
    [rule : {"model"}, cited : UNION {kSubset(k, DOMAIN shown) : k \in 0..2},
     contradicted : BOOLEAN]

Synthesize ==
  /\ pos = "VERIFY"
  /\ IF RuleRaises
     THEN pos' = "END" /\ verdict' = "failed" /\ UNCHANGED synthesis
     ELSE /\ pos' = "REPORT" /\ UNCHANGED verdict
          /\ IF Applying = {} THEN synthesis' \in ModelSyntheses
             ELSE \E i \in Applying :
                    /\ \A j \in Applying : i <= j
                    /\ \E cited \in Cites(SynthesisRules[i]) :
                         synthesis' = [rule |-> SynthesisRules[i], cited |-> cited,
                                       contradicted |-> FALSE]
  /\ UNCHANGED <<case, open, work, env>>
-----------------------------------------------------------------------------
(* The gate and the report.                                                *)

Passed(s) ==
  /\ Cardinality(s.cited) >= 2 /\ ~s.contradicted
  /\ \A c \in s.cited : Supports(c)
  /\ \E c \in s.cited : IsDirect(c)

Report ==
  /\ pos = "REPORT" /\ pos' = "END"
  /\ verdict' = IF Passed(synthesis) THEN "confirmed" ELSE "insufficient_evidence"
  /\ UNCHANGED <<case, open, work, synthesis, env>>

\* wait_for cancels whatever is under way and replaces the synthesis.
Deadline ==
  /\ pos # "END" /\ pos' = "END"
  /\ running' = {} /\ stale' = stale \cup running /\ pending' = {}
  /\ synthesis' = Insufficient("deadline")
  /\ verdict' = "insufficient_evidence"
  /\ UNCHANGED <<case, open, records, shown, env>>
-----------------------------------------------------------------------------
\* Mutant: the interrupted phase counts as done.
ResumedAfter == IF pos \in Scripted THEN NextPhase[pos] ELSE pos

\* Where the next executor starts: at the phase that was not completed.
ResumedPhase == IF pos = "BASELINE" THEN "PODS" ELSE pos

Crash ==
  /\ pos # "END" /\ crashes < MaxCrashes /\ crashes' = crashes + 1
  /\ pos' = ResumedPhase /\ open' = FALSE
  /\ running' = {} /\ stale' = stale \cup running
  /\ pending' = IF pos = "INVESTIGATE" THEN stale' ELSE {}
  /\ UNCHANGED <<case, records, shown, synthesis, verdict, failures>>

Outcomes == {"found", "empty", "error"}

Work ==
  \/ CallGroup \/ NextScripted
  \/ \E c \in running, outcome \in Outcomes : Answer(c, outcome)
  \/ ResumePending \/ FollowRule \/ FollowModel \/ StopInvestigating
  \/ Synthesize \/ Report

Next == Work \/ Deadline \/ Crash

Spec == Init /\ [][Next]_vars

\* The event loop runs the diagnosis, every tool has its own time-out, and an
\* abandoned diagnosis is taken up again (the recovery of DiagnosisLease).
FairSpec == Spec /\ WF_vars(Work)
-----------------------------------------------------------------------------
\* Every variable has its type.
TypeOK ==
  /\ pos \in Scripted \cup {"INVESTIGATE", "VERIFY", "REPORT", "END"} /\ open \in BOOLEAN
  /\ Range(records) \subseteq Nat \ {0} /\ Range(shown) \subseteq {"found", "empty"}
  /\ DOMAIN shown \subseteq Timeline /\ pending \subseteq stale
  /\ running \cap (stale \cup DOMAIN shown) = {}
  /\ verdict \in {"none", "confirmed", "insufficient_evidence", "failed"}

\* Calls that run together, and calls that run again after a resume, never
\* take the timeline past max_steps (README.md: the budget is reserved before
\* the calls are dispatched).
BudgetKept == Steps <= MaxSteps

\* The scripted observation of a known service is complete before anything is
\* planned or concluded, also after an interruption half-way.  A group's share
\* of the budget is cut before its completed calls turn out to be free: only a
\* failed call that was made again, or a budget below the default when the
\* group is made again, can cost a later call of it.
BaselineComplete ==
  /\ pos \in {"INVESTIGATE", "VERIFY", "REPORT"} /\ case.known
  /\ \A c \in Timeline : records[c] = 1
  /\ crashes = 0 \/ MaxSteps >= 12
  => {ToolCall("list_pods", "service"), ToolCall("get_service_health", "service"),
      ToolCall("query_metrics", "p95"), ToolCall("query_metrics", "errors"),
      ToolCall("query_metrics", "resources"), ToolCall("query_logs", "service")} \subseteq Timeline

\* The rules and the gate agree: a root cause that a rule confirms is never
\* turned down by the gate, whatever failed on the way to it.
RuleConclusionStands ==
  pos = "REPORT" /\ synthesis.rule \notin {"none", "model", "deadline"} => Passed(synthesis)

\* The planner collects what the rules need: when no call fails and the time
\* suffices, the diagnosis confirms the incident behind the question, with or
\* without a crash in between.
IncidentFound ==
  pos = "END" /\ failures = 0 /\ synthesis.rule # "deadline" /\ case.cause # "none" =>
    verdict = "confirmed" /\ synthesis.rule = case.cause

\* A model that fails or answers nonsense, and evidence of any shape, degrade
\* the conclusion; they do not end the diagnosis with an exception
\* (DiagnosisWorkflow._synthesize_with_gateway).
SynthesisDegrades == verdict # "failed"

\* Every diagnosis comes to a report.
EventuallyReported == <>(pos = "END")
=============================================================================
