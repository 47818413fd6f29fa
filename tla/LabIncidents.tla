---------------------------- MODULE LabIncidents ----------------------------
(***************************************************************************)
(* The incidents of the lab (evals/SRE-001 to SRE-010) as Investigation    *)
(* needs them: what every tool shows while one lasts, and the questions    *)
(* asked about it.                                                         *)
(***************************************************************************)
EXTENDS Naturals

LOCAL ToolCall(t, a) == [tool |-> t, arg |-> a]
LOCAL TraceIds == {"logged", "slowest", "downstream_slowest"}

\* What each tool shows while an incident lasts, as the lab services and the
\* observability tools report it.
Seen(incident, c) ==
  CASE c.tool = "list_pods" ->
         {"pod", "commit"} \cup (IF incident = "regression" THEN {"mixed"} ELSE {})
    [] c = ToolCall("query_metrics", "resources") /\ incident = "hot_pod" -> {"uneven_pods"}
    [] c = ToolCall("query_logs", "service") ->
         CASE incident = "cpu"  -> {"cpu_saturation"}
           [] incident = "pool" -> {"jdbc", "trace_id"}
           [] incident = "slow_sql" -> {"jdbc", "trace_id"}
           [] incident = "database" -> {"trace_id", "timeout"}
           [] incident \in {"dependency", "retries", "split", "regression"} -> {"trace_id"}
           [] OTHER -> {}
    [] c = ToolCall("query_logs", "downstream") /\ incident = "retry_logs" -> {"repeated_id"}
    [] c = ToolCall("query_trace", "logged") ->
         CASE incident = "database" -> {"database_span", "slow_dependency"}
           [] incident = "dependency" -> {"slow_dependency", "service"}
           [] incident = "retries" -> {"three_calls", "slow_dependency"}
           [] incident = "split" -> {"two_calls"}
           [] incident \in {"slow_sql", "regression", "pool"} -> {"sql"}
           [] OTHER -> {}
    [] c.tool = "query_trace" /\ c.arg \notin TraceIds -> {"candidates"}
    [] c = ToolCall("query_trace", "downstream_slowest") /\ incident = "split" -> {"two_calls"}
    [] c = ToolCall("query_slow_queries", "recent")
         /\ incident \in {"slow_sql", "regression", "pool"} -> {"rows", "sql"}
    [] c = ToolCall("explain_sql", "statement") -> {"full_scan"}
    [] c = ToolCall("get_pod", "pod") ->
         CASE incident = "probe" -> {"bad_probe"} [] incident = "oom" -> {"oomkilled"}
           [] OTHER -> {}
    [] c = ToolCall("get_pod_events", "pod") /\ incident = "probe" -> {"liveness_failed"}
    [] OTHER -> {}

Question(incident, words, cause) ==
  [incident |-> incident, words |-> words, cause |-> cause, known |-> TRUE, scan |-> FALSE,
   routed |-> FALSE, dependencies |-> {"downstream"}]

LabCases ==
  {Question("probe", {"restart"}, "kubernetes_restart"),
   Question("oom", {"restart"}, "resource_exhaustion"),
   Question("hot_pod", {"slow", "intermittent"}, "single_pod_degradation"),
   Question("cpu", {"slow"}, "cpu_saturation"),
   Question("retries", {"retry"}, "retry_storm"),
   Question("retry_logs", {"retry"}, "retry_storm"),
   Question("dependency", {"timeout"}, "dependency_timeout"),
   Question("regression", {"slow", "release"}, "deployment_regression"),
   Question("pool", {"error"}, "connection_pool"),
   Question("slow_sql", {"slow"}, "slow_query"),
   Question("database", {"slow"}, "database_span"),
   [Question("oom", {"error", "restart"}, "resource_exhaustion")
      EXCEPT !.routed = TRUE, !.scan = TRUE],
   [Question("retries", {"retry"}, "retry_storm") EXCEPT !.scan = TRUE],
   [Question("none", {"error"}, "none") EXCEPT !.known = FALSE],
   [Question("none", {}, "none") EXCEPT !.known = FALSE, !.scan = TRUE]}

\* One request calls a downstream service twice on each of two traces.
SplitCases == {Question("split", {"retry"}, "none")}

\* What a model asks for beyond the rules.
ModelCalls == {ToolCall("query_metrics", "other"), ToolCall("get_pod", "pod")}
==============================================================================
