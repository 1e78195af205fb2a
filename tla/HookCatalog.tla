----------------------------- MODULE HookCatalog -----------------------------
(***************************************************************************)
(* The tables of the instrumentation engine: hook categories and the hook  *)
(* types that realise them, the rule that detects each one in a source,    *)
(* the capability signals that make one required, and its risk entry.      *)
(* A source is a sequence of lines (PatchSource); here only the fields     *)
(* name, type and kwarg of a line matter. One name of a keyword or signal  *)
(* set stands for the whole set; a name in two sets is kept in both.       *)
(***************************************************************************)
EXTENDS Naturals, Sequences, FiniteSets

(* The order of the detection rules, which is also the order of the enum. *)
CategoryOrder == <<"TASK_STARTED", "TASK_COMPLETED", "TASK_FAILED", "LLM_CALL",
    "SYNTHESIZE", "TOOL_CALL", "WEB_SEARCH", "TOKEN_USAGE", "BUDGET_WARN",
    "BUDGET_EXHAUSTED", "OBSERVABILITY", "POLICY", "APPROVAL", "FEATURE_FLAG",
    "RECOVERY", "DEGRADATION">>
HookCategory == {CategoryOrder[i] : i \in 1..Len(CategoryOrder)}

(* HookType has no member named after the last six categories. *)
HookType == {"STEP", "GATE_EVALUATED", "APPROVAL_REQUIRED", "SIGNAL_RECEIVED",
    "AUTONOMY_DEGRADED", "ACTION_BLOCKED", "AGENT_REGISTERED", "AGENT_DEREGISTERED"}
    \cup {CategoryOrder[i] : i \in 1..10}

(* The type, and the marking keyword argument, that the built-in template of
   a category dispatches. *)
TypeOf(c) ==
    CASE c = "OBSERVABILITY" -> "STEP"
      [] c = "POLICY"        -> "GATE_EVALUATED"
      [] c = "APPROVAL"      -> "APPROVAL_REQUIRED"
      [] c \in {"FEATURE_FLAG", "RECOVERY"} -> "SIGNAL_RECEIVED"
      [] c = "DEGRADATION"   -> "AUTONOMY_DEGRADED"
      [] OTHER -> c
KwargOf(c) ==
    CASE c = "FEATURE_FLAG" -> "flag_name"
      [] c = "RECOVERY"     -> "attempt"
      [] OTHER -> "none"

(***************************************************************************)
(* Detection. A rule looks for a name (of a call or of a decorator), for   *)
(* the hook type as an attribute, or for a dispatch with its marking       *)
(* keyword argument; it does not ask where in the source the line stands.  *)
(***************************************************************************)
Lines(s) == {s[i] : i \in DOMAIN s}
Named(s, n) == \E l \in Lines(s) : l.name = n
Refers(s, t) == \E l \in Lines(s) : l.type = t
Dispatches(s, k) == \E l \in Lines(s) : l.kind = "hook" /\ l.kwarg = k

TaskStartedRule(s) == Named(s, "on_task_start") \/ Refers(s, "TASK_STARTED")
TaskCompletedRule(s) == Named(s, "on_task_complete") \/ Refers(s, "TASK_COMPLETED")
TaskFailedRule(s) == Named(s, "on_task_fail") \/ Refers(s, "TASK_FAILED")
LlmCallRule(s) == Named(s, "on_llm_call") \/ Refers(s, "LLM_CALL")
SynthesizeRule(s) == Named(s, "on_synthesize") \/ Refers(s, "SYNTHESIZE")
ToolCallRule(s) == Named(s, "on_tool_call") \/ Refers(s, "TOOL_CALL")
WebSearchRule(s) == Named(s, "on_search") \/ Refers(s, "WEB_SEARCH")
TokenUsageRule(s) == Named(s, "track_tokens") \/ Refers(s, "TOKEN_USAGE")
BudgetWarnRule(s) == Named(s, "on_budget_warning") \/ Refers(s, "BUDGET_WARN")
BudgetExhaustedRule(s) == Named(s, "budget_exceeded") \/ Refers(s, "BUDGET_EXHAUSTED")
ObservabilityRule(s) == Named(s, "emit_checkpoint") \/ Refers(s, "STEP")
PolicyRule(s) == Named(s, "check_policy") \/ Refers(s, "GATE_EVALUATED")
ApprovalRule(s) == Named(s, "request_approval") \/ Refers(s, "APPROVAL_REQUIRED")
FeatureFlagRule(s) == Named(s, "flag_enabled") \/ Dispatches(s, "flag_name")
RecoveryRule(s) == Named(s, "on_retry") \/ Dispatches(s, "attempt")
DegradationRule(s) == Named(s, "autonomy_degraded") \/ Refers(s, "AUTONOMY_DEGRADED")

Detects(c, s) ==
    CASE c = "TASK_STARTED" -> TaskStartedRule(s)
      [] c = "TASK_COMPLETED" -> TaskCompletedRule(s)
      [] c = "TASK_FAILED" -> TaskFailedRule(s)
      [] c = "LLM_CALL" -> LlmCallRule(s)
      [] c = "SYNTHESIZE" -> SynthesizeRule(s)
      [] c = "TOOL_CALL" -> ToolCallRule(s)
      [] c = "WEB_SEARCH" -> WebSearchRule(s)
      [] c = "TOKEN_USAGE" -> TokenUsageRule(s)
      [] c = "BUDGET_WARN" -> BudgetWarnRule(s)
      [] c = "BUDGET_EXHAUSTED" -> BudgetExhaustedRule(s)
      [] c = "OBSERVABILITY" -> ObservabilityRule(s)
      [] c = "POLICY" -> PolicyRule(s)
      [] c = "APPROVAL" -> ApprovalRule(s)
      [] c = "FEATURE_FLAG" -> FeatureFlagRule(s)
      [] c = "RECOVERY" -> RecoveryRule(s)
      [] c = "DEGRADATION" -> DegradationRule(s)

MissingHooks(s) == {c \in HookCategory : ~Detects(c, s)}

(***************************************************************************)
(* Capabilities: per capability one import, one call and one decorator;    *)
(* the langchain submodules also match the langchain prefix of LlmSignals. *)
(***************************************************************************)
LlmSignals == {"openai", "invoke", "with_llm", "langchain.tools",
    "langchain.retrievers", "langchain.chains"}
ToolSignals == {"langchain.tools", "call_tool", "tool"}
SearchSignals == {"langchain.retrievers", "web_search", "retriever"}
SynthesisSignals == {"langchain.chains", "summarize", "synthesizer"}
ObservableSignals == {"opentelemetry", "emit_checkpoint", "observable"}
PolicySignals == {"casbin", "check_policy", "requires_policy"}
ApprovalSignals == {"approval_service", "request_approval", "human_in_loop"}
FeatureFlagSignals == {"unleash", "flag_enabled", "with_flag"}
RecoverySignals == {"tenacity", "on_retry", "retry"}
DegradationSignals == {"degradation_service", "autonomy_degraded", "degradable"}

Signals ==
    [LLM |-> LlmSignals, TOOL |-> ToolSignals, SEARCH |-> SearchSignals,
     SYNTHESIS |-> SynthesisSignals, OBSERVABLE |-> ObservableSignals,
     POLICY |-> PolicySignals, APPROVAL |-> ApprovalSignals,
     FEATURE_FLAG |-> FeatureFlagSignals, RECOVERY |-> RecoverySignals,
     DEGRADATION |-> DegradationSignals]

Capabilities(s) == {k \in DOMAIN Signals : \E n \in Signals[k] : Named(s, n)}

CapabilityHooks(k) ==
    CASE k = "LLM" -> {"LLM_CALL", "TOKEN_USAGE", "BUDGET_WARN", "BUDGET_EXHAUSTED"}
      [] k = "TOOL" -> {"TOOL_CALL"}
      [] k = "SEARCH" -> {"WEB_SEARCH"}
      [] k = "SYNTHESIS" -> {"SYNTHESIZE"}
      [] k = "OBSERVABLE" -> {"OBSERVABILITY"}
      [] OTHER -> {k}

(* Nothing recognised requires everything, so that nothing is left out. *)
RequiredHooks(caps) ==
    IF caps = {} THEN HookCategory
    ELSE {"TASK_STARTED", "TASK_COMPLETED", "TASK_FAILED"}
             \cup UNION {CapabilityHooks(k) : k \in caps}

(***************************************************************************)
(* Risk entries <<severity, priority>>, CRITICAL = 4 down to LOW = 1.      *)
(***************************************************************************)
LifecycleRisk(c) ==
    CASE c \in {"TASK_FAILED", "LLM_CALL"} -> <<4, 1>>
      [] c \in {"TASK_STARTED", "TASK_COMPLETED", "SYNTHESIZE"} -> <<3, 2>>
UsageRisk(c) ==
    CASE c \in {"TOOL_CALL", "BUDGET_EXHAUSTED"} -> <<4, 1>>
      [] c \in {"WEB_SEARCH", "BUDGET_WARN"} -> <<3, 2>>
      [] c = "TOKEN_USAGE" -> <<2, 3>>
GovernanceRisk(c) ==
    CASE c \in {"POLICY", "DEGRADATION"} -> <<3, 2>>
      [] c = "APPROVAL" -> <<3, 1>>
      [] c \in {"OBSERVABILITY", "RECOVERY"} -> <<2, 3>>
      [] c = "FEATURE_FLAG" -> <<1, 4>>
Position(c) == CHOOSE i \in DOMAIN CategoryOrder : CategoryOrder[i] = c
Risk(c) ==
    IF Position(c) <= 5 THEN LifecycleRisk(c)
    ELSE IF Position(c) <= 10 THEN UsageRisk(c) ELSE GovernanceRisk(c)

(* Highest severity first, then lowest priority; the sort is stable. *)
MoreUrgent(a, b) ==
    \/ Risk(a)[1] > Risk(b)[1]
    \/ Risk(a)[1] = Risk(b)[1] /\ Risk(a)[2] < Risk(b)[2]
    \/ Risk(a) = Risk(b) /\ Position(a) < Position(b)
=============================================================================
