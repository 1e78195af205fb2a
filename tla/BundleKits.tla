----------------------------- MODULE BundleKits -----------------------------
(***************************************************************************)
(* The six agent bundles carry one runtime, awcp_kit.py, each in a copy of *)
(* its own. A copy is given by the values in which it differs; what all of *)
(* them do is the specification of GovernedTask.                           *)
(***************************************************************************)
EXTENDS Naturals

Kit == {"arxiv", "langgraph", "pydanticai", "crewai", "writeup", "fileinspector"}
Risk == {"low", "medium", "high"}

(* call_tool and governed_action: the risks an operator is asked about, and *)
(* whether the request is also put before the radar's operators.            *)
Pausing(risks, central) == [risks |-> risks, central |-> central]

ArxivCallTool         == Pausing({"medium", "high"}, TRUE)
LanggraphCallTool     == Pausing({"medium", "high"}, TRUE)
PydanticaiCallTool    == Pausing({"medium", "high"}, TRUE)
CrewaiCallTool        == Pausing({"medium", "high"}, TRUE)
WriteupCallTool       == Pausing({"high"}, FALSE)
FileinspectorGoverned == Pausing({"high"}, FALSE)

(* _worker_loop: whether it gets past the calls instrumentation has put     *)
(* before it - in three bundles they read task or tid, which nothing has    *)
(* been assigned to yet, and the thread ends - and whether a run that has   *)
(* been stopped is told apart when it ends.                                 *)
Loop(survives, heedsStop) == [survives |-> survives, heedsStop |-> heedsStop]

ArxivWorkerLoop         == Loop(TRUE, TRUE)
LanggraphWorkerLoop     == Loop(TRUE, TRUE)
PydanticaiWorkerLoop    == Loop(TRUE, TRUE)
CrewaiWorkerLoop        == Loop(FALSE, TRUE)
WriteupWorkerLoop       == Loop(FALSE, FALSE)
FileinspectorWorkerLoop == Loop(FALSE, FALSE)

(* save_artifact, external_post: the writes a kit makes of itself, and the   *)
(* risk it puts on them, whatever the MCP server holds them to be.          *)
ArxivWrites         == [save_artifact |-> "medium", external_post |-> "high"]
LanggraphWrites     == [save_artifact |-> "medium", external_post |-> "high"]
PydanticaiWrites    == [save_artifact |-> "medium", external_post |-> "high"]
CrewaiWrites        == [save_artifact |-> "medium", external_post |-> "high"]
WriteupWrites       == [save_artifact |-> "medium", external_post |-> "high"]
FileinspectorWrites == [save_artifact |-> "medium", external_post |-> "high"]

(* mount: the routes a task can be reached by once it has been submitted.   *)
ArxivRoutes         == {"approve", "cancel"}
LanggraphRoutes     == {"approve", "cancel"}
PydanticaiRoutes    == {"approve", "cancel"}
CrewaiRoutes        == {"approve", "cancel"}
WriteupRoutes       == {"approve"}
FileinspectorRoutes == {"approve"}

(* approve_task, cancel_task: what those routes are handled by.             *)
ArxivHandlers         == {"approve", "cancel"}
LanggraphHandlers     == {"approve", "cancel"}
PydanticaiHandlers    == {"approve", "cancel"}
CrewaiHandlers        == {"approve", "cancel"}
WriteupHandlers       == {"approve"}
FileinspectorHandlers == {"approve"}

(* _emit_execution_event, _radar_event: whether an event is only sent once  *)
(* the radar has answered the start of the task with a workflow.            *)
ArxivEventsNeedStart         == TRUE
LanggraphEventsNeedStart     == TRUE
PydanticaiEventsNeedStart    == TRUE
CrewaiEventsNeedStart        == TRUE
WriteupEventsNeedStart       == TRUE
FileinspectorEventsNeedStart == FALSE

(* mcp_execute and the rest of call_tool: how a tool can end. The server    *)
(* may have run it or denied it, or not be reached in time, and then the    *)
(* radar hears nothing; fileinspector runs its tools itself.                *)
ArxivToolResults         == {"done", "blocked", "unreachable"}
LanggraphToolResults     == {"done", "blocked", "unreachable"}
PydanticaiToolResults    == {"done", "blocked", "unreachable"}
CrewaiToolResults        == {"done", "blocked", "unreachable"}
WriteupToolResults       == {"done", "blocked", "unreachable"}
FileinspectorToolResults == {"done", "unreachable"}

(* _radar_register and _radar_heartbeat: whether a kit that the radar does  *)
(* not know, or does not answer, registers again.                           *)
ArxivBeats         == TRUE
LanggraphBeats     == TRUE
PydanticaiBeats    == TRUE
CrewaiBeats        == TRUE
WriteupBeats       == TRUE
FileinspectorBeats == FALSE

(* _install_token_capture and the _capture functions: the clients whose     *)
(* calls the kit counts at their result; fileinspector counts none itself.  *)
ArxivWraps         == {"ollama", "openai"}
LanggraphWraps     == {"ollama", "openai"}
PydanticaiWraps    == {"ollama", "openai"}
CrewaiWraps        == {"ollama", "openai"}
WriteupWraps       == {"ollama", "openai"}
FileinspectorWraps == {}

(* _httpx_response_hook, _extract_llm_tokens: whether the response of any   *)
(* other call is counted. In two bundles the hook ends at its first         *)
(* statement, which reads counts it has not got yet.                        *)
ArxivHookMeters         == TRUE
LanggraphHookMeters     == TRUE
PydanticaiHookMeters    == TRUE
CrewaiHookMeters        == FALSE
WriteupHookMeters       == FALSE
FileinspectorHookMeters == FALSE

(* _mcp_client, discover_tools, _synth_forwarder: whether the tools a model *)
(* may call are the ones the MCP server lists, each bound to the risk it is *)
(* listed with.                                                             *)
ArxivBinds         == TRUE
LanggraphBinds     == TRUE
PydanticaiBinds    == TRUE
CrewaiBinds        == TRUE
WriteupBinds       == TRUE
FileinspectorBinds == FALSE

(* _spec_is_write, _declared_write_scopes: the scopes a kit registers with: *)
(* its writes, or everything it has bound; fileinspector names none.        *)
ArxivDeclares         == "writes"
LanggraphDeclares     == "writes"
PydanticaiDeclares    == "writes"
CrewaiDeclares        == "writes"
WriteupDeclares       == "all"
FileinspectorDeclares == "none"

CallsOf == [arxiv |-> ArxivCallTool, langgraph |-> LanggraphCallTool,
  pydanticai |-> PydanticaiCallTool, crewai |-> CrewaiCallTool,
  writeup |-> WriteupCallTool, fileinspector |-> FileinspectorGoverned]
LoopOf == [arxiv |-> ArxivWorkerLoop, langgraph |-> LanggraphWorkerLoop,
  pydanticai |-> PydanticaiWorkerLoop, crewai |-> CrewaiWorkerLoop,
  writeup |-> WriteupWorkerLoop, fileinspector |-> FileinspectorWorkerLoop]
RoutesOf == [
  arxiv |-> ArxivRoutes \cap ArxivHandlers,
  langgraph |-> LanggraphRoutes \cap LanggraphHandlers,
  pydanticai |-> PydanticaiRoutes \cap PydanticaiHandlers,
  crewai |-> CrewaiRoutes \cap CrewaiHandlers,
  writeup |-> WriteupRoutes \cap WriteupHandlers,
  fileinspector |-> FileinspectorRoutes \cap FileinspectorHandlers]
EventsNeedStartOf == [arxiv |-> ArxivEventsNeedStart, langgraph |-> LanggraphEventsNeedStart,
  pydanticai |-> PydanticaiEventsNeedStart, crewai |-> CrewaiEventsNeedStart,
  writeup |-> WriteupEventsNeedStart, fileinspector |-> FileinspectorEventsNeedStart]
ResultsOf == [arxiv |-> ArxivToolResults, langgraph |-> LanggraphToolResults,
  pydanticai |-> PydanticaiToolResults, crewai |-> CrewaiToolResults,
  writeup |-> WriteupToolResults, fileinspector |-> FileinspectorToolResults]

BeatsOf == [arxiv |-> ArxivBeats, langgraph |-> LanggraphBeats,
  pydanticai |-> PydanticaiBeats, crewai |-> CrewaiBeats,
  writeup |-> WriteupBeats, fileinspector |-> FileinspectorBeats]
WrapsOf == [arxiv |-> ArxivWraps, langgraph |-> LanggraphWraps,
  pydanticai |-> PydanticaiWraps, crewai |-> CrewaiWraps,
  writeup |-> WriteupWraps, fileinspector |-> FileinspectorWraps]
HookMetersOf == [arxiv |-> ArxivHookMeters, langgraph |-> LanggraphHookMeters,
  pydanticai |-> PydanticaiHookMeters, crewai |-> CrewaiHookMeters,
  writeup |-> WriteupHookMeters, fileinspector |-> FileinspectorHookMeters]

BindsOf == [arxiv |-> ArxivBinds, langgraph |-> LanggraphBinds,
  pydanticai |-> PydanticaiBinds, crewai |-> CrewaiBinds,
  writeup |-> WriteupBinds, fileinspector |-> FileinspectorBinds]
WritesOf == [arxiv |-> ArxivWrites, langgraph |-> LanggraphWrites,
  pydanticai |-> PydanticaiWrites, crewai |-> CrewaiWrites,
  writeup |-> WriteupWrites, fileinspector |-> FileinspectorWrites]
DeclaresOf == [arxiv |-> ArxivDeclares, langgraph |-> LanggraphDeclares,
  pydanticai |-> PydanticaiDeclares, crewai |-> CrewaiDeclares,
  writeup |-> WriteupDeclares, fileinspector |-> FileinspectorDeclares]

PausesFor(k, risk) == risk \in CallsOf[k].risks
AsksRadar(k) == CallsOf[k].central
Survives(k) == LoopOf[k].survives
HeedsStop(k) == LoopOf[k].heedsStop
HasCancel(k) == "cancel" \in RoutesOf[k]
EventsNeedStart(k) == EventsNeedStartOf[k]
ToolResults(k) == ResultsOf[k]
Beats(k) == BeatsOf[k]
Wraps(k) == WrapsOf[k]
HookMeters(k) == HookMetersOf[k]
Binds(k) == BindsOf[k]
Declares(k) == DeclaresOf[k]
Writes(k) == WritesOf[k]
=============================================================================
