----------------------------- MODULE ToolServer -----------------------------
(***************************************************************************)
(* Tools run on the MCP server and nowhere else (mcp/server.py,            *)
(* runtime/tool_runtime.py; the client side is awcp_kit.py). An agent asks *)
(* the server which tools there are when it is imported, registers the     *)
(* writes among them as its scopes when it is mounted, and calls them by   *)
(* the risk it was told then. The server may have been deployed anew in    *)
(* between, with another AWCP_TOOL_RISK. The worker saves its artifact by  *)
(* a risk of its own.                                                      *)
(*                                                                         *)
(* execute_tool is synchronous and runs on the server's only loop: calls   *)
(* are served one by one. A client that has given up is not noticed.       *)
(***************************************************************************)
EXTENDS BundleKits, Sequences

CONSTANTS
  AgentKits,        (* kits of the agents that are tried                    *)
  WriteTiers,       (* AWCP_WRITE_RISK_TIERS, the same for every process    *)
  RiskMaps,         (* values of AWCP_TOOL_RISK: each maps tools to risks   *)
  GateFailOpen,     (* AWCP_GATE_FAIL_OPEN                                  *)
  MaxDeploys,       (* bound on deployments of the server and the agent     *)
  MaxToolCalls      (* bound on calls                                       *)

(* What three of the tools declare where they are registered.               *)
Declared == [web_search |-> "low", save_artifact |-> "medium", external_post |-> "high"]
ServerTool == DOMAIN Declared

ASSUME ServerAssumption ==
  /\ AgentKits \subseteq {k \in Kit : Binds(k)}
  /\ WriteTiers \subseteq Risk /\ GateFailOpen \in BOOLEAN
  /\ \A map \in RiskMaps :
       /\ DOMAIN map \subseteq ServerTool
       /\ \A name \in DOMAIN map : map[name] # "unset"

NoSpecs == [n \in {} |-> "low"]
NoRequest == [stage |-> "none"]

VARIABLES
  agentKit,         (* whose kit the agent runs                             *)
  agentPhase,       (* the agent is down, has bound its tools, or is up     *)
  specs,            (* _DISCOVERED_SPECS: the risk each tool is bound to    *)
  scopes,           (* write_scopes it has registered                       *)
  serverUp,
  riskMap,          (* _RISK_OVERRIDES of the server's process              *)
  pending,          (* the call_tool the agent is in                        *)
  inbox,            (* requests that have reached the server                *)
  running,          (* the request execute_tool is serving                  *)
  trail,            (* checkpoints of governed calls: what ran, and how     *)
  deploys, toolCalls
agentSide == <<agentKit, agentPhase, specs, scopes, pending>>
serverSide == <<serverUp, riskMap, inbox, running, trail>>
serverVars == <<agentSide, serverSide, deploys, toolCalls>>

ServerInit ==
  /\ agentKit \in AgentKits /\ agentPhase = "down"
  /\ specs = NoSpecs /\ scopes = {}
  /\ serverUp \in BOOLEAN /\ riskMap \in RiskMaps
  /\ pending = NoRequest /\ inbox = <<>> /\ running = NoRequest
  /\ trail = {} /\ deploys = 0 /\ toolCalls = 0

(* get_tool_risk, is_write_risk.                                            *)
ToolRisk(name) == IF name \in DOMAIN riskMap THEN riskMap[name] ELSE Declared[name]
IsWriteRisk(risk) == risk \in WriteTiers

-----------------------------------------------------------------------------
(* The agent.                                                               *)

(* list_runtime_tools, with the risk each tool has now; a catalogue that    *)
(* cannot be had in time is empty, and is not asked for again.              *)
Catalog == [name \in ServerTool |-> ToolRisk(name)]

DiscoverTools(heard) ==
  /\ agentPhase = "down" /\ deploys < MaxDeploys
  /\ heard => serverUp /\ running = NoRequest
  /\ deploys' = deploys + 1
  /\ agentPhase' = "bound"
  /\ specs' = IF heard THEN Catalog ELSE NoSpecs
  /\ UNCHANGED <<agentKit, scopes, pending, serverSide, toolCalls>>

(* Mutant: only high risks are declared as scopes.                          *)
DeclareHighRisks ==
  {name \in DOMAIN specs : Declares(agentKit) = "all" \/ specs[name] = "high"}

DeclaredWriteScopes ==
  {name \in DOMAIN specs : Declares(agentKit) = "all" \/ IsWriteRisk(specs[name])}

MountAgent ==
  /\ agentPhase = "bound"
  /\ agentPhase' = "up" /\ scopes' = DeclaredWriteScopes
  /\ UNCHANGED <<agentKit, specs, pending, serverSide, deploys, toolCalls>>

StopAgent ==
  /\ agentPhase = "up"
  /\ agentPhase' = "down" /\ specs' = NoSpecs /\ scopes' = {} /\ pending' = NoRequest
  /\ UNCHANGED <<agentKit, serverSide, deploys, toolCalls>>

(* call_tool: a write is put before an operator first. That he approved is  *)
(* kept as history: the kit always sends TRUE and the server never looks.   *)
BeginCall(name, risk, bound) ==
  /\ agentPhase = "up" /\ pending = NoRequest /\ toolCalls < MaxToolCalls
  /\ toolCalls' = toolCalls + 1
  /\ pending' = [stage |-> IF PausesFor(agentKit, risk) THEN "asked" ELSE "ready",
                 id |-> toolCalls + 1, tool |-> name, risk |-> risk, bound |-> bound,
                 governed |-> TRUE, approved |-> FALSE, scopes |-> scopes]
  /\ UNCHANGED <<agentKit, agentPhase, specs, scopes, serverSide, deploys>>

CallBoundTool(name) == BeginCall(name, specs[name], TRUE)
CallOwnWrite(name) == BeginCall(name, Writes(agentKit)[name], FALSE)

OperatorAnswers(approves) ==
  /\ pending.stage = "asked"
  /\ pending' = IF approves THEN [pending EXCEPT !.stage = "ready", !.approved = TRUE]
                            ELSE NoRequest
  /\ UNCHANGED <<agentKit, agentPhase, specs, scopes, serverSide, deploys, toolCalls>>

(* mcp_execute: the call carries the agent's risk.                          *)
SendCall ==
  /\ pending.stage = "ready"
  /\ IF serverUp
       THEN /\ inbox' = Append(inbox, [pending EXCEPT !.stage = "sent"])
            /\ pending' = [pending EXCEPT !.stage = "sent"]
       ELSE UNCHANGED inbox /\ pending' = NoRequest
  /\ UNCHANGED <<agentKit, agentPhase, specs, scopes, serverUp, riskMap, running, trail,
                 deploys, toolCalls>>

(* AWCP_MCP_TIMEOUT: the kit reports that the tool was not executed. The    *)
(* request may be dropped with its connection, or be served all the same.   *)
GiveUpOnServer(dropped) ==
  /\ pending.stage = "sent"
  /\ pending' = NoRequest
  /\ IF dropped
       THEN \E i \in DOMAIN inbox :
              /\ inbox[i].id = pending.id
              /\ inbox' = SubSeq(inbox, 1, i - 1) \o SubSeq(inbox, i + 1, Len(inbox))
       ELSE UNCHANGED inbox
  /\ UNCHANGED <<agentKit, agentPhase, specs, scopes, serverUp, riskMap, running, trail,
                 deploys, toolCalls>>

-----------------------------------------------------------------------------
(* The server: execute_tool, and its own restarts.                          *)

(* A client that names no agent, and no risk, is served too.                *)
DirectCall(name) ==
  /\ serverUp /\ toolCalls < MaxToolCalls
  /\ toolCalls' = toolCalls + 1
  /\ inbox' = Append(inbox, [stage |-> "sent", id |-> toolCalls + 1, tool |-> name,
                             risk |-> "unset", bound |-> FALSE, governed |-> FALSE,
                             approved |-> FALSE, scopes |-> {}])
  /\ UNCHANGED <<agentSide, serverUp, riskMap, running, trail, deploys>>

EffectiveRisk(request) == IF request.risk = "unset" THEN ToolRisk(request.tool) ELSE request.risk

TakeRequest ==
  /\ serverUp /\ running = NoRequest /\ inbox # <<>>
  /\ inbox' = Tail(inbox)
  /\ running' = [Head(inbox) EXCEPT !.stage = "gate", !.risk = EffectiveRisk(Head(inbox))]
  /\ UNCHANGED <<agentSide, serverUp, riskMap, trail, deploys, toolCalls>>

(* What the call is told, unless it has been abandoned.                     *)
AnswerCall ==
  pending' = IF pending.stage = "sent" /\ pending.id = running.id THEN NoRequest ELSE pending

Checkpoint(outcome) ==
  /\ trail' = IF running.governed
                THEN trail \cup {[running EXCEPT !.stage = outcome]} ELSE trail
  /\ running' = NoRequest
  /\ AnswerCall
  /\ UNCHANGED <<agentKit, agentPhase, specs, scopes, serverUp, riskMap, inbox, deploys,
                 toolCalls>>

(* _radar_gate: a call of no agent is not asked about; a radar that does    *)
(* not answer is read by AWCP_GATE_FAIL_OPEN.                               *)
Passes(answer) ==
  ~running.governed \/ answer = "allow" \/ (answer = "none" /\ GateFailOpen)

RadarGate(answer) ==
  /\ running.stage = "gate"
  /\ IF Passes(answer)
       THEN /\ running' = [running EXCEPT !.stage = "run"]
            /\ UNCHANGED <<agentSide, serverUp, riskMap, inbox, trail, deploys, toolCalls>>
       ELSE Checkpoint("blocked")

RunTool(outcome) == running.stage = "run" /\ Checkpoint(outcome)

(* The process ends with whatever it was serving; the next one reads the    *)
(* map of risks again.                                                      *)
StopServer ==
  /\ serverUp
  /\ serverUp' = FALSE /\ inbox' = <<>> /\ running' = NoRequest
  /\ UNCHANGED <<agentSide, riskMap, trail, deploys, toolCalls>>

DeployServer(map) ==
  /\ ~serverUp /\ deploys < MaxDeploys
  /\ deploys' = deploys + 1
  /\ serverUp' = TRUE /\ riskMap' = map
  /\ UNCHANGED <<agentSide, inbox, running, trail, toolCalls>>

ServerNext ==
  \/ \E heard \in BOOLEAN : DiscoverTools(heard)
  \/ MountAgent \/ StopAgent
  \/ \E name \in DOMAIN specs : CallBoundTool(name)
  \/ \E name \in DOMAIN Writes(agentKit) : CallOwnWrite(name)
  \/ \E approves \in BOOLEAN : OperatorAnswers(approves)
  \/ SendCall \/ \E dropped \in BOOLEAN : GiveUpOnServer(dropped)
  \/ \E name \in ServerTool : DirectCall(name)
  \/ TakeRequest
  \/ \E answer \in {"allow", "deny", "none"} : RadarGate(answer)
  \/ \E outcome \in {"succeeded", "error"} : RunTool(outcome)
  \/ StopServer \/ \E map \in RiskMaps : DeployServer(map)

ServerSpec == ServerInit /\ [][ServerNext]_serverVars

-----------------------------------------------------------------------------
(* Wherever the server's risks have gone since an agent was told them: a    *)
(* tool that ran for it as a write had been put before an operator, if its  *)
(* kit asks about that risk, and is among the scopes it registered, if it   *)
(* was bound; nobody was asked about a read (call_tool, execute_tool,       *)
(* _declared_write_scopes).                                                 *)
RunsAsClassified ==
  \A node \in trail : node.stage # "blocked" =>
    /\ IsWriteRisk(node.risk) /\ PausesFor(agentKit, node.risk) => node.approved
    /\ IsWriteRisk(node.risk) /\ node.bound => node.tool \in node.scopes
    /\ node.approved => IsWriteRisk(node.risk)
=============================================================================
