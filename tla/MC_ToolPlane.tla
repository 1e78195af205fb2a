---------------------------- MODULE MC_ToolPlane ----------------------------
(* Instances for TLC of the parts that surround a tool call. No part shares *)
(* a variable with another: a run moves one of them, its focus, and keeps   *)
(* the others where they begin.                                             *)
EXTENDS GuardHooks, ToolTiers, WorkingSet, Presence, KitTokens, ToolServer, Launcher

Rule(for, glob, allow, risk) == [for |-> for, glob |-> glob, allow |-> allow, risk |-> risk]
DenyTool == [EmptyDoc EXCEPT !.tools = <<Rule({"t"}, FALSE, "no", Default)>>]
Relabel ==
  [EmptyDoc EXCEPT !.agents = <<Rule({"m"}, FALSE, Unset, Default)>>,
                   !.tools  = <<Rule({"t", "u"}, TRUE, Unset, "severe")>>,
                   !.skills = <<Rule({"k"}, TRUE, "no", Default), Rule({"l"}, FALSE, Unset, "low")>>,
                   !.agentDefault.risk = "medium"]
TwoDocs == {DenyTool, Relabel}
FourAgents == {[id |-> "a", name |-> name, risk |-> risk] : name \in {"n", "m"}, risk \in {"high", "low"}}

Plan == [snapshot |-> TRUE, task |-> "p", dead |-> FALSE, tokens |-> 1]
Governed == {Plan, [Plan EXCEPT !.dead = TRUE], [Plan EXCEPT !.snapshot = FALSE, !.tokens = 2]}
TwoMemories == <<1, 2>>

AsDeclared == [n \in {} |-> "low"]
TwoMaps == {AsDeclared, [web_search |-> "high", save_artifact |-> "low"]}

-----------------------------------------------------------------------------
VARIABLE focus
parts == <<hookVars, toolVars, evidenceVars, presenceVars, tokenVars, serverVars, launchVars>>

Focus == {"hooks", "tiers", "policy", "chain", "trail", "presence", "tokens",
          "server", "launcher"}
Unless(f, atRest) == focus \in f \/ atRest

PlaneInit ==
  /\ focus \in Focus
  /\ HookInit     /\ Unless({"hooks"}, lists = << <<>> >>)
  /\ ToolInit
  /\ EvidenceInit /\ Unless({"chain", "trail"}, durable)
  /\ PresenceInit
  /\ bundle \in {"arxiv", "fileinspector"}   (* they beat, or they do not *)
  /\ Unless({"presence"}, bundle = "arxiv" /\ durableRegistry /\ urlSeen)
  /\ TokensInit   /\ Unless({"tokens"}, kit = "arxiv")
  /\ ServerInit
  /\ Unless({"server"}, agentKit = "arxiv" /\ ~serverUp /\ DOMAIN riskMap = {})
  /\ LauncherInit

(* With two calls the second operator and the second document stay away,   *)
(* with two writers the kinds of step, with two operators the second call. *)
Lead(threads, name) == CHOOSE x \in threads : x = name
OneSaver == \A s \in Saver \ {Lead(Saver, "s1")} : saver'[s] = NoSave
OneCall == \A c \in Call \ {Lead(Call, "c1")} : call'[c] = NoCall
OneWriter == \A w \in Writer \ {Lead(Writer, "w1")} : record'[w] = NoRecord
OnlyPlans == \A w \in Writer : "step" \in DOMAIN record'[w] => record'[w].step \in {Plan, Event}

Still(f) ==
  /\ f # "hooks" => UNCHANGED hookVars
  /\ f # "tools" => UNCHANGED toolVars
  /\ f # "evidence" => UNCHANGED evidenceVars
  /\ f # "presence" => UNCHANGED presenceVars
  /\ f # "tokens" => UNCHANGED tokenVars
  /\ f # "server" => UNCHANGED serverVars
  /\ f # "launcher" => UNCHANGED launchVars
  /\ UNCHANGED focus

PlaneNext ==
  \/ focus = "hooks" /\ HookNext /\ Still("hooks")
  \/ focus = "tiers" /\ ToolNext /\ Still("tools") /\ OneSaver /\ stored'.row <= 1
  \/ focus = "policy" /\ ToolNext /\ Still("tools") /\ OneCall
  \/ focus = "chain" /\ EvidenceNext /\ Still("evidence") /\ OnlyPlans
  \/ focus = "trail" /\ EvidenceNext /\ Still("evidence") /\ OneWriter
  \/ focus = "presence" /\ PresenceNext /\ Still("presence")
  \/ focus = "tokens" /\ TokensNext /\ Still("tokens")
  \/ focus = "server" /\ ServerNext /\ Still("server")
  \/ focus = "launcher" /\ LauncherNext /\ Still("launcher")

(* ToolFairness and PresenceFairness; only a part that moves owes them.    *)
PlaneFairness ==
  /\ ToolFairness
  /\ \A step \in PresenceSteps : WF_presenceVars(focus = "presence" /\ PresenceStep(step))

PlaneSpec == PlaneInit /\ [][PlaneNext]_<<focus, parts>> /\ PlaneFairness
=============================================================================
