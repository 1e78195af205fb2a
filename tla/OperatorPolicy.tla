--------------------------- MODULE OperatorPolicy ---------------------------
(***************************************************************************)
(* The operator's policy (radar/operator_policy.py): how a document        *)
(* decides about an agent and a tool, how it is validated, stored and held *)
(* in the radar's cache.                                                   *)
(*                                                                         *)
(* A section of a document is the sequence of its rules. A rule names the  *)
(* agents, tools or skills its key stands for: one for a plain key, any    *)
(* number for a glob. A field that is absent is Unset. "default" or null,  *)
(* which an operator writes to have no opinion, is Default where it says   *)
(* something else than Unset: in a risk.                                   *)
(***************************************************************************)
EXTENDS Naturals, Sequences, FiniteSets

CONSTANTS
  Docs,             (* documents operators submit                           *)
  Agents,           (* agents the gate asks about: id, name, risk           *)
  Skill,            (* skills an agent's card may declare                   *)
  Saver             (* threads that handle PUT /policy                      *)

Unset == "unset"
Default == "default"
AgentTier == {"low", "medium", "high"}
ToolTier == AgentTier \cup {"severe"}
Rank == [low |-> 1, medium |-> 2, high |-> 3, severe |-> 4]

(* Registration stores the tier that governs the agent (authoritative_risk), *)
(* whatever it declared.                                                   *)
ASSUME AgentRiskAssumption == \A agent \in Agents : agent.risk \in AgentTier

NoRule == [for |-> {}, glob |-> FALSE, allow |-> Unset, risk |-> Unset]
EmptyDoc == [agents |-> <<>>, tools |-> <<>>, skills |-> <<>>,
             agentDefault |-> NoRule, toolDefault |-> NoRule]

-----------------------------------------------------------------------------
(* Which rule applies: a plain key before a glob, the id before the name,  *)
(* the first glob of the document before the others.                       *)

Plain(section, key) == {i \in DOMAIN section : ~section[i].glob /\ key \in section[i].for}
Globs(section, keys) == {i \in DOMAIN section : section[i].glob /\ section[i].for \cap keys # {}}
Named(section, keys) ==
  Globs(section, keys) # {} \/ \E k \in keys : Plain(section, k) # {}

Match(section, first, second) ==
  IF Plain(section, first) # {} THEN section[CHOOSE i \in Plain(section, first) : TRUE]
  ELSE IF Plain(section, second) # {} THEN section[CHOOSE i \in Plain(section, second) : TRUE]
  ELSE LET globs == Globs(section, {first, second})
       IN IF globs = {} THEN NoRule
          ELSE section[CHOOSE i \in globs : \A j \in globs : i <= j]

Enabled(doc) ==
  \/ doc.agents # <<>> \/ doc.tools # <<>> \/ doc.skills # <<>>
  \/ doc.agentDefault # NoRule \/ doc.toolDefault # NoRule

SkillRules(doc, skills) == {Match(doc.skills, s, s) : s \in {s \in skills : Named(doc.skills, {s})}}

(* The explicit word on an agent: its own rule, else a skill that denies.  *)
AgentExplicit(doc, agent, skills) ==
  IF ~Enabled(doc) THEN Unset
  ELSE IF Named(doc.agents, {agent.id, agent.name})
    THEN Match(doc.agents, agent.id, agent.name).allow
  ELSE IF \E r \in SkillRules(doc, skills) : r.allow = "no" THEN "no" ELSE Unset

MoreRestrictive(a, b) ==
  IF a \notin AgentTier THEN b
  ELSE IF b \notin AgentTier THEN a
  ELSE IF Rank[a] >= Rank[b] THEN a ELSE b

(* The worst risk of the agent's skills.                                   *)
AgentSkillRisk(doc, agent, skills) ==
  LET risks == {r.risk : r \in SkillRules(doc, skills)} \cap AgentTier
  IN IF ~Enabled(doc) \/ Named(doc.agents, {agent.id, agent.name}) \/ risks = {} THEN Unset
     ELSE CHOOSE r \in risks : \A other \in risks : Rank[other] <= Rank[r]

(* The agent's rule is laid over the default of all agents field by field, *)
(* so that a risk it leaves to Default hides theirs.                       *)
AgentRiskOverride(doc, agent) ==
  LET rule == Match(doc.agents, agent.id, agent.name)
      risk == IF rule.risk # Unset THEN rule.risk ELSE doc.agentDefault.risk
  IN IF risk \in AgentTier THEN risk ELSE Unset

(* Mutant: the risk of a skill takes the place of the agent's.             *)
AuthoritativeRiskOfSkill(doc, agent, skills) ==
  LET skill == AgentSkillRisk(doc, agent, skills)
  IN IF skill # Unset THEN skill
     ELSE IF AgentRiskOverride(doc, agent) # Unset THEN AgentRiskOverride(doc, agent)
     ELSE agent.risk

(* policy.authoritative_risk. The agent's own risk is the worse of what it *)
(* declares and what the magazine assigns.                                 *)
AuthoritativeRisk(doc, agent, skills) ==
  LET override == AgentRiskOverride(doc, agent)
  IN MoreRestrictive(IF override # Unset THEN override ELSE agent.risk,
                     AgentSkillRisk(doc, agent, skills))

(* "yes", "no", or Unset when the policy says nothing; threshold is the    *)
(* slider of the OPA agent, Unset when it cannot be asked.                 *)
AgentRecognised(doc, agent, threshold, skills) ==
  LET explicit == AgentExplicit(doc, agent, skills)
      risk     == AuthoritativeRisk(doc, agent, skills)
  IN IF ~Enabled(doc) THEN Unset
     ELSE IF explicit # Unset THEN explicit
     ELSE IF threshold \in ToolTier /\ risk \in ToolTier
       THEN IF Rank[risk] < Rank[threshold] THEN "yes" ELSE "no"
     ELSE Unset

(* What the policy adds to the tier and the decision of a tool call. A     *)
(* tool's rule that leaves its risk to Default falls back to that of all   *)
(* tools.                                                                  *)
ToolDecision(doc, tool, tier) ==
  LET rule == Match(doc.tools, tool, tool)
      risk == IF rule.risk \in ToolTier THEN rule.risk ELSE doc.toolDefault.risk
  IN IF ~Enabled(doc) THEN [tier |-> tier, allow |-> Unset]
     ELSE [tier |-> IF risk \in ToolTier THEN risk ELSE tier, allow |-> rule.allow]

(* _operator_policy_gate: an allow may become a deny.                      *)
OperatorPolicyGate(doc, decision, agent, threshold, skills, tool) ==
  IF \/ decision # "allow"
     \/ AgentRecognised(doc, agent, threshold, skills) = "no"
     \/ ToolDecision(doc, tool, Unset).allow = "no"
    THEN "deny" ELSE "allow"

ValidPolicy(doc) ==
  LET tiersOk(rules, tiers) == \A r \in rules : r.risk \in tiers \cup {Unset, Default}
      rulesOf(section) == {section[i] : i \in DOMAIN section}
  IN /\ tiersOk(rulesOf(doc.agents) \cup rulesOf(doc.skills) \cup {doc.agentDefault}, AgentTier)
     /\ tiersOk(rulesOf(doc.tools) \cup {doc.toolDefault}, ToolTier)
     /\ \A r \in rulesOf(doc.skills) : r.allow # "yes"

-----------------------------------------------------------------------------
(* Storing a document and holding it.                                      *)

Absent == [row |-> 0, doc |-> EmptyDoc]

VARIABLES
  stored,           (* governance.operator_policy: the newest row           *)
  active,           (* the radar's cache (_active)                          *)
  saver,            (* the PUT /policy each thread is in                    *)
  misled            (* history: the save of the newest document overlapped  *)
                    (* another one, or its load failed                      *)
policyVars == <<stored, active, saver, misled>>

NoSave == [stage |-> "idle"]

PolicyInit ==
  /\ stored = Absent /\ active = Absent
  /\ saver = [s \in Saver |-> NoSave] /\ misled = FALSE

(* save, up to the row; a document that is not valid, or that cannot be    *)
(* stored, changes nothing.                                                *)
StorePolicy(s, doc) ==
  /\ saver[s] = NoSave
  /\ ValidPolicy(doc)
  /\ stored' = [row |-> stored.row + 1, doc |-> doc]
  /\ saver' = [saver EXCEPT ![s] = [stage |-> "load"]]
  /\ misled' = (\E other \in Saver \ {s} : saver[other] # NoSave)
  /\ UNCHANGED active

(* reload: the load, then under the lock the installation. The load fails  *)
(* when the database does.                                                 *)
LoadPolicy(s, fails) ==
  /\ saver[s].stage = "load"
  /\ saver' = [saver EXCEPT ![s] =
       [stage |-> "install", found |-> IF fails THEN Absent ELSE stored]]
  /\ misled' = (misled \/ fails)
  /\ UNCHANGED <<stored, active>>

(* Mutant: the cache is only filled once.                                  *)
InstallFirst(s) ==
  /\ saver[s].stage = "install"
  /\ active' = IF active = Absent THEN saver[s].found ELSE active
  /\ saver' = [saver EXCEPT ![s] = NoSave]
  /\ UNCHANGED <<stored, misled>>

InstallPolicy(s) ==
  /\ saver[s].stage = "install"
  /\ active' = saver[s].found
  /\ saver' = [saver EXCEPT ![s] = NoSave]
  /\ UNCHANGED <<stored, misled>>

(* The lifespan of a new radar process begins with a reload.               *)
RestartRadar(fails) ==
  /\ active' = IF fails THEN Absent ELSE stored
  /\ misled' = (fails /\ stored # Absent)
  /\ saver' = [s \in Saver |-> NoSave]
  /\ UNCHANGED stored
=============================================================================
