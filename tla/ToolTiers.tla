------------------------------ MODULE ToolTiers ------------------------------
(***************************************************************************)
(* What becomes of a tool call an agent reports (radar/api.py: the tool    *)
(* gate of an execution event): the OPA agent (opa_agent/opa_agent.py)     *)
(* resolves the tier of the tool, which a small language model reasons the *)
(* first time, lays the operator's policy and its threshold over it and    *)
(* answers; the radar lays the policy it holds itself over the answer.     *)
(* Either process reads the policy from the same table into a cache of its *)
(* own: the radar when it has stored a document, the OPA agent for as long *)
(* as POLICY_TTL.                                                          *)
(***************************************************************************)
EXTENDS OperatorPolicy

CONSTANTS
  Call,             (* tool calls under way at a time                       *)
  ToolName,         (* tools                                                *)
  ModelTier,        (* tiers the model answers in a run                     *)
  SliderTier,       (* tiers operators set the threshold to in a run        *)
  DefaultTier,      (* OPA_DEFAULT_TIER: when the model does not answer     *)
  FailOpen,         (* AWCP_OPA_AGENT_FAIL_OPEN                             *)
  MaxStores,        (* bound on documents stored                            *)
  MaxFaults         (* bound on database failures, timeouts and restarts    *)

Nobody == "nobody"

ASSUME TierAssumption ==
  /\ DefaultTier \in ModelTier /\ ModelTier \cup SliderTier \subseteq ToolTier
  /\ FailOpen \in BOOLEAN
  /\ Nobody \notin Call

VARIABLES
  tiers,            (* _TIERS: Unset for a tool nobody has asked about      *)
  keptTiers,        (* governance.tool_tiers                                *)
  classifying,      (* who holds _slm_lock                                  *)
  threshold,        (* BLOCK_THRESHOLD; it survives in a file               *)
  policyCache,      (* _policy_cache                                        *)
  call,             (* the evaluation of each call                          *)
  usedTiers,        (* history: tiers this OPA agent has used of each tool  *)
  faults            (* failures so far                                      *)
opaVars == <<tiers, keptTiers, classifying, threshold, policyCache>>
toolVars == <<policyVars, opaVars, call, usedTiers, faults>>

NoCall == [stage |-> "idle"]
Answered(answer) == [stage |-> "answered", answer |-> answer]
NoTiers == [tool \in ToolName |-> Unset]

ToolInit ==
  /\ PolicyInit
  /\ tiers = NoTiers /\ keptTiers = NoTiers
  /\ classifying = Nobody /\ threshold \in SliderTier
  /\ policyCache = [doc |-> EmptyDoc, fresh |-> FALSE]
  /\ call = [c \in Call |-> NoCall]
  /\ usedTiers = [tool \in ToolName |-> {}]
  /\ faults = 0

(* A step of which a failure is one outcome.                               *)
Faulty(fails) ==
  IF fails THEN faults < MaxFaults /\ faults' = faults + 1 ELSE faults' = faults

At(c, stage) == call[c].stage = stage
Move(c, change) == call' = [call EXCEPT ![c] = change]

-----------------------------------------------------------------------------
(* tier_for                                                                *)

AskTier(c, tool) ==
  /\ call[c].stage \in {"idle", "answered"}
  /\ Move(c, [stage |-> "look", tool |-> tool, tier |-> Unset, radar |-> "waits",
              stale |-> FALSE, doc |-> EmptyDoc])
  /\ UNCHANGED <<policyVars, opaVars, usedTiers, faults>>

WithTier(c, tier) == [call[c] EXCEPT !.stage = "policy", !.tier = tier]
Used(c, tier) == usedTiers' = [usedTiers EXCEPT ![call[c].tool] = @ \cup {tier}]

LookTier(c) ==
  LET hit == tiers[call[c].tool]
  IN /\ At(c, "look")
     /\ IF hit # Unset THEN Move(c, WithTier(c, hit)) /\ Used(c, hit)
        ELSE Move(c, [call[c] EXCEPT !.stage = "queue"]) /\ UNCHANGED usedTiers
     /\ UNCHANGED <<policyVars, opaVars, faults>>

(* Mutant: nobody looks again once the lock is held.                       *)
TakeSlmLockUnchecked(c) ==
  /\ At(c, "queue") /\ classifying = Nobody
  /\ classifying' = c
  /\ Move(c, [call[c] EXCEPT !.stage = "classify"])
  /\ UNCHANGED <<usedTiers, policyVars, tiers, keptTiers, threshold, policyCache, faults>>

(* The lock is taken, and the cache looked up again.                       *)
TakeSlmLock(c) ==
  LET hit == tiers[call[c].tool]
  IN /\ At(c, "queue") /\ classifying = Nobody
     /\ IF hit # Unset
          THEN Move(c, WithTier(c, hit)) /\ Used(c, hit) /\ UNCHANGED classifying
          ELSE /\ Move(c, [call[c] EXCEPT !.stage = "classify"])
               /\ classifying' = c
               /\ UNCHANGED usedTiers
     /\ UNCHANGED <<policyVars, tiers, keptTiers, threshold, policyCache, faults>>

(* The model answers with any tier, or the default takes its place; either *)
(* is cached for good.                                                     *)
Classify(c, tier, fails) ==
  /\ At(c, "classify") /\ Faulty(fails) /\ (fails => tier = DefaultTier)
  /\ tiers' = [tiers EXCEPT ![call[c].tool] = tier]
  /\ Move(c, [call[c] EXCEPT !.stage = "keep", !.tier = tier])
  /\ UNCHANGED <<policyVars, keptTiers, classifying, threshold, policyCache, usedTiers>>

KeepTier(c, fails) ==
  /\ At(c, "keep") /\ Faulty(fails)
  /\ keptTiers' = IF fails THEN keptTiers
                  ELSE [keptTiers EXCEPT ![call[c].tool] = call[c].tier]
  /\ classifying' = Nobody
  /\ Move(c, WithTier(c, call[c].tier)) /\ Used(c, call[c].tier)
  /\ UNCHANGED <<policyVars, tiers, threshold, policyCache>>

-----------------------------------------------------------------------------
(* _operator_policy_doc: the clock is read before the document is.         *)

ReadPolicyCache(c) ==
  /\ At(c, "policy")
  /\ Move(c, IF policyCache.fresh
               THEN [call[c] EXCEPT !.stage = "decide", !.doc = policyCache.doc]
               ELSE [call[c] EXCEPT !.stage = "load"])
  /\ UNCHANGED <<policyVars, opaVars, usedTiers, faults>>

LoadDoc(c, fails) ==
  /\ At(c, "load") /\ Faulty(fails)
  /\ Move(c, [call[c] EXCEPT !.stage = "cache",
                             !.doc = IF fails THEN EmptyDoc ELSE stored.doc])
  /\ UNCHANGED <<policyVars, opaVars, usedTiers>>

CacheDoc(c) ==
  /\ At(c, "cache")
  /\ policyCache' = [doc |-> call[c].doc, fresh |-> ~call[c].stale]
  /\ Move(c, [call[c] EXCEPT !.stage = "decide", !.stale = FALSE])
  /\ UNCHANGED <<policyVars, tiers, keptTiers, classifying, threshold, usedTiers, faults>>

TtlPasses ==
  /\ policyCache.fresh \/ \E c \in Call : call[c].stage \in {"load", "cache"} /\ ~call[c].stale
  /\ policyCache' = [policyCache EXCEPT !.fresh = FALSE]
  /\ call' = [c \in Call |->
       IF call[c].stage \in {"load", "cache"} THEN [call[c] EXCEPT !.stale = TRUE] ELSE call[c]]
  /\ UNCHANGED <<policyVars, tiers, keptTiers, classifying, threshold, usedTiers, faults>>

-----------------------------------------------------------------------------
(* evaluate, and the radar's own word on it.                               *)

OperatorToolOverride(doc, tool, tier) ==
  LET rule == Match(doc.tools, tool, tool)
      risk == IF rule.risk \in ToolTier THEN rule.risk ELSE doc.toolDefault.risk
  IN [tier |-> IF risk \in ToolTier THEN risk ELSE tier, allow |-> rule.allow]

BlockedAtOrAbove(tier) == Rank[tier] >= Rank[threshold]

Decision(override) ==
  IF override.allow = "no" THEN "block"
  ELSE IF override.allow = "yes" THEN "allow"
  ELSE IF BlockedAtOrAbove(override.tier) THEN "block" ELSE "allow"

RadarDecision(tool, tier, decision) ==
  LET word == ToolDecision(active.doc, tool, tier).allow
  IN IF word = "no" THEN "block" ELSE IF word = "yes" THEN "allow" ELSE decision

Evaluate(c) ==
  LET override == OperatorToolOverride(call[c].doc, call[c].tool, call[c].tier)
  IN /\ At(c, "decide")
     /\ Move(c, IF call[c].radar = "waits"
                  THEN [stage |-> Decision(override), tool |-> call[c].tool,
                        tier |-> override.tier]
                  ELSE Answered(call[c].radar))
     /\ UNCHANGED <<policyVars, opaVars, usedTiers, faults>>

OverrideAnswer(c) ==
  /\ call[c].stage \in {"allow", "block"}
  /\ Move(c, Answered(RadarDecision(call[c].tool, call[c].tier, call[c].stage)))
  /\ UNCHANGED <<policyVars, opaVars, usedTiers, faults>>

(* The OPA agent is not reached, or does not answer in time and goes on.   *)
GiveUpOnOpa(c) ==
  LET answer == RadarDecision(call[c].tool, Unset, IF FailOpen THEN "allow" ELSE "block")
  IN /\ call[c].stage \notin {"idle", "answered", "allow", "block"}
     /\ call[c].radar = "waits"
     /\ Faulty(TRUE)
     /\ \/ Move(c, [call[c] EXCEPT !.radar = answer])
        \/ At(c, "look") /\ Move(c, Answered(answer))
     /\ UNCHANGED <<policyVars, opaVars, usedTiers>>

SetThreshold(tier) ==
  /\ threshold' = tier
  /\ UNCHANGED <<policyVars, tiers, keptTiers, classifying, policyCache, call, usedTiers, faults>>

(* A new OPA agent seeds its tiers from the table.                         *)
RestartOpa ==
  /\ Faulty(TRUE)
  /\ tiers' = keptTiers /\ classifying' = Nobody
  /\ policyCache' = [doc |-> EmptyDoc, fresh |-> FALSE]
  /\ call' = [c \in Call |-> NoCall]
  /\ usedTiers' = [tool \in ToolName |-> {}]
  /\ UNCHANGED <<policyVars, keptTiers, threshold>>

-----------------------------------------------------------------------------
KeepOpa == UNCHANGED <<opaVars, call, usedTiers>>

SaveStep(s) ==
  /\ \/ \E fails \in BOOLEAN : LoadPolicy(s, fails) /\ Faulty(fails)
     \/ InstallPolicy(s) /\ Faulty(FALSE)
  /\ KeepOpa

CallStep(c) ==
  \/ LookTier(c) \/ TakeSlmLock(c)
  \/ \E tier \in ModelTier, fails \in BOOLEAN : Classify(c, tier, fails)
  \/ \E fails \in BOOLEAN : KeepTier(c, fails) \/ LoadDoc(c, fails)
  \/ ReadPolicyCache(c) \/ CacheDoc(c) \/ Evaluate(c) \/ OverrideAnswer(c)

ToolNext ==
  \/ \E s \in Saver :
       \/ \E doc \in Docs : stored.row < MaxStores /\ StorePolicy(s, doc) /\ Faulty(FALSE) /\ KeepOpa
       \/ SaveStep(s)
  \/ \E fails \in BOOLEAN : RestartRadar(fails) /\ Faulty(TRUE) /\ KeepOpa
  \/ \E c \in Call :
       \/ \E tool \in ToolName : AskTier(c, tool)
       \/ CallStep(c) \/ GiveUpOnOpa(c)
  \/ TtlPasses \/ RestartOpa
  \/ \E tier \in SliderTier : SetThreshold(tier)

(* Threads run on, and time passes.                                        *)
ToolFairness ==
  /\ \A s \in Saver : WF_toolVars(SaveStep(s))
  /\ WF_toolVars(TtlPasses)

ToolSpec == ToolInit /\ [][ToolNext]_toolVars

-----------------------------------------------------------------------------
(* However many calls of a tool nobody has asked about arrive at once, the *)
(* OPA agent decides its tier once: no two calls are answered from         *)
(* different tiers as long as the process lives (tier_for).                *)
TierDecidedOnce == \A tool \in ToolName : Cardinality(usedTiers[tool]) <= 1

(* Once no more documents are stored, the radar holds the newest one,      *)
(* unless the save of that document overlapped another or its load failed; *)
(* and the OPA agent answers from the newest one, whatever failed in       *)
(* between (save, reload, _operator_policy_doc).                           *)
SavedPolicyReaches ==
  /\ <>[](misled \/ active = stored)
  /\ <>[](policyCache.fresh => policyCache.doc = stored.doc)

(* On any policy the radar comes to hold, an agent that declares more      *)
(* skills is never recognised, nor let through the gate, where it would    *)
(* not be without them: skills are self-declared (validate_policy,         *)
(* agent_explicit, authoritative_risk, _operator_policy_gate).             *)
SkillsOnlyTighten ==
  [][active'.doc # active.doc =>
       \A agent \in Agents, skills \in SUBSET Skill, t \in ToolTier \cup {Unset} :
         /\ AgentRecognised(active'.doc, agent, t, skills) = "yes" =>
              AgentRecognised(active'.doc, agent, t, {}) = "yes"
         /\ \A tool \in ToolName :
              OperatorPolicyGate(active'.doc, "allow", agent, t, skills, tool) = "allow" =>
                OperatorPolicyGate(active'.doc, "allow", agent, t, {}, tool) = "allow"]_active
=============================================================================
