SPECIFICATION PlaneSpec
CONSTANTS
  Evaluator = {e1}
  GuardedTool = {t}
  MaxHookOps = 3
  Docs <- TwoDocs
  Agents <- FourAgents
  Skill = {"k", "l"}
  Saver = {"s1", "s2"}
  Call = {"c1", "c2"}
  ToolName = {"t"}
  ModelTier = {"low", "high"}
  SliderTier = {"high"}
  DefaultTier = "low"
  FailOpen = TRUE
  MaxStores = 2
  MaxFaults = 1
  Writer = {"w1", "w2"}
  Step <- Governed
  RingMax = 2
  MaxRecords = 3
  MaxAge = 4
  Budget = {1, 3}
  Memories <- TwoMemories
  MaxStarts = 2
  MaxMishaps = 2
  MaxCalls = 2
  MaxTasks = 2
  AgentKits = {"arxiv", "writeup"}
  WriteTiers = {"medium", "high"}
  RiskMaps <- TwoMaps
  GateFailOpen = TRUE
  MaxDeploys = 2
  MaxToolCalls = 2
  Submitter = {"q1", "q2"}
  MaxPids = 3
  MaxClicks = 2
INVARIANTS
  VerdictOfAMoment
  TierDecidedOnce
  ForksOnlyByOverlap
  AnchorSeated
  MeteredAtMostOnce
  RunsAsClassified
PROPERTIES
  SkillsOnlyTighten
  SavedPolicyReaches
  PresenceTracksProcess
  FoundStaysFound
CHECK_DEADLOCK FALSE
