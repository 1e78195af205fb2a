\* Two threads, agents that keep working, one of them removed on the way.
SPECIFICATION WorkingSpec
CONSTANTS
  agent = agent
  s1 = s1
  s2 = s2
  loop = loop
  pool = pool
  Loop = loop
  Agent = {agent}
  Scope = {s1}
  Thread = {loop, pool}
  Magazine <- NoMagazine
  RequireObserved <- Telemetry
  Declarations <- All
  Temporal = FALSE
  Limit <- LiveLimit
PROPERTIES WorkingAgentsAdmitted OnboardingCompletes
CHECK_DEADLOCK FALSE
