\* One thread, onboarding inline, and a restart in the middle of a run.
SPECIFICATION LiveSpec
CONSTANTS
  agent = agent
  s1 = s1
  s2 = s2
  loop = loop
  pool = pool
  Loop = loop
  Agent = {agent}
  Scope = {s1}
  Thread = {loop}
  Magazine <- NoMagazine
  RequireObserved <- None
  Declarations <- All
  Temporal = FALSE
  Limit <- CutLimit
PROPERTY OnboardingCompletes
CHECK_DEADLOCK FALSE
