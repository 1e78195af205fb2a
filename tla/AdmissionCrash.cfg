\* A crash between the registry write and the token row.
SPECIFICATION Spec
CONSTANTS
  agent = agent
  s1 = s1
  s2 = s2
  loop = loop
  pool = pool
  Loop = loop
  Agent = {agent}
  Scope = {s1}
  Thread = {loop}
  Magazine <- NoMagazine
  RequireObserved <- None
  Declarations <- All
  Temporal = FALSE
  Limit <- CrashLimit
PROPERTY PendingSurvivesRestart
CHECK_DEADLOCK FALSE
