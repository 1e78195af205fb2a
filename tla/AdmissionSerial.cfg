\* One thread: every handler runs to its end before the next one starts;
\* onboarding as Temporal workflows, a restart.
SPECIFICATION Spec
CONSTANTS
  agent = agent
  s1 = s1
  s2 = s2
  loop = loop
  pool = pool
  Loop = loop
  Agent = {agent}
  Scope = {s1, s2}
  Thread = {loop}
  Magazine <- OneMagazine
  RequireObserved <- None
  Declarations <- All
  Temporal = TRUE
  Limit <- SerialLimit
INVARIANTS TypeOK ActiveScopesGranted GatedWhilePending
CONSTRAINT CardOrExpiry
CHECK_DEADLOCK FALSE
