\* Two threads: an observation, an approval or the reconciler may write from
\* a snapshot that a registration on the other thread has overtaken. Three
\* files, instrumented twice.
SPECIFICATION EnrolmentSpec
CONSTANTS
  agent = agent
  s1 = s1
  s2 = s2
  loop = loop
  pool = pool
  Loop = loop
  Agent = {agent}
  Scope = {s1}
  Thread = {loop, pool}
  Magazine <- NoMagazine
  RequireObserved <- Telemetry
  Declarations <- All
  Temporal = FALSE
  Limit <- RaceLimit
  Files <- ThreeFiles
  Repositories <- TwoRepositories
  Unreadable = {"c"}
  Installed <- Tracing
  ReplyKinds <- EveryKind
  MaxRuns = 2
INVARIANTS
  AllOrNothing
  GapsAccounted
  PassedFilesJudged
PROPERTIES
  GateOnlyLostToRace
  EveryFileHandled
CHECK_DEADLOCK FALSE
