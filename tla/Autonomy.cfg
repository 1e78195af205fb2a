\* Two agents that share a process, a thread that removes agents; an agent's
\* ladder under two threads, or under one and a failing database.
SPECIFICATION AutonomySpec
CONSTANTS
  Pool = {"t1", "t2"}
  Declarations <- EveryDeclaration
  Full = "active"
  Storable <- Canonical
  Faults = {"database", "neighbour"}
  Bound = 3
  WriteBlock <- Block
  TokenRisk <- NoConstant
  OperatorClass <- NoConstant
  Agent = {"a", "b"}
  Process = {"p"}
  Endpoint = {"u"}
  None = "none"
  Entries <- Tenants
  Metered = {"a"}
  Thread = {"t1"}
  Limit <- Few
INVARIANTS
  TypeOK
  LadderTypeOK
  RungOnOwnLadder
  StopsTracked
  StopsJournaled
PROPERTIES
  RaisedOnlyByRace
  FailingAgentStops
  RowCatchesUp
  RecoveredReleased
\* The model bounds how often agents register, are metered and removed.
CHECK_DEADLOCK FALSE
