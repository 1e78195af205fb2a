\* Two writes in flight, two agents, one token; two calls of the model in
\* flight, an execution event or a tool call recorded meanwhile.
SPECIFICATION GatewaysSpec
CONSTANTS
  Agent = {"a", "b"}
  Thread = {"t1", "t2"}
  Token = {"k1"}
  NoToken = "no_token"
  Entries <- Varied
  Requests <- Writes
  Expansion = "scope_expansion"
  WriteBlock <- Block
  TokenRisk <- Risky
  OperatorClass <- OperatorClasses
  c1 = c1
  c2 = c2
  Gateway = {c1, c2}
  Reporter = {"e1"}
  Recorder = {"r1"}
  None = "none"
  Budget = {2, 3}
  Estimates = {0, 1, 2}
  Usage = {0, 1, 2}
  WarnPercent = 80
  ExhaustPercent = 110
  Enforced = {"exhausted"}
  Limit <- ThreadsLimit
INVARIANTS
  TypeOK
  RiskyWriteSpendsToken
  ReservationsKept
  SpendBounded
  ExhaustionReported
PROPERTY AuthorizesOnce
CHECK_DEADLOCK FALSE
SYMMETRY Calls
