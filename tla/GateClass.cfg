\* One call of the gate at a time, one token, whose class nobody compares.
SPECIFICATION Spec
CONSTANTS
  Agent = {"a", "b"}
  Thread = {"t1"}
  Token = {"k1"}
  NoToken = "no_token"
  Entries <- Varied
  Requests <- Writes
  Expansion = "scope_expansion"
  WriteBlock <- Block
  TokenRisk <- Risky
  OperatorClass <- OperatorClasses
INVARIANT WriteOfApprovedClass
