---------------------------- MODULE MC_GateTokens ----------------------------
(* Instances of GateTokens for TLC.                                        *)
EXTENDS GateTokens

Steps == <<"active", "recommendation_only", "suspended">>
Block == {"recommendation_only", "suspended"}
Risky == {"high"}
OperatorClasses == {"cross_system"}

Known(risk, scopes) ==
  [status |-> "active", profile |-> "active", ladder |-> Steps,
   scopes |-> scopes, risk |-> risk]
Varied == {Known("high", {"s", "u"}), Known("low", {"s"})}

Asks(a, scope, class) == [agent |-> a, write |-> TRUE, scope |-> scope, class |-> class]
Writes == {Asks("a", "u", ""), Asks("a", "", ""), Asks("b", "u", "cross_system")}
=============================================================================
