----------------------------- MODULE MC_Gateways -----------------------------
(* Instances for TLC of the two gates an agent's work passes: that of a     *)
(* write, and that of a call of the model. They share no variable: a run    *)
(* moves one of them, its focus.                                            *)
EXTENDS MC_GateTokens, MC_LlmBudget

VARIABLE focus

GatewaysInit ==
  /\ focus \in {"write", "model"}
  /\ Init
  /\ BudgetInit
  /\ focus = "model" \/ budget = CHOOSE b \in Budget : TRUE

GatewaysNext ==
  /\ UNCHANGED focus
  /\ \/ focus = "write" /\ Next /\ UNCHANGED budgetVars
     \/ focus = "model" /\ BudgetNext /\ UNCHANGED vars

GatewaysSpec == GatewaysInit /\ [][GatewaysNext]_<<focus, vars, budgetVars>>
=============================================================================
