------------------------------- MODULE Policy -------------------------------
(***************************************************************************)
(* The pure decisions of the control plane: where an agent stands on its   *)
(* degradation ladder (radar/policy.py) and what the write gate answers,   *)
(* once as the Python fallback computes it (radar/policy.py, opa.py) and   *)
(* once as the Rego policy does (policies/awcp/gate.rego).                 *)
(*                                                                         *)
(* Sequences count from 1, so position 1 is the code's index 0, full       *)
(* autonomy.  A gate decision is its kind and mode: it allows exactly when *)
(* its kind is "auto_authorized".  "" is a scope or class left out.        *)
(***************************************************************************)
EXTENDS Naturals, Sequences

CONSTANTS
  WriteBlock,       (* WRITE_BLOCK_STAGES                                   *)
  TokenRisk,        (* TOKEN_RISK_TIERS                                     *)
  OperatorClass     (* OPERATOR_ACTION_CLASSES                              *)

Least(S) == CHOOSE i \in S : \A j \in S : i <= j

(***************************************************************************)
(* The ladder                                                              *)
(***************************************************************************)
PositionsOf(ladder, profile) == {i \in DOMAIN ladder : ladder[i] = profile}

(* A profile that is not on the ladder counts as full autonomy.            *)
Position(ladder, profile) ==
  IF PositionsOf(ladder, profile) = {} THEN 1 ELSE Least(PositionsOf(ladder, profile))

LastRung(ladder) == ladder[Len(ladder)]

NextProfileSkips(ladder, profile) ==
  IF Position(ladder, profile) + 1 < Len(ladder)
    THEN ladder[Position(ladder, profile) + 1] ELSE ladder[1]

NextProfile(ladder, profile) ==
  IF Position(ladder, profile) < Len(ladder)
    THEN ladder[Position(ladder, profile) + 1] ELSE LastRung(ladder)

WriteBlockPosition(ladder) ==
  LET blocked == {i \in DOMAIN ladder : ladder[i] \in WriteBlock}
  IN IF blocked = {} THEN 2 ELSE Least(blocked)

HardStop(ladder, profile) ==
  Len(ladder) > 1 /\ Position(ladder, profile) = Len(ladder)

WritesBlocked(ladder, profile) ==
  \/ HardStop(ladder, profile)
  \/ Position(ladder, profile) >= WriteBlockPosition(ladder)

(* apply_signal: does a failure seen with this entry exhaust its budget?   *)
(* The hard stop is recognised by the rung's name.                         *)
Exhausts(e) ==
  /\ e.failures + 1 >= e.budget
  /\ e.profile # LastRung(e.ladder)

(***************************************************************************)
(* The gate                                                                *)
(***************************************************************************)
Denied(mode) == [gate |-> "denied", mode |-> mode]
Authorized(mode) == [gate |-> "auto_authorized", mode |-> mode]

PolicyDecision(e, r) ==
  IF ~r.write THEN Authorized(e.profile)
  ELSE IF e.status = "quarantined" THEN Denied("quarantined")
  ELSE IF r.scope # "" /\ r.scope \notin e.scopes THEN Denied("out_of_scope")
  ELSE IF WritesBlocked(e.ladder, e.profile) THEN Denied(e.profile)
  ELSE IF r.class # "" /\ r.class \in OperatorClass
    THEN [gate |-> "awaiting_operator", mode |-> "operator_required"]
  ELSE IF e.risk \in TokenRisk THEN [gate |-> "awaiting_token", mode |-> "token_required"]
  ELSE Authorized(e.profile)

(* gate.rego: cur_idx is a complete rule, so a rung that occurs twice on   *)
(* the ladder makes its evaluation fail.                                   *)
RegoConflict(e) == \E i, j \in PositionsOf(e.ladder, e.profile) : i # j

RegoIndex(e) ==
  IF PositionsOf(e.ladder, e.profile) = {}
    THEN 1 ELSE CHOOSE i \in DOMAIN e.ladder : e.ladder[i] = e.profile

(* The bodies of `result`, in the order of its else-chain.                 *)
RegoRules(e, r) ==
  << [when |-> ~r.write, then |-> Authorized(e.profile)],
     [when |-> e.status = "quarantined", then |-> Denied("quarantined")],
     [when |-> r.scope # "" /\ ~(r.scope \in e.scopes), then |-> Denied("out_of_scope")],
     [when |-> Len(e.ladder) > 1 /\ RegoIndex(e) = Len(e.ladder), then |-> Denied(e.profile)],
     [when |-> RegoIndex(e) >= WriteBlockPosition(e.ladder), then |-> Denied(e.profile)],
     [when |-> r.class # "" /\ r.class \in OperatorClass,
      then |-> [gate |-> "awaiting_operator", mode |-> "operator_required"]],
     [when |-> e.risk \in TokenRisk,
      then |-> [gate |-> "awaiting_token", mode |-> "token_required"]],
     [when |-> TRUE, then |-> Authorized(e.profile)] >>

RegoDecision(e, r) ==
  LET rules == RegoRules(e, r)
  IN rules[Least({i \in 1..8 : rules[i].when})].then

(* evaluate_action of opa.py: the server's decision, or the fallback when  *)
(* there is none to be had.                                                *)
Decision(e, r, engine) ==
  IF engine = "opa" /\ ~RegoConflict(e) THEN RegoDecision(e, r) ELSE PolicyDecision(e, r)
=============================================================================
