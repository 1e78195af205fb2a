----------------------------- MODULE GateTokens -----------------------------
(***************************************************************************)
(* The write gate and its approval tokens (radar/api.py gate and           *)
(* _resolve_approval, tokens.py, db.py, governance.approval_tokens).       *)
(*                                                                         *)
(* A call of the gate is a thread in task: it reads the agent's entry,     *)
(* takes the policy decision on that snapshot, then claims the token it    *)
(* presents or asks for a new one, and passes the guards.  Each SQL        *)
(* statement is one action, operators and other calls come in between.     *)
(***************************************************************************)
EXTENDS Policy

CONSTANTS
  Agent, Thread,
  Token,            (* ids of rows of approval_tokens                       *)
  NoToken,          (* no token presented, issued or held                   *)
  Entries,          (* what the registry may say of an agent                *)
  Requests,         (* what agents ask: agent, write, scope, class          *)
  Expansion         (* APPROVAL_ACTION_CLASS                                *)

ASSUME NoTokenAssumption == NoToken \notin Token
ASSUME AgentAssumption == "" \notin Agent
ASSUME RequestAssumption == \A r \in Requests : r.agent \in Agent

NoEntry == [absent |-> TRUE]
Scope == (UNION {e.scopes : e \in Entries}) \cup {r.scope : r \in Requests}
Class == ({r.class : r \in Requests} \ {""}) \cup {Expansion, "gated_write"}

Status == {"none", "pending", "approved", "denied", "consumed"}
Row == [agent : Agent \cup {""}, class : Class, scopes : SUBSET Scope,
        status : Status, live : BOOLEAN]
Free == [agent |-> "", class |-> "gated_write", scopes |-> {}, status |-> "none", live |-> FALSE]

Stage == {"read", "consume", "issue", "guard", "allowed"}
Idle == [stage |-> "idle"]
Task == {Idle} \cup
  [stage : Stage, seen : Entries, r : Requests,
   token : Token \cup {NoToken}, held : Token \cup {NoToken}]

VARIABLES
  registry,         (* agent -> its entry                                   *)
  tokens,           (* the table governance.approval_tokens                 *)
  task,             (* the gate call of each thread                         *)
  writes            (* history: writes allowed under each token             *)
vars == <<registry, tokens, task, writes>>

Present(a) == registry[a] # NoEntry
Ready(th) == task[th].stage \in {"idle", "allowed"}
Goto(th, stage) == task' = [task EXCEPT ![th].stage = stage]
Deny(th) == task' = [task EXCEPT ![th] = Idle]

Init ==
  /\ registry = [a \in Agent |-> NoEntry]
  /\ tokens = [k \in Token |-> Free]
  /\ task = [th \in Thread |-> Idle]
  /\ writes = [k \in Token |-> 0]

(***************************************************************************)
(* One call of the gate                                                    *)
(***************************************************************************)
GateRead(th) ==
  /\ Ready(th)
  /\ \E r \in Requests, k \in Token \cup {NoToken} :
       /\ Present(r.agent)
       /\ k # NoToken => tokens[k].status # "none"
       /\ task' = [task EXCEPT ![th] =
            [stage |-> "read", seen |-> registry[r.agent], r |-> r,
             token |-> k, held |-> NoToken]]
  /\ UNCHANGED <<registry, tokens, writes>>

(* Where a decision sends the call (_resolve_approval).                    *)
Resolve(gate, token) ==
  CASE gate = "auto_authorized" -> "guard"
    [] gate = "awaiting_token" /\ token # NoToken -> "consume"
    [] OTHER -> "issue"

(* An agent that has exhausted its token budget is denied before the       *)
(* policy is asked, so any call may be denied here.                        *)
GateDecide(th) ==
  /\ task[th].stage = "read"
  /\ \/ Deny(th)
     \/ \E engine \in {"opa", "policy"} :
          LET gate == Decision(task[th].seen, task[th].r, engine).gate
          IN gate # "denied" /\ Goto(th, Resolve(gate, task[th].token))
  /\ UNCHANGED <<registry, tokens, writes>>

(* The WHERE clause of the one UPDATE that claims a token.  It reads       *)
(* neither the class nor the branch of the row.                            *)
UsableTwice(row, r) ==
  /\ row.status \in {"approved", "consumed"}
  /\ row.live
  /\ row.agent = r.agent
  /\ r.scope = "" \/ r.scope \in row.scopes

Usable(row, r) ==
  /\ row.status = "approved"
  /\ row.live
  /\ row.agent = r.agent
  /\ r.scope = "" \/ r.scope \in row.scopes

(* Every token is issued for one use, so the use it makes is the last.     *)
GateConsume(th) ==
  /\ task[th].stage = "consume"
  /\ LET k == task[th].token
     IN \/ /\ Usable(tokens[k], task[th].r)
           /\ tokens' = [tokens EXCEPT ![k].status = "consumed"]
           /\ task' = [task EXCEPT ![th].stage = "guard", ![th].held = k]
        \/ Deny(th) /\ UNCHANGED tokens
  /\ UNCHANGED <<registry, writes>>

IssuedUnclassed(e, r) ==
  [agent |-> r.agent, class |-> r.class, scopes |-> IF r.scope = "" THEN e.scopes ELSE {r.scope},
   status |-> "pending", live |-> TRUE]

Issued(e, r) ==
  [agent |-> r.agent, class |-> IF r.class = "" THEN "gated_write" ELSE r.class,
   scopes |-> IF r.scope = "" THEN e.scopes ELSE {r.scope},
   status |-> "pending", live |-> TRUE]

GateIssueOpen(th) ==
  /\ task[th].stage = "issue"
  /\ \/ /\ Present(task[th].r.agent)
        /\ \E k \in Token :
             /\ tokens[k].status = "none"
             /\ tokens' = [tokens EXCEPT ![k] = Issued(task[th].seen, task[th].r)]
        /\ Deny(th)
     \/ Goto(th, "guard") /\ UNCHANGED tokens
  /\ UNCHANGED <<registry, writes>>

(* The call is held; without a database, or without the agent's row there, *)
(* no token is issued.                                                     *)
GateIssue(th) ==
  /\ task[th].stage = "issue"
  /\ Deny(th)
  /\ \/ /\ Present(task[th].r.agent)
        /\ \E k \in Token :
             /\ tokens[k].status = "none"
             /\ tokens' = [tokens EXCEPT ![k] = Issued(task[th].seen, task[th].r)]
     \/ UNCHANGED tokens
  /\ UNCHANGED <<registry, writes>>

(* The guard hooks and the operator policy may turn an allow into a deny.  *)
GateGuard(th) ==
  /\ task[th].stage = "guard"
  /\ \/ /\ Goto(th, "allowed")
        /\ writes' = [k \in Token |-> IF k = task[th].held THEN writes[k] + 1 ELSE writes[k]]
     \/ Deny(th) /\ UNCHANGED writes
  /\ UNCHANGED <<registry, tokens>>

Gate(th) == GateRead(th) \/ GateDecide(th) \/ GateConsume(th) \/ GateIssue(th) \/ GateGuard(th)

(***************************************************************************)
(* Operators                                                               *)
(***************************************************************************)
DecideToken(a, k, decision) ==
  /\ Present(a)
  /\ tokens[k].agent = a
  /\ tokens[k].status = "pending"
  /\ tokens' = [tokens EXCEPT ![k].status = decision]
  /\ UNCHANGED <<registry, task, writes>>

(* Approving or denying an agent decides its pending scope expansions.     *)
DecideAgent(a, decision) ==
  /\ Present(a)
  /\ tokens' = [k \in Token |->
       IF tokens[k].agent = a /\ tokens[k].status = "pending" /\ tokens[k].class = Expansion
         THEN [tokens[k] EXCEPT !.status = decision] ELSE tokens[k]]
  /\ UNCHANGED <<registry, task, writes>>

(***************************************************************************)
(* The rest of the control plane, as far as the gate sees it               *)
(***************************************************************************)
(* Registrations, signals and reclassifications change an entry; one that  *)
(* widens the scopes asks for an approval of its own.                      *)
Govern(a) ==
  /\ \E e \in Entries : registry' = [registry EXCEPT ![a] = e]
  /\ UNCHANGED <<tokens, task, writes>>

ExpandScopes(a) ==
  /\ \E e \in Entries, k \in Token :
       /\ registry' = [registry EXCEPT ![a] = e]
       /\ tokens[k].status = "none"
       /\ tokens' = [tokens EXCEPT ![k] =
            [agent |-> a, class |-> Expansion, scopes |-> e.scopes,
             status |-> "pending", live |-> TRUE]]
  /\ UNCHANGED <<task, writes>>

(* ON DELETE SET NULL: the tokens of a removed agent belong to nobody.     *)
Deregister(a) ==
  /\ Present(a)
  /\ registry' = [registry EXCEPT ![a] = NoEntry]
  /\ tokens' = [k \in Token |->
       IF tokens[k].agent = a THEN [tokens[k] EXCEPT !.agent = ""] ELSE tokens[k]]
  /\ UNCHANGED <<task, writes>>

Expire(k) ==
  /\ tokens[k].live
  /\ tokens' = [tokens EXCEPT ![k].live = FALSE]
  /\ UNCHANGED <<registry, task, writes>>

Restart ==
  /\ task' = [th \in Thread |-> Idle]
  /\ UNCHANGED <<registry, tokens, writes>>

Next ==
  \/ \E th \in Thread : Gate(th)
  \/ \E a \in Agent :
       \/ \E decision \in {"approved", "denied"} :
            DecideAgent(a, decision) \/ \E k \in Token : DecideToken(a, k, decision)
       \/ Govern(a) \/ ExpandScopes(a) \/ Deregister(a)
  \/ \E k \in Token : Expire(k)
  \/ Restart

Spec == Init /\ [][Next]_vars

(***************************************************************************)
(* Properties                                                              *)
(***************************************************************************)
(* The registry, the token table, the calls in flight and the history have *)
(* their types.                                                            *)
TypeOK ==
  /\ registry \in [Agent -> Entries \cup {NoEntry}]
  /\ tokens \in [Token -> Row]
  /\ task \in [Thread -> Task]
  /\ writes \in [Token -> Nat]

Claims(th, k) == task[th].stage = "guard" /\ task[th].held = k
Claimed(k) == \E th \in Thread : Claims(th, k)

(* Where a token stands for who approved it.                               *)
Approval(k) ==
  CASE tokens[k].status = "none" -> "none"
    [] tokens[k].status = "consumed" ->
         IF writes[k] > 0 THEN "performed"
         ELSE IF Claimed(k) THEN "claimed" ELSE "wasted"
    [] OTHER ->
         IF ~tokens[k].live \/ tokens[k].agent = "" THEN "lapsed"
         ELSE CASE tokens[k].status = "pending" -> "asked"
                [] tokens[k].status = "approved" -> "granted"
                [] tokens[k].status = "denied" -> "refused"

Abstract == INSTANCE Authorization WITH approval <- [k \in Token |-> Approval(k)]

(* However gate calls, operators, expiry, removals and restarts interleave *)
(* a token is claimed once, only while granted and neither expired nor     *)
(* orphaned, and covers one write (verify_and_consume_gate_token).         *)
AuthorizesOnce == Abstract!Spec

(* Any write the gate allows an agent of a token-gated tier, whichever     *)
(* engine decided, used up a token that carries its scope and that covers  *)
(* no other write; what the token was approved for is not compared.        *)
RiskyWriteSpendsToken ==
  \A th \in Thread :
    /\ task[th].stage = "allowed"
    /\ task[th].r.write
    /\ task[th].seen.risk \in TokenRisk
    => LET k == task[th].held
       IN /\ k # NoToken /\ tokens[k].status = "consumed" /\ writes[k] = 1
          /\ task[th].r.scope # "" => task[th].r.scope \in tokens[k].scopes

-----------------------------------------------------------------------------
(* Violated by the code: see README, "Findings".                           *)

(* tokens.py: "The token authorizes only the approved action class ... All *)
(* other actions remain blocked".  The class of a write that names none is *)
(* the one a token issued for it gets.                                     *)
WriteOfApprovedClass ==
  \A th \in Thread :
    /\ task[th].stage = "allowed"
    /\ task[th].held # NoToken
    => tokens[task[th].held].class = Issued(task[th].seen, task[th].r).class
=============================================================================
