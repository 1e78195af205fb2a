----------------------------- MODULE GateProofs -----------------------------
(***************************************************************************)
(* Proofs about the write gate, for every number of agents, threads and    *)
(* tokens and every set of entries and requests.                           *)
(***************************************************************************)
EXTENDS GateTokens, WellFoundedInduction, TLAPS

(***************************************************************************)
(* Positions on a ladder                                                   *)
(***************************************************************************)
IsLadder(ladder) ==
  /\ \E S : ladder \in Seq(S)
  /\ ladder # <<>>
  /\ \A i, j \in DOMAIN ladder : ladder[i] = ladder[j] => i = j

(* A set of naturals with a least element has it as its Least.             *)
LEMMA LeastIs ==
  ASSUME NEW S, S \subseteq Nat, NEW k \in S, \A j \in S : k <= j
  PROVE  Least(S) = k
<1>1. Least(S) \in S /\ \A j \in S : Least(S) <= j
  BY DEF Least
<1>2. Least(S) \in Nat /\ k \in Nat
  BY <1>1
<1>3. QED BY <1>1, <1>2

LEMMA LeastExists ==
  ASSUME NEW S, S \subseteq Nat, S # {}
  PROVE  Least(S) \in S /\ \A j \in S : Least(S) <= j
<1>1. \E k \in S : \A j \in S : ~ (<<j, k>> \in OpToRel(<, Nat))
  BY NatLessThanWellFounded, WFMin
<1>2. PICK k \in S : \A j \in S : ~ (j < k)
  BY <1>1 DEF OpToRel
<1>3. \A j \in S : k <= j
  BY <1>2
<1>4. QED BY <1>3 DEF Least

(* Every position is one of the ladder's.                                  *)
LEMMA LadderDomain ==
  ASSUME NEW ladder, IsLadder(ladder)
  PROVE  /\ Len(ladder) \in Nat \ {0}
         /\ DOMAIN ladder = 1..Len(ladder)
<1>1. PICK S : ladder \in Seq(S)
  BY DEF IsLadder
<1>2. QED BY <1>1 DEF IsLadder

(* A rung of the ladder stands at its own position.                        *)
LEMMA PositionOfRung ==
  ASSUME NEW ladder, IsLadder(ladder), NEW i \in DOMAIN ladder
  PROVE  Position(ladder, ladder[i]) = i
<1>1. PositionsOf(ladder, ladder[i]) = {i}
  BY DEF PositionsOf, IsLadder
<1>2. {i} \subseteq Nat
  BY LadderDomain
<1>3. Least({i}) = i
  BY <1>2, LeastIs
<1>4. QED BY <1>1, <1>3 DEF Position

(***************************************************************************)
(* The two engines                                                         *)
(***************************************************************************)
LEMMA RegoIndexIsPosition ==
  ASSUME NEW e, IsLadder(e.ladder)
  PROVE  RegoIndex(e) = Position(e.ladder, e.profile)
<1>1. CASE PositionsOf(e.ladder, e.profile) = {}
  BY <1>1 DEF RegoIndex, Position
<1>2. CASE PositionsOf(e.ladder, e.profile) # {}
  <2>1. PICK i \in DOMAIN e.ladder : e.ladder[i] = e.profile
    BY <1>2 DEF PositionsOf
  <2>2. \A j \in DOMAIN e.ladder : e.ladder[j] = e.profile => j = i
    BY <2>1 DEF IsLadder
  <2>3. RegoIndex(e) = i
    BY <1>2, <2>1, <2>2 DEF RegoIndex
  <2>4. Position(e.ladder, e.profile) = i
    BY <2>1, PositionOfRung
  <2>5. QED BY <2>3, <2>4
<1>3. QED BY <1>1, <1>2

(* The first rule whose body holds decides; the last one always holds.     *)
LEMMA FirstRule ==
  ASSUME NEW e, NEW r
  PROVE  \E k \in 1..8 :
           /\ RegoDecision(e, r) = RegoRules(e, r)[k].then
           /\ RegoRules(e, r)[k].when
           /\ \A j \in 1..8 : j < k => ~RegoRules(e, r)[j].when
<1> DEFINE rules == RegoRules(e, r)
           holds == {i \in 1..8 : rules[i].when}
<1>1. rules[8].when
  BY DEF RegoRules
<1>2. holds \subseteq Nat /\ holds # {}
  BY <1>1
<1>3. Least(holds) \in holds /\ \A j \in holds : Least(holds) <= j
  <2> HIDE DEF holds
  <2> QED BY <1>2, LeastExists
<1>4. RegoDecision(e, r) = rules[Least(holds)].then
  BY DEF RegoDecision
<1>5. \A j \in 1..8 : j < Least(holds) => ~rules[j].when
  BY <1>3
<1>6. QED BY <1>3, <1>4, <1>5

LEMMA RuleBodies ==
  ASSUME NEW e, NEW r
  PROVE  LET rules == RegoRules(e, r)
         IN /\ rules[1].when <=> ~r.write
            /\ rules[2].when <=> e.status = "quarantined"
            /\ rules[3].when <=> r.scope # "" /\ r.scope \notin e.scopes
            /\ rules[4].when <=> Len(e.ladder) > 1 /\ RegoIndex(e) = Len(e.ladder)
            /\ rules[5].when <=> RegoIndex(e) >= WriteBlockPosition(e.ladder)
            /\ rules[6].when <=> r.class # "" /\ r.class \in OperatorClass
            /\ rules[7].when <=> e.risk \in TokenRisk
  BY Zenon DEF RegoRules
LEMMA RuleHeads ==
  ASSUME NEW e, NEW r
  PROVE  LET rules == RegoRules(e, r)
         IN /\ rules[1].then = Authorized(e.profile)
            /\ rules[2].then = Denied("quarantined")
            /\ rules[3].then = Denied("out_of_scope")
            /\ rules[4].then = Denied(e.profile)
            /\ rules[5].then = Denied(e.profile)
            /\ rules[6].then = [gate |-> "awaiting_operator", mode |-> "operator_required"]
            /\ rules[7].then = [gate |-> "awaiting_token", mode |-> "token_required"]
            /\ rules[8].then = Authorized(e.profile)
  BY DEF RegoRules

(* Whatever the agent and the request, gate.rego and its Python fallback   *)
(* decide alike (opa._gate_kind: "so the two always agree").               *)
THEOREM EnginesAgree ==
  ASSUME NEW e, IsLadder(e.ladder), NEW r
  PROVE  RegoDecision(e, r) = PolicyDecision(e, r)
<1> DEFINE rules == RegoRules(e, r)
           blocked == \/ Len(e.ladder) > 1 /\ RegoIndex(e) = Len(e.ladder)
                      \/ RegoIndex(e) >= WriteBlockPosition(e.ladder)
<1>1. PICK k \in 1..8 :
        /\ RegoDecision(e, r) = rules[k].then
        /\ rules[k].when
        /\ \A j \in 1..8 : j < k => ~rules[j].when
  BY FirstRule
<1>2. WritesBlocked(e.ladder, e.profile) <=> blocked
  BY RegoIndexIsPosition DEF WritesBlocked, HardStop
<1> HIDE DEF rules, blocked
<1>3. /\ rules[1].when <=> ~r.write
      /\ rules[2].when <=> e.status = "quarantined"
      /\ rules[3].when <=> r.scope # "" /\ r.scope \notin e.scopes
      /\ rules[4].when \/ rules[5].when <=> blocked
      /\ rules[6].when <=> r.class # "" /\ r.class \in OperatorClass
      /\ rules[7].when <=> e.risk \in TokenRisk
  BY RuleBodies, Zenon DEF rules, blocked
<1>4. /\ rules[1].then = Authorized(e.profile)
      /\ rules[2].then = Denied("quarantined")
      /\ rules[3].then = Denied("out_of_scope")
      /\ rules[4].then = Denied(e.profile)
      /\ rules[5].then = Denied(e.profile)
      /\ rules[6].then = [gate |-> "awaiting_operator", mode |-> "operator_required"]
      /\ rules[7].then = [gate |-> "awaiting_token", mode |-> "token_required"]
      /\ rules[8].then = Authorized(e.profile)
  BY RuleHeads DEF rules
<1>5. /\ k # 1 => ~rules[1].when
      /\ k \notin 1..2 => ~rules[2].when
      /\ k \notin 1..3 => ~rules[3].when
      /\ k \notin 1..5 => ~rules[4].when /\ ~rules[5].when
      /\ k \notin 1..6 => ~rules[6].when
      /\ k \notin 1..7 => ~rules[7].when
  BY <1>1
<1>6. /\ k = 1 => ~r.write
      /\ k # 1 => r.write
      /\ k = 2 => e.status = "quarantined"
      /\ k \notin 1..2 => e.status # "quarantined"
      /\ k = 3 => r.scope # "" /\ r.scope \notin e.scopes
      /\ k \notin 1..3 => ~(r.scope # "" /\ r.scope \notin e.scopes)
      /\ k = 4 \/ k = 5 => blocked
      /\ k \notin 1..5 => ~blocked
      /\ k = 6 => r.class # "" /\ r.class \in OperatorClass
      /\ k \notin 1..6 => ~(r.class # "" /\ r.class \in OperatorClass)
      /\ k = 7 => e.risk \in TokenRisk
      /\ k \notin 1..7 => ~(e.risk \in TokenRisk)
  BY <1>1, <1>3, <1>5, Zenon
<1>7. CASE k = 1
  BY <1>1, <1>4, <1>6, <1>7 DEF PolicyDecision
<1>8. CASE k = 2
  BY <1>1, <1>4, <1>6, <1>8 DEF PolicyDecision
<1>9. CASE k = 3
  <2>1. k # 1 /\ k \notin 1..2
    BY <1>9
  <2>2. /\ r.write
        /\ e.status # "quarantined"
        /\ r.scope # ""
        /\ r.scope \notin e.scopes
    BY <1>2, <1>6, <1>9, <2>1, Zenon
  <2>3. PolicyDecision(e, r) = Denied("out_of_scope")
    BY <2>2, Zenon DEF PolicyDecision
  <2>4. QED BY <1>1, <1>4, <1>9, <2>3
<1>10. CASE k \in {4, 5}
  <2>1. k # 1 /\ k \notin 1..2 /\ k \notin 1..3 /\ (k = 4 \/ k = 5)
    BY <1>10
  <2>2. /\ r.write
        /\ e.status # "quarantined"
        /\ ~(r.scope # "" /\ r.scope \notin e.scopes)
        /\ WritesBlocked(e.ladder, e.profile)
    BY <1>2, <1>6, <1>10, <2>1, Zenon
  <2>3. PolicyDecision(e, r) = Denied(e.profile)
    BY <2>2, Zenon DEF PolicyDecision
  <2>4. QED BY <1>1, <1>4, <1>10, <2>3
<1>11. CASE k = 6
  <2>1. k # 1 /\ k \notin 1..2 /\ k \notin 1..3 /\ k \notin 1..5
    BY <1>11
  <2>2. /\ r.write
        /\ e.status # "quarantined"
        /\ ~(r.scope # "" /\ r.scope \notin e.scopes)
        /\ ~WritesBlocked(e.ladder, e.profile)
        /\ r.class # ""
        /\ r.class \in OperatorClass
    BY <1>2, <1>6, <1>11, <2>1, Zenon
  <2>3. PolicyDecision(e, r) = [gate |-> "awaiting_operator", mode |-> "operator_required"]
    BY <2>2, Zenon DEF PolicyDecision
  <2>4. QED BY <1>1, <1>4, <1>11, <2>3
<1>12. CASE k = 7
  <2>1. k # 1 /\ k \notin 1..2 /\ k \notin 1..3 /\ k \notin 1..5 /\ k \notin 1..6
    BY <1>12
  <2>2. /\ r.write
        /\ e.status # "quarantined"
        /\ ~(r.scope # "" /\ r.scope \notin e.scopes)
        /\ ~WritesBlocked(e.ladder, e.profile)
        /\ ~(r.class # "" /\ r.class \in OperatorClass)
        /\ e.risk \in TokenRisk
    BY <1>2, <1>6, <1>12, <2>1, Zenon
  <2>3. PolicyDecision(e, r) = [gate |-> "awaiting_token", mode |-> "token_required"]
    BY <2>2, Zenon DEF PolicyDecision
  <2>4. QED BY <1>1, <1>4, <1>12, <2>3
<1>13. CASE k = 8
  <2>1. k # 1 /\ k \notin 1..2 /\ k \notin 1..3 /\ k \notin 1..5 /\ k \notin 1..6 /\ k \notin 1..7
    BY <1>13
  <2>2. /\ r.write
        /\ e.status # "quarantined"
        /\ ~(r.scope # "" /\ r.scope \notin e.scopes)
        /\ ~WritesBlocked(e.ladder, e.profile)
        /\ ~(r.class # "" /\ r.class \in OperatorClass)
        /\ e.risk \notin TokenRisk
    BY <1>2, <1>6, <1>13, <2>1, Zenon
  <2>3. PolicyDecision(e, r) = Authorized(e.profile)
    BY <2>2, Zenon DEF PolicyDecision
  <2>4. QED BY <1>1, <1>4, <1>13, <2>3
<1>14. QED BY <1>7, <1>8, <1>9, <1>10, <1>11, <1>12, <1>13

(***************************************************************************)
(* Types                                                                   *)
(***************************************************************************)
Call ==
  [stage : Stage, seen : Entries, r : Requests,
   token : Token \cup {NoToken}, held : Token \cup {NoToken}]

LEMMA BusyTask ==
  ASSUME TypeOK, NEW th \in Thread, task[th].stage # "idle"
  PROVE  task[th] \in Call
<1>1. task[th] \in Task
  BY DEF TypeOK
<1>2. QED BY <1>1 DEF Task, Idle, Call

(* What a step from one stage of a call to another leaves alone.           *)
LEMMA GotoCall ==
  ASSUME TypeOK, NEW th \in Thread, task[th].stage # "idle",
         NEW stage \in Stage, Goto(th, stage)
  PROVE  /\ task' \in [Thread -> Task]
         /\ \A o \in Thread : o # th => task'[o] = task[o]
         /\ task'[th].stage = stage
         /\ task'[th].held = task[th].held
         /\ task'[th].r = task[th].r
         /\ task'[th].seen = task[th].seen
         /\ task'[th].token = task[th].token
<1>1. task \in [Thread -> Task] /\ task[th] \in Call
  BY BusyTask DEF TypeOK
<1>2. [task[th] EXCEPT !.stage = stage] \in Call
  BY <1>1 DEF Call
<1>3. task' = [task EXCEPT ![th] = [task[th] EXCEPT !.stage = stage]]
  BY DEF Goto
<1>4. task' \in [Thread -> Task]
  BY <1>1, <1>2, <1>3 DEF Call, Task
<1>5. task'[th] = [task[th] EXCEPT !.stage = stage]
  BY <1>1, <1>3
<1>6. \A o \in Thread : o # th => task'[o] = task[o]
  BY <1>1, <1>3
<1>7. QED BY <1>1, <1>4, <1>5, <1>6 DEF Call

LEMMA DenyCall ==
  ASSUME TypeOK, NEW th \in Thread, Deny(th)
  PROVE  /\ task' \in [Thread -> Task]
         /\ \A o \in Thread : o # th => task'[o] = task[o]
         /\ task'[th] = Idle
  BY DEF TypeOK, Deny, Task

LEMMA IssuedRow ==
  ASSUME NEW e \in Entries, NEW r \in Requests
  PROVE  Issued(e, r) \in Row
<1>1. r.agent \in Agent
  BY RequestAssumption
<1>2. e.scopes \subseteq Scope /\ r.scope \in Scope
  BY DEF Scope
<1>3. (IF r.class = "" THEN "gated_write" ELSE r.class) \in Class
  BY DEF Class
<1>4. QED BY <1>1, <1>2, <1>3 DEF Issued, Row, Status

(* What a decision, a claim or an orphaning changes of a row.              *)
LEMMA RowStatus ==
  ASSUME NEW row \in Row, NEW status \in Status
  PROVE  LET new == [row EXCEPT !.status = status]
         IN /\ new \in Row
            /\ new.status = status /\ new.agent = row.agent /\ new.class = row.class
            /\ new.scopes = row.scopes /\ new.live = row.live
  BY DEF Row

LEMMA RowOrphaned ==
  ASSUME NEW row \in Row
  PROVE  LET new == [row EXCEPT !.agent = ""]
         IN /\ new \in Row
            /\ new.status = row.status /\ new.agent = "" /\ new.class = row.class
            /\ new.scopes = row.scopes /\ new.live = row.live
  BY DEF Row

LEMMA RowExpired ==
  ASSUME NEW row \in Row
  PROVE  LET new == [row EXCEPT !.live = FALSE]
         IN /\ new \in Row
            /\ new.status = row.status /\ new.agent = row.agent /\ new.class = row.class
            /\ new.scopes = row.scopes /\ new.live = FALSE
  BY DEF Row

LEMMA DecisionMade ==
  ASSUME NEW gate, NEW token
  PROVE  Resolve(gate, token) \in {"guard", "consume", "issue"}
  BY DEF Resolve

LEMMA GateTypeStep ==
  ASSUME TypeOK, [Next]_vars
  PROVE  TypeOK'
<1>1. ASSUME NEW th \in Thread, GateRead(th)
      PROVE  TypeOK'
  <2>1. PICK r \in Requests, k \in Token \cup {NoToken} :
          /\ Present(r.agent)
          /\ task' = [task EXCEPT ![th] =
               [stage |-> "read", seen |-> registry[r.agent], r |-> r,
                token |-> k, held |-> NoToken]]
    BY <1>1 DEF GateRead
  <2>2. registry[r.agent] \in Entries
    BY <2>1, RequestAssumption DEF TypeOK, Present
  <2>3. [stage |-> "read", seen |-> registry[r.agent], r |-> r,
         token |-> k, held |-> NoToken] \in Task
    BY <2>2 DEF Task, Stage
  <2>4. task' \in [Thread -> Task]
    BY <2>1, <2>3 DEF TypeOK
  <2>5. QED BY <1>1, <2>4 DEF GateRead, TypeOK
<1>2. ASSUME NEW th \in Thread, GateDecide(th)
      PROVE  TypeOK'
  <2>1. CASE Deny(th)
    BY <1>2, <2>1, DenyCall DEF GateDecide, TypeOK
  <2>2. CASE \E gate : Goto(th, Resolve(gate, task[th].token))
    BY <1>2, <2>2, GotoCall, DecisionMade DEF GateDecide, TypeOK, Stage
  <2>3. QED BY <1>2, <2>1, <2>2 DEF GateDecide
<1>3. ASSUME NEW th \in Thread, GateConsume(th)
      PROVE  TypeOK'
  <2>1. CASE Deny(th) /\ UNCHANGED tokens
    BY <1>3, <2>1, DenyCall DEF GateConsume, TypeOK
  <2>2. CASE /\ Usable(tokens[task[th].token], task[th].r)
             /\ tokens' = [tokens EXCEPT ![task[th].token].status = "consumed"]
             /\ task' = [task EXCEPT ![th].stage = "guard", ![th].held = task[th].token]
    <3>1. task[th] \in Call
      BY <1>3, BusyTask DEF GateConsume
    <3>2. task' \in [Thread -> Task]
      BY <2>2, <3>1 DEF TypeOK, Task, Call, Stage
    <3>3. task[th].token \in Token \/ tokens' = tokens
      BY <2>2, <3>1 DEF TypeOK, Call
    <3>5. tokens' \in [Token -> Row]
      BY <2>2, <3>3, RowStatus DEF TypeOK, Status
    <3>4. QED BY <1>3, <3>2, <3>5 DEF GateConsume, TypeOK
  <2>3. QED BY <1>3, <2>1, <2>2 DEF GateConsume
<1>4. ASSUME NEW th \in Thread, GateIssue(th)
      PROVE  TypeOK'
  <2>1. task[th] \in Call
    BY <1>4, BusyTask DEF GateIssue
  <2>2. Issued(task[th].seen, task[th].r) \in Row
    BY <2>1, IssuedRow DEF Call
  <2>3. tokens' \in [Token -> Row]
    BY <1>4, <2>2 DEF GateIssue, TypeOK
  <2>4. QED BY <1>4, <2>3, DenyCall DEF GateIssue, TypeOK
<1>5. ASSUME NEW th \in Thread, GateGuard(th)
      PROVE  TypeOK'
  <2>1. task' \in [Thread -> Task]
    BY <1>5, GotoCall, DenyCall DEF GateGuard, Stage
  <2>2. writes' \in [Token -> Nat]
    BY <1>5 DEF GateGuard, TypeOK
  <2>3. QED BY <1>5, <2>1, <2>2 DEF GateGuard, TypeOK
<1>6. ASSUME NEW a \in Agent, NEW k \in Token, NEW decision \in {"approved", "denied"},
             DecideToken(a, k, decision)
      PROVE  TypeOK'
  <2>1. tokens' \in [Token -> Row]
    BY <1>6, RowStatus DEF DecideToken, TypeOK, Status
  <2>2. QED BY <1>6, <2>1 DEF DecideToken, TypeOK
<1>7. ASSUME NEW a \in Agent, Govern(a)
      PROVE  TypeOK'
  BY <1>7 DEF Govern, TypeOK
<1>8. ASSUME NEW a \in Agent, ExpandScopes(a)
      PROVE  TypeOK'
  <2>1. PICK e \in Entries, k \in Token :
          /\ registry' = [registry EXCEPT ![a] = e]
          /\ tokens' = [tokens EXCEPT ![k] =
               [agent |-> a, class |-> Expansion, scopes |-> e.scopes,
                status |-> "pending", live |-> TRUE]]
    BY <1>8 DEF ExpandScopes
  <2>2. [agent |-> a, class |-> Expansion, scopes |-> e.scopes,
         status |-> "pending", live |-> TRUE] \in Row
    BY DEF Row, Status, Class, Scope
  <2>3. QED BY <1>8, <2>1, <2>2 DEF ExpandScopes, TypeOK
<1>9. ASSUME NEW a \in Agent, Deregister(a)
      PROVE  TypeOK'
  <2>1. \A k \in Token : tokens[k] \in Row /\ [tokens[k] EXCEPT !.agent = ""] \in Row
    BY RowOrphaned DEF TypeOK
  <2>3. tokens' \in [Token -> Row]
    BY <1>9, <2>1 DEF Deregister
  <2>2. QED BY <1>9, <2>3 DEF Deregister, TypeOK
<1>10. ASSUME NEW k \in Token, Expire(k)
       PROVE  TypeOK'
  <2>1. tokens' \in [Token -> Row]
    BY <1>10, RowExpired DEF Expire, TypeOK
  <2>2. QED BY <1>10, <2>1 DEF Expire, TypeOK
<1>11. CASE Restart
  BY <1>11 DEF Restart, TypeOK, Task
<1>12. CASE UNCHANGED vars
  BY <1>12 DEF vars, TypeOK
<1>13. ASSUME NEW a \in Agent, NEW decision \in {"approved", "denied"},
              DecideAgent(a, decision)
       PROVE  TypeOK'
  <2>1. \A k \in Token : tokens[k] \in Row /\ [tokens[k] EXCEPT !.status = decision] \in Row
    BY RowStatus DEF TypeOK, Status
  <2>2. tokens' \in [Token -> Row]
    BY <1>13, <2>1 DEF DecideAgent
  <2>3. QED BY <1>13, <2>2 DEF DecideAgent, TypeOK
<1>14. QED BY <1>1, <1>2, <1>3, <1>4, <1>5, <1>6, <1>7, <1>8, <1>9, <1>10, <1>11, <1>12, <1>13
       DEF Next, Gate

LEMMA GateTypeInit == Init => TypeOK
<1>1. Free \in Row
  BY DEF Free, Row, Status, Class
<1>2. QED BY <1>1 DEF Init, TypeOK, Task

(* The registry, the token table and the gate calls in flight have their   *)
(* types, for any constants.                                               *)
THEOREM GateTypeCorrect == Spec => []TypeOK
<1>1. TypeOK /\ [Next]_vars => TypeOK'
  BY GateTypeStep
<1>2. QED BY GateTypeInit, <1>1, PTL DEF Spec

(***************************************************************************)
(* The decision                                                            *)
(***************************************************************************)
(* Neither engine authorizes a write of a token-gated tier by itself, on   *)
(* any ladder.                                                             *)
LEMMA RiskyNotAuto ==
  ASSUME NEW e, NEW r, NEW engine, r.write, e.risk \in TokenRisk
  PROVE  Decision(e, r, engine).gate # "auto_authorized"
<1>1. PolicyDecision(e, r).gate # "auto_authorized"
  BY DEF PolicyDecision, Denied
<1>2. RegoDecision(e, r).gate # "auto_authorized"
  <2> DEFINE rules == RegoRules(e, r)
  <2>1. PICK k \in 1..8 :
          /\ RegoDecision(e, r) = rules[k].then
          /\ rules[k].when
          /\ \A j \in 1..8 : j < k => ~rules[j].when
    BY FirstRule
  <2>2. rules[7].when /\ ~rules[1].when
    BY RuleBodies, Zenon
  <2>3. k \in {2, 3, 4, 5, 6, 7}
    <3>1. k # 1
      BY <2>1, <2>2, Zenon
    <3>2. ~(7 < k)
      BY <2>1, <2>2
    <3>3. QED BY <3>1, <3>2
  <2>4. rules[k].then.gate # "auto_authorized"
    <3>4. \A mode : Denied(mode).gate = "denied"
      BY DEF Denied
    <3>5. rules[2].then = Denied("quarantined") /\ rules[3].then = Denied("out_of_scope")
          /\ rules[4].then = Denied(e.profile) /\ rules[5].then = Denied(e.profile)
      BY RuleHeads
    <3>1. rules[2].then.gate = "denied" /\ rules[3].then.gate = "denied"
          /\ rules[4].then.gate = "denied" /\ rules[5].then.gate = "denied"
      BY <3>4, <3>5, Zenon
    <3>2. rules[6].then.gate = "awaiting_operator" /\ rules[7].then.gate = "awaiting_token"
      BY RuleHeads
    <3> HIDE DEF rules
    <3>3. QED BY <2>3, <3>1, <3>2
  <2>5. QED BY <2>1, <2>4
<1>3. QED BY <1>1, <1>2 DEF Decision

(***************************************************************************)
(* Who holds a token                                                       *)
(***************************************************************************)
Holds(th) == task[th].stage \in {"guard", "allowed"} /\ task[th].held # NoToken

(* Nothing is held before a claim; what is held has been claimed, by one   *)
(* call, for a scope it carries; and what has been written has been        *)
(* claimed.                                                                *)
EmptyHanded ==
  \A th \in Thread :
    /\ task[th].stage \in {"read", "consume", "issue"} => task[th].held = NoToken
    /\ task[th].stage = "consume" => task[th].token # NoToken
HeldClaimed ==
  \A th \in Thread : Holds(th) =>
    /\ tokens[task[th].held].status = "consumed"
    /\ task[th].r.scope # "" => task[th].r.scope \in tokens[task[th].held].scopes
    /\ writes[task[th].held] = IF task[th].stage = "guard" THEN 0 ELSE 1
HeldByOne ==
  \A th, o \in Thread :
    Holds(th) /\ Holds(o) /\ task[th].held = task[o].held => th = o
WrittenClaimed ==
  \A k \in Token : writes[k] > 0 => tokens[k].status = "consumed"
RiskyHolds ==
  \A th \in Thread :
    /\ task[th].stage \in {"guard", "allowed"}
    /\ task[th].r.write
    /\ task[th].seen.risk \in TokenRisk
    => task[th].held # NoToken

GateInv ==
  TypeOK /\ EmptyHanded /\ HeldClaimed /\ HeldByOne /\ WrittenClaimed /\ RiskyHolds

(* A claimed row stays claimed, for the same scopes.                       *)
LEMMA ClaimedStays ==
  ASSUME TypeOK, [Next]_vars, NEW k \in Token, tokens[k].status = "consumed"
  PROVE  tokens'[k].status = "consumed" /\ tokens'[k].scopes = tokens[k].scopes
<1>1. tokens \in [Token -> Row] /\ tokens[k] \in Row
  BY DEF TypeOK
<1>2. ASSUME NEW th \in Thread, GateConsume(th)
      PROVE  tokens'[k].status = "consumed" /\ tokens'[k].scopes = tokens[k].scopes
  BY <1>1, <1>2 DEF GateConsume, Usable
<1>3. ASSUME NEW th \in Thread, GateRead(th) \/ GateDecide(th) \/ GateGuard(th)
      PROVE  tokens' = tokens
  BY <1>3 DEF GateRead, GateDecide, GateGuard
<1>4. ASSUME NEW th \in Thread, GateIssue(th)
      PROVE  tokens'[k] = tokens[k]
  BY <1>1, <1>4 DEF GateIssue
<1>5. ASSUME NEW a \in Agent, NEW decision, NEW l \in Token, DecideToken(a, l, decision)
      PROVE  tokens'[k] = tokens[k]
  BY <1>1, <1>5 DEF DecideToken
<1>6. ASSUME NEW a \in Agent, NEW decision, DecideAgent(a, decision)
      PROVE  tokens'[k] = tokens[k]
  BY <1>1, <1>6 DEF DecideAgent
<1>7. ASSUME NEW a \in Agent, Govern(a)
      PROVE  tokens' = tokens
  BY <1>7 DEF Govern
<1>8. ASSUME NEW a \in Agent, ExpandScopes(a)
      PROVE  tokens'[k] = tokens[k]
  BY <1>1, <1>8 DEF ExpandScopes
<1>9. ASSUME NEW a \in Agent, Deregister(a)
      PROVE  tokens'[k].status = "consumed" /\ tokens'[k].scopes = tokens[k].scopes
  BY <1>1, <1>9, RowOrphaned DEF Deregister
<1>10. ASSUME NEW l \in Token, Expire(l)
       PROVE  tokens'[k].status = "consumed" /\ tokens'[k].scopes = tokens[k].scopes
  BY <1>1, <1>10, RowExpired DEF Expire
<1>11. CASE Restart \/ UNCHANGED vars
  BY <1>11 DEF Restart, vars
<1>12. QED BY <1>2, <1>3, <1>4, <1>5, <1>6, <1>7, <1>8, <1>9, <1>10, <1>11 DEF Next, Gate

(* A call that ends, or goes on holding what it held, and a table in which *)
(* what was claimed stays claimed keep everything but RiskyHolds.          *)
LEMMA OthersKeep ==
  ASSUME GateInv, [Next]_vars, UNCHANGED writes, NEW th \in Thread,
         \A o \in Thread : o # th => task'[o] = task[o],
         task'[th].stage \notin {"guard", "allowed"} \/ task'[th].held = NoToken,
         task'[th].stage \in {"read", "consume", "issue"} => task'[th].held = NoToken,
         task'[th].stage = "consume" => task'[th].token # NoToken
  PROVE  EmptyHanded' /\ HeldClaimed' /\ HeldByOne' /\ WrittenClaimed'
<1>1. \A o \in Thread : Holds(o)' => o # th /\ Holds(o) /\ task'[o] = task[o]
  BY DEF Holds
<1>2. \A o \in Thread : Holds(o) => task[o].held \in Token
  <2>1. TAKE o \in Thread
  <2>2. HAVE Holds(o)
  <2>3. task[o] \in Call
    BY <2>2, BusyTask DEF GateInv, Holds
  <2>4. QED BY <2>2, <2>3 DEF Holds, Call
<1>3. EmptyHanded'
  BY DEF GateInv, EmptyHanded
<1>4. HeldClaimed'
  <2>1. SUFFICES ASSUME NEW o \in Thread, Holds(o)'
                 PROVE  /\ tokens'[task'[o].held].status = "consumed"
                        /\ task'[o].r.scope # "" => task'[o].r.scope \in tokens'[task'[o].held].scopes
                        /\ writes'[task'[o].held] = IF task'[o].stage = "guard" THEN 0 ELSE 1
    BY DEF HeldClaimed
  <2>2. PICK k \in Token : k = task[o].held
    BY <1>1, <1>2, <2>1
  <2>3. /\ tokens[k].status = "consumed"
        /\ task[o].r.scope # "" => task[o].r.scope \in tokens[k].scopes
        /\ writes[k] = IF task[o].stage = "guard" THEN 0 ELSE 1
    BY <1>1, <2>1, <2>2 DEF GateInv, HeldClaimed
  <2>4. tokens'[k].status = "consumed" /\ tokens'[k].scopes = tokens[k].scopes
    BY <2>3, ClaimedStays DEF GateInv
  <2>5. task'[o] = task[o]
    BY <1>1, <2>1
  <2>6. QED BY <2>2, <2>3, <2>4, <2>5
<1>5. HeldByOne'
  BY <1>1 DEF GateInv, HeldByOne
<1>6. WrittenClaimed'
  BY ClaimedStays DEF GateInv, WrittenClaimed
<1>7. QED BY <1>3, <1>4, <1>5, <1>6

LEMMA GateStepInv ==
  ASSUME GateInv, [Next]_vars
  PROVE  GateInv'
<1>1. TypeOK /\ TypeOK'
  BY GateTypeStep DEF GateInv
<1>2. ASSUME NEW th \in Thread, GateRead(th)
      PROVE  GateInv'
  <2>1. /\ \A o \in Thread : o # th => task'[o] = task[o]
        /\ task'[th].stage = "read"
        /\ task'[th].held = NoToken
    BY <1>1, <1>2 DEF GateRead, TypeOK
  <2>2. UNCHANGED writes
    BY <1>2 DEF GateRead
  <2>3. EmptyHanded' /\ HeldClaimed' /\ HeldByOne' /\ WrittenClaimed'
    BY <2>1, <2>2, OthersKeep
  <2>4. RiskyHolds'
    BY <2>1 DEF GateInv, RiskyHolds
  <2>5. QED BY <1>1, <2>3, <2>4 DEF GateInv
<1>3. ASSUME NEW th \in Thread, Deny(th), UNCHANGED writes
      PROVE  GateInv'
  <2>1. /\ \A o \in Thread : o # th => task'[o] = task[o]
        /\ task'[th].stage = "idle"
    BY <1>1, <1>3, DenyCall DEF Idle
  <2>2. EmptyHanded' /\ HeldClaimed' /\ HeldByOne' /\ WrittenClaimed'
    BY <1>3, <2>1, OthersKeep
  <2>3. RiskyHolds'
    BY <2>1 DEF GateInv, RiskyHolds
  <2>4. QED BY <1>1, <2>2, <2>3 DEF GateInv
<1>4. ASSUME NEW th \in Thread, GateDecide(th)
      PROVE  GateInv'
  <2>1. CASE Deny(th)
    BY <1>3, <1>4, <2>1 DEF GateDecide
  <2>2. ASSUME NEW engine \in {"opa", "policy"}, NEW gate,
               gate = Decision(task[th].seen, task[th].r, engine).gate,
               Goto(th, Resolve(gate, task[th].token))
        PROVE  GateInv'
    <3>1. /\ \A o \in Thread : o # th => task'[o] = task[o]
          /\ task'[th].stage = Resolve(gate, task[th].token)
          /\ task'[th].held = task[th].held
          /\ task'[th].r = task[th].r
          /\ task'[th].seen = task[th].seen
          /\ task'[th].token = task[th].token
      BY <1>1, <1>4, <2>2, GotoCall, DecisionMade DEF GateDecide, Stage
    <3>2. task[th].held = NoToken /\ UNCHANGED writes
      BY <1>4 DEF GateDecide, GateInv, EmptyHanded
    <3>8. task'[th].stage = "consume" => task'[th].token # NoToken
      BY <3>1 DEF Resolve
    <3>3. EmptyHanded' /\ HeldClaimed' /\ HeldByOne' /\ WrittenClaimed'
      BY <3>1, <3>2, <3>8, OthersKeep
    <3>4. task[th].r.write /\ task[th].seen.risk \in TokenRisk => gate # "auto_authorized"
      BY <2>2, RiskyNotAuto
    <3>5. task[th].r.write /\ task[th].seen.risk \in TokenRisk
            => task'[th].stage \in {"consume", "issue"}
      BY <3>1, <3>4 DEF Resolve
    <3>6. RiskyHolds'
      BY <3>1, <3>5 DEF GateInv, RiskyHolds
    <3>7. QED BY <1>1, <3>3, <3>6 DEF GateInv
  <2>3. QED BY <1>4, <2>1, <2>2 DEF GateDecide
<1>5. ASSUME NEW th \in Thread, GateConsume(th)
      PROVE  GateInv'
  <2>1. CASE Deny(th)
    BY <1>3, <1>5, <2>1 DEF GateConsume
  <2>2. CASE ~Deny(th)
    <3> DEFINE k == task[th].token
    <3>1. /\ Usable(tokens[k], task[th].r)
          /\ tokens' = [tokens EXCEPT ![k].status = "consumed"]
          /\ task' = [task EXCEPT ![th].stage = "guard", ![th].held = k]
          /\ UNCHANGED writes
      BY <1>5, <2>2 DEF GateConsume
    <3>2. task[th] \in Call /\ task \in [Thread -> Task]
      BY <1>1, <1>5, BusyTask DEF GateConsume, TypeOK
    <3>3. /\ \A o \in Thread : o # th => task'[o] = task[o]
          /\ task'[th].stage = "guard"
          /\ task'[th].held = k
          /\ task'[th].r = task[th].r
          /\ task'[th].seen = task[th].seen
      BY <3>1, <3>2 DEF Call
    <3>4. k \in Token
      BY <1>5, <3>2 DEF GateConsume, GateInv, EmptyHanded, Call
    <3>5. /\ tokens'[k].status = "consumed"
          /\ tokens'[k].scopes = tokens[k].scopes
          /\ tokens[k].status = "approved"
          /\ task[th].r.scope # "" => task[th].r.scope \in tokens[k].scopes
      BY <1>1, <3>1, <3>4, RowStatus DEF TypeOK, Usable, Status
    <3>6. writes[k] = 0
      <4>1. writes[k] \in Nat
        BY <1>1, <3>4 DEF TypeOK
      <4>2. ~(writes[k] > 0)
        BY <3>4, <3>5 DEF GateInv, WrittenClaimed
      <4>3. QED BY <4>1, <4>2
    <3>7. \A o \in Thread : Holds(o) => task[o].held \in Token /\ task[o].held # k
      <4>1. SUFFICES ASSUME NEW o \in Thread, Holds(o)
                     PROVE  task[o].held \in Token /\ task[o].held # k
        OBVIOUS
      <4>2. task[o] \in Call
        BY <1>1, <4>1, BusyTask DEF Holds
      <4>3. tokens[task[o].held].status = "consumed"
        BY <4>1 DEF GateInv, HeldClaimed
      <4>4. QED BY <3>5, <4>1, <4>2, <4>3 DEF Call, Holds
    <3>8. ~Holds(th)
      BY <1>5 DEF GateConsume, Holds
    <3>9. EmptyHanded'
      BY <3>3, <3>4, NoTokenAssumption DEF GateInv, EmptyHanded
    <3>10. HeldClaimed'
      <4>1. SUFFICES ASSUME NEW o \in Thread, Holds(o)'
                     PROVE  /\ tokens'[task'[o].held].status = "consumed"
                            /\ task'[o].r.scope # "" => task'[o].r.scope \in tokens'[task'[o].held].scopes
                            /\ writes'[task'[o].held] = IF task'[o].stage = "guard" THEN 0 ELSE 1
        BY DEF HeldClaimed
      <4>2. CASE o = th
        <5>1. /\ task'[o].held = k /\ task'[o].r = task[th].r /\ task'[o].stage = "guard"
              /\ writes'[k] = 0
          BY <3>1, <3>3, <3>6, <4>2
        <5>2. task'[o].r.scope # "" => task'[o].r.scope \in tokens'[k].scopes
          BY <3>5, <5>1
        <5>3. QED BY <3>5, <5>1, <5>2
      <4>3. CASE o # th
        <5>1. task'[o] = task[o] /\ Holds(o)
          BY <3>3, <4>1, <4>3 DEF Holds
        <5>2. PICK l \in Token : l = task[o].held /\ l # k
          BY <3>7, <5>1
        <5>3. tokens'[l] = tokens[l] /\ writes'[l] = writes[l]
          BY <1>1, <3>1, <5>2 DEF TypeOK
        <5>4. QED BY <5>1, <5>2, <5>3 DEF GateInv, HeldClaimed
      <4>4. QED BY <4>2, <4>3
    <3>11. HeldByOne'
      BY <3>3, <3>7, <3>8 DEF GateInv, HeldByOne, Holds
    <3>12. WrittenClaimed'
      BY <1>1, <3>1, ClaimedStays DEF GateInv, WrittenClaimed, TypeOK
    <3>13. RiskyHolds'
      BY <3>3, <3>4, NoTokenAssumption DEF GateInv, RiskyHolds
    <3>14. QED BY <1>1, <3>9, <3>10, <3>11, <3>12, <3>13 DEF GateInv
  <2>3. QED BY <2>1, <2>2
<1>6. ASSUME NEW th \in Thread, GateIssue(th)
      PROVE  GateInv'
  BY <1>3, <1>6 DEF GateIssue
<1>7. ASSUME NEW th \in Thread, GateGuard(th)
      PROVE  GateInv'
  <2>1. CASE Deny(th) /\ UNCHANGED writes
    BY <1>3, <2>1
  <2>2. CASE /\ Goto(th, "allowed")
             /\ writes' = [k \in Token |-> IF k = task[th].held THEN writes[k] + 1 ELSE writes[k]]
    <3>1. task[th] \in Call /\ task[th].stage = "guard" /\ UNCHANGED tokens
      BY <1>1, <1>7, BusyTask DEF GateGuard
    <3>2. /\ \A o \in Thread : o # th => task'[o] = task[o]
          /\ task'[th].stage = "allowed"
          /\ task'[th].held = task[th].held
          /\ task'[th].r = task[th].r
          /\ task'[th].seen = task[th].seen
      BY <1>1, <2>2, <3>1, GotoCall DEF Stage
    <3>3. EmptyHanded'
      BY <3>2 DEF GateInv, EmptyHanded
    <3>4. \A o \in Thread : Holds(o)' => Holds(o) /\ task'[o].held = task[o].held
      BY <3>1, <3>2 DEF Holds
    <3>5. HeldByOne'
      BY <3>4 DEF GateInv, HeldByOne
    <3>6. RiskyHolds'
      BY <3>1, <3>2 DEF GateInv, RiskyHolds
    <3>7. HeldClaimed'
      <4>1. SUFFICES ASSUME NEW o \in Thread, Holds(o)'
                     PROVE  /\ tokens'[task'[o].held].status = "consumed"
                            /\ task'[o].r.scope # "" => task'[o].r.scope \in tokens'[task'[o].held].scopes
                            /\ writes'[task'[o].held] = IF task'[o].stage = "guard" THEN 0 ELSE 1
        BY DEF HeldClaimed
      <4>2. PICK l \in Token : l = task[o].held /\ l = task'[o].held
        BY <1>1, <3>4, <4>1, BusyTask DEF Holds, Call
      <4>3. /\ tokens[l].status = "consumed"
            /\ task[o].r.scope # "" => task[o].r.scope \in tokens[l].scopes
            /\ writes[l] = IF task[o].stage = "guard" THEN 0 ELSE 1
        BY <3>4, <4>1, <4>2 DEF GateInv, HeldClaimed
      <4>4. CASE o = th
        <5>1. writes[l] = 0 /\ l = task[th].held
          BY <3>1, <4>2, <4>3, <4>4
        <5>2. writes'[l] = 1
          BY <2>2, <5>1
        <5>3. /\ task'[o].held = l /\ task'[o].r = task[o].r /\ task'[o].stage = "allowed"
              /\ tokens'[l] = tokens[l]
          BY <3>1, <3>2, <4>2, <4>4
        <5>4. QED BY <4>3, <5>2, <5>3
      <4>5. CASE o # th
        <5>1. task[th].held # l
          BY <3>1, <3>4, <4>1, <4>2, <4>5 DEF GateInv, HeldByOne, Holds
        <5>2. writes'[l] = writes[l]
          BY <2>2, <5>1
        <5>3. QED BY <3>1, <3>2, <4>2, <4>3, <4>5, <5>2
      <4>6. QED BY <4>4, <4>5
    <3>8. WrittenClaimed'
      <4>1. SUFFICES ASSUME NEW k \in Token, writes'[k] > 0
                     PROVE  tokens[k].status = "consumed"
        BY <3>1 DEF WrittenClaimed
      <4>2. CASE k = task[th].held
        BY <3>1, <4>2, NoTokenAssumption DEF GateInv, HeldClaimed, Holds
      <4>3. CASE k # task[th].held
        BY <2>2, <4>1, <4>3 DEF GateInv, WrittenClaimed
      <4>4. QED BY <4>2, <4>3
    <3>9. QED BY <1>1, <3>3, <3>5, <3>6, <3>7, <3>8 DEF GateInv
  <2>3. QED BY <1>7, <2>1, <2>2 DEF GateGuard
<1>8. ASSUME UNCHANGED <<task, writes>>
      PROVE  GateInv'
  <2>1. \A k \in Token : tokens[k].status = "consumed" =>
          tokens'[k].status = "consumed" /\ tokens'[k].scopes = tokens[k].scopes
    BY <1>1, ClaimedStays
  <2>2. EmptyHanded' /\ HeldByOne' /\ RiskyHolds'
    BY <1>8 DEF GateInv, EmptyHanded, HeldByOne, RiskyHolds, Holds
  <2>3. WrittenClaimed'
    BY <1>8, <2>1 DEF GateInv, WrittenClaimed
  <2>4. HeldClaimed'
    <3>1. SUFFICES ASSUME NEW o \in Thread, Holds(o)
                   PROVE  /\ tokens'[task[o].held].status = "consumed"
                          /\ task[o].r.scope # "" => task[o].r.scope \in tokens'[task[o].held].scopes
                          /\ writes[task[o].held] = IF task[o].stage = "guard" THEN 0 ELSE 1
      BY <1>8 DEF HeldClaimed, Holds
    <3>2. task[o].held \in Token
      BY <1>1, <3>1, BusyTask DEF Holds, Call
    <3>3. QED BY <2>1, <3>1, <3>2 DEF GateInv, HeldClaimed
  <2>5. QED BY <1>1, <2>2, <2>3, <2>4 DEF GateInv
<1>9. CASE Restart
  <2>1. \A th \in Thread : task'[th].stage = "idle"
    BY <1>9 DEF Restart, Idle
  <2>2. QED BY <1>1, <1>9, <2>1
        DEF Restart, GateInv, EmptyHanded, HeldClaimed, HeldByOne, WrittenClaimed, RiskyHolds, Holds
<1>10. QED
  BY <1>2, <1>4, <1>5, <1>6, <1>7, <1>8, <1>9
     DEF Next, Gate, DecideAgent, DecideToken, Govern, ExpandScopes, Deregister, Expire, vars

LEMMA GateInvariant == Spec => []GateInv
<1>1. Init => GateInv
  <2>1. SUFFICES ASSUME Init PROVE GateInv
    OBVIOUS
  <2>2. TypeOK /\ \A th \in Thread : task[th].stage = "idle"
    BY <2>1, GateTypeInit DEF Init, Idle
  <2>3. \A k \in Token : writes[k] = 0
    BY <2>1 DEF Init
  <2>4. EmptyHanded /\ HeldClaimed /\ HeldByOne /\ RiskyHolds
    BY <2>2 DEF EmptyHanded, HeldClaimed, HeldByOne, RiskyHolds, Holds
  <2>5. WrittenClaimed
    BY <2>3 DEF WrittenClaimed
  <2>6. QED BY <2>2, <2>4, <2>5 DEF GateInv
<1>2. GateInv /\ [Next]_vars => GateInv'
  BY GateStepInv
<1>3. QED BY <1>1, <1>2, PTL DEF Spec

(* Whichever engine decides and whatever happens meanwhile, an allowed     *)
(* write of a token-gated tier has used up a token that carries its scope. *)
THEOREM RiskyWritesSpend == Spec => []RiskyWriteSpendsToken
<1>1. GateInv => RiskyWriteSpendsToken
  BY DEF GateInv, RiskyHolds, HeldClaimed, Holds, RiskyWriteSpendsToken
<1>2. QED BY <1>1, GateInvariant, PTL

(***************************************************************************)
(* The abstract specification                                              *)
(***************************************************************************)
LEMMA ApprovalStanding ==
  ASSUME TypeOK, NEW k \in Token
  PROVE  Approval(k) \in Abstract!Standing
<1>1. tokens[k] \in Row
  BY DEF TypeOK
<1>2. tokens[k].status \in Status
  BY <1>1 DEF Row
<1>3. QED BY <1>2 DEF Approval, Abstract!Standing, Status

(* A token as the abstract specification may move it.                      *)
Follows(k) ==
  \/ Approval(k)' = Approval(k) /\ writes'[k] = writes[k]
  \/ /\ <<Approval(k), Approval(k)'>> \in Abstract!Moves
     /\ writes'[k] = IF Approval(k)' = "performed" THEN writes[k] + 1 ELSE writes[k]

(* A row that changes, if at all, by lapsing.                              *)
LEMMA LapseFollows ==
  ASSUME TypeOK, NEW k \in Token, writes'[k] = writes[k],
         tokens'[k].status = tokens[k].status,
         tokens'[k].live => tokens[k].live,
         tokens'[k].agent \in {tokens[k].agent, ""},
         \/ tokens'[k].live = tokens[k].live /\ tokens'[k].agent = tokens[k].agent
         \/ ~tokens'[k].live
         \/ tokens'[k].agent = "",
         Claimed(k)' <=> Claimed(k)
  PROVE  Follows(k)
<1>1. tokens[k].status \in Status
  BY DEF TypeOK, Row
<1>2. CASE tokens[k].status \in {"none", "consumed"}
  <2>1. Approval(k)' = Approval(k)
    BY <1>2 DEF Approval
  <2>2. QED BY <2>1 DEF Follows
<1>3. CASE tokens[k].status \in {"pending", "approved", "denied"}
  <2>1. CASE ~tokens'[k].live \/ tokens'[k].agent = ""
    <3>1. Approval(k)' = "lapsed"
      BY <1>3, <2>1 DEF Approval
    <3>2. Approval(k) \in {"asked", "granted", "refused", "lapsed"}
      BY <1>3 DEF Approval
    <3>3. QED BY <3>1, <3>2 DEF Follows, Abstract!Moves
  <2>2. CASE tokens'[k].live /\ tokens'[k].agent # ""
    <3>1. tokens[k].live /\ tokens[k].agent # ""
      BY <2>2
    <3>2. Approval(k)' = Approval(k)
      BY <1>3, <2>2, <3>1 DEF Approval
    <3>3. QED BY <3>2 DEF Follows
  <2>3. QED BY <2>1, <2>2
<1>4. QED BY <1>1, <1>2, <1>3 DEF Status

LEMMA AskFollows ==
  ASSUME NEW k, writes'[k] = writes[k], tokens[k].status = "none",
         tokens'[k].status = "pending", tokens'[k].live, tokens'[k].agent # ""
  PROVE  Follows(k)
<1>1. Approval(k) = "none" /\ Approval(k)' = "asked"
  BY DEF Approval
<1>2. QED BY <1>1 DEF Follows, Abstract!Moves

LEMMA DecisionFollows ==
  ASSUME NEW k, writes'[k] = writes[k], tokens[k].status = "pending",
         tokens'[k].status \in {"approved", "denied"},
         tokens'[k].live = tokens[k].live, tokens'[k].agent = tokens[k].agent
  PROVE  Follows(k)
<1>1. CASE tokens[k].live /\ tokens[k].agent # ""
  <2>1. Approval(k) = "asked" /\ Approval(k)' \in {"granted", "refused"}
    BY <1>1 DEF Approval
  <2>2. QED BY <2>1 DEF Follows, Abstract!Moves
<1>2. CASE ~(tokens[k].live /\ tokens[k].agent # "")
  <2>1. Approval(k) = "lapsed" /\ Approval(k)' = "lapsed"
    BY <1>2 DEF Approval
  <2>2. QED BY <2>1 DEF Follows
<1>3. QED BY <1>1, <1>2

(* A step of a call that neither claims nor gives up a claim.              *)
LEMMA CallFollows ==
  ASSUME GateInv, NEW th \in Thread, UNCHANGED writes,
         \A o \in Thread : o # th => task'[o] = task[o],
         task[th].stage # "guard" \/ task[th].held = NoToken,
         task'[th].stage # "guard" \/ task'[th].held = NoToken,
         NEW k \in Token, tokens'[k] = tokens[k]
  PROVE  Follows(k)
<1>1. \A o \in Thread : Claims(o, k)' <=> Claims(o, k)
  BY NoTokenAssumption DEF Claims
<1>2. Claimed(k)' <=> Claimed(k)
  BY <1>1 DEF Claimed
<1>3. QED BY <1>2, LapseFollows DEF GateInv

LEMMA GateFollows ==
  ASSUME GateInv, NEW th \in Thread, Gate(th), NEW k \in Token
  PROVE  Follows(k)
<1>1. TypeOK
  BY DEF GateInv
<1>2. CASE GateRead(th)
  <2>1. /\ \A o \in Thread : o # th => task'[o] = task[o]
        /\ task'[th].stage = "read"
        /\ task[th].stage # "guard"
        /\ UNCHANGED <<tokens, writes>>
    BY <1>1, <1>2 DEF GateRead, TypeOK, Ready
  <2>2. QED BY <2>1, CallFollows
<1>3. ASSUME Deny(th), UNCHANGED writes, tokens'[k] = tokens[k], task[th].stage # "guard"
      PROVE  Follows(k)
  <2>1. /\ \A o \in Thread : o # th => task'[o] = task[o]
        /\ task'[th].stage # "guard"
    BY <1>1, <1>3, DenyCall DEF Idle
  <2>2. QED BY <1>3, <2>1, CallFollows
<1>4. CASE GateDecide(th)
  <2>1. CASE Deny(th)
    BY <1>3, <1>4, <2>1 DEF GateDecide
  <2>2. ASSUME NEW gate, Goto(th, Resolve(gate, task[th].token))
        PROVE  Follows(k)
    <3>1. /\ \A o \in Thread : o # th => task'[o] = task[o]
          /\ task'[th].held = task[th].held
      BY <1>1, <1>4, <2>2, GotoCall, DecisionMade DEF GateDecide, Stage
    <3>2. task[th].stage = "read" /\ task[th].held = NoToken /\ UNCHANGED <<tokens, writes>>
      BY <1>4 DEF GateDecide, GateInv, EmptyHanded
    <3>3. QED BY <3>1, <3>2, CallFollows
  <2>3. QED BY <1>4, <2>1, <2>2 DEF GateDecide
<1>5. CASE GateConsume(th)
  <2>1. CASE Deny(th) /\ UNCHANGED tokens
    BY <1>3, <1>5, <2>1 DEF GateConsume
  <2>2. CASE /\ Usable(tokens[task[th].token], task[th].r)
             /\ tokens' = [tokens EXCEPT ![task[th].token].status = "consumed"]
             /\ task' = [task EXCEPT ![th].stage = "guard", ![th].held = task[th].token]
    <3>1. task[th] \in Call /\ task \in [Thread -> Task] /\ task[th].stage = "consume"
      BY <1>1, <1>5, BusyTask DEF GateConsume, TypeOK
    <3>2. /\ \A o \in Thread : o # th => task'[o] = task[o]
          /\ task'[th].stage = "guard"
          /\ task'[th].held = task[th].token
      BY <2>2, <3>1 DEF Call
    <3>3. UNCHANGED writes /\ task[th].r.agent # ""
      BY <1>5, <3>1, RequestAssumption, AgentAssumption DEF GateConsume, Call
    <3>4. CASE k = task[th].token
      <4>1. /\ tokens'[k].status = "consumed"
            /\ tokens[k].status = "approved" /\ tokens[k].live /\ tokens[k].agent # ""
        BY <1>1, <2>2, <3>3, <3>4, RowStatus DEF TypeOK, Usable, Status
      <4>2. Approval(k) = "granted"
        BY <4>1 DEF Approval
      <4>3. writes[k] \in Nat /\ ~(writes[k] > 0)
        BY <1>1, <4>1 DEF TypeOK, GateInv, WrittenClaimed
      <4>4. Claimed(k)'
        BY <3>2, <3>4 DEF Claimed, Claims
      <4>5. Approval(k)' = "claimed"
        BY <3>3, <4>1, <4>3, <4>4 DEF Approval
      <4>6. QED BY <3>3, <4>2, <4>5 DEF Follows, Abstract!Moves
    <3>5. CASE k # task[th].token
      <4>1. tokens'[k] = tokens[k]
        BY <1>1, <2>2, <3>5 DEF TypeOK
      <4>2. \A o \in Thread : Claims(o, k)' <=> Claims(o, k)
        BY <3>1, <3>2, <3>5 DEF Claims
      <4>3. Claimed(k)' <=> Claimed(k)
        BY <4>2 DEF Claimed
      <4>4. QED BY <1>1, <3>3, <4>1, <4>3, LapseFollows
    <3>6. QED BY <3>4, <3>5
  <2>3. QED BY <1>5, <2>1, <2>2 DEF GateConsume
<1>6. CASE GateIssue(th)
  <2>1. CASE tokens'[k] = tokens[k]
    BY <1>3, <1>6, <2>1 DEF GateIssue
  <2>2. CASE tokens'[k] # tokens[k]
    <3>1. /\ tokens[k].status = "none"
          /\ tokens'[k] = Issued(task[th].seen, task[th].r)
          /\ UNCHANGED writes
      BY <1>1, <1>6, <2>2 DEF GateIssue, TypeOK
    <3>2. task[th].r.agent # ""
      BY <1>1, <1>6, BusyTask, RequestAssumption, AgentAssumption DEF GateIssue, Call
    <3>5. LET row == Issued(task[th].seen, task[th].r)
          IN row.status = "pending" /\ row.live = TRUE /\ row.agent = task[th].r.agent
      BY DEF Issued
    <3>3. /\ tokens'[k].status = "pending" /\ tokens'[k].live
          /\ tokens'[k].agent # ""
      BY <3>1, <3>2, <3>5
    <3>4. QED BY <3>1, <3>3, AskFollows
  <2>3. QED BY <2>1, <2>2
<1>7. CASE GateGuard(th)
  <2>1. task[th] \in Call /\ task[th].stage = "guard" /\ UNCHANGED tokens
    BY <1>1, <1>7, BusyTask DEF GateGuard
  <2>2. /\ \A o \in Thread : o # th => task'[o] = task[o]
        /\ task'[th].stage # "guard"
    BY <1>1, <1>7, <2>1, GotoCall, DenyCall DEF GateGuard, Stage, Idle
  <2>3. CASE k # task[th].held
    <3>1. writes'[k] = writes[k]
      BY <1>7, <2>3 DEF GateGuard
    <3>2. \A o \in Thread : Claims(o, k)' <=> Claims(o, k)
      BY <2>1, <2>2, <2>3 DEF Claims
    <3>3. Claimed(k)' <=> Claimed(k)
      BY <3>2 DEF Claimed
    <3>4. QED BY <1>1, <2>1, <3>1, <3>3, LapseFollows
  <2>4. CASE k = task[th].held
    <3>1. /\ tokens[k].status = "consumed" /\ tokens'[k].status = "consumed"
          /\ writes[k] = 0
          /\ Holds(th)
      BY <2>1, <2>4, NoTokenAssumption DEF GateInv, HeldClaimed, Holds
    <3>2. Approval(k) = "claimed"
      BY <2>1, <2>4, <3>1 DEF Approval, Claimed, Claims
    <3>3. CASE writes'[k] = 1
      <4>1. Approval(k)' = "performed"
        BY <3>1, <3>3 DEF Approval
      <4>2. QED BY <3>1, <3>2, <3>3, <4>1 DEF Follows, Abstract!Moves
    <3>4. CASE writes'[k] = 0
      <4>1. \A o \in Thread : ~Claims(o, k)'
        BY <2>2, <2>4, <3>1, NoTokenAssumption DEF GateInv, HeldByOne, Holds, Claims
      <4>2. Approval(k)' = "wasted"
        BY <3>1, <3>4, <4>1 DEF Approval, Claimed
      <4>3. QED BY <3>1, <3>2, <3>4, <4>2 DEF Follows, Abstract!Moves
    <3>5. QED BY <1>7, <2>4, <3>1, <3>3, <3>4 DEF GateGuard
  <2>5. QED BY <2>3, <2>4
<1>8. QED BY <1>2, <1>4, <1>5, <1>6, <1>7 DEF Gate

LEMMA EveryFollows ==
  ASSUME GateInv, [Next]_vars, NEW k \in Token
  PROVE  Follows(k)
<1>1. TypeOK /\ tokens \in [Token -> Row] /\ tokens[k] \in Row
  BY DEF GateInv, TypeOK
<1>2. ASSUME UNCHANGED task
      PROVE  Claimed(k)' <=> Claimed(k)
  BY <1>2 DEF Claimed, Claims
<1>3. ASSUME NEW a \in Agent, NEW l \in Token, NEW decision \in {"approved", "denied"},
             DecideToken(a, l, decision)
      PROVE  Follows(k)
  <2>1. CASE k = l
    <3>1. /\ tokens[k].status = "pending" /\ tokens'[k] = [tokens[k] EXCEPT !.status = decision]
          /\ UNCHANGED writes
      BY <1>1, <1>3, <2>1 DEF DecideToken
    <3>2. /\ tokens'[k].status = decision
          /\ tokens'[k].live = tokens[k].live /\ tokens'[k].agent = tokens[k].agent
      BY <1>1, <3>1, RowStatus DEF Status
    <3>3. QED BY <3>1, <3>2, DecisionFollows
  <2>2. CASE k # l
    BY <1>1, <1>2, <1>3, <2>2, LapseFollows DEF DecideToken
  <2>3. QED BY <2>1, <2>2
<1>4. ASSUME NEW a \in Agent, NEW decision \in {"approved", "denied"}, DecideAgent(a, decision)
      PROVE  Follows(k)
  <2>1. CASE tokens[k].agent = a /\ tokens[k].status = "pending" /\ tokens[k].class = Expansion
    <3>1. tokens'[k] = [tokens[k] EXCEPT !.status = decision] /\ UNCHANGED writes
      BY <1>4, <2>1 DEF DecideAgent
    <3>2. /\ tokens'[k].status = decision
          /\ tokens'[k].live = tokens[k].live /\ tokens'[k].agent = tokens[k].agent
      BY <1>1, <3>1, RowStatus DEF Status
    <3>3. QED BY <2>1, <3>1, <3>2, DecisionFollows
  <2>2. CASE ~(tokens[k].agent = a /\ tokens[k].status = "pending" /\ tokens[k].class = Expansion)
    <3>1. tokens'[k] = tokens[k] /\ UNCHANGED <<task, writes>>
      BY <1>4, <2>2 DEF DecideAgent
    <3>2. QED BY <1>1, <1>2, <3>1, LapseFollows
  <2>3. QED BY <2>1, <2>2
<1>5. ASSUME NEW a \in Agent, Govern(a)
      PROVE  Follows(k)
  BY <1>1, <1>2, <1>5, LapseFollows DEF Govern
<1>6. ASSUME NEW a \in Agent, ExpandScopes(a)
      PROVE  Follows(k)
  <2>1. CASE tokens'[k] = tokens[k]
    BY <1>1, <1>2, <1>6, <2>1, LapseFollows DEF ExpandScopes
  <2>2. CASE tokens'[k] # tokens[k]
    <3>1. /\ tokens[k].status = "none" /\ tokens'[k].status = "pending"
          /\ tokens'[k].live /\ tokens'[k].agent = a /\ UNCHANGED writes
      BY <1>1, <1>6, <2>2 DEF ExpandScopes
    <3>2. QED BY <3>1, AskFollows, AgentAssumption
  <2>3. QED BY <2>1, <2>2
<1>7. ASSUME NEW a \in Agent, Deregister(a)
      PROVE  Follows(k)
  <2>1. tokens'[k] \in {tokens[k], [tokens[k] EXCEPT !.agent = ""]} /\ UNCHANGED <<task, writes>>
    BY <1>7 DEF Deregister
  <2>2. QED BY <1>1, <1>2, <2>1, RowOrphaned, LapseFollows
<1>8. ASSUME NEW l \in Token, Expire(l)
      PROVE  Follows(k)
  <2>1. tokens'[k] \in {tokens[k], [tokens[k] EXCEPT !.live = FALSE]} /\ UNCHANGED <<task, writes>>
    BY <1>1, <1>8 DEF Expire
  <2>2. QED BY <1>1, <1>2, <2>1, RowExpired, LapseFollows
<1>9. CASE Restart
  <2>1. UNCHANGED <<tokens, writes>> /\ ~Claimed(k)'
    BY <1>9 DEF Restart, Claimed, Claims, Idle
  <2>2. CASE Approval(k) = "claimed"
    <3>1. tokens[k].status = "consumed" /\ ~(writes[k] > 0)
      BY <1>1, <2>2 DEF Approval, Row, Status
    <3>2. tokens'[k].status = "consumed" /\ ~(writes'[k] > 0)
      BY <2>1, <3>1
    <3>3. Approval(k)' = "wasted"
      BY <2>1, <3>2 DEF Approval
    <3>4. QED BY <2>1, <2>2, <3>3 DEF Follows, Abstract!Moves
  <2>3. CASE Approval(k) # "claimed"
    <3>1. ~(tokens[k].status = "consumed" /\ ~(writes[k] > 0) /\ Claimed(k))
      BY <2>3 DEF Approval
    <3>2. tokens'[k] = tokens[k] /\ writes'[k] = writes[k]
      BY <2>1
    <3>3. Approval(k)' = Approval(k)
      BY <2>1, <3>1, <3>2 DEF Approval
    <3>4. QED BY <3>2, <3>3 DEF Follows
  <2>4. QED BY <2>2, <2>3
<1>10. CASE UNCHANGED vars
  BY <1>1, <1>2, <1>10, LapseFollows DEF vars
<1>11. QED BY GateFollows, <1>3, <1>4, <1>5, <1>6, <1>7, <1>8, <1>9, <1>10 DEF Next

(* The token table implements Authorization: however calls, operators,     *)
(* expiry, removals and restarts interleave, each token is claimed at most *)
(* once, only while granted, and covers at most one write.                 *)
THEOREM GateImplements == Spec => AuthorizesOnce
<1>1. Init => Abstract!Init
  <2>1. SUFFICES ASSUME Init PROVE Abstract!Init
    OBVIOUS
  <2>2. \A k \in Token : Approval(k) = "none"
    BY <2>1 DEF Init, Free, Approval
  <2>3. QED BY <2>1, <2>2 DEF Init, Abstract!Init
<1>2. GateInv /\ GateInv' /\ [Next]_vars => Abstract!Next
  <2>1. SUFFICES ASSUME GateInv, GateInv', [Next]_vars PROVE Abstract!Next
    OBVIOUS
  <2>2. \A k \in Token : Approval(k) \in Abstract!Standing /\ Approval(k)' \in Abstract!Standing
    <3>1. \A k \in Token : Approval(k) \in Abstract!Standing
      BY <2>1, ApprovalStanding DEF GateInv
    <3>2. \A k \in Token : tokens'[k].status \in Status
      BY <2>1 DEF GateInv, TypeOK, Row
    <3>3. \A k \in Token : Approval(k)' \in Abstract!Standing
      BY <3>2 DEF Approval, Abstract!Standing, Status
    <3>4. QED BY <3>1, <3>3
  <2>3. writes' \in [Token -> Nat]
    BY <2>1 DEF GateInv, TypeOK
  <2>4. \A k \in Token : Abstract!Stays(k) \/ Abstract!Moved(k)
    BY <2>1, EveryFollows DEF Follows, Abstract!Stays, Abstract!Moved
  <2>5. QED BY <2>2, <2>3, <2>4 DEF Abstract!Next
<1>3. QED BY <1>1, <1>2, GateInvariant, PTL DEF Spec, AuthorizesOnce, Abstract!Spec
=============================================================================
