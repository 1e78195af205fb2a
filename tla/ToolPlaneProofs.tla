------------------------- MODULE ToolPlaneProofs -------------------------
(***************************************************************************)
(* What surrounds a tool call, for any number of calls, threads, tools,    *)
(* agents and failures: the tokens a kit counts (KitTokens), the evidence  *)
(* that is recorded (EvidenceChain) and what a workflow resumes with       *)
(* (WorkingSet), the tier a call is judged by and the policy over it       *)
(* (ToolTiers, OperatorPolicy), the server that runs it (ToolServer), the  *)
(* process it comes from (Launcher) and the hooks of its gate (GuardHooks).*)
(* But for the evidence and what is resumed from it the parts share no     *)
(* variable: each has an inductive invariant of its own.                   *)
(***************************************************************************)
EXTENDS KitTokens, WorkingSet, ToolTiers, ToolServer, Launcher, GuardHooks,
        WellFoundedInduction, SequenceTheorems, FiniteSetTheorems, TLAPS

(***************************************************************************)
(* The counting of tokens (module KitTokens)                               *)
(***************************************************************************)
CallStage == {"sent", "answered", "returned"}
KitCall == [client : Client, manner : Manner, worker : BOOLEAN, task : Nat, stage : CallStage]

TokensTypeOK ==
  /\ doing \in BOOLEAN /\ tasks \in Nat
  /\ calls \in Seq(KitCall) /\ Len(calls) <= MaxCalls
  /\ tally \in [1..MaxCalls -> Nat]
  /\ reports \in [1..MaxCalls -> Nat]

(* What is to come is not counted.                                         *)
Unmade == \A c \in 1..MaxCalls : c \notin DOMAIN calls => tally[c] = 0 /\ reports[c] = 0

(* A wrapper has said that its client counts for itself before it calls.   *)
Marked == \A c \in DOMAIN calls : Wrapped(calls[c]) => calls[c].client \in clientActive

(* A task's calls are over when it is; other threads are not counted.      *)
OwnCalls ==
  \A c \in DOMAIN calls :
    IF calls[c].worker
      THEN calls[c].stage # "returned" => doing /\ calls[c].task = tasks
      ELSE tally[c] = 0 /\ reports[c] = 0

(* A call is counted by the hook when it is answered, or, wrapped, when it *)
(* has returned; it is reported with the task it was counted in.           *)
CountedOnce ==
  \A c \in DOMAIN calls :
    /\ calls[c].stage = "sent" => tally[c] = 0
    /\ calls[c].stage = "answered" /\ Wrapped(calls[c]) => tally[c] = 0
    /\ calls[c].stage # "returned" => reports[c] = 0
    /\ tally[c] <= 1 /\ reports[c] <= 1
    /\ doing /\ tally[c] > 0 => reports[c] = 0 /\ calls[c].task = tasks

TokensInv == TokensTypeOK /\ Unmade /\ Marked /\ OwnCalls /\ CountedOnce

-----------------------------------------------------------------------------
LEMMA TokensStart == TokensInit => TokensInv
<1> SUFFICES ASSUME TokensInit PROVE TokensInv
  OBVIOUS
<1>1. calls = <<>> /\ calls \in Seq(KitCall) /\ Len(calls) = 0 /\ DOMAIN calls = {}
  BY DEF TokensInit
<1>2. tally = Nothing /\ reports = Nothing /\ Nothing \in [1..MaxCalls -> Nat]
  BY DEF TokensInit, Nothing
<1>3. TokensTypeOK
  <2>1. doing \in BOOLEAN /\ tasks \in Nat
    BY DEF TokensInit
  <2>2. Len(calls) <= MaxCalls
    BY <1>1, CallsAssumption
  <2>3. QED BY <1>1, <1>2, <2>1, <2>2 DEF TokensTypeOK
<1>4. Unmade
  BY <1>2 DEF Unmade, Nothing
<1>5. Marked /\ OwnCalls /\ CountedOnce
  BY <1>1 DEF Marked, OwnCalls, CountedOnce
<1>6. QED BY <1>3, <1>4, <1>5 DEF TokensInv

LEMMA StartKeeps ==
  ASSUME TokensInv, StartTask
  PROVE  TokensInv'
<1> USE DEF TokensInv
<1>1. /\ ~doing /\ doing' = TRUE /\ tasks' = tasks + 1
      /\ tally' = Nothing /\ UNCHANGED <<clientActive, calls, reports>>
  BY DEF StartTask
<1>2. TokensTypeOK'
  BY <1>1 DEF TokensTypeOK, Nothing
<1>3. \A c \in DOMAIN calls : c \in 1..MaxCalls /\ tally'[c] = 0
  BY <1>1, CallsAssumption DEF TokensTypeOK, Nothing
<1>4. Unmade'
  BY <1>1 DEF Unmade, Nothing
<1>5. Marked'
  BY <1>1 DEF Marked, Wrapped, StartTask
<1>6. \A c \in DOMAIN calls : calls[c].worker => calls[c].stage = "returned"
  BY <1>1 DEF OwnCalls
<1>7. OwnCalls'
  BY <1>1, <1>3, <1>6 DEF OwnCalls
<1>8. CountedOnce'
  BY <1>1, <1>3 DEF CountedOnce, Wrapped
<1>9. QED BY <1>2, <1>4, <1>5, <1>7, <1>8

LEMMA CallKeeps ==
  ASSUME TokensInv, NEW client \in Client, NEW manner \in Manner, NEW worker \in BOOLEAN,
         CallLlm(client, manner, worker)
  PROVE  TokensInv'
<1> USE DEF TokensInv
<1> DEFINE made == [client |-> client, manner |-> manner, worker |-> worker,
                    task |-> tasks, stage |-> "sent"]
           new == Len(calls) + 1
<1>1. /\ worker => doing
      /\ Len(calls) < MaxCalls
      /\ calls' = Append(calls, made)
      /\ clientActive' = IF Wrapped(made) THEN clientActive \cup {client} ELSE clientActive
      /\ UNCHANGED <<doing, tasks, tally, reports>>
  BY DEF CallLlm
<1>2. made \in KitCall
  BY DEF KitCall, CallStage, TokensTypeOK
<1>3. /\ calls' \in Seq(KitCall) /\ Len(calls') = new
      /\ DOMAIN calls' = DOMAIN calls \cup {new} /\ new \notin DOMAIN calls
      /\ calls'[new] = made
      /\ \A c \in DOMAIN calls : calls'[c] = calls[c]
  <2> HIDE DEF made
  <2>1. QED BY <1>1, <1>2 DEF TokensTypeOK
<1>4. new \in 1..MaxCalls
  BY <1>1, CallsAssumption DEF TokensTypeOK
<1>5. tally[new] = 0 /\ reports[new] = 0
  BY <1>3, <1>4 DEF Unmade
<1>6. TokensTypeOK'
  BY <1>1, <1>3, CallsAssumption DEF TokensTypeOK
<1>7. Unmade'
  BY <1>1, <1>3 DEF Unmade
<1>8. Marked'
  <2>1. \A c \in DOMAIN calls : Wrapped(calls'[c]) => calls'[c].client \in clientActive'
    BY <1>1, <1>3 DEF Marked
  <2>2. Wrapped(calls'[new]) => calls'[new].client \in clientActive'
    BY <1>1, <1>3
  <2>3. kit' = kit
    BY DEF CallLlm
  <2>4. QED BY <1>3, <2>1, <2>2, <2>3 DEF Marked, Wrapped
<1>9. OwnCalls'
  BY <1>1, <1>3, <1>5 DEF OwnCalls
<1>10. CountedOnce'
  <2>1. \A c \in DOMAIN calls : Wrapped(calls[c])' <=> Wrapped(calls[c])
    BY <1>3 DEF Wrapped, CallLlm
  <2>2. QED BY <1>1, <1>3, <1>5, <2>1 DEF CountedOnce
<1>11. QED BY <1>6, <1>7, <1>8, <1>9, <1>10

(* A call that moves on stays what it was.                                 *)
LEMMA MovedCall ==
  ASSUME TokensTypeOK, NEW c \in DOMAIN calls, NEW stage \in CallStage, Moved(c, stage)
  PROVE  /\ calls' \in Seq(KitCall) /\ Len(calls') = Len(calls) /\ DOMAIN calls' = DOMAIN calls
         /\ calls[c] \in KitCall /\ calls'[c] = [calls[c] EXCEPT !.stage = stage]
         /\ \A d \in DOMAIN calls \ {c} : calls'[d] = calls[d]
<1>1. calls' = [calls EXCEPT ![c] = [calls[c] EXCEPT !.stage = stage]]
  BY DEF Moved
<1>2. calls[c] \in KitCall
  BY DEF TokensTypeOK
<1>3. [calls[c] EXCEPT !.stage = stage] \in KitCall
  BY <1>2 DEF KitCall
<1> DEFINE moved == [calls[c] EXCEPT !.stage = stage]
<1> HIDE DEF moved
<1>4. calls' = [calls EXCEPT ![c] = moved] /\ moved \in KitCall
  BY <1>1, <1>3 DEF moved
<1>5. /\ calls' \in Seq(KitCall) /\ Len(calls') = Len(calls) /\ DOMAIN calls' = DOMAIN calls
      /\ calls'[c] = moved
      /\ \A d \in DOMAIN calls \ {c} : calls'[d] = calls[d]
  BY <1>4 DEF TokensTypeOK
<1>6. QED BY <1>2, <1>5 DEF moved

(* What counting a call does to the tally.                                 *)
LEMMA CallCounted ==
  ASSUME TokensTypeOK, NEW c \in DOMAIN calls, Count(c) \/ UNCHANGED tally
  PROVE  /\ tally' \in [1..MaxCalls -> Nat]
         /\ \A d \in 1..MaxCalls : d # c => tally'[d] = tally[d]
         /\ c \in 1..MaxCalls /\ tally[c] \in Nat
         /\ tally'[c] \in {tally[c], tally[c] + 1}
         /\ ~calls[c].worker => tally'[c] = tally[c]
<1>1. c \in 1..MaxCalls /\ tally[c] \in Nat
  BY CallsAssumption DEF TokensTypeOK
<1>2. CASE UNCHANGED tally
  BY <1>1, <1>2 DEF TokensTypeOK
<1>3. CASE Count(c)
  BY <1>1, <1>3 DEF TokensTypeOK, Count
<1>4. QED BY <1>2, <1>3

(* A call moves on, and is counted only if it had not been counted yet.    *)
LEMMA MoveKeeps ==
  ASSUME TokensInv, NEW c \in DOMAIN calls, NEW stage \in {"answered", "returned"},
         Moved(c, stage), Count(c) \/ UNCHANGED tally,
         calls[c].stage # "returned",
         tally'[c] # tally[c] => tally[c] = 0,
         stage = "answered" /\ Wrapped(calls[c]) => tally'[c] = 0,
         UNCHANGED <<kit, clientActive, doing, tasks, reports>>
  PROVE  TokensInv'
<1> USE DEF TokensInv
<1>1. stage \in CallStage
  BY DEF CallStage
<1>2. /\ calls' \in Seq(KitCall) /\ Len(calls') = Len(calls) /\ DOMAIN calls' = DOMAIN calls
      /\ calls[c] \in KitCall /\ calls'[c] = [calls[c] EXCEPT !.stage = stage]
      /\ \A d \in DOMAIN calls \ {c} : calls'[d] = calls[d]
  BY <1>1, MovedCall
<1>3. /\ calls'[c].stage = stage
      /\ calls'[c].worker = calls[c].worker /\ calls'[c].task = calls[c].task
      /\ calls'[c].client = calls[c].client /\ calls'[c].manner = calls[c].manner
  BY <1>2 DEF KitCall
<1>4. /\ tally' \in [1..MaxCalls -> Nat]
      /\ \A d \in 1..MaxCalls : d # c => tally'[d] = tally[d]
      /\ c \in 1..MaxCalls /\ tally[c] \in Nat
      /\ tally'[c] \in {tally[c], tally[c] + 1}
      /\ ~calls[c].worker => tally'[c] = tally[c]
  BY CallCounted
<1>5. DOMAIN calls \subseteq 1..MaxCalls
  BY CallsAssumption DEF TokensTypeOK
<1>6. \A d \in DOMAIN calls \ {c} : calls'[d] = calls[d] /\ tally'[d] = tally[d]
  BY <1>2, <1>4, <1>5
<1>7. \A d \in DOMAIN calls : Wrapped(calls[d])' <=> Wrapped(calls[d])
  BY <1>2, <1>3 DEF Wrapped
<1>8. TokensTypeOK'
  BY <1>2, <1>4 DEF TokensTypeOK
<1>9. Unmade'
  BY <1>2, <1>4 DEF Unmade
<1>10. Marked'
  BY <1>2, <1>3, <1>6, <1>7 DEF Marked
<1>11. calls[c].worker => doing /\ calls[c].task = tasks
  BY DEF OwnCalls
<1>12. OwnCalls'
  BY <1>2, <1>3, <1>4, <1>6, <1>11 DEF OwnCalls
<1>13. CountedOnce'
  <2>1. reports[c] = 0 /\ tally'[c] <= 1
    BY <1>4 DEF CountedOnce
  <2>2. doing /\ tally'[c] > 0 => calls[c].task = tasks
    BY <1>4, <1>11 DEF CountedOnce
  <2>3. /\ calls'[c].stage = "sent" => tally'[c] = 0
        /\ calls'[c].stage = "answered" /\ Wrapped(calls[c])' => tally'[c] = 0
        /\ calls'[c].stage # "returned" => reports'[c] = 0
        /\ tally'[c] <= 1 /\ reports'[c] <= 1
        /\ doing' /\ tally'[c] > 0 => reports'[c] = 0 /\ calls'[c].task = tasks'
    BY <1>3, <1>7, <2>1, <2>2
  <2>4. ASSUME NEW d \in DOMAIN calls \ {c}
        PROVE  /\ calls'[d].stage = "sent" => tally'[d] = 0
               /\ calls'[d].stage = "answered" /\ Wrapped(calls[d])' => tally'[d] = 0
               /\ calls'[d].stage # "returned" => reports'[d] = 0
               /\ tally'[d] <= 1 /\ reports'[d] <= 1
               /\ doing' /\ tally'[d] > 0 => reports'[d] = 0 /\ calls'[d].task = tasks'
    BY <1>6, <1>7, <2>4 DEF CountedOnce
  <2>5. QED BY <1>2, <2>3, <2>4 DEF CountedOnce
<1>14. QED BY <1>8, <1>9, <1>10, <1>12, <1>13

LEMMA HookKeeps ==
  ASSUME TokensInv, NEW c \in DOMAIN calls, HookResponse(c)
  PROVE  TokensInv'
<1>1. tally[c] = 0 /\ calls[c].stage = "sent"
  BY DEF TokensInv, CountedOnce, HookResponse
<1>2. Wrapped(calls[c]) => UNCHANGED tally
  BY DEF TokensInv, Marked, HookResponse
<1>3. QED
  BY <1>1, <1>2, MoveKeeps DEF HookResponse

LEMMA ReturnKeeps ==
  ASSUME TokensInv, NEW c \in DOMAIN calls, ReturnResult(c)
  PROVE  TokensInv'
<1>1. calls[c].stage = "answered" /\ Moved(c, "returned")
  BY DEF ReturnResult
<1>2. Wrapped(calls[c]) => tally[c] = 0
  BY <1>1 DEF TokensInv, CountedOnce
<1>3. (Count(c) /\ Wrapped(calls[c])) \/ UNCHANGED tally
  BY DEF ReturnResult
<1>4. QED
  BY <1>1, <1>2, <1>3, MoveKeeps DEF ReturnResult

LEMMA AbandonKeeps ==
  ASSUME TokensInv, NEW c \in DOMAIN calls, AbandonCall(c)
  PROVE  TokensInv'
  BY MoveKeeps DEF AbandonCall

LEMMA EndKeeps ==
  ASSUME TokensInv, NEW reported \in BOOLEAN, EndTask(reported)
  PROVE  TokensInv'
<1> USE DEF TokensInv
<1>1. /\ doing /\ doing' = FALSE
      /\ \A c \in DOMAIN calls : calls[c].worker => calls[c].stage = "returned"
      /\ reports' = IF reported THEN [c \in 1..MaxCalls |-> reports[c] + tally[c]] ELSE reports
      /\ UNCHANGED <<kit, clientActive, tasks, calls, tally>>
  BY DEF EndTask
<1>2. /\ tally \in [1..MaxCalls -> Nat] /\ reports \in [1..MaxCalls -> Nat]
      /\ DOMAIN calls \subseteq 1..MaxCalls
  <2>1. tally \in [1..MaxCalls -> Nat] /\ reports \in [1..MaxCalls -> Nat]
    BY DEF TokensTypeOK
  <2>2. DOMAIN calls \subseteq 1..MaxCalls
    BY CallsAssumption DEF TokensTypeOK
  <2>3. QED BY <2>1, <2>2
<1>3. \A c \in 1..MaxCalls : reports'[c] \in {reports[c], reports[c] + tally[c]}
  BY <1>1, <1>2
<1>4. TokensTypeOK'
  <2>1. reports' \in [1..MaxCalls -> Nat]
    BY <1>1, <1>2
  <2>2. doing' \in BOOLEAN
    BY <1>1
  <2>3. QED BY <1>1, <2>1, <2>2 DEF TokensTypeOK
<1>5. Unmade'
  BY <1>1, <1>2, <1>3 DEF Unmade
<1>6. Marked'
  BY <1>1 DEF Marked, Wrapped
<1>7. OwnCalls'
  BY <1>1, <1>2, <1>3 DEF OwnCalls
<1>8. CountedOnce'
  <2>1. ASSUME NEW c \in DOMAIN calls
        PROVE  /\ reports'[c] <= 1
               /\ calls[c].stage # "returned" => reports'[c] = 0
    BY <1>1, <1>2, <1>3, <2>1 DEF CountedOnce, OwnCalls
  <2>2. QED BY <1>1, <2>1 DEF CountedOnce, Wrapped
<1>9. QED BY <1>4, <1>5, <1>6, <1>7, <1>8

-----------------------------------------------------------------------------
(* No call is charged to the agent's budget twice, and none that another   *)
(* thread or an earlier task made, however calls of wrapped and unwrapped  *)
(* clients overlap (awcp_kit.py _httpx_response_hook, _worker_loop).       *)
THEOREM CallsMeteredOnce == TokensSpec => []MeteredAtMostOnce
<1>1. TokensInit => TokensInv
  BY TokensStart
<1>2. TokensInv /\ [TokensNext]_tokenVars => TokensInv'
  <2> SUFFICES ASSUME TokensInv, [TokensNext]_tokenVars PROVE TokensInv'
    OBVIOUS
  <2>1. CASE StartTask
    BY <2>1, StartKeeps
  <2>2. CASE \E client \in Client, manner \in Manner, worker \in BOOLEAN :
               CallLlm(client, manner, worker)
    BY <2>2, CallKeeps
  <2>3. CASE \E c \in DOMAIN calls : HookResponse(c) \/ ReturnResult(c) \/ AbandonCall(c)
    BY <2>3, HookKeeps, ReturnKeeps, AbandonKeeps
  <2>4. CASE \E reported \in BOOLEAN : EndTask(reported)
    BY <2>4, EndKeeps
  <2>5. CASE UNCHANGED tokenVars
    BY <2>5 DEF TokensInv, TokensTypeOK, Unmade, Marked, OwnCalls, CountedOnce, Wrapped, tokenVars
  <2>6. QED BY <2>1, <2>2, <2>3, <2>4, <2>5 DEF TokensNext
<1>3. TokensInv => MeteredAtMostOnce
  <2> SUFFICES ASSUME TokensInv, NEW c \in DOMAIN calls
               PROVE  /\ reports[c] + (IF doing THEN tally[c] ELSE 0) <= 1
                      /\ doing /\ tally[c] > 0 => calls[c].worker /\ calls[c].task = tasks
    BY DEF MeteredAtMostOnce
  <2>1. tally[c] \in Nat /\ reports[c] \in Nat
    BY CallsAssumption DEF TokensInv, TokensTypeOK
  <2>2. QED BY <2>1 DEF TokensInv, OwnCalls, CountedOnce
<1>4. QED BY <1>1, <1>2, <1>3, PTL DEF TokensSpec

(***************************************************************************)
(* The evidence ledger (module EvidenceChain)                              *)
(***************************************************************************)
(* The fields every open transaction has.                                  *)
Opened(r) ==
  /\ {"stage", "ts", "overlapped"} \subseteq DOMAIN r
  /\ r.ts \in Nat /\ r.ts <= tick /\ r.overlapped \in BOOLEAN

Clocked ==
  /\ tick \in Nat /\ DOMAIN record = Writer
  /\ \A w \in Writer : InTransaction(w) => Opened(record[w])
  /\ \A row \in ledger : row.ts \in Nat /\ row.ts <= tick

(* A transaction that is alone is later than every row, and what it has    *)
(* selected is still the latest of them.                                   *)
Alone ==
  \A w \in Writer : InTransaction(w) /\ ~record[w].overlapped =>
    /\ \A v \in Writer \ {w} : ~InTransaction(v)
    /\ \A row \in ledger : row.ts < record[w].ts
    /\ record[w].stage = "insert" => record[w].prev = LatestHash(ledger)

(* A row whose transaction was alone names the row before it, and no row   *)
(* can come between them any more.                                         *)
Sealed ==
  \A row \in ledger : ~row.overlapped =>
    /\ Before(row) = {} \/ row.prev = LatestHash(Before(row))
    /\ \A w \in Writer : InTransaction(w) => row.ts < record[w].ts

ChainInv == Clocked /\ Alone /\ Sealed

-----------------------------------------------------------------------------
LEMMA ChainStart == EvidenceInit => ChainInv
  BY DEF EvidenceInit, ChainInv, Clocked, Alone, Sealed, InTransaction, NoRecord

(* Nothing is lost when transactions only end and no row is added.         *)
LEMMA EndingKeeps ==
  ASSUME ChainInv, UNCHANGED ledger, tick' \in {tick, tick + 1}, DOMAIN record' = Writer,
         \A w \in Writer : InTransaction(w)' => record'[w] = record[w]
  PROVE  ChainInv'
<1>1. \A w \in Writer : InTransaction(w)' => InTransaction(w)
  BY DEF InTransaction
<1>2. tick' \in Nat /\ tick <= tick'
  BY DEF ChainInv, Clocked
<1>3. \A w \in Writer : InTransaction(w)' => Opened(record[w])' /\ record'[w].ts = record[w].ts
  BY <1>1, <1>2 DEF ChainInv, Clocked, Opened
<1>4. Clocked'
  BY <1>2, <1>3 DEF ChainInv, Clocked
<1>5. Alone'
  BY <1>1 DEF ChainInv, Alone
<1>6. \A row \in ledger : Before(row)' = Before(row)
  BY DEF Before
<1>7. Sealed'
  BY <1>1, <1>6 DEF ChainInv, Sealed
<1>8. QED BY <1>4, <1>5, <1>7 DEF ChainInv

LEMMA RecordBegins ==
  ASSUME ChainInv, NEW w \in Writer, NEW step, BeginRecord(w, step)
  PROVE  ChainInv'
<1> DEFINE others == {v \in Writer \ {w} : InTransaction(v)}
           opened == [stage |-> "select", step |-> step, ts |-> tick + 1,
                      overlapped |-> others # {}]
<1>1. /\ record[w].stage = "idle" /\ tick' = tick + 1 /\ ledger' = ledger
      /\ record' = [v \in Writer |->
           IF v = w THEN opened
           ELSE IF v \in others THEN [record[v] EXCEPT !.overlapped = TRUE] ELSE record[v]]
  BY DEF BeginRecord
<1>2. tick \in Nat /\ DOMAIN record' = Writer
  BY <1>1 DEF ChainInv, Clocked
<1>3. record'[w] = opened /\ ~InTransaction(w)
  BY <1>1 DEF InTransaction
<1>4. ASSUME NEW v \in others
      PROVE  /\ record'[v] = [record[v] EXCEPT !.overlapped = TRUE]
             /\ record'[v].stage = record[v].stage /\ record'[v].ts = record[v].ts
             /\ record'[v].overlapped = TRUE /\ Opened(record[v])'
  <2>1. record'[v] = [record[v] EXCEPT !.overlapped = TRUE] /\ Opened(record[v])
    BY <1>1, <1>4 DEF ChainInv, Clocked
  <2>2. /\ record'[v].stage = record[v].stage /\ record'[v].ts = record[v].ts
        /\ record'[v].overlapped = TRUE /\ DOMAIN record'[v] = DOMAIN record[v]
    BY <2>1 DEF Opened
  <2>3. Opened(record[v])'
    <3>1. record'[v].overlapped \in BOOLEAN
      BY <2>2
    <3>2. record'[v].ts \in Nat /\ record'[v].ts <= tick'
      BY <1>1, <1>2, <2>1, <2>2 DEF Opened
    <3>3. {"stage", "ts", "overlapped"} \subseteq DOMAIN record'[v]
      BY <2>1, <2>2 DEF Opened
    <3>4. QED BY <3>1, <3>2, <3>3 DEF Opened
  <2>4. QED BY <2>1, <2>2, <2>3
<1>5. ASSUME NEW v \in Writer, v # w, v \notin others
      PROVE  record'[v] = record[v] /\ ~InTransaction(v) /\ ~InTransaction(v)'
  BY <1>1, <1>5 DEF InTransaction
<1>6. Clocked'
  <2>1. tick' \in Nat /\ \A row \in ledger' : row.ts \in Nat /\ row.ts <= tick'
    BY <1>1, <1>2 DEF ChainInv, Clocked
  <2>2. Opened(record[w])'
    <3>1. /\ DOMAIN opened = {"stage", "step", "ts", "overlapped"}
          /\ opened.ts = tick + 1 /\ opened.overlapped \in BOOLEAN
      OBVIOUS
    <3>2. record'[w] = opened /\ tick' = tick + 1
      BY <1>1, <1>3
    <3> HIDE DEF opened
    <3>3. QED BY <1>2, <3>1, <3>2 DEF Opened
  <2>3. QED BY <1>2, <1>4, <1>5, <2>1, <2>2 DEF Clocked
<1>7. Alone'
  <2>1. \A row \in ledger : row.ts < tick + 1
    BY <1>2 DEF ChainInv, Clocked
  <2>2. ASSUME NEW v \in Writer, InTransaction(v)', ~record'[v].overlapped
        PROVE  v = w /\ others = {}
    <3>1. v \notin others
      BY <1>4, <2>2
    <3>2. v = w
      BY <1>5, <2>2, <3>1
    <3>3. record'[w].overlapped = (others # {})
      BY <1>3
    <3>4. QED BY <2>2, <3>2, <3>3
  <2>3. others = {} => \A v \in Writer \ {w} : ~InTransaction(v)'
    BY <1>5
  <2>4. QED BY <1>1, <1>3, <2>1, <2>2, <2>3 DEF Alone
<1>8. Sealed'
  <2>1. ASSUME NEW row \in ledger, ~row.overlapped
        PROVE  /\ Before(row)' = Before(row)
               /\ \A v \in Writer : InTransaction(v)' => row.ts < record'[v].ts
    <3>1. Before(row)' = Before(row)
      BY <1>1 DEF Before
    <3>2. row.ts < record'[w].ts
      BY <1>2, <1>3 DEF ChainInv, Clocked
    <3>3. \A v \in others : row.ts < record'[v].ts
      BY <1>4, <2>1 DEF ChainInv, Sealed
    <3>4. QED BY <1>5, <3>1, <3>2, <3>3
  <2>2. QED BY <1>1, <2>1 DEF ChainInv, Sealed
<1>9. QED BY <1>6, <1>7, <1>8 DEF ChainInv

LEMMA SelectKeeps ==
  ASSUME ChainInv, NEW w \in Writer, SelectPrev(w)
  PROVE  ChainInv'
<1>1. /\ record[w].stage = "select" /\ UNCHANGED <<tick, ledger>>
      /\ record' = [record EXCEPT ![w] =
           [stage |-> "insert", step |-> record[w].step, ts |-> record[w].ts,
            overlapped |-> record[w].overlapped, prev |-> LatestHash(ledger)]]
  BY DEF SelectPrev
<1>2. InTransaction(w) /\ Opened(record[w]) /\ DOMAIN record = Writer
  BY <1>1 DEF InTransaction, ChainInv, Clocked
<1>3. /\ DOMAIN record' = Writer
      /\ record'[w] = [stage |-> "insert", step |-> record[w].step, ts |-> record[w].ts,
                       overlapped |-> record[w].overlapped, prev |-> LatestHash(ledger)]
      /\ \A v \in Writer \ {w} : record'[v] = record[v]
  BY <1>1, <1>2
<1>4. \A v \in Writer : /\ InTransaction(v)' <=> InTransaction(v)
                        /\ record'[v].ts = record[v].ts \/ ~InTransaction(v)
                        /\ record'[v].overlapped = record[v].overlapped \/ ~InTransaction(v)
  BY <1>2, <1>3 DEF InTransaction
<1>5. Clocked'
  <2>1. Opened(record[w])'
    BY <1>1, <1>2, <1>3 DEF Opened
  <2>2. \A v \in Writer \ {w} : InTransaction(v)' => Opened(record[v])'
    BY <1>1, <1>3, <1>4 DEF ChainInv, Clocked, Opened
  <2>3. QED BY <1>1, <1>3, <2>1, <2>2 DEF ChainInv, Clocked
<1>6. Alone'
  BY <1>1, <1>3, <1>4 DEF ChainInv, Alone
<1>7. Sealed'
  <2>1. \A row \in ledger : Before(row)' = Before(row)
    BY <1>1 DEF Before
  <2>2. QED BY <1>1, <1>4, <2>1 DEF ChainInv, Sealed
<1>8. QED BY <1>5, <1>6, <1>7 DEF ChainInv

(* A row is added and its transaction ends.                                *)
LEMMA InsertKeeps ==
  ASSUME ChainInv, NEW w \in Writer, record[w].stage = "insert",
         NEW new, new = Row(record[w]),
         ledger' = ledger \cup {new}, tick' \in {tick, tick + 1},
         DOMAIN record' = Writer, ~InTransaction(w)',
         \A v \in Writer \ {w} : record'[v] = record[v]
  PROVE  ChainInv'
<1>1. InTransaction(w) /\ Opened(record[w])
  BY DEF InTransaction, ChainInv, Clocked
<1>2. /\ new.ts = record[w].ts /\ new.prev = record[w].prev
      /\ new.overlapped = record[w].overlapped
      /\ new.ts \in Nat /\ new.ts <= tick
  BY <1>1 DEF Row, Opened
<1>3. ledger' = ledger \cup {new}
  OBVIOUS
<1>4. \A v \in Writer : InTransaction(v)' => InTransaction(v) /\ v # w /\ record'[v] = record[v]
  BY DEF InTransaction
<1>5. tick \in Nat /\ tick' \in Nat /\ tick <= tick'
  BY DEF ChainInv, Clocked
<1>6. Clocked'
  <2>1. \A v \in Writer : InTransaction(v)' => Opened(record[v])'
    BY <1>4, <1>5 DEF ChainInv, Clocked, Opened
  <2>2. \A row \in ledger' : row.ts \in Nat /\ row.ts <= tick'
    BY <1>2, <1>3, <1>5 DEF ChainInv, Clocked
  <2>3. QED BY <1>5, <2>1, <2>2 DEF Clocked
<1>7. ASSUME NEW v \in Writer, InTransaction(v)'
      PROVE  record'[v].overlapped /\ record[w].overlapped
  <2>1. InTransaction(v) /\ v # w /\ record'[v] = record[v]
    BY <1>4, <1>7
  <2>2. QED BY <1>1, <2>1 DEF ChainInv, Alone
<1>8. Alone'
  BY <1>7 DEF Alone
<1>9. ASSUME NEW row \in ledger, ~row.overlapped
      PROVE  /\ Before(row)' = Before(row)
             /\ \A v \in Writer : InTransaction(v)' => row.ts < record'[v].ts
  <2>1. row.ts < new.ts /\ row.ts \in Nat
    BY <1>1, <1>2, <1>9 DEF ChainInv, Sealed, Clocked
  <2>2. ~(new.ts < row.ts)
    BY <1>2, <2>1
  <2>3. Before(row)' = Before(row)
    BY <1>3, <2>2 DEF Before
  <2>4. QED BY <1>4, <1>9, <2>3 DEF ChainInv, Sealed
<1>10. ASSUME ~new.overlapped
       PROVE  /\ Before(new)' = ledger /\ new.prev = LatestHash(ledger)
              /\ \A v \in Writer : ~InTransaction(v)'
  <2>1. \A row \in ledger : row.ts < new.ts
    BY <1>1, <1>2, <1>10 DEF ChainInv, Alone
  <2>2. ~(new.ts < new.ts)
    BY <1>2
  <2>3. Before(new)' = ledger
    BY <1>3, <2>1, <2>2 DEF Before
  <2>4. new.prev = LatestHash(ledger)
    BY <1>1, <1>2, <1>10 DEF ChainInv, Alone
  <2>5. QED BY <1>2, <1>7, <1>10, <2>3, <2>4
<1>11. Sealed'
  <2>1. ASSUME NEW row \in ledger, ~row.overlapped
        PROVE  /\ Before(row)' = {} \/ row.prev = LatestHash(Before(row))'
               /\ \A v \in Writer : InTransaction(v)' => row.ts < record'[v].ts
    BY <1>9, <2>1 DEF ChainInv, Sealed, LatestHash, IsLatest
  <2>2. ASSUME ~new.overlapped
        PROVE  /\ Before(new)' = {} \/ new.prev = LatestHash(Before(new))'
               /\ \A v \in Writer : InTransaction(v)' => new.ts < record'[v].ts
    BY <1>10, <2>2 DEF LatestHash, IsLatest
  <2>3. QED BY <1>3, <2>1, <2>2 DEF Sealed
<1>12. QED BY <1>6, <1>8, <1>11 DEF ChainInv

-----------------------------------------------------------------------------
LEMMA ChainStep ==
  ASSUME ChainInv, [EvidenceNext]_evidenceVars
  PROVE  ChainInv'
<1>1. DOMAIN record = Writer
  BY DEF ChainInv, Clocked
<1>2. ASSUME NEW w \in Writer, NEW step, BeginRecord(w, step)
      PROVE  ChainInv'
  BY <1>2, RecordBegins
<1>3. ASSUME NEW w \in Writer, NEW step, BeginOffLedger(w, step)
      PROVE  ChainInv'
  BY <1>1, <1>3, EndingKeeps DEF BeginOffLedger, InTransaction
<1>4. ASSUME NEW w \in Writer, SelectPrev(w)
      PROVE  ChainInv'
  BY <1>4, SelectKeeps
<1>5. ASSUME NEW w \in Writer, CommitRecord(w)
      PROVE  ChainInv'
  <2>1. tick' \in {tick, tick + 1} /\ DOMAIN record' = Writer
    BY <1>1, <1>5 DEF CommitRecord, MakeNode
  <2>2. ~InTransaction(w)' /\ \A v \in Writer \ {w} : record'[v] = record[v]
    BY <1>1, <1>5 DEF CommitRecord, MakeNode, InTransaction, NoRecord
  <2>3. QED BY <1>5, <2>1, <2>2, InsertKeeps DEF CommitRecord
<1>6. ASSUME NEW w \in Writer, NEW landed \in BOOLEAN, FailRecord(w, landed)
      PROVE  ChainInv'
  <2>1. tick' = tick /\ DOMAIN record' = Writer
    BY <1>1, <1>6 DEF FailRecord
  <2>2. ~InTransaction(w)' /\ \A v \in Writer \ {w} : record'[v] = record[v]
    BY <1>1, <1>6 DEF FailRecord, InTransaction, NoRecord
  <2>3. CASE landed
    BY <1>6, <2>1, <2>2, <2>3, InsertKeeps DEF FailRecord
  <2>4. CASE ~landed
    BY <1>6, <2>1, <2>2, <2>4, EndingKeeps DEF FailRecord
  <2>5. QED BY <2>3, <2>4
<1>7. ASSUME NEW w \in Writer, ChainOffRing(w)
      PROVE  ChainInv'
  BY <1>1, <1>7, EndingKeeps DEF ChainOffRing, MakeNode, InTransaction
<1>8. ASSUME NEW w \in Writer, AppendNode(w)
      PROVE  ChainInv'
  BY <1>1, <1>8, EndingKeeps DEF AppendNode, InTransaction, NoRecord
<1>9. CASE RestartRecorder
  BY <1>1, <1>9, EndingKeeps DEF RestartRecorder, InTransaction, NoRecord
<1>10. CASE UNCHANGED evidenceVars
  BY <1>1, <1>10, EndingKeeps DEF evidenceVars
<1>11. QED
  BY <1>2, <1>3, <1>4, <1>5, <1>6, <1>7, <1>8, <1>9, <1>10 DEF EvidenceNext

(* A break verify_chain reports at a row whose transaction was alone is no *)
(* work of the recorder's, however many writers record, fail or restart    *)
(* (_write_db, db.record, verify_chain).                                   *)
THEOREM ForksExplained == EvidenceSpec => []ForksOnlyByOverlap
<1>1. EvidenceInit => ChainInv
  BY ChainStart
<1>2. ChainInv /\ [EvidenceNext]_evidenceVars => ChainInv'
  BY ChainStep
<1>3. ChainInv => ForksOnlyByOverlap
  BY DEF ChainInv, Sealed, ForksOnlyByOverlap, VerifyChain, Oldest, Breaks
<1>4. QED BY <1>1, <1>2, <1>3, PTL DEF EvidenceSpec

(***************************************************************************)
(* What a workflow resumes with (module WorkingSet)                        *)
(***************************************************************************)
(* What holds of some natural number holds of a first one.                 *)
LEMMA FirstOf ==
  ASSUME NEW S, S \subseteq Nat, S # {}
  PROVE  \E k \in S : \A j \in S : k <= j
<1>1. \E k \in S : \A j \in S : ~ (<<j, k>> \in OpToRel(<, Nat))
  BY NatLessThanWellFounded, WFMin
<1>2. PICK k \in S : \A j \in S : ~ (j < k)
  BY <1>1 DEF OpToRel
<1>3. \A j \in S : k <= j
  BY <1>2
<1>4. QED BY <1>3

LEMMA LastOf ==
  ASSUME NEW S, S \subseteq Nat, S # {}, NEW bound \in Nat, \A j \in S : j <= bound
  PROVE  \E k \in S : \A j \in S : j <= k
<1> DEFINE bounds == {b \in Nat : \A j \in S : j <= b}
<1>1. PICK last \in bounds : \A b \in bounds : last <= b
  <2>1. bounds \subseteq Nat /\ bounds # {}
    OBVIOUS
  <2> HIDE DEF bounds
  <2>2. QED BY <2>1, FirstOf
<1>2. last \in S
  <2> SUFFICES ASSUME last \notin S
               PROVE  FALSE
    OBVIOUS
  <2>1. last \in Nat /\ \A j \in S : j \in Nat /\ j <= last - 1
    BY <1>1
  <2>2. last - 1 \in Nat
    <3>1. PICK j \in S : j \in Nat /\ j <= last - 1
      BY <2>1
    <3>2. QED BY <2>1, <3>1
  <2>3. last - 1 \in bounds
    BY <2>1, <2>2
  <2>4. QED BY <1>1, <2>1, <2>3
<1>3. QED BY <1>1, <1>2

(* The sums there are: each is the one before and the next number.         *)
LEMMA TotalsExist ==
  ASSUME NEW numbers \in Seq(Nat)
  PROVE  Totals(numbers) =
           [k \in 0..Len(numbers) |->
             IF k = 0 THEN 0 ELSE Totals(numbers)[k - 1] + numbers[k]]
<1> DEFINE Next(f, n) ==
             f = [k \in 0..n |-> IF k = 0 THEN 0 ELSE f[k - 1] + numbers[k]]
           none == {n \in 0..Len(numbers) : ~ \E f : Next(f, n)}
<1>1. Len(numbers) \in Nat
  OBVIOUS
<1>2. ASSUME none # {} PROVE FALSE
  <2>1. PICK n \in none : \A j \in none : n <= j
    <3>1. none \subseteq Nat
      BY <1>1
    <3> HIDE DEF none
    <3>2. QED BY <1>2, <3>1, FirstOf
  <2>2. n # 0
    <3>1. Next([k \in 0..0 |-> 0], 0)
      OBVIOUS
    <3>2. QED BY <2>1, <3>1
  <2>3. n \in Nat /\ n - 1 \in 0..Len(numbers) /\ ~ (n <= n - 1)
    BY <1>1, <2>1, <2>2
  <2>4. PICK f : Next(f, n - 1)
    BY <2>1, <2>3
  <2> DEFINE g == [k \in 0..n |-> IF k = 0 THEN 0 ELSE f[k - 1] + numbers[k]]
  <2>5. \A k \in 0..(n - 1) : g[k] = f[k]
    BY <2>3, <2>4
  <2>6. \A k \in 0..n : k # 0 => k - 1 \in 0..(n - 1)
    BY <2>3
  <2>7. Next(g, n)
    BY <2>5, <2>6
  <2> HIDE DEF g
  <2>8. QED BY <2>1, <2>7
<1>3. \E f : Next(f, Len(numbers))
  BY <1>1, <1>2
<1>4. QED BY <1>3 DEF Totals

LEMMA TotalsAre ==
  ASSUME NEW numbers \in Seq(Nat)
  PROVE  /\ Totals(numbers) \in [0..Len(numbers) -> Nat]
         /\ Totals(numbers)[0] = 0
         /\ \A k \in 1..Len(numbers) : Totals(numbers)[k] = Totals(numbers)[k - 1] + numbers[k]
<1> DEFINE total == Totals(numbers)
           bad == {k \in 0..Len(numbers) : total[k] \notin Nat}
<1>1. /\ total = [k \in 0..Len(numbers) |-> IF k = 0 THEN 0 ELSE total[k - 1] + numbers[k]]
      /\ Len(numbers) \in Nat /\ DOMAIN numbers = 1..Len(numbers)
      /\ \A k \in DOMAIN numbers : numbers[k] \in Nat
  BY TotalsExist
<1> HIDE DEF total
<1>2. /\ total[0] = 0 /\ DOMAIN total = 0..Len(numbers)
      /\ \A k \in 1..Len(numbers) : total[k] = total[k - 1] + numbers[k]
  <2> DEFINE sum(k) == IF k = 0 THEN 0 ELSE total[k - 1] + numbers[k]
  <2>1. total = [k \in 0..Len(numbers) |-> sum(k)]
    BY <1>1
  <2>2. DOMAIN total = 0..Len(numbers) /\ \A k \in 0..Len(numbers) : total[k] = sum(k)
    <3> HIDE DEF sum
    <3>1. QED BY <2>1
  <2>3. 0 \in 0..Len(numbers) /\ \A k \in 1..Len(numbers) : k # 0 /\ k \in 0..Len(numbers)
    BY <1>1
  <2>4. QED BY <2>2, <2>3
<1>3. ASSUME bad # {} PROVE FALSE
  <2>1. PICK n \in bad : \A j \in bad : n <= j
    <3>1. bad \subseteq Nat
      BY <1>1
    <3> HIDE DEF bad
    <3>2. QED BY <1>3, <3>1, FirstOf
  <2>2. n \in 1..Len(numbers) /\ n - 1 \in 0..Len(numbers) /\ ~ (n <= n - 1)
    BY <1>1, <1>2, <2>1
  <2>3. total[n - 1] \in Nat
    BY <2>1, <2>2
  <2>4. total[n] = total[n - 1] + numbers[n] /\ numbers[n] \in Nat
    BY <1>1, <1>2, <2>2
  <2>5. total[n] \in Nat
    BY <2>3, <2>4
  <2>6. QED BY <2>1, <2>5
<1>4. total \in [0..Len(numbers) -> Nat]
  BY <1>1, <1>3
<1>5. QED BY <1>2, <1>4 DEF total

(* Sums of the same numbers are the same.                                  *)
LEMMA TotalsAgree ==
  ASSUME NEW a \in Seq(Nat), NEW b \in Seq(Nat), Len(a) <= Len(b),
         \A k \in 1..Len(a) : a[k] = b[k]
  PROVE  \A k \in 0..Len(a) : Totals(a)[k] = Totals(b)[k]
<1> DEFINE ta == Totals(a)
           tb == Totals(b)
           bad == {k \in 0..Len(a) : ta[k] # tb[k]}
<1>1. /\ ta[0] = 0 /\ \A k \in 1..Len(a) : ta[k] = ta[k - 1] + a[k]
      /\ tb[0] = 0 /\ \A k \in 1..Len(b) : tb[k] = tb[k - 1] + b[k]
  BY TotalsAre
<1> HIDE DEF ta, tb
<1>2. Len(a) \in Nat /\ Len(b) \in Nat
  OBVIOUS
<1>3. ASSUME bad # {} PROVE FALSE
  <2>1. PICK n \in bad : \A j \in bad : n <= j
    <3>1. bad \subseteq Nat
      BY <1>2
    <3> HIDE DEF bad
    <3>2. QED BY <1>3, <3>1, FirstOf
  <2>2. n \in 1..Len(a) /\ n \in 1..Len(b) /\ n - 1 \in 0..Len(a) /\ ~ (n <= n - 1)
    BY <1>1, <1>2, <2>1
  <2>3. ta[n - 1] = tb[n - 1]
    BY <2>1, <2>2
  <2>4. QED BY <1>1, <2>1, <2>2, <2>3
<1>4. QED BY <1>3 DEF ta, tb

-----------------------------------------------------------------------------
(* Nodes whose steps count for a number of tokens.                         *)
Tokened(S) == \A n \in S : n.step.tokens \in Nat

LEMMA TokensGrow ==
  ASSUME NEW S, Tokened(S), NEW s \in Seq(S), NEW n \in S
  PROVE  /\ TokensOf(s) \in Nat
         /\ TokensOf(Append(s, n)) = TokensOf(s) + n.step.tokens
<1> DEFINE t    == Append(s, n)
           a    == [i \in DOMAIN s |-> s[i].step.tokens]
           b    == [i \in DOMAIN t |-> t[i].step.tokens]
<1>1. /\ t \in Seq(S) /\ Len(t) = Len(s) + 1 /\ t[Len(s) + 1] = n
      /\ \A i \in 1..Len(s) : t[i] = s[i]
      /\ DOMAIN s = 1..Len(s) /\ DOMAIN t = 1..Len(t) /\ Len(s) \in Nat
      /\ \A i \in DOMAIN s : s[i] \in S
      /\ \A i \in DOMAIN t : t[i] \in S
  OBVIOUS
<1> HIDE DEF t
<1>2. a \in Seq(Nat) /\ Len(a) = Len(s)
  BY <1>1 DEF Tokened
<1>3. b \in Seq(Nat) /\ Len(b) = Len(s) + 1
  BY <1>1 DEF Tokened
<1>4. \A k \in 1..Len(a) : a[k] = b[k]
  BY <1>1, <1>2
<1>5. b[Len(s) + 1] = n.step.tokens
  BY <1>1
<1>6. TokensOf(s) = Totals(a)[Len(s)] /\ TokensOf(t) = Totals(b)[Len(s) + 1]
  BY <1>1 DEF TokensOf
<1> HIDE DEF a, b
<1>7. Totals(a)[Len(s)] \in Nat
  BY <1>1, <1>2, TotalsAre
<1>8. Totals(b)[Len(s) + 1] = Totals(b)[Len(s)] + b[Len(s) + 1]
  <2>1. Len(s) + 1 \in 1..Len(b) /\ (Len(s) + 1) - 1 = Len(s)
    BY <1>1, <1>3
  <2>2. QED BY <1>3, <2>1, TotalsAre
<1>9. Totals(a)[Len(s)] = Totals(b)[Len(s)]
  <2>1. /\ a \in Seq(Nat) /\ b \in Seq(Nat)
        /\ Len(a) <= Len(b) /\ Len(s) \in 0..Len(a)
    BY <1>1, <1>2, <1>3
  <2>2. \A k \in 0..Len(a) : Totals(a)[k] = Totals(b)[k]
    BY <1>4, <2>1, TotalsAgree
  <2>3. QED BY <2>1, <2>2
<1>10. QED BY <1>5, <1>6, <1>7, <1>8, <1>9 DEF t

-----------------------------------------------------------------------------
(* One more step is seated, or passed over.                                *)
Seat(seated, step, budget) ==
  IF seated = <<>> \/ TokensOf(seated) + step.step.tokens <= budget
    THEN Append(seated, step) ELSE seated

LEMMA SeatsExist ==
  ASSUME NEW S, NEW order \in Seq(S), NEW budget
  PROVE  Seats(order, budget) =
           [k \in 0..Len(order) |->
             IF k = 0 THEN <<>> ELSE Seat(Seats(order, budget)[k - 1], order[k], budget)]
<1> DEFINE Next(f, n) ==
             f = [k \in 0..n |-> IF k = 0 THEN <<>> ELSE Seat(f[k - 1], order[k], budget)]
           none == {n \in 0..Len(order) : ~ \E f : Next(f, n)}
<1>1. Len(order) \in Nat
  OBVIOUS
<1>2. ASSUME none # {} PROVE FALSE
  <2>1. PICK n \in none : \A j \in none : n <= j
    <3>1. none \subseteq Nat
      BY <1>1
    <3> HIDE DEF none
    <3>2. QED BY <1>2, <3>1, FirstOf
  <2>2. n # 0
    <3>1. Next([k \in 0..0 |-> <<>>], 0)
      OBVIOUS
    <3>2. QED BY <2>1, <3>1
  <2>3. n \in Nat /\ n - 1 \in 0..Len(order) /\ ~ (n <= n - 1)
    BY <1>1, <2>1, <2>2
  <2>4. PICK f : Next(f, n - 1)
    BY <2>1, <2>3
  <2> DEFINE g == [k \in 0..n |-> IF k = 0 THEN <<>> ELSE Seat(f[k - 1], order[k], budget)]
  <2>5. \A k \in 0..(n - 1) : g[k] = f[k]
    BY <2>3, <2>4
  <2>6. \A k \in 0..n : k # 0 => k - 1 \in 0..(n - 1)
    BY <2>3
  <2>7. Next(g, n)
    BY <2>5, <2>6
  <2> HIDE DEF g
  <2>8. QED BY <2>1, <2>7
<1>3. \E f : Next(f, Len(order))
  BY <1>1, <1>2
<1>4. Seats(order, budget) = CHOOSE f : Next(f, Len(order))
  BY DEF Seats, Seat
<1>5. QED BY <1>3, <1>4

(* What is seated of the first k steps: none twice, the first of all in    *)
(* front, every other that would fit, and no more than fits.               *)
Fitted(order, budget, k, seated) ==
  /\ \A i \in DOMAIN seated : \E j \in 1..k : seated[i] = order[j]
  /\ \A i, j \in DOMAIN seated : seated[i] = seated[j] => i = j
  /\ k >= 1 => seated # <<>> /\ seated[1] = order[1]
  /\ \A j \in 1..k : \/ \E i \in DOMAIN seated : seated[i] = order[j]
                     \/ TokensOf(seated) + order[j].step.tokens > budget
  /\ Len(seated) <= 1 \/ TokensOf(seated) <= budget

LEMMA SeatFits ==
  ASSUME NEW S, Tokened(S), NEW order \in Seq(S), NEW budget \in Nat,
         \A i, j \in 1..Len(order) : order[i] = order[j] => i = j,
         NEW k \in 1..Len(order), NEW seated \in Seq(S), Fitted(order, budget, k - 1, seated)
  PROVE  /\ Seat(seated, order[k], budget) \in Seq(S)
         /\ Fitted(order, budget, k, Seat(seated, order[k], budget))
<1> DEFINE n == order[k]
           t == Append(seated, n)
<1>0. /\ n \in S /\ k \in Nat /\ k - 1 \in Nat /\ k \in 1..k /\ order[k] = n
  OBVIOUS
<1>1. /\ n \in S /\ k \in Nat /\ k - 1 \in Nat /\ Len(seated) \in Nat
      /\ DOMAIN seated = 1..Len(seated)
      /\ t \in Seq(S) /\ DOMAIN t = 1..(Len(seated) + 1) /\ Len(t) = Len(seated) + 1
      /\ t[Len(seated) + 1] = n /\ \A i \in DOMAIN seated : t[i] = seated[i]
      /\ t # <<>> /\ k \in 1..k /\ order[k] = n
      /\ seated = <<>> => Len(seated) = 0
      /\ seated # <<>> => 1 \in DOMAIN seated
  <2>1. /\ t \in Seq(S) /\ DOMAIN t = 1..(Len(seated) + 1) /\ Len(t) = Len(seated) + 1
        /\ t[Len(seated) + 1] = n /\ \A i \in DOMAIN seated : t[i] = seated[i]
        /\ DOMAIN seated = 1..Len(seated) /\ Len(seated) \in Nat
    BY <1>0
  <2>2. Len(t) # 0
    BY <2>1
  <2>3. t # <<>>
    BY <2>2
  <2>4. seated # <<>> => Len(seated) # 0
    OBVIOUS
  <2>5. QED BY <1>0, <2>1, <2>3, <2>4
<1>2. TokensOf(seated) \in Nat /\ TokensOf(t) = TokensOf(seated) + n.step.tokens
  BY <1>1, TokensGrow
<1>3. \A j \in 1..Len(order) : order[j].step.tokens \in Nat
  BY DEF Tokened
<1>4. \A j \in 1..k : j = k \/ j \in 1..(k - 1)
  BY <1>1
<1>5. \A j \in 1..(k - 1) : j \in 1..k /\ order[j] # n
  BY <1>1
<1>6. 1..(k - 1) \subseteq 1..Len(order) /\ 1..k \subseteq 1..Len(order)
  BY <1>1
<1> HIDE DEF n, t
<1>7. CASE seated = <<>> \/ TokensOf(seated) + n.step.tokens <= budget
  <2>1. Seat(seated, n, budget) = t
    BY <1>7 DEF Seat, t
  <2>2. \A i \in DOMAIN t : i = Len(seated) + 1 \/ i \in DOMAIN seated
    BY <1>1
  <2>3. \A i \in DOMAIN seated : i \in DOMAIN t /\ i # Len(seated) + 1
    BY <1>1
  <2>4. \A i \in DOMAIN t : \E j \in 1..k : t[i] = order[j]
    <3>1. ASSUME NEW i \in DOMAIN seated
          PROVE  \E j \in 1..k : t[i] = order[j]
      <4>1. PICK j \in 1..(k - 1) : seated[i] = order[j]
        BY DEF Fitted
      <4>2. QED BY <1>1, <1>5, <4>1
    <3>2. t[Len(seated) + 1] = order[k]
      BY <1>1
    <3>3. QED BY <1>1, <2>2, <3>1, <3>2
  <2>5. \A i \in DOMAIN seated : seated[i] # n
    BY <1>5 DEF Fitted
  <2>6. \A i, j \in DOMAIN t : t[i] = t[j] => i = j
    BY <1>1, <2>2, <2>5 DEF Fitted
  <2>7. t # <<>> /\ t[1] = order[1]
    <3>1. CASE seated = <<>>
      <4>1. k = 1
        <5>1. ~ (k - 1 >= 1)
          BY <3>1 DEF Fitted
        <5>2. QED BY <1>1, <5>1
      <4>2. t[1] = n
        BY <1>1, <3>1
      <4>3. QED BY <1>1, <4>1, <4>2
    <3>2. CASE seated # <<>>
      <4>1. 1 \in DOMAIN seated
        BY <1>1, <3>2
      <4>2. k - 1 >= 1
        <5>1. PICK j \in 1..(k - 1) : seated[1] = order[j]
          BY <4>1 DEF Fitted
        <5>2. QED BY <1>1, <5>1
      <4>3. seated[1] = order[1]
        BY <4>2 DEF Fitted
      <4>4. QED BY <1>1, <4>1, <4>3
    <3>3. QED BY <3>1, <3>2
  <2>8. ASSUME NEW j \in 1..k
        PROVE  \/ \E i \in DOMAIN t : t[i] = order[j]
               \/ TokensOf(t) + order[j].step.tokens > budget
    <3>1. CASE j = k
      <4>1. Len(seated) + 1 \in DOMAIN t
        BY <1>1
      <4>2. t[Len(seated) + 1] = order[j]
        BY <1>1, <3>1
      <4>3. \E i \in DOMAIN t : t[i] = order[j]
        BY <4>1, <4>2
      <4>4. QED BY <4>3
    <3>2. CASE j \in 1..(k - 1)
      <4>1. CASE \E i \in DOMAIN seated : seated[i] = order[j]
        BY <1>1, <2>3, <4>1
      <4>2. CASE TokensOf(seated) + order[j].step.tokens > budget
        <5>1. n.step.tokens \in Nat /\ order[j].step.tokens \in Nat
          BY <1>3, <1>6 DEF n
        <5>2. \A a, b, c, d \in Nat : a + c > d => (a + b) + c > d
          OBVIOUS
        <5>3. TokensOf(t) + order[j].step.tokens > budget
          BY <1>2, <4>2, <5>1, <5>2
        <5>4. QED BY <5>3
      <4>3. \/ \E i \in DOMAIN seated : seated[i] = order[j]
            \/ TokensOf(seated) + order[j].step.tokens > budget
        BY <3>2 DEF Fitted
      <4>4. QED BY <4>1, <4>2, <4>3
    <3>3. QED BY <1>4, <3>1, <3>2
  <2>9. Len(t) <= 1 \/ TokensOf(t) <= budget
    <3>1. CASE seated = <<>>
      BY <1>1, <3>1
    <3>2. CASE TokensOf(seated) + n.step.tokens <= budget
      BY <1>2, <3>2
    <3>3. QED BY <1>7, <3>1, <3>2
  <2>10. Fitted(order, budget, k, t)
    <3>1. \A j \in 1..k : \/ \E i \in DOMAIN t : t[i] = order[j]
                          \/ TokensOf(t) + order[j].step.tokens > budget
      BY <2>8
    <3>2. QED BY <2>4, <2>6, <2>7, <2>9, <3>1 DEF Fitted
  <2>11. QED BY <1>1, <2>1, <2>10
<1>8. CASE seated # <<>> /\ ~ (TokensOf(seated) + n.step.tokens <= budget)
  <2>1. Seat(seated, n, budget) = seated
    BY <1>8 DEF Seat
  <2>2. TokensOf(seated) + n.step.tokens > budget
    BY <1>1, <1>2, <1>3, <1>8 DEF n
  <2>3. k - 1 >= 1
    <3>1. PICK j \in 1..(k - 1) : seated[1] = order[j]
      BY <1>1, <1>8 DEF Fitted
    <3>2. QED BY <1>1, <3>1
  <2>4. \A i \in DOMAIN seated : \E j \in 1..k : seated[i] = order[j]
    <3>1. SUFFICES ASSUME NEW i \in DOMAIN seated
                   PROVE  \E j \in 1..k : seated[i] = order[j]
      OBVIOUS
    <3>2. PICK j \in 1..(k - 1) : seated[i] = order[j]
      BY DEF Fitted
    <3>3. QED BY <1>5, <3>2
  <2>5. \A j \in 1..k : \/ \E i \in DOMAIN seated : seated[i] = order[j]
                        \/ TokensOf(seated) + order[j].step.tokens > budget
    <3>1. TokensOf(seated) + order[k].step.tokens > budget
      BY <1>1, <2>2
    <3>2. SUFFICES ASSUME NEW j \in 1..k, j # k
                   PROVE  \/ \E i \in DOMAIN seated : seated[i] = order[j]
                          \/ TokensOf(seated) + order[j].step.tokens > budget
      BY <3>1
    <3>3. j \in 1..(k - 1)
      BY <1>4, <3>2
    <3>4. QED BY <3>3 DEF Fitted
  <2>6. /\ \A i, j \in DOMAIN seated : seated[i] = seated[j] => i = j
        /\ seated # <<>> /\ seated[1] = order[1]
        /\ Len(seated) <= 1 \/ TokensOf(seated) <= budget
    BY <1>8, <2>3 DEF Fitted
  <2>7. Fitted(order, budget, k, seated)
    BY <2>4, <2>5, <2>6 DEF Fitted
  <2>8. QED BY <1>1, <2>1, <2>7
<1>9. QED BY <1>7, <1>8

LEMMA SeatsFit ==
  ASSUME NEW S, Tokened(S), NEW order \in Seq(S), NEW budget \in Nat,
         \A i, j \in 1..Len(order) : order[i] = order[j] => i = j
  PROVE  LET seated == Seats(order, budget)[Len(order)]
         IN seated \in Seq(S) /\ Fitted(order, budget, Len(order), seated)
<1> DEFINE seats == Seats(order, budget)
           bad   == {k \in 0..Len(order) :
                      ~ (seats[k] \in Seq(S) /\ Fitted(order, budget, k, seats[k]))}
<1>1. /\ Len(order) \in Nat
      /\ seats = [k \in 0..Len(order) |->
                   IF k = 0 THEN <<>> ELSE Seat(seats[k - 1], order[k], budget)]
  BY SeatsExist
<1> HIDE DEF seats
<1>2. seats[0] = <<>> /\ \A k \in 1..Len(order) : seats[k] = Seat(seats[k - 1], order[k], budget)
  <2> DEFINE next(k) == IF k = 0 THEN <<>> ELSE Seat(seats[k - 1], order[k], budget)
  <2>1. seats = [k \in 0..Len(order) |-> next(k)]
    BY <1>1
  <2>2. \A k \in 0..Len(order) : seats[k] = next(k)
    <3> HIDE DEF next
    <3>1. QED BY <2>1
  <2>3. 0 \in 0..Len(order) /\ \A k \in 1..Len(order) : k # 0 /\ k \in 0..Len(order)
    BY <1>1
  <2>4. QED BY <2>2, <2>3
<1>3. Fitted(order, budget, 0, <<>>)
  BY DEF Fitted
<1>4. ASSUME bad # {} PROVE FALSE
  <2>1. PICK k \in bad : \A j \in bad : k <= j
    <3>1. bad \subseteq Nat
      BY <1>1
    <3> HIDE DEF bad
    <3>2. QED BY <1>4, <3>1, FirstOf
  <2>2. k # 0
    <3>1. <<>> \in Seq(S)
      OBVIOUS
    <3>2. ~ (seats[k] \in Seq(S) /\ Fitted(order, budget, k, seats[k]))
      BY <2>1
    <3>3. k = 0 => seats[k] = <<>>
      BY <1>2
    <3>4. QED BY <1>3, <3>1, <3>2, <3>3
  <2>3. k \in 1..Len(order) /\ k - 1 \in 0..Len(order) /\ ~ (k <= k - 1)
    BY <1>1, <2>1, <2>2
  <2>4. k - 1 \notin bad
    BY <2>1, <2>3
  <2>5. seats[k - 1] \in Seq(S) /\ Fitted(order, budget, k - 1, seats[k - 1])
    BY <2>3, <2>4
  <2>6. /\ Seat(seats[k - 1], order[k], budget) \in Seq(S)
        /\ Fitted(order, budget, k, Seat(seats[k - 1], order[k], budget))
    BY <2>3, <2>5, SeatFits
  <2>7. QED BY <1>2, <2>1, <2>3, <2>6
<1>5. Len(order) \in 0..Len(order)
  BY <1>1
<1>6. QED BY <1>4, <1>5 DEF seats

-----------------------------------------------------------------------------
(* Nodes no two of which are of one time.                                  *)
Timed(nodes) ==
  /\ \A n \in nodes : n.ts \in Nat
  /\ \E last \in Nat : \A n \in nodes : n.ts <= last
  /\ \A m, n \in nodes : m.ts = n.ts => m = n

LEMMA TimedFinite ==
  ASSUME NEW nodes, Timed(nodes)
  PROVE  IsFiniteSet(nodes) /\ Cardinality(nodes) \in Nat
<1>1. PICK last \in Nat : \A n \in nodes : n.ts <= last
  BY DEF Timed
<1> DEFINE time == [n \in nodes |-> n.ts]
<1>2. time \in Injection(nodes, 0..last)
  BY <1>1 DEF Timed, Injection, IsInjective
<1>3. IsFiniteSet(0..last)
  BY <1>1, FS_Interval
<1>4. IsFiniteSet(nodes)
  BY <1>2, <1>3, FS_Injection
<1>5. QED BY <1>4, FS_CardinalityType

LEMMA NewestIs ==
  ASSUME NEW nodes, Timed(nodes), nodes # {}
  PROVE  /\ NewestOf(nodes) \in nodes
         /\ \A n \in nodes : n.ts <= NewestOf(nodes).ts
<1> DEFINE times == {n.ts : n \in nodes}
<1>1. times \subseteq Nat /\ times # {} /\ \E last \in Nat : \A t \in times : t <= last
  BY DEF Timed
<1>2. PICK last \in times : \A t \in times : t <= last
  <2> HIDE DEF times
  <2>1. QED BY <1>1, LastOf
<1>3. \E n \in nodes : IsLatest(n, nodes)
  BY <1>2 DEF IsLatest
<1>4. QED BY <1>3 DEF NewestOf, IsLatest

(* Any order of relevance becomes one of all fresh steps, each once, and   *)
(* the newest in front.                                                    *)
LEMMA OrderIsWhole ==
  ASSUME NEW fresh, Timed(fresh), fresh # {}, NEW relevance \in SetToSeqs(fresh)
  PROVE  LET order == Ordered(fresh, relevance)
         IN /\ order \in Seq(fresh) /\ Len(order) >= 1
            /\ order[1] = NewestOf(fresh)
            /\ \A i, j \in 1..Len(order) : order[i] = order[j] => i = j
            /\ \A n \in fresh : \E i \in 1..Len(order) : order[i] = n
<1> DEFINE size == Cardinality(fresh)
           p    == CHOOSE i \in DOMAIN relevance : relevance[i] = NewestOf(fresh)
<1>1. size \in Nat /\ IsFiniteSet(fresh)
  BY TimedFinite
<1>2. /\ relevance \in [1..size -> fresh]
      /\ \A i, j \in 1..size : i # j => relevance[i] # relevance[j]
  BY DEF SetToSeqs
<1>3. \A n \in fresh : \E i \in 1..size : relevance[i] = n
  <2>1. relevance \in Injection(1..size, fresh)
    BY <1>2 DEF Injection, IsInjective
  <2>2. Cardinality(1..size) = size
    BY <1>1, FS_Interval
  <2>3. relevance \in Surjection(1..size, fresh)
    BY <1>1, <2>1, <2>2, FS_Injection
  <2>4. QED BY <2>3 DEF Surjection
<1> HIDE DEF size
<1>4. relevance \in Seq(fresh) /\ Len(relevance) = size /\ DOMAIN relevance = 1..size
  BY <1>1, <1>2
<1>5. p \in 1..size /\ relevance[p] = NewestOf(fresh)
  <2>1. \E i \in DOMAIN relevance : relevance[i] = NewestOf(fresh)
    BY <1>3, <1>4, NewestIs
  <2>2. p \in DOMAIN relevance /\ relevance[p] = NewestOf(fresh)
    BY <2>1
  <2>3. QED BY <1>4, <2>2
<1>6. Ordered(fresh, relevance) = <<relevance[p]>> \o RemoveAt(relevance, p)
  BY DEF Ordered
<1> HIDE DEF p
<1> DEFINE head == SubSeq(relevance, 1, p - 1)
           tail == SubSeq(relevance, p + 1, size)
           rest == head \o tail
           order == <<relevance[p]>> \o rest
<1>7. /\ head \in Seq(fresh) /\ Len(head) = p - 1
      /\ \A i \in 1..(p - 1) : head[i] = relevance[i]
  <2>1. \A i \in 1..(p - 1) : relevance[i] \in fresh
    BY <1>1, <1>2, <1>5
  <2>2. QED BY <1>1, <1>5, <2>1, SubSeqProperties
<1>8. /\ tail \in Seq(fresh) /\ Len(tail) = size - p
      /\ \A i \in 1..(size - p) : tail[i] = relevance[p + i]
  <2>1. \A i \in (p + 1)..size : relevance[i] \in fresh
    BY <1>1, <1>2, <1>5
  <2>2. /\ tail \in Seq(fresh)
        /\ Len(tail) = IF p + 1 <= size THEN size - (p + 1) + 1 ELSE 0
        /\ \A i \in 1..(size - (p + 1) + 1) : tail[i] = relevance[(p + 1) + i - 1]
    BY <1>1, <1>5, <2>1, SubSeqProperties
  <2>3. size - (p + 1) + 1 = size - p /\ \A i \in Int : (p + 1) + i - 1 = p + i
    BY <1>1, <1>5
  <2>4. QED BY <1>1, <1>5, <2>2, <2>3
<1> HIDE DEF head, tail
<1>9. /\ rest \in Seq(fresh) /\ Len(rest) = size - 1
      /\ \A i \in 1..(size - 1) : rest[i] = IF i < p THEN relevance[i] ELSE relevance[i + 1]
  <2>1. /\ rest \in Seq(fresh) /\ Len(rest) = (p - 1) + (size - p)
        /\ \A i \in 1..((p - 1) + (size - p)) :
             rest[i] = IF i <= p - 1 THEN head[i] ELSE tail[i - (p - 1)]
    <3>1. /\ rest \in Seq(fresh) /\ Len(rest) = Len(head) + Len(tail)
          /\ \A i \in 1..(Len(head) + Len(tail)) :
               rest[i] = IF i <= Len(head) THEN head[i] ELSE tail[i - Len(head)]
      BY <1>7, <1>8, ConcatProperties
    <3> HIDE DEF rest
    <3>2. QED BY <1>7, <1>8, <3>1
  <2>2. (p - 1) + (size - p) = size - 1
    BY <1>1, <1>5
  <2>3. ASSUME NEW i \in 1..(size - 1)
        PROVE  rest[i] = IF i < p THEN relevance[i] ELSE relevance[i + 1]
    <3>1. CASE i < p
      <4>1. i <= p - 1 /\ i \in 1..(p - 1)
        BY <1>1, <1>5, <3>1
      <4>2. QED BY <1>7, <2>1, <2>2, <3>1, <4>1
    <3>2. CASE ~ (i < p)
      <4>1. ~ (i <= p - 1) /\ i - (p - 1) \in 1..(size - p) /\ p + (i - (p - 1)) = i + 1
        BY <1>1, <1>5, <3>2
      <4>2. QED BY <1>8, <2>1, <2>2, <3>2, <4>1
    <3>3. QED BY <3>1, <3>2
  <2>4. QED BY <2>1, <2>2, <2>3
<1> HIDE DEF rest
<1>10. /\ order \in Seq(fresh) /\ Len(order) = size
       /\ order[1] = relevance[p]
       /\ \A i \in 2..size : order[i] = IF i <= p THEN relevance[i - 1] ELSE relevance[i]
  <2>1. /\ <<relevance[p]>> \in Seq(fresh) /\ Len(<<relevance[p]>>) = 1
        /\ <<relevance[p]>>[1] = relevance[p]
    BY <1>2, <1>5
  <2>2. /\ order \in Seq(fresh) /\ Len(order) = 1 + (size - 1)
        /\ \A i \in 1..(1 + (size - 1)) :
             order[i] = IF i <= 1 THEN <<relevance[p]>>[i] ELSE rest[i - 1]
    BY <1>9, <2>1, ConcatProperties
  <2>3. 1 + (size - 1) = size /\ 1 \in 1..size
    BY <1>1, <1>5
  <2>4. ASSUME NEW i \in 2..size
        PROVE  order[i] = IF i <= p THEN relevance[i - 1] ELSE relevance[i]
    <3>1. /\ i \in 1..size /\ ~ (i <= 1) /\ i - 1 \in 1..(size - 1)
          /\ i - 1 < p <=> i <= p
          /\ (i - 1) + 1 = i
      BY <1>1, <1>5
    <3>2. order[i] = rest[i - 1]
      BY <2>2, <2>3, <3>1
    <3>3. QED BY <1>9, <3>1, <3>2
  <2>5. QED BY <2>1, <2>2, <2>3, <2>4
<1> HIDE DEF order
<1> DEFINE at(i) == IF i = 1 THEN p ELSE IF i <= p THEN i - 1 ELSE i
<1>11. \A i \in 1..size : at(i) \in 1..size /\ order[i] = relevance[at(i)]
  <2> TAKE i \in 1..size
  <2>1. CASE i = 1
    BY <1>5, <1>10, <2>1
  <2>2. CASE i # 1
    <3>1. i \in 2..size
      BY <1>1, <2>2
    <3>2. at(i) \in 1..size
      BY <1>1, <1>5, <3>1
    <3>3. order[i] = relevance[at(i)]
      BY <1>10, <2>2, <3>1
    <3>4. QED BY <3>2, <3>3
  <2>3. QED BY <2>1, <2>2
<1>12. \A i, j \in 1..size : at(i) = at(j) => i = j
  BY <1>1, <1>5
<1>13. \A k \in 1..size : \E i \in 1..size : at(i) = k
  <2> TAKE k \in 1..size
  <2>1. CASE k = p
    <3>1. 1 \in 1..size /\ at(1) = k
      BY <1>1, <2>1
    <3>2. QED BY <3>1
  <2>2. CASE k < p
    <3>1. k + 1 \in 1..size /\ at(k + 1) = k
      BY <1>1, <1>5, <2>2
    <3>2. QED BY <3>1
  <2>3. CASE k > p
    <3>1. k \in 1..size /\ at(k) = k
      BY <1>1, <1>5, <2>3
    <3>2. QED BY <3>1
  <2>4. QED BY <1>1, <1>5, <2>1, <2>2, <2>3
<1> HIDE DEF at
<1>14. \A i, j \in 1..size : order[i] = order[j] => i = j
  BY <1>2, <1>11, <1>12
<1>15. ASSUME NEW n \in fresh
       PROVE  \E i \in 1..size : order[i] = n
  <2>1. PICK k \in 1..size : relevance[k] = n
    BY <1>3
  <2>2. PICK i \in 1..size : at(i) = k
    BY <1>13
  <2>3. QED BY <1>11, <2>1, <2>2
<1>16. Ordered(fresh, relevance) = order
  BY <1>4, <1>6 DEF RemoveAt, order, rest, head, tail
<1>17. size >= 1
  BY <1>1, <1>5
<1>18. QED BY <1>5, <1>10, <1>14, <1>15, <1>16, <1>17

(* What is recalled is no more than is left.                               *)
LEMMA RecallFits ==
  ASSUME NEW left \in Nat
  PROVE  Recalled(left) \in Nat /\ Recalled(left) <= left
<1> DEFINE total == Totals(Memories)
           fits  == {k \in 0..Len(Memories) : \A j \in 0..k : total[j] <= left}
<1>1. /\ Memories \in Seq(Nat) /\ Len(Memories) \in Nat
      /\ total \in [0..Len(Memories) -> Nat] /\ total[0] = 0
  BY TrailAssumption, TotalsAre
<1>2. Recalled(left) = IF left <= 0 THEN 0 ELSE total[Max(fits)]
  BY DEF Recalled
<1> HIDE DEF total
<1>3. /\ fits \subseteq Nat /\ 0 \in fits
      /\ \A k \in fits : k <= Len(Memories) /\ total[k] \in Nat /\ total[k] <= left
  BY <1>1
<1> HIDE DEF fits
<1>4. Max(fits) \in fits
  <2>1. \E k \in fits : \A j \in fits : j <= k
    BY <1>1, <1>3, LastOf
  <2>2. \E k \in fits : \A j \in fits : k >= j
    BY <1>3, <2>1
  <2>3. QED BY <2>2 DEF Max
<1>5. CASE left <= 0
  BY <1>2, <1>5
<1>6. CASE ~ (left <= 0)
  <2>1. Recalled(left) = total[Max(fits)]
    BY <1>2, <1>6
  <2>2. QED BY <1>3, <1>4, <2>1
<1>7. QED BY <1>5, <1>6

(* What a workflow is given of any nodes of distinct times.                *)
LEMMA AnchorIsSeated ==
  ASSUME NEW nodes, Timed(nodes), Tokened(nodes), nodes # {}, NEW budget \in Nat,
         NEW relevance \in SetToSeqs(Fresh(nodes))
  PROVE  LET fresh    == Fresh(nodes)
             selected == Selected(nodes, relevance, budget)
             used     == TokensOf(selected)
         IN /\ ResumeStep(nodes) \in ToSet(selected) \/ ResumeStep(nodes).step.dead
            /\ fresh # {} => NewestOf(fresh) \in ToSet(selected)
            /\ ToSet(selected) \subseteq fresh
            /\ \A i, j \in DOMAIN selected : selected[i] = selected[j] => i = j
            /\ \A n \in fresh \ ToSet(selected) : used + n.step.tokens > budget
            /\ Len(selected) <= 1 \/ used + Recalled(budget - used) <= budget
<1> DEFINE fresh    == Fresh(nodes)
           order    == Ordered(fresh, relevance)
           selected == Selected(nodes, relevance, budget)
           used     == TokensOf(selected)
<1>1. fresh \subseteq nodes
  BY DEF Fresh
<1>2. Timed(fresh) /\ Tokened(fresh)
  BY <1>1 DEF Timed, Tokened
<1>3. /\ NewestOf(nodes) \in nodes
      /\ \A n \in nodes : n.ts <= NewestOf(nodes).ts
      /\ \A n \in nodes : n.ts \in Nat
  BY NewestIs DEF Timed
<1>4. NewestOf(nodes) \in fresh \/ NewestOf(nodes).step.dead
  <2> DEFINE last == NewestOf(nodes)
  <2> HIDE DEF last
  <2>1. last \in nodes /\ last.ts \in Nat /\ \A n \in nodes : n.ts \in Nat /\ n.ts <= last.ts
    BY <1>3 DEF last
  <2>2. ~ Superseded(last, nodes)
    BY <2>1 DEF Superseded
  <2>3. ~ Aged(last, nodes)
    <3>1. Aged(last, nodes) <=> MaxAge > 0 /\ last.ts - last.ts > MaxAge
      BY DEF Aged, last
    <3>2. MaxAge \in Nat
      BY TrailAssumption
    <3>3. QED BY <2>1, <3>1, <3>2
  <2>4. last \in fresh \/ last.step.dead
    BY <2>1, <2>2, <2>3 DEF Fresh, Stale
  <2>5. QED BY <2>4 DEF last
<1>5. ASSUME NewestOf(nodes) \in fresh
      PROVE  NewestOf(fresh) = NewestOf(nodes)
  <2>1. /\ NewestOf(fresh) \in fresh
        /\ NewestOf(nodes).ts <= NewestOf(fresh).ts
    BY <1>2, <1>5, NewestIs
  <2>2. NewestOf(fresh).ts = NewestOf(nodes).ts
    BY <1>1, <1>3, <2>1
  <2>3. QED BY <1>1, <1>3, <2>1, <2>2 DEF Timed
<1>6. CASE fresh = {}
  <2>1. selected = <<>>
    BY <1>6 DEF Selected
  <2> HIDE DEF selected, fresh
  <2>2. /\ ToSet(selected) = {} /\ DOMAIN selected = {} /\ Len(selected) = 0
    BY <2>1 DEF ToSet
  <2>3. QED BY <1>4, <1>6, <2>2 DEF ResumeStep, selected, fresh
<1>7. CASE fresh # {}
  <2>1. selected = Seats(order, budget)[Len(order)]
    BY <1>7 DEF Selected
  <2>2. /\ order \in Seq(fresh) /\ Len(order) >= 1
        /\ order[1] = NewestOf(fresh)
        /\ \A i, j \in 1..Len(order) : order[i] = order[j] => i = j
        /\ \A n \in fresh : \E i \in 1..Len(order) : order[i] = n
    BY <1>2, <1>7, OrderIsWhole
  <2> HIDE DEF order, fresh
  <2>3. selected \in Seq(fresh) /\ Fitted(order, budget, Len(order), selected)
    BY <1>2, <2>1, <2>2, SeatsFit, SMTT(40)
  <2> HIDE DEF selected
  <2>4. DOMAIN selected = 1..Len(selected) /\ ToSet(selected) = {selected[i] : i \in DOMAIN selected}
    BY <2>3 DEF ToSet
  <2>5. selected # <<>> /\ selected[1] = NewestOf(fresh)
    BY <2>2, <2>3 DEF Fitted
  <2>6. NewestOf(fresh) \in ToSet(selected)
    <3>1. 1 \in DOMAIN selected
      BY <2>3, <2>5
    <3>2. QED BY <2>4, <2>5, <3>1
  <2>7. ResumeStep(nodes) \in ToSet(selected) \/ ResumeStep(nodes).step.dead
    BY <1>4, <1>5, <2>6 DEF ResumeStep
  <2>8. ToSet(selected) \subseteq fresh
    BY <2>3, <2>4
  <2>9. \A i, j \in DOMAIN selected : selected[i] = selected[j] => i = j
    BY <2>3 DEF Fitted
  <2>10. ASSUME NEW n \in fresh \ ToSet(selected)
         PROVE  used + n.step.tokens > budget
    <3>1. PICK j \in 1..Len(order) : order[j] = n
      BY <2>2
    <3>2. \/ \E i \in DOMAIN selected : selected[i] = order[j]
          \/ used + order[j].step.tokens > budget
      BY <2>3 DEF Fitted
    <3>3. QED BY <2>4, <3>1, <3>2
  <2>11. Len(selected) <= 1 \/ used + Recalled(budget - used) <= budget
    <3>1. Len(selected) <= 1 \/ used <= budget
      BY <2>3 DEF Fitted
    <3>2. used \in Nat
      BY <1>2, <1>7, <2>3, TokensGrow
    <3> HIDE DEF used
    <3>3. used <= budget => budget - used \in Nat
      BY <3>2
    <3>4. used <= budget =>
            Recalled(budget - used) \in Nat /\ Recalled(budget - used) <= budget - used
      BY <3>3, RecallFits
    <3>5. QED BY <3>1, <3>2, <3>4
  <2>12. QED BY <2>6, <2>7, <2>8, <2>9, <2>10, <2>11 DEF selected, fresh
<1>8. QED BY <1>6, <1>7

-----------------------------------------------------------------------------
(* Rows are of distinct times, and so are the nodes of the ring.           *)
RowsTimed ==
  /\ \A row \in ledger : row.ts \in Nat /\ row.ts <= tick /\ row.step \in Step \cup {Event}
  /\ \A q, r \in ledger : q.ts = r.ts => q = r

RingTimed ==
  /\ \E S : ring \in Seq(S)
  /\ \A i \in DOMAIN ring : ring[i].ts \in Nat /\ ring[i].ts <= tick /\ ring[i].step \in Step
  /\ \A i, j \in DOMAIN ring : ring[i].ts = ring[j].ts => i = j

(* What a thread writes is of a time no row, or node, has.                 *)
WritesTimed ==
  \A w \in Writer :
    /\ InTransaction(w) =>
         /\ {"stage", "step", "ts"} \subseteq DOMAIN record[w]
         /\ record[w].step \in Step \cup {Event}
         /\ record[w].ts \in Nat /\ record[w].ts <= tick
         /\ \A row \in ledger : row.ts # record[w].ts
    /\ record[w].stage = "chain" => record[w].step \in Step
    /\ record[w].stage = "append" =>
         /\ record[w].node.step \in Step
         /\ record[w].node.ts \in Nat /\ record[w].node.ts <= tick
         /\ \A i \in DOMAIN ring : ring[i].ts # record[w].node.ts

WritesApart ==
  \A v, w \in Writer : v # w =>
    /\ InTransaction(v) /\ InTransaction(w) => record[v].ts # record[w].ts
    /\ record[v].stage = "append" /\ record[w].stage = "append" =>
         record[v].node.ts # record[w].node.ts

TrailInv ==
  /\ tick \in Nat /\ DOMAIN record = Writer
  /\ RowsTimed /\ RingTimed /\ WritesTimed /\ WritesApart

LEMMA TrailStart == EvidenceInit => TrailInv
<1> SUFFICES ASSUME EvidenceInit PROVE TrailInv
  OBVIOUS
<1>1. /\ tick = 0 /\ ledger = {} /\ ring = <<>> /\ DOMAIN record = Writer
      /\ \A w \in Writer : record[w].stage = "idle"
  BY DEF EvidenceInit, NoRecord
<1>2. <<>> \in Seq({}) /\ DOMAIN <<>> = {}
  OBVIOUS
<1>3. QED
  BY <1>1, <1>2 DEF TrailInv, RowsTimed, RingTimed, WritesTimed, WritesApart, InTransaction

(* How a thread's record goes on, when no transaction begins.              *)
Goes(w) ==
  \/ record'[w].stage = "idle"
  \/ record'[w].stage = "chain" /\ record'[w].step \in Step
  \/ /\ InTransaction(w) /\ InTransaction(w)' /\ ledger' = ledger
     /\ {"stage", "step", "ts"} \subseteq DOMAIN record'[w]
     /\ record'[w].step = record[w].step /\ record'[w].ts = record[w].ts
  \/ /\ record'[w].stage = "append" /\ tick' = tick + 1
     /\ record'[w].node.ts = tick + 1 /\ record'[w].node.step \in Step

LEMMA TrailGoesOn ==
  ASSUME TrailInv, NEW w \in Writer, DOMAIN record' = Writer,
         \A v \in Writer \ {w} : record'[v] = record[v],
         tick' \in {tick, tick + 1}, UNCHANGED ring, Goes(w),
         \/ ledger' = ledger
         \/ record[w].stage = "insert" /\ ledger' = ledger \cup {Row(record[w])}
  PROVE  TrailInv'
<1>1. tick \in Nat /\ tick' \in Nat /\ tick <= tick' /\ DOMAIN record' = Writer
  BY DEF TrailInv
<1>2. ASSUME NEW v \in Writer, InTransaction(v)'
      PROVE  /\ InTransaction(v)
             /\ {"stage", "step", "ts"} \subseteq DOMAIN record'[v]
             /\ record'[v].step = record[v].step /\ record'[v].ts = record[v].ts
             /\ v = w => ledger' = ledger
  BY <1>2 DEF TrailInv, WritesTimed, InTransaction, Goes
<1>3. ASSUME ledger' # ledger
      PROVE  /\ InTransaction(w) /\ ledger' = ledger \cup {Row(record[w])}
             /\ Row(record[w]).ts = record[w].ts /\ Row(record[w]).step = record[w].step
  BY <1>3 DEF InTransaction, Row
<1>4. RowsTimed'
  <2>1. \A row \in ledger : /\ row.ts \in Nat /\ row.ts <= tick'
                            /\ row.step \in Step \cup {Event}
    BY <1>1 DEF TrailInv, RowsTimed
  <2>2. CASE ledger' = ledger
    BY <2>1, <2>2 DEF TrailInv, RowsTimed
  <2>3. CASE ledger' # ledger
    <3> DEFINE new == Row(record[w])
    <3>1. /\ ledger' = ledger \cup {new} /\ new.ts \in Nat /\ new.ts <= tick'
          /\ new.step \in Step \cup {Event} /\ \A row \in ledger : row.ts # new.ts
      BY <1>1, <1>3, <2>3 DEF TrailInv, WritesTimed
    <3> HIDE DEF new
    <3>2. QED BY <2>1, <3>1 DEF TrailInv, RowsTimed
  <2>4. QED BY <2>2, <2>3
<1>5. RingTimed'
  BY <1>1 DEF TrailInv, RingTimed
<1>6. WritesTimed'
  <2> SUFFICES ASSUME NEW v \in Writer
               PROVE  /\ InTransaction(v)' =>
                           /\ {"stage", "step", "ts"} \subseteq DOMAIN record'[v]
                           /\ record'[v].step \in Step \cup {Event}
                           /\ record'[v].ts \in Nat /\ record'[v].ts <= tick'
                           /\ \A row \in ledger' : row.ts # record'[v].ts
                      /\ record'[v].stage = "chain" => record'[v].step \in Step
                      /\ record'[v].stage = "append" =>
                           /\ record'[v].node.step \in Step
                           /\ record'[v].node.ts \in Nat /\ record'[v].node.ts <= tick'
                           /\ \A i \in DOMAIN ring : ring[i].ts # record'[v].node.ts
    BY DEF WritesTimed
  <2>1. ASSUME InTransaction(v)'
        PROVE  /\ {"stage", "step", "ts"} \subseteq DOMAIN record'[v]
               /\ record'[v].step \in Step \cup {Event}
               /\ record'[v].ts \in Nat /\ record'[v].ts <= tick'
               /\ \A row \in ledger' : row.ts # record'[v].ts
    <3>1. /\ {"stage", "step", "ts"} \subseteq DOMAIN record'[v]
          /\ record'[v].step \in Step \cup {Event}
          /\ record'[v].ts \in Nat /\ record'[v].ts <= tick'
          /\ \A row \in ledger : row.ts # record'[v].ts
      BY <1>1, <1>2, <2>1 DEF TrailInv, WritesTimed
    <3>2. ASSUME ledger' # ledger
          PROVE  Row(record[w]).ts # record'[v].ts
      BY <1>2, <1>3, <2>1, <3>2 DEF TrailInv, WritesApart
    <3>3. QED BY <1>3, <3>1, <3>2
  <2>2. ASSUME record'[v].stage = "chain"
        PROVE  record'[v].step \in Step
    BY <2>2 DEF TrailInv, WritesTimed, Goes, InTransaction
  <2>3. ASSUME record'[v].stage = "append"
        PROVE  /\ record'[v].node.step \in Step
               /\ record'[v].node.ts \in Nat /\ record'[v].node.ts <= tick'
               /\ \A i \in DOMAIN ring : ring[i].ts # record'[v].node.ts
    <3>1. CASE v = w
      <4>1. /\ record'[v].node.ts = tick + 1 /\ tick' = tick + 1
            /\ record'[v].node.step \in Step
        BY <2>3, <3>1 DEF Goes, InTransaction
      <4>2. \A i \in DOMAIN ring : ring[i].ts \in Nat /\ ring[i].ts <= tick
        BY DEF TrailInv, RingTimed
      <4>3. QED BY <1>1, <4>1, <4>2
    <3>2. CASE v # w
      BY <1>1, <2>3, <3>2 DEF TrailInv, WritesTimed
    <3>3. QED BY <3>1, <3>2
  <2>4. QED BY <2>1, <2>2, <2>3
<1>7. WritesApart'
  <2> SUFFICES ASSUME NEW u \in Writer, NEW v \in Writer, u # v
               PROVE  /\ InTransaction(u)' /\ InTransaction(v)' => record'[u].ts # record'[v].ts
                      /\ record'[u].stage = "append" /\ record'[v].stage = "append" =>
                           record'[u].node.ts # record'[v].node.ts
    BY DEF WritesApart
  <2>1. InTransaction(u)' /\ InTransaction(v)' => record'[u].ts # record'[v].ts
    BY <1>2 DEF TrailInv, WritesApart
  <2>2. ASSUME record'[w].stage = "append", NEW x \in Writer \ {w}, record'[x].stage = "append"
        PROVE  record'[w].node.ts # record'[x].node.ts
    <3>1. record'[w].node.ts = tick + 1
      BY <2>2 DEF Goes, InTransaction
    <3>2. record'[x].node.ts \in Nat /\ record'[x].node.ts <= tick
      BY <2>2 DEF TrailInv, WritesTimed
    <3>3. QED BY <1>1, <3>1, <3>2
  <2>3. ASSUME record'[u].stage = "append", record'[v].stage = "append"
        PROVE  record'[u].node.ts # record'[v].node.ts
    <3>1. CASE u = w
      BY <2>2, <2>3, <3>1
    <3>2. CASE v = w
      BY <2>2, <2>3, <3>2
    <3>3. CASE u # w /\ v # w
      BY <2>3, <3>3 DEF TrailInv, WritesApart
    <3>4. QED BY <3>1, <3>2, <3>3
  <2>4. QED BY <2>1, <2>3
<1>8. QED BY <1>1, <1>4, <1>5, <1>6, <1>7 DEF TrailInv

LEMMA TrailBegins ==
  ASSUME TrailInv, NEW w \in Writer, NEW step \in Step \cup {Event}, BeginRecord(w, step)
  PROVE  TrailInv'
<1> DEFINE others == {v \in Writer \ {w} : InTransaction(v)}
           opened == [stage |-> "select", step |-> step, ts |-> tick + 1,
                      overlapped |-> others # {}]
<1>1. /\ tick' = tick + 1 /\ ledger' = ledger /\ ring' = ring
      /\ record' = [v \in Writer |->
           IF v = w THEN opened
           ELSE IF v \in others THEN [record[v] EXCEPT !.overlapped = TRUE] ELSE record[v]]
  BY DEF BeginRecord
<1>2. tick \in Nat /\ DOMAIN record' = Writer
  BY <1>1 DEF TrailInv
<1>3. /\ record'[w].stage = "select" /\ record'[w].step = step /\ record'[w].ts = tick + 1
      /\ {"stage", "step", "ts"} \subseteq DOMAIN record'[w]
  BY <1>1
<1>4. ASSUME NEW v \in Writer \ {w}
      PROVE  /\ InTransaction(v)' <=> InTransaction(v)
             /\ ~ InTransaction(v) => record'[v] = record[v]
             /\ InTransaction(v) =>
                  /\ {"stage", "step", "ts"} \subseteq DOMAIN record'[v]
                  /\ record'[v].stage = record[v].stage
                  /\ record'[v].step = record[v].step /\ record'[v].ts = record[v].ts
  <2>1. CASE v \in others
    <3>1. InTransaction(v) /\ {"stage", "step", "ts"} \subseteq DOMAIN record[v]
      BY <2>1 DEF TrailInv, WritesTimed
    <3>2. record'[v] = [record[v] EXCEPT !.overlapped = TRUE]
      BY <1>1, <2>1
    <3>3. /\ record'[v].stage = record[v].stage
          /\ record'[v].step = record[v].step /\ record'[v].ts = record[v].ts
          /\ DOMAIN record'[v] = DOMAIN record[v]
      BY <3>1, <3>2
    <3>4. QED BY <3>1, <3>3 DEF InTransaction
  <2>2. CASE v \notin others
    <3>1. record'[v] = record[v] /\ ~ InTransaction(v)
      BY <1>1, <2>2
    <3>2. QED BY <3>1 DEF InTransaction
  <2>3. QED BY <2>1, <2>2
<1> HIDE DEF others, opened
<1>5. RowsTimed'
  BY <1>1, <1>2 DEF TrailInv, RowsTimed
<1>6. RingTimed'
  BY <1>1, <1>2 DEF TrailInv, RingTimed
<1>7. /\ \A row \in ledger : row.ts \in Nat /\ row.ts <= tick
      /\ \A v \in Writer : InTransaction(v) => record[v].ts \in Nat /\ record[v].ts <= tick
  BY DEF TrailInv, RowsTimed, WritesTimed
<1>8. ASSUME NEW v \in Writer, ~ InTransaction(v)'
      PROVE  v # w /\ record'[v] = record[v]
  BY <1>3, <1>4, <1>8 DEF InTransaction
<1>9. ASSUME NEW v \in Writer, InTransaction(v)'
      PROVE  record'[v].stage # "chain" /\ record'[v].stage # "append"
  BY <1>9 DEF InTransaction
<1>10. WritesTimed'
  <2>1. ASSUME NEW v \in Writer, InTransaction(v)'
        PROVE  /\ {"stage", "step", "ts"} \subseteq DOMAIN record'[v]
               /\ record'[v].step \in Step \cup {Event}
               /\ record'[v].ts \in Nat /\ record'[v].ts <= tick'
               /\ \A row \in ledger' : row.ts # record'[v].ts
    <3>1. CASE v = w
      BY <1>1, <1>2, <1>3, <1>7, <3>1
    <3>2. CASE v # w
      BY <1>1, <1>2, <1>4, <2>1, <3>2 DEF TrailInv, WritesTimed
    <3>3. QED BY <3>1, <3>2
  <2>2. ASSUME NEW v \in Writer, ~ InTransaction(v)'
        PROVE  /\ record'[v].stage = "chain" => record'[v].step \in Step
               /\ record'[v].stage = "append" =>
                    /\ record'[v].node.step \in Step
                    /\ record'[v].node.ts \in Nat /\ record'[v].node.ts <= tick'
                    /\ \A i \in DOMAIN ring' : ring'[i].ts # record'[v].node.ts
    BY <1>1, <1>2, <1>8, <2>2 DEF TrailInv, WritesTimed
  <2>3. QED BY <1>9, <2>1, <2>2 DEF WritesTimed
<1>11. WritesApart'
  <2>1. ASSUME NEW u \in Writer, NEW v \in Writer, u # v, InTransaction(u)', InTransaction(v)'
        PROVE  record'[u].ts # record'[v].ts
    <3>1. CASE u = w
      BY <1>2, <1>3, <1>4, <1>7, <2>1, <3>1
    <3>2. CASE v = w
      BY <1>2, <1>3, <1>4, <1>7, <2>1, <3>2
    <3>3. CASE u # w /\ v # w
      BY <1>4, <2>1, <3>3 DEF TrailInv, WritesApart
    <3>4. QED BY <3>1, <3>2, <3>3
  <2>2. ASSUME NEW u \in Writer, NEW v \in Writer, u # v,
               record'[u].stage = "append", record'[v].stage = "append"
        PROVE  record'[u].node.ts # record'[v].node.ts
    <3>1. record'[u] = record[u] /\ record'[v] = record[v]
      BY <1>8, <1>9, <2>2
    <3>2. QED BY <2>2, <3>1 DEF TrailInv, WritesApart
  <2>3. QED BY <2>1, <2>2 DEF WritesApart
<1>12. QED BY <1>2, <1>1, <1>5, <1>6, <1>10, <1>11 DEF TrailInv

LEMMA TrailAppends ==
  ASSUME TrailInv, NEW w \in Writer, AppendNode(w)
  PROVE  TrailInv'
<1> DEFINE node   == record[w].node
           longer == Append(ring, node)
<1>1. /\ record[w].stage = "append" /\ UNCHANGED <<tick, ledger>>
      /\ ring' = IF Len(longer) > RingMax THEN Tail(longer) ELSE longer
      /\ record' = [record EXCEPT ![w] = NoRecord]
  BY DEF AppendNode
<1>2. /\ DOMAIN record' = Writer /\ record'[w].stage = "idle"
      /\ \A v \in Writer \ {w} : record'[v] = record[v]
  BY <1>1 DEF TrailInv, NoRecord
<1>3. /\ node.step \in Step /\ node.ts \in Nat /\ node.ts <= tick
      /\ \A i \in DOMAIN ring : ring[i].ts # node.ts
  BY <1>1 DEF TrailInv, WritesTimed
<1>4. PICK S : ring \in Seq(S)
  BY DEF TrailInv, RingTimed
<1> HIDE DEF node
<1> DEFINE T == S \cup {node}
<1>5. /\ longer \in Seq(T) /\ Len(longer) = Len(ring) + 1 /\ longer[Len(ring) + 1] = node
      /\ Len(ring) \in Nat /\ DOMAIN ring = 1..Len(ring) /\ DOMAIN longer = 1..(Len(ring) + 1)
      /\ \A i \in DOMAIN ring : longer[i] = ring[i]
  <2>1. ring \in Seq(T) /\ node \in T
    BY <1>4
  <2> HIDE DEF T
  <2>2. QED BY <2>1
<1>6. \A i \in DOMAIN longer : i = Len(ring) + 1 \/ i \in DOMAIN ring
  BY <1>5
<1> HIDE DEF longer
<1>7. /\ \A i \in DOMAIN longer : /\ longer[i].ts \in Nat /\ longer[i].ts <= tick
                                  /\ longer[i].step \in Step
      /\ \A i, j \in DOMAIN longer : longer[i].ts = longer[j].ts => i = j
  BY <1>3, <1>5, <1>6 DEF TrailInv, RingTimed
<1>8. \E shift \in Nat : /\ \E R : ring' \in Seq(R)
                         /\ \A i \in DOMAIN ring' : /\ i \in Nat /\ i + shift \in DOMAIN longer
                                                    /\ ring'[i] = longer[i + shift]
  <2>1. CASE Len(longer) > RingMax
    <3>1. longer # <<>> /\ ring' = Tail(longer)
      <4>1. Len(longer) # 0
        BY <1>5
      <4>2. QED BY <1>1, <2>1, <4>1
    <3>2. /\ Tail(longer) \in Seq(T) /\ Len(Tail(longer)) = Len(longer) - 1
          /\ \A i \in 1..(Len(longer) - 1) : Tail(longer)[i] = longer[i + 1]
      <4> HIDE DEF T
      <4>1. QED BY <1>5, <3>1, HeadTailProperties
    <3>3. DOMAIN ring' = 1..Len(ring)
      BY <1>5, <3>1, <3>2
    <3>4. \A i \in DOMAIN ring' : /\ i \in Nat /\ i + 1 \in DOMAIN longer
                                  /\ ring'[i] = longer[i + 1]
      BY <1>5, <3>1, <3>2, <3>3
    <3>5. QED BY <3>1, <3>2, <3>4
  <2>2. CASE ~ (Len(longer) > RingMax)
    <3>1. ring' = longer
      BY <1>1, <2>2
    <3>2. \A i \in DOMAIN ring' : /\ i \in Nat /\ i + 0 \in DOMAIN longer
                                  /\ ring'[i] = longer[i + 0]
      BY <1>5, <3>1
    <3>3. QED BY <1>5, <3>1, <3>2
  <2>3. QED BY <2>1, <2>2
<1>9. PICK shift \in Nat :
        /\ \E R : ring' \in Seq(R)
        /\ \A i \in DOMAIN ring' : /\ i \in Nat /\ i + shift \in DOMAIN longer
                                   /\ ring'[i] = longer[i + shift]
  BY <1>8
<1>10. RingTimed'
  <2>1. \A i \in DOMAIN ring' : /\ ring'[i].ts \in Nat /\ ring'[i].ts <= tick
                                /\ ring'[i].step \in Step
    BY <1>7, <1>9
  <2>2. ASSUME NEW i \in DOMAIN ring', NEW j \in DOMAIN ring', ring'[i].ts = ring'[j].ts
        PROVE  i = j
    <3>1. i + shift = j + shift
      BY <1>7, <1>9, <2>2
    <3>2. i \in Nat /\ j \in Nat
      BY <1>9
    <3>3. QED BY <3>1, <3>2
  <2>3. QED BY <1>1, <1>9, <2>1, <2>2 DEF RingTimed
<1>11. \A v \in Writer : InTransaction(v)' => v # w /\ InTransaction(v) /\ record'[v] = record[v]
  BY <1>2 DEF InTransaction
<1>12. ASSUME NEW v \in Writer \ {w}, record[v].stage = "append"
       PROVE  \A i \in DOMAIN ring' : ring'[i].ts # record[v].node.ts
  <2>1. node.ts # record[v].node.ts
    BY <1>1, <1>12 DEF TrailInv, WritesApart, node
  <2>2. \A i \in DOMAIN ring : ring[i].ts # record[v].node.ts
    BY <1>12 DEF TrailInv, WritesTimed
  <2>3. \A i \in DOMAIN longer : longer[i].ts # record[v].node.ts
    BY <1>5, <1>6, <2>1, <2>2
  <2>4. QED BY <1>9, <2>3
<1>13. WritesTimed'
  <2>1. ASSUME NEW v \in Writer, InTransaction(v)'
        PROVE  /\ {"stage", "step", "ts"} \subseteq DOMAIN record'[v]
               /\ record'[v].step \in Step \cup {Event}
               /\ record'[v].ts \in Nat /\ record'[v].ts <= tick'
               /\ \A row \in ledger' : row.ts # record'[v].ts
    BY <1>1, <1>11, <2>1 DEF TrailInv, WritesTimed
  <2>2. ASSUME NEW v \in Writer, record'[v].stage = "chain"
        PROVE  record'[v].step \in Step
    BY <1>2, <2>2 DEF TrailInv, WritesTimed
  <2>3. ASSUME NEW v \in Writer, record'[v].stage = "append"
        PROVE  /\ record'[v].node.step \in Step
               /\ record'[v].node.ts \in Nat /\ record'[v].node.ts <= tick'
               /\ \A i \in DOMAIN ring' : ring'[i].ts # record'[v].node.ts
    <3>1. v # w /\ record'[v] = record[v]
      BY <1>2, <2>3
    <3>2. QED BY <1>1, <1>12, <2>3, <3>1 DEF TrailInv, WritesTimed
  <2>4. QED BY <2>1, <2>2, <2>3 DEF WritesTimed
<1>14. WritesApart'
  BY <1>2, <1>11 DEF TrailInv, WritesApart
<1>15. RowsTimed'
  BY <1>1 DEF TrailInv, RowsTimed
<1>16. QED BY <1>1, <1>2, <1>10, <1>13, <1>14, <1>15 DEF TrailInv

LEMMA TrailStep ==
  ASSUME TrailInv, [EvidenceNext]_evidenceVars
  PROVE  TrailInv'
<1>1. tick \in Nat /\ DOMAIN record = Writer
  BY DEF TrailInv
<1>2. ASSUME NEW w \in Writer, NEW step \in Step \cup {Event}, BeginOffLedger(w, step)
      PROVE  TrailInv'
  <2>1. Goes(w)
    BY <1>1, <1>2 DEF BeginOffLedger, Goes
  <2>2. QED BY <1>1, <1>2, <2>1, TrailGoesOn DEF BeginOffLedger
<1>3. ASSUME NEW w \in Writer, SelectPrev(w)
      PROVE  TrailInv'
  <2>1. Goes(w)
    BY <1>1, <1>3 DEF SelectPrev, Goes, InTransaction
  <2>2. QED BY <1>1, <1>3, <2>1, TrailGoesOn DEF SelectPrev
<1>4. ASSUME NEW w \in Writer, CommitRecord(w)
      PROVE  TrailInv'
  <2>1. record[w].step \in Step \cup {Event}
    BY <1>4 DEF CommitRecord, TrailInv, WritesTimed, InTransaction
  <2>2. Goes(w)
    BY <1>1, <1>4, <2>1 DEF CommitRecord, MakeNode, Goes, NoRecord
  <2>3. tick' \in {tick, tick + 1}
    BY <1>4 DEF CommitRecord, MakeNode
  <2>4. DOMAIN record' = Writer /\ \A v \in Writer \ {w} : record'[v] = record[v]
    BY <1>1, <1>4 DEF CommitRecord, MakeNode
  <2>5. UNCHANGED ring /\ record[w].stage = "insert" /\ ledger' = ledger \cup {Row(record[w])}
    BY <1>4 DEF CommitRecord
  <2>6. QED BY <2>2, <2>3, <2>4, <2>5, TrailGoesOn
<1>5. ASSUME NEW w \in Writer, NEW landed \in BOOLEAN, FailRecord(w, landed)
      PROVE  TrailInv'
  <2>1. record[w].step \in Step \cup {Event}
    BY <1>5 DEF FailRecord, TrailInv, WritesTimed
  <2>2. Goes(w)
    BY <1>1, <1>5, <2>1 DEF FailRecord, Goes, NoRecord
  <2>3. DOMAIN record' = Writer /\ \A v \in Writer \ {w} : record'[v] = record[v]
    BY <1>1, <1>5 DEF FailRecord
  <2>4. UNCHANGED <<tick, ring>>
    BY <1>5 DEF FailRecord
  <2>5. \/ ledger' = ledger
        \/ record[w].stage = "insert" /\ ledger' = ledger \cup {Row(record[w])}
    BY <1>5 DEF FailRecord
  <2>6. QED BY <2>2, <2>3, <2>4, <2>5, TrailGoesOn
<1>6. ASSUME NEW w \in Writer, ChainOffRing(w)
      PROVE  TrailInv'
  <2>1. record[w].stage = "chain" /\ record[w].step \in Step
    BY <1>6 DEF ChainOffRing, TrailInv, WritesTimed
  <2>2. Goes(w)
    BY <1>1, <1>6, <2>1 DEF ChainOffRing, MakeNode, Goes
  <2>3. QED BY <1>1, <1>6, <2>2, TrailGoesOn DEF ChainOffRing, MakeNode
<1>7. CASE RestartRecorder
  <2>1. /\ ring' = <<>> /\ DOMAIN record' = Writer /\ UNCHANGED <<tick, ledger>>
        /\ \A w \in Writer : record'[w].stage = "idle"
    BY <1>7 DEF RestartRecorder, NoRecord
  <2>2. <<>> \in Seq({}) /\ DOMAIN <<>> = {}
    OBVIOUS
  <2>3. RingTimed'
    BY <2>1, <2>2 DEF RingTimed
  <2>4. WritesTimed' /\ WritesApart'
    BY <2>1 DEF WritesTimed, WritesApart, InTransaction
  <2>5. RowsTimed'
    BY <2>1 DEF TrailInv, RowsTimed
  <2>6. QED BY <1>1, <2>1, <2>3, <2>4, <2>5 DEF TrailInv
<1>8. CASE UNCHANGED evidenceVars
  BY <1>8 DEF evidenceVars, TrailInv, RowsTimed, RingTimed, WritesTimed, WritesApart, InTransaction
<1>9. QED
  BY <1>2, <1>3, <1>4, <1>5, <1>6, <1>7, <1>8, TrailBegins, TrailAppends DEF EvidenceNext

(* Whatever a reader gets, its nodes are of distinct times.                *)
LEMMA NodesAreTimed ==
  ASSUME TrailInv, NEW limit, NEW fails \in BOOLEAN
  PROVE  Timed(ReadNodes(limit, fails)) /\ Tokened(ReadNodes(limit, fails))
<1> DEFINE rows  == {NodeOfRow(r) : r \in {r \in ledger : r.step # Event}}
           nodes == ReadNodes(limit, fails)
<1>1. nodes \subseteq rows \/ nodes \subseteq ToSet(ring)
  BY DEF ReadNodes, Oldest, Newest
<1>2. tick \in Nat /\ \A step \in Step : step.tokens \in Nat
  BY TrailAssumption DEF TrailInv
<1> HIDE DEF nodes
<1>3. CASE nodes \subseteq rows
  <2>1. \A n \in nodes : \E r \in ledger : /\ r.step # Event /\ n = NodeOfRow(r)
                                           /\ n.ts = r.ts /\ n.step = r.step
    BY <1>3 DEF NodeOfRow
  <2>2. \A n \in nodes : n.ts \in Nat /\ n.ts <= tick /\ n.step \in Step
    BY <2>1 DEF TrailInv, RowsTimed
  <2>3. \A m, n \in nodes : m.ts = n.ts => m = n
    BY <2>1 DEF TrailInv, RowsTimed
  <2>4. QED BY <1>2, <2>2, <2>3 DEF Timed, Tokened, nodes
<1>4. CASE nodes \subseteq ToSet(ring)
  <2>1. \A n \in nodes : \E i \in DOMAIN ring : n = ring[i]
    BY <1>4 DEF ToSet
  <2>2. \A n \in nodes : n.ts \in Nat /\ n.ts <= tick /\ n.step \in Step
    BY <2>1 DEF TrailInv, RingTimed
  <2>3. \A m, n \in nodes : m.ts = n.ts => m = n
    BY <2>1 DEF TrailInv, RingTimed
  <2>4. QED BY <1>2, <2>2, <2>3 DEF Timed, Tokened, nodes
<1>5. QED BY <1>1, <1>3, <1>4

(* A recovering workflow gets its newest fresh step, nothing stale or      *)
(* twice, whatever else fits and no more, and resumes at a step it has     *)
(* been given, however steps rank, and however many were recorded by       *)
(* however many threads, failed or were lost (working_set, _read_nodes).   *)
THEOREM AnchorIsAlwaysSeated == EvidenceSpec => []AnchorSeated
<1>1. EvidenceInit => TrailInv
  BY TrailStart
<1>2. TrailInv /\ [EvidenceNext]_evidenceVars => TrailInv'
  BY TrailStep
<1>3. TrailInv => AnchorSeated
  <2> SUFFICES ASSUME TrailInv PROVE AnchorSeated
    OBVIOUS
  <2>1. ASSUME NEW limit \in 1..MaxRecords, NEW fails \in BOOLEAN, NEW budget \in Budget,
               NEW relevance \in SetToSeqs(Fresh(ReadNodes(limit, fails))),
               ReadNodes(limit, fails) # {}
        PROVE  LET nodes    == ReadNodes(limit, fails)
                   fresh    == Fresh(nodes)
                   selected == Selected(nodes, relevance, budget)
                   used     == TokensOf(selected)
               IN /\ ResumeStep(nodes) \in ToSet(selected) \/ ResumeStep(nodes).step.dead
                  /\ fresh # {} => NewestOf(fresh) \in ToSet(selected)
                  /\ ToSet(selected) \subseteq fresh
                  /\ \A i, j \in DOMAIN selected : selected[i] = selected[j] => i = j
                  /\ \A n \in fresh \ ToSet(selected) : used + n.step.tokens > budget
                  /\ Len(selected) <= 1 \/ used + Recalled(budget - used) <= budget
    <3>1. Timed(ReadNodes(limit, fails)) /\ Tokened(ReadNodes(limit, fails))
      BY NodesAreTimed
    <3>2. budget \in Nat
      BY TrailAssumption
    <3>3. QED BY <2>1, <3>1, <3>2, AnchorIsSeated
  <2>2. QED BY <2>1 DEF AnchorSeated
<1>4. QED BY <1>1, <1>2, <1>3, PTL DEF EvidenceSpec

(***************************************************************************)
(* Policy documents and tool tiers (modules OperatorPolicy, ToolTiers)     *)
(***************************************************************************)
Doc == {EmptyDoc} \cup {doc \in Docs : ValidPolicy(doc)}
Document == [row : Nat, doc : Doc]
Saving == {NoSave} \cup [stage : {"load"}] \cup [stage : {"install"}, found : Document]

PolicyTypeOK ==
  /\ stored \in Document /\ active \in Document
  /\ saver \in [Saver -> Saving]

AnyTier == ToolTier \cup {Unset}
Answer == {"allow", "block"}
InOpa == {"look", "queue", "classify", "keep", "policy", "load", "cache", "decide"}
Evaluating ==
  [stage : InOpa, tool : ToolName, tier : AnyTier, radar : Answer \cup {"waits"},
   stale : BOOLEAN, doc : Doc]
Evaluated == [stage : Answer, tool : ToolName, tier : AnyTier]
Done == {NoCall} \cup [stage : {"answered"}, answer : Answer]

ToolTypeOK ==
  /\ tiers \in [ToolName -> AnyTier] /\ keptTiers \in [ToolName -> AnyTier]
  /\ policyCache \in [doc : Doc, fresh : BOOLEAN]
  /\ call \in [Call -> Evaluating \cup Evaluated \cup Done]
  /\ DOMAIN usedTiers = ToolName

(* A tier that is used is the one that is cached.                          *)
UsedIsCached ==
  \A tool \in ToolName : \A tier \in usedTiers[tool] : tier = tiers[tool] /\ tier # Unset

(* Whoever asks the model, or keeps its answer, holds the lock; nobody has *)
(* cached a tier before it.                                                *)
OneClassifies ==
  \A c \in Call :
    /\ call[c].stage = "classify" => classifying = c /\ tiers[call[c].tool] = Unset
    /\ call[c].stage = "keep" =>
         classifying = c /\ tiers[call[c].tool] = call[c].tier /\ call[c].tier # Unset

TierInv == PolicyTypeOK /\ ToolTypeOK /\ UsedIsCached /\ OneClassifies

-----------------------------------------------------------------------------
LEMMA TierStart == ToolInit => TierInv
<1> SUFFICES ASSUME ToolInit PROVE TierInv
  OBVIOUS
<1>1. Absent \in Document
  BY DEF Absent, Document, Doc
<1>2. PolicyTypeOK
  BY <1>1 DEF ToolInit, PolicyInit, PolicyTypeOK, Saving
<1>3. ToolTypeOK
  BY DEF ToolInit, ToolTypeOK, NoTiers, AnyTier, Doc, Done
<1>4. UsedIsCached /\ OneClassifies
  BY DEF ToolInit, UsedIsCached, OneClassifies, NoCall
<1>5. QED BY <1>2, <1>3, <1>4 DEF TierInv

(* The documents in the table, in the cache and on their way to it.        *)
LEMMA PolicyStep ==
  ASSUME PolicyTypeOK, [ToolNext]_toolVars
  PROVE  PolicyTypeOK'
<1>1. ASSUME NEW s \in Saver, NEW doc \in Docs, StorePolicy(s, doc)
      PROVE  PolicyTypeOK'
  <2>1. doc \in Doc
    BY <1>1 DEF StorePolicy, Doc
  <2>2. stored' \in Document /\ active' = active
    BY <1>1, <2>1 DEF StorePolicy, PolicyTypeOK, Document
  <2>3. saver' \in [Saver -> Saving]
    BY <1>1 DEF StorePolicy, PolicyTypeOK, Saving
  <2>4. QED BY <2>2, <2>3 DEF PolicyTypeOK
<1>2. ASSUME NEW s \in Saver, NEW fails \in BOOLEAN, LoadPolicy(s, fails)
      PROVE  PolicyTypeOK'
  <2>1. Absent \in Document
    BY DEF Absent, Document, Doc
  <2>2. [stage |-> "install", found |-> IF fails THEN Absent ELSE stored] \in Saving
    BY <2>1 DEF PolicyTypeOK, Saving
  <2>3. QED BY <1>2, <2>2 DEF LoadPolicy, PolicyTypeOK
<1>3. ASSUME NEW s \in Saver, InstallPolicy(s)
      PROVE  PolicyTypeOK'
  <2>1. saver[s].found \in Document
    BY <1>3 DEF InstallPolicy, PolicyTypeOK, Saving, NoSave
  <2>2. QED BY <1>3, <2>1 DEF InstallPolicy, PolicyTypeOK, Saving
<1>4. ASSUME NEW fails \in BOOLEAN, RestartRadar(fails)
      PROVE  PolicyTypeOK'
  <2>1. Absent \in Document
    BY DEF Absent, Document, Doc
  <2>2. QED BY <1>4, <2>1 DEF RestartRadar, PolicyTypeOK, Saving
<1>5. CASE UNCHANGED policyVars
  BY <1>5 DEF policyVars, PolicyTypeOK
<1>6. QED
  BY <1>1, <1>2, <1>3, <1>4, <1>5
  DEF ToolNext, SaveStep, CallStep, AskTier, LookTier, TakeSlmLock, Classify, KeepTier, LoadDoc,
      ReadPolicyCache, CacheDoc, Evaluate, OverrideAnswer, GiveUpOnOpa, TtlPasses, RestartOpa,
      SetThreshold, toolVars

(* A call that is under way, or goes on to another step of it.             *)
LEMMA EvaluatingCall ==
  ASSUME ToolTypeOK, NEW c \in Call, call[c].stage \in InOpa
  PROVE  call[c] \in Evaluating
  BY DEF ToolTypeOK, Evaluated, Done, NoCall, InOpa, Answer

LEMMA ToStage ==
  ASSUME NEW e \in Evaluating, NEW stage \in InOpa
  PROVE  LET next == [e EXCEPT !.stage = stage]
         IN next \in Evaluating /\ next.stage = stage /\ next.tool = e.tool /\ next.tier = e.tier
  BY DEF Evaluating

LEMMA OverrideTypes ==
  ASSUME NEW doc, NEW tool, NEW tier \in AnyTier
  PROVE  OperatorToolOverride(doc, tool, tier).tier \in AnyTier
  BY DEF OperatorToolOverride, AnyTier

LEMMA DecisionTypes ==
  /\ \A override : Decision(override) \in Answer
  /\ \A tool, tier : \A decision \in Answer : RadarDecision(tool, tier, decision) \in Answer
  BY DEF Decision, RadarDecision, Answer

(* A step of one call that leaves the tiers alone and has not to do with   *)
(* the model.                                                              *)
LEMMA OtherStepKeeps ==
  ASSUME TierInv, NEW c \in Call, NEW next \in Evaluating \cup Evaluated \cup Done,
         Move(c, next), PolicyTypeOK', policyCache' \in [doc : Doc, fresh : BOOLEAN],
         UNCHANGED <<tiers, keptTiers, classifying>>,
         \/ UNCHANGED usedTiers
         \/ /\ call[c].tool \in ToolName /\ tiers[call[c].tool] # Unset
            /\ Used(c, tiers[call[c].tool]),
         \/ next.stage \notin {"classify", "keep"}
         \/ next.stage = call[c].stage /\ next.tool = call[c].tool /\ next.tier = call[c].tier
  PROVE  TierInv'
<1>1. /\ call \in [Call -> Evaluating \cup Evaluated \cup Done]
      /\ call' = [call EXCEPT ![c] = next]
  BY DEF TierInv, ToolTypeOK, Move
<1>2. call'[c] = next /\ \A o \in Call \ {c} : call'[o] = call[o]
  BY <1>1
<1>3. DOMAIN usedTiers = ToolName
  BY DEF TierInv, ToolTypeOK
<1>4. ToolTypeOK'
  BY <1>1, <1>3 DEF TierInv, ToolTypeOK, Used
<1>5. UsedIsCached'
  BY <1>3 DEF TierInv, UsedIsCached, Used
<1>6. OneClassifies'
  BY <1>2 DEF TierInv, OneClassifies
<1>7. QED BY <1>4, <1>5, <1>6 DEF TierInv

(* The model's answer is cached under the lock, and kept before the lock   *)
(* is let go.                                                              *)
LEMMA ModelStepKeeps ==
  ASSUME TierInv, NEW c \in Call, PolicyTypeOK',
         \/ TakeSlmLock(c)
         \/ \E tier \in ModelTier, fails \in BOOLEAN : Classify(c, tier, fails)
         \/ \E fails \in BOOLEAN : KeepTier(c, fails)
  PROVE  TierInv'
<1>1. /\ call \in [Call -> Evaluating \cup Evaluated \cup Done]
      /\ DOMAIN usedTiers = ToolName
      /\ tiers \in [ToolName -> AnyTier] /\ keptTiers \in [ToolName -> AnyTier]
      /\ policyCache \in [doc : Doc, fresh : BOOLEAN]
  BY DEF TierInv, ToolTypeOK
<1>2. /\ call[c] \in Evaluating
      /\ call[c].tool \in ToolName /\ call[c].tier \in AnyTier
  <2>1. call[c].stage \in InOpa
    BY DEF TakeSlmLock, Classify, KeepTier, At, InOpa
  <2>2. call[c] \in Evaluating
    BY <2>1, EvaluatingCall DEF TierInv
  <2>3. QED BY <2>2 DEF Evaluating
<1>3. ASSUME TakeSlmLock(c), tiers[call[c].tool] # Unset
      PROVE  TierInv'
  <2> DEFINE next == WithTier(c, tiers[call[c].tool])
  <2>1. next \in Evaluating /\ next.stage = "policy"
    BY <1>1, <1>2 DEF WithTier, InOpa, Evaluating
  <2>2. Move(c, next) /\ Used(c, tiers[call[c].tool])
    BY <1>3 DEF TakeSlmLock
  <2>3. UNCHANGED <<tiers, keptTiers, classifying, policyCache>>
    BY <1>3 DEF TakeSlmLock
  <2> HIDE DEF next
  <2>4. QED BY <1>1, <1>2, <1>3, <2>1, <2>2, <2>3, OtherStepKeeps
<1>4. ASSUME TakeSlmLock(c), tiers[call[c].tool] = Unset
      PROVE  TierInv'
  <2> DEFINE next == [call[c] EXCEPT !.stage = "classify"]
  <2>1. next \in Evaluating /\ next.stage = "classify" /\ next.tool = call[c].tool
    BY <1>2, ToStage DEF InOpa
  <2>2. /\ Move(c, next) /\ classifying = Nobody /\ classifying' = c
        /\ UNCHANGED <<usedTiers, tiers, keptTiers, policyCache>>
    BY <1>4 DEF TakeSlmLock
  <2> HIDE DEF next
  <2>3. call'[c] = next /\ \A o \in Call \ {c} : call'[o] = call[o]
    BY <1>1, <2>2 DEF Move
  <2>4. ToolTypeOK'
    BY <1>1, <2>1, <2>2 DEF ToolTypeOK, Move
  <2>5. \A o \in Call : call[o].stage \notin {"classify", "keep"}
    BY <2>2, TierAssumption DEF TierInv, OneClassifies
  <2>6. OneClassifies'
    BY <1>4, <2>1, <2>2, <2>3, <2>5 DEF OneClassifies
  <2>7. UsedIsCached'
    BY <2>2 DEF TierInv, UsedIsCached
  <2>8. QED BY <2>4, <2>6, <2>7 DEF TierInv
<1>5. ASSUME NEW tier \in ModelTier, NEW fails \in BOOLEAN, Classify(c, tier, fails)
      PROVE  TierInv'
  <2> DEFINE next == [call[c] EXCEPT !.stage = "keep", !.tier = tier]
  <2>1. tier \in AnyTier /\ tier # Unset
    BY TierAssumption DEF AnyTier, ToolTier, AgentTier, Unset
  <2>2. /\ next \in Evaluating /\ next.stage = "keep"
        /\ next.tool = call[c].tool /\ next.tier = tier
    BY <1>2, <2>1 DEF InOpa, Evaluating
  <2>3. /\ Move(c, next) /\ tiers' = [tiers EXCEPT ![call[c].tool] = tier]
        /\ UNCHANGED <<keptTiers, classifying, policyCache, usedTiers>>
    BY <1>5 DEF Classify
  <2> HIDE DEF next
  <2>4. call'[c] = next /\ \A o \in Call \ {c} : call'[o] = call[o]
    BY <1>1, <2>3 DEF Move
  <2>5. classifying = c /\ tiers[call[c].tool] = Unset
    BY <1>5 DEF Classify, At, TierInv, OneClassifies
  <2>6. ToolTypeOK'
    BY <1>1, <2>1, <2>2, <2>3 DEF ToolTypeOK, Move
  <2>7. OneClassifies'
    BY <1>1, <1>2, <2>1, <2>2, <2>3, <2>4, <2>5 DEF TierInv, OneClassifies
  <2>8. UsedIsCached'
    BY <1>1, <1>2, <2>3, <2>5 DEF TierInv, UsedIsCached
  <2>9. QED BY <2>6, <2>7, <2>8 DEF TierInv
<1>6. ASSUME NEW fails \in BOOLEAN, KeepTier(c, fails)
      PROVE  TierInv'
  <2> DEFINE next == WithTier(c, call[c].tier)
  <2>1. next \in Evaluating /\ next.stage = "policy"
    BY <1>2 DEF WithTier, InOpa, Evaluating
  <2>2. /\ Move(c, next) /\ Used(c, call[c].tier) /\ UNCHANGED <<tiers, policyCache>>
        /\ keptTiers' = IF fails THEN keptTiers
                        ELSE [keptTiers EXCEPT ![call[c].tool] = call[c].tier]
    BY <1>6 DEF KeepTier
  <2> HIDE DEF next
  <2>3. call'[c] = next /\ \A o \in Call \ {c} : call'[o] = call[o]
    BY <1>1, <2>2 DEF Move
  <2>4. /\ classifying = c /\ tiers[call[c].tool] = call[c].tier /\ call[c].tier # Unset
    BY <1>6 DEF KeepTier, At, TierInv, OneClassifies
  <2>5. ToolTypeOK'
    BY <1>1, <1>2, <2>1, <2>2 DEF ToolTypeOK, Move, Used
  <2>6. OneClassifies'
    BY <2>1, <2>3, <2>4 DEF TierInv, OneClassifies
  <2>7. UsedIsCached'
    BY <1>1, <2>2, <2>4 DEF TierInv, UsedIsCached, Used
  <2>8. QED BY <2>5, <2>6, <2>7 DEF TierInv
<1>7. QED BY <1>3, <1>4, <1>5, <1>6

LEMMA TierStep == TierInv /\ [ToolNext]_toolVars => TierInv'
<1> SUFFICES ASSUME TierInv, [ToolNext]_toolVars PROVE TierInv'
  OBVIOUS
<1>1. PolicyTypeOK'
  BY PolicyStep DEF TierInv
<1>2. /\ call \in [Call -> Evaluating \cup Evaluated \cup Done]
      /\ DOMAIN usedTiers = ToolName
      /\ tiers \in [ToolName -> AnyTier] /\ keptTiers \in [ToolName -> AnyTier]
      /\ policyCache \in [doc : Doc, fresh : BOOLEAN]
  BY DEF TierInv, ToolTypeOK
<1>3. CASE KeepOpa
  BY <1>1, <1>3
  DEF KeepOpa, opaVars, TierInv, ToolTypeOK, UsedIsCached, OneClassifies
<1>4. ASSUME NEW c \in Call, NEW tool \in ToolName, AskTier(c, tool)
      PROVE  TierInv'
  <2> DEFINE next == [stage |-> "look", tool |-> tool, tier |-> Unset, radar |-> "waits",
                      stale |-> FALSE, doc |-> EmptyDoc]
  <2>1. next \in Evaluating /\ next.stage = "look"
    BY DEF Evaluating, InOpa, AnyTier, Doc
  <2>2. Move(c, next) /\ UNCHANGED <<opaVars, usedTiers>>
    BY <1>4 DEF AskTier
  <2> HIDE DEF next
  <2>3. QED BY <1>1, <1>2, <2>1, <2>2, OtherStepKeeps DEF opaVars
<1>5. ASSUME NEW c \in Call, LookTier(c)
      PROVE  TierInv'
  <2>1. /\ call[c] \in Evaluating /\ call[c].tool \in ToolName
    <3>1. call[c] \in Evaluating
      BY <1>5, EvaluatingCall DEF TierInv, LookTier, At, InOpa
    <3>2. QED BY <3>1 DEF Evaluating
  <2>2. CASE tiers[call[c].tool] # Unset
    <3> DEFINE next == WithTier(c, tiers[call[c].tool])
    <3>1. next \in Evaluating /\ next.stage = "policy"
      BY <1>2, <2>1 DEF WithTier, InOpa, Evaluating
    <3>2. Move(c, next) /\ Used(c, tiers[call[c].tool]) /\ UNCHANGED opaVars
      BY <1>5, <2>2 DEF LookTier
    <3> HIDE DEF next
    <3>3. QED BY <1>1, <1>2, <2>1, <2>2, <3>1, <3>2, OtherStepKeeps DEF opaVars
  <2>3. CASE tiers[call[c].tool] = Unset
    <3> DEFINE next == [call[c] EXCEPT !.stage = "queue"]
    <3>1. next \in Evaluating /\ next.stage = "queue"
      BY <2>1, ToStage DEF InOpa
    <3>2. Move(c, next) /\ UNCHANGED <<opaVars, usedTiers>>
      BY <1>5, <2>3 DEF LookTier
    <3> HIDE DEF next
    <3>3. QED BY <1>1, <1>2, <3>1, <3>2, OtherStepKeeps DEF opaVars
  <2>4. QED BY <2>2, <2>3
<1>6. ASSUME NEW c \in Call,
             \/ TakeSlmLock(c)
             \/ \E tier \in ModelTier, fails \in BOOLEAN : Classify(c, tier, fails)
             \/ \E fails \in BOOLEAN : KeepTier(c, fails)
      PROVE  TierInv'
  BY <1>1, <1>6, ModelStepKeeps
<1>7. ASSUME NEW c \in Call, ReadPolicyCache(c)
      PROVE  TierInv'
  <2>1. call[c] \in Evaluating
    BY <1>7, EvaluatingCall DEF TierInv, ReadPolicyCache, At, InOpa
  <2> DEFINE next == IF policyCache.fresh
                       THEN [call[c] EXCEPT !.stage = "decide", !.doc = policyCache.doc]
                       ELSE [call[c] EXCEPT !.stage = "load"]
  <2>2. next \in Evaluating /\ next.stage \notin {"classify", "keep"}
    BY <1>2, <2>1 DEF Evaluating, InOpa
  <2>3. Move(c, next) /\ UNCHANGED <<opaVars, usedTiers>>
    BY <1>7 DEF ReadPolicyCache
  <2> HIDE DEF next
  <2>4. QED BY <1>1, <1>2, <2>2, <2>3, OtherStepKeeps DEF opaVars
<1>8. ASSUME NEW c \in Call, NEW fails \in BOOLEAN, LoadDoc(c, fails)
      PROVE  TierInv'
  <2>1. call[c] \in Evaluating
    BY <1>8, EvaluatingCall DEF TierInv, LoadDoc, At, InOpa
  <2> DEFINE next == [call[c] EXCEPT !.stage = "cache",
                                     !.doc = IF fails THEN EmptyDoc ELSE stored.doc]
  <2>2. stored.doc \in Doc /\ EmptyDoc \in Doc
    BY DEF TierInv, PolicyTypeOK, Document, Doc
  <2>3. next \in Evaluating /\ next.stage \notin {"classify", "keep"}
    BY <2>1, <2>2 DEF Evaluating, InOpa
  <2>4. Move(c, next) /\ UNCHANGED <<opaVars, usedTiers>>
    BY <1>8 DEF LoadDoc
  <2> HIDE DEF next
  <2>5. QED BY <1>1, <1>2, <2>3, <2>4, OtherStepKeeps DEF opaVars
<1>9. ASSUME NEW c \in Call, CacheDoc(c)
      PROVE  TierInv'
  <2>1. call[c] \in Evaluating
    BY <1>9, EvaluatingCall DEF TierInv, CacheDoc, At, InOpa
  <2> DEFINE next == [call[c] EXCEPT !.stage = "decide", !.stale = FALSE]
  <2>2. next \in Evaluating /\ next.stage \notin {"classify", "keep"}
    BY <2>1 DEF Evaluating, InOpa
  <2>3. /\ Move(c, next) /\ UNCHANGED <<tiers, keptTiers, classifying, usedTiers>>
        /\ policyCache' = [doc |-> call[c].doc, fresh |-> ~call[c].stale]
    BY <1>9 DEF CacheDoc
  <2>4. policyCache' \in [doc : Doc, fresh : BOOLEAN]
    BY <2>1, <2>3 DEF Evaluating
  <2> HIDE DEF next
  <2>5. QED BY <1>1, <2>2, <2>3, <2>4, OtherStepKeeps
<1>10. ASSUME NEW c \in Call, Evaluate(c)
       PROVE  TierInv'
  <2>1. call[c] \in Evaluating
    BY <1>10, EvaluatingCall DEF TierInv, Evaluate, At, InOpa
  <2>2. /\ call[c].tool \in ToolName /\ call[c].tier \in AnyTier
        /\ call[c].radar \in Answer \cup {"waits"}
    BY <2>1 DEF Evaluating
  <2> DEFINE override == OperatorToolOverride(call[c].doc, call[c].tool, call[c].tier)
             verdict  == [stage |-> Decision(override), tool |-> call[c].tool,
                          tier |-> override.tier]
             next     == IF call[c].radar = "waits" THEN verdict ELSE Answered(call[c].radar)
  <2>3. verdict \in Evaluated /\ verdict.stage \in Answer
    BY <2>2, OverrideTypes, DecisionTypes DEF Evaluated
  <2>4. next \in Evaluated \cup Done /\ next.stage \notin {"classify", "keep"}
    BY <2>2, <2>3 DEF Done, Answered, Answer
  <2>5. Move(c, next) /\ UNCHANGED <<opaVars, usedTiers>>
    BY <1>10 DEF Evaluate
  <2> HIDE DEF next
  <2>6. QED BY <1>1, <1>2, <2>4, <2>5, OtherStepKeeps DEF opaVars
<1>11. ASSUME NEW c \in Call, OverrideAnswer(c)
       PROVE  TierInv'
  <2> DEFINE next == Answered(RadarDecision(call[c].tool, call[c].tier, call[c].stage))
  <2>1. next \in Done /\ next.stage \notin {"classify", "keep"}
    BY <1>11, DecisionTypes DEF OverrideAnswer, Answer, Answered, Done
  <2>2. Move(c, next) /\ UNCHANGED <<opaVars, usedTiers>>
    BY <1>11 DEF OverrideAnswer
  <2> HIDE DEF next
  <2>3. QED BY <1>1, <1>2, <2>1, <2>2, OtherStepKeeps DEF opaVars
<1>12. ASSUME NEW c \in Call, GiveUpOnOpa(c)
       PROVE  TierInv'
  <2> DEFINE answer == RadarDecision(call[c].tool, Unset, IF FailOpen THEN "allow" ELSE "block")
             heard  == [call[c] EXCEPT !.radar = answer]
  <2>1. answer \in Answer
    BY DecisionTypes DEF Answer
  <2>2. UNCHANGED <<opaVars, usedTiers>> /\ (Move(c, heard) \/ Move(c, Answered(answer)))
    BY <1>12 DEF GiveUpOnOpa
  <2>3. call[c] \in Evaluating
    <3>1. call[c].stage \notin {"idle", "answered", "allow", "block"}
      BY <1>12 DEF GiveUpOnOpa
    <3>2. call[c] \in Evaluating \cup Evaluated \cup Done
      BY <1>2
    <3>3. QED BY <3>1, <3>2 DEF Evaluated, Done, NoCall, Answer
  <2> HIDE DEF answer
  <2>4. /\ heard \in Evaluating /\ heard.stage = call[c].stage
        /\ heard.tool = call[c].tool /\ heard.tier = call[c].tier
    BY <2>1, <2>3 DEF Evaluating
  <2> HIDE DEF heard
  <2>5. CASE Move(c, heard)
    BY <1>1, <1>2, <2>2, <2>4, <2>5, OtherStepKeeps DEF opaVars
  <2>6. CASE Move(c, Answered(answer))
    <3>1. Answered(answer) \in Done /\ Answered(answer).stage = "answered"
      BY <2>1 DEF Answered, Done
    <3>2. QED BY <1>1, <1>2, <2>2, <2>6, <3>1, OtherStepKeeps DEF opaVars
  <2>7. QED BY <2>2, <2>5, <2>6
<1>13. CASE TtlPasses
  <2>1. \A c \in Call :
          /\ call'[c] \in Evaluating \cup Evaluated \cup Done
          /\ call'[c].stage = call[c].stage
          /\ call[c].stage \in {"classify", "keep"} => call'[c] = call[c]
    <3> SUFFICES ASSUME NEW c \in Call
                 PROVE  /\ call'[c] \in Evaluating \cup Evaluated \cup Done
                        /\ call'[c].stage = call[c].stage
                        /\ call[c].stage \in {"classify", "keep"} => call'[c] = call[c]
      OBVIOUS
    <3>1. CASE call[c].stage \in {"load", "cache"}
      <4>1. call[c] \in Evaluating
        BY <3>1, EvaluatingCall DEF TierInv, InOpa
      <4>2. call'[c] = [call[c] EXCEPT !.stale = TRUE]
        BY <1>13, <3>1 DEF TtlPasses
      <4>3. QED BY <3>1, <4>1, <4>2 DEF Evaluating
    <3>2. CASE call[c].stage \notin {"load", "cache"}
      BY <1>2, <1>13, <3>2 DEF TtlPasses
    <3>3. QED BY <3>1, <3>2
  <2>2. /\ DOMAIN call' = Call /\ call' = [c \in Call |-> call'[c]]
        /\ policyCache' = [policyCache EXCEPT !.fresh = FALSE]
        /\ UNCHANGED <<tiers, keptTiers, classifying, usedTiers>>
    BY <1>13 DEF TtlPasses
  <2>3. ToolTypeOK'
    BY <1>2, <2>1, <2>2 DEF ToolTypeOK
  <2>4. UsedIsCached' /\ OneClassifies'
    BY <2>1, <2>2 DEF TierInv, UsedIsCached, OneClassifies
  <2>5. QED BY <1>1, <2>3, <2>4 DEF TierInv
<1>14. CASE RestartOpa
  <2>1. ToolTypeOK'
    BY <1>2, <1>14 DEF RestartOpa, ToolTypeOK, Done, Doc
  <2>2. UsedIsCached' /\ OneClassifies'
    BY <1>14 DEF RestartOpa, UsedIsCached, OneClassifies, NoCall
  <2>3. QED BY <1>1, <2>1, <2>2 DEF TierInv
<1>15. ASSUME NEW tier \in SliderTier, SetThreshold(tier)
       PROVE  TierInv'
  BY <1>1, <1>15 DEF SetThreshold, TierInv, ToolTypeOK, UsedIsCached, OneClassifies
<1>16. CASE UNCHANGED toolVars
  BY <1>1, <1>16 DEF toolVars, opaVars, TierInv, ToolTypeOK, UsedIsCached, OneClassifies
<1>17. QED
  BY <1>3, <1>4, <1>5, <1>6, <1>7, <1>8, <1>9, <1>10, <1>11, <1>12, <1>13, <1>14, <1>15, <1>16
  DEF ToolNext, SaveStep, CallStep

(* Every tier a tool has been used with is the one in the cache.           *)
LEMMA UsedOnce == TierInv => TierDecidedOnce
<1> SUFFICES ASSUME TierInv, NEW tool \in ToolName
             PROVE  Cardinality(usedTiers[tool]) <= 1
  BY DEF TierDecidedOnce
<1>1. usedTiers[tool] \subseteq {tiers[tool]}
  BY DEF TierInv, UsedIsCached
<1>2. IsFiniteSet({tiers[tool]}) /\ Cardinality({tiers[tool]}) = 1
  BY FS_Singleton
<1>3. QED BY <1>1, <1>2, FS_Subset, FS_CardinalityType

(* For any number of calls, tools and model failures: calls that arrive    *)
(* while nobody has asked about a tool are all answered from one tier,     *)
(* because the first of them holds _slm_lock until the tier is cached, and *)
(* the others look at the cache again once they hold it (tier_for).        *)
THEOREM TierIsDecidedOnce == ToolSpec => []TierDecidedOnce
<1>1. ToolSpec => []TierInv
  BY TierStart, TierStep, PTL DEF ToolSpec
<1>2. QED BY <1>1, UsedOnce, PTL

-----------------------------------------------------------------------------
(* The risk the policy judges an agent by is never below the one it would  *)
(* judge it by without its skills.                                         *)
LEMMA SkillsRaiseRisk ==
  ASSUME NEW doc, NEW agent \in Agents, NEW skills
  PROVE  /\ AuthoritativeRisk(doc, agent, skills) \in AgentTier
         /\ AuthoritativeRisk(doc, agent, {}) \in AgentTier
         /\ Rank[AuthoritativeRisk(doc, agent, {})] <= Rank[AuthoritativeRisk(doc, agent, skills)]
<1> DEFINE override == AgentRiskOverride(doc, agent)
           base     == IF override # Unset THEN override ELSE agent.risk
           worst    == AgentSkillRisk(doc, agent, skills)
<1>1. base \in AgentTier
  BY AgentRiskAssumption DEF AgentRiskOverride
<1>2. \A tier \in AgentTier : Rank[tier] \in Nat
  BY DEF AgentTier, Rank
<1>3. AgentSkillRisk(doc, agent, {}) = Unset
  BY DEF AgentSkillRisk, SkillRules
<1>4. /\ AuthoritativeRisk(doc, agent, skills) = MoreRestrictive(base, worst)
      /\ AuthoritativeRisk(doc, agent, {}) = MoreRestrictive(base, Unset)
  BY <1>3 DEF AuthoritativeRisk
<1> HIDE DEF base, worst
<1>5. MoreRestrictive(base, Unset) = base
  BY <1>1 DEF MoreRestrictive, AgentTier, Unset
<1>6. MoreRestrictive(base, worst) \in AgentTier /\ Rank[base] <= Rank[MoreRestrictive(base, worst)]
  BY <1>1, <1>2 DEF MoreRestrictive
<1>7. QED BY <1>1, <1>4, <1>5, <1>6

(* Skills change the word on an agent to "no", or not at all.              *)
LEMMA SkillsOnlyDeny ==
  ASSUME NEW doc, NEW agent \in Agents, NEW t, NEW skills
  PROVE  \/ AgentRecognised(doc, agent, t, skills) = "no"
         \/ AgentRecognised(doc, agent, t, skills) = AgentRecognised(doc, agent, t, {})
<1> DEFINE risk(known) == AuthoritativeRisk(doc, agent, known)
<1>1. CASE ~Enabled(doc)
  BY <1>1 DEF AgentRecognised
<1>2. CASE Enabled(doc) /\ Named(doc.agents, {agent.id, agent.name})
  <2>1. /\ AgentExplicit(doc, agent, skills) = AgentExplicit(doc, agent, {})
        /\ AgentSkillRisk(doc, agent, skills) = AgentSkillRisk(doc, agent, {})
    BY <1>2 DEF AgentExplicit, AgentSkillRisk
  <2>2. QED BY <2>1 DEF AgentRecognised, AuthoritativeRisk
<1>3. CASE Enabled(doc) /\ ~Named(doc.agents, {agent.id, agent.name})
  <2>1. /\ AgentExplicit(doc, agent, skills) \in {"no", Unset}
        /\ AgentExplicit(doc, agent, {}) = Unset
    BY <1>3 DEF AgentExplicit, SkillRules
  <2>2. risk(skills) \in ToolTier /\ risk({}) \in ToolTier /\ Rank[risk({})] <= Rank[risk(skills)]
    BY SkillsRaiseRisk DEF ToolTier
  <2>3. \A tier \in ToolTier : Rank[tier] \in Nat
    BY DEF ToolTier, AgentTier, Rank
  <2>4. CASE AgentExplicit(doc, agent, skills) = "no"
    BY <1>3, <2>4 DEF AgentRecognised, Unset
  <2>5. CASE AgentExplicit(doc, agent, skills) = Unset
    BY <1>3, <2>1, <2>2, <2>3, <2>5 DEF AgentRecognised
  <2>6. QED BY <2>1, <2>4, <2>5
<1>4. QED BY <1>1, <1>2, <1>3

(* For any documents, agents and skills: the skills it declares make no    *)
(* agent recognised and open no gate, since a skill's rule is only looked  *)
(* at where the operator has not named the agent, and can only deny or     *)
(* raise its risk (agent_explicit, authoritative_risk).                    *)
THEOREM SkillsTighten == ToolSpec => SkillsOnlyTighten
<1> DEFINE Recognised(agent, t, known) == AgentRecognised(active'.doc, agent, t, known)
           Gate(agent, t, known, tool) ==
             OperatorPolicyGate(active'.doc, "allow", agent, t, known, tool)
<1>1. \A agent \in Agents, skills \in SUBSET Skill, t \in ToolTier \cup {Unset} :
        /\ Recognised(agent, t, skills) = "yes" => Recognised(agent, t, {}) = "yes"
        /\ \A tool \in ToolName :
             Gate(agent, t, skills, tool) = "allow" => Gate(agent, t, {}, tool) = "allow"
  <2> SUFFICES ASSUME NEW agent \in Agents, NEW skills \in SUBSET Skill,
                      NEW t \in ToolTier \cup {Unset}
               PROVE  /\ Recognised(agent, t, skills) = "yes" => Recognised(agent, t, {}) = "yes"
                      /\ \A tool \in ToolName :
                           Gate(agent, t, skills, tool) = "allow" =>
                             Gate(agent, t, {}, tool) = "allow"
    OBVIOUS
  <2>1. Recognised(agent, t, skills) \in {"no", Recognised(agent, t, {})}
    BY SkillsOnlyDeny
  <2>2. QED BY <2>1 DEF OperatorPolicyGate
<1>2. QED BY <1>1, PTL DEF SkillsOnlyTighten

(***************************************************************************)
(* The tool server (module ToolServer)                                     *)
(***************************************************************************)
(* The risks a server may tell an agent, or an agent put on its writes.    *)
Told == Risk \cup UNION {{map[name] : name \in DOMAIN map} : map \in RiskMaps}

Asked == {"asked", "ready", "sent", "gate", "run"}
CallRecord ==
  [stage : Asked, id : Nat, tool : ServerTool, risk : Told \cup {"unset"}, bound : BOOLEAN,
   governed : BOOLEAN, approved : BOOLEAN, scopes : SUBSET ServerTool]

ServerTypeOK ==
  /\ agentKit \in AgentKits
  /\ riskMap \in RiskMaps
  /\ DOMAIN specs \subseteq ServerTool
  /\ \A name \in DOMAIN specs : specs[name] \in Told
  /\ scopes \subseteq ServerTool
  /\ toolCalls \in Nat
  /\ pending = NoRequest \/ pending \in CallRecord
  /\ running = NoRequest \/ running \in CallRecord
  /\ inbox \in Seq(CallRecord)

(* Its writes are an agent's scopes once it has been mounted.              *)
WritesAreScopes ==
  agentPhase = "up" => \A name \in DOMAIN specs : IsWriteRisk(specs[name]) => name \in scopes

(* How a call of kit k must have been classified before it may run.        *)
InScope(r) == IsWriteRisk(r.risk) /\ r.bound => r.tool \in r.scopes
Cleared(k, r) ==
  /\ IsWriteRisk(r.risk) /\ PausesFor(k, r.risk) => r.approved
  /\ InScope(r)
  /\ r.approved => IsWriteRisk(r.risk)

(* The agent's call, on its way from the question to the server.           *)
Classified(k, r) ==
  /\ r.governed /\ r.risk # "unset"
  /\ r.stage = "asked" => PausesFor(k, r.risk) /\ InScope(r)
  /\ r.stage # "asked" => Cleared(k, r)

(* What the server has of it.                                              *)
Served(k, r) == r.governed => r.risk # "unset" /\ Cleared(k, r)

CallsClassified ==
  /\ pending # NoRequest => Classified(agentKit, pending)
  /\ \A i \in DOMAIN inbox : Served(agentKit, inbox[i])
  /\ running # NoRequest => Served(agentKit, running)

ServerInv ==
  ServerTypeOK /\ WritesAreScopes /\ CallsClassified /\ RunsAsClassified

(* A kit asks an operator about nothing it does not take for a write:      *)
(* call_tool asks by the tiers of AWCP_WRITE_RISK_TIERS, or at "high".     *)
AsksAboutWrites == \A k \in AgentKits : CallsOf[k].risks \subseteq WriteTiers

-----------------------------------------------------------------------------
LEMMA ToldAsRisk == "unset" \notin Told
<1>1. "unset" \notin Risk
  BY DEF Risk
<1>2. QED BY <1>1, ServerAssumption DEF Told

(* The tools a kit calls of itself.                                        *)
LEMMA OwnWrites ==
  ASSUME NEW k \in AgentKits, NEW name \in DOMAIN Writes(k)
  PROVE  name \in ServerTool /\ Writes(k)[name] \in Told
<1>1. k \in Kit
  BY ServerAssumption
<1>2. Writes(k) = [save_artifact |-> "medium", external_post |-> "high"]
  BY <1>1 DEF Kit, Writes, WritesOf, ArxivWrites, LanggraphWrites, PydanticaiWrites,
              CrewaiWrites, WriteupWrites, FileinspectorWrites
<1>3. name \in {"save_artifact", "external_post"}
  BY <1>2
<1>4. Writes(k)[name] \in Risk
  <2>1. CASE name = "save_artifact"
    BY <1>2, <2>1 DEF Risk
  <2>2. CASE name = "external_post"
    BY <1>2, <2>2 DEF Risk
  <2>3. QED BY <1>3, <2>1, <2>2
<1>5. QED BY <1>3, <1>4 DEF ServerTool, Declared, Told

LEMMA RiskOfTool ==
  ASSUME ServerTypeOK, NEW name \in ServerTool
  PROVE  ToolRisk(name) \in Told
<1>1. name \in {"web_search", "save_artifact", "external_post"}
  BY DEF ServerTool, Declared
<1>2. Declared[name] \in Risk
  BY <1>1 DEF Declared, Risk
<1>3. name \in DOMAIN riskMap => riskMap[name] \in Told
  BY DEF ServerTypeOK, Told
<1>4. QED BY <1>2, <1>3 DEF ToolRisk, Told

(* A request that moves to another stage is classified as before.          *)
LEMMA StageOnly ==
  ASSUME NEW r \in CallRecord, NEW stage, NEW k
  PROVE  LET moved == [r EXCEPT !.stage = stage]
         IN /\ stage \in Asked => moved \in CallRecord
            /\ moved.stage = stage /\ moved.risk = r.risk /\ moved.governed = r.governed
            /\ Cleared(k, moved) <=> Cleared(k, r)
<1> DEFINE moved == [r EXCEPT !.stage = stage]
<1>1. /\ moved.stage = stage /\ moved.risk = r.risk /\ moved.governed = r.governed
      /\ moved.bound = r.bound /\ moved.tool = r.tool /\ moved.scopes = r.scopes
      /\ moved.approved = r.approved
  BY DEF CallRecord
<1>2. stage \in Asked => moved \in CallRecord
  BY DEF CallRecord
<1> HIDE DEF moved
<1>3. Cleared(k, moved) <=> Cleared(k, r)
  BY <1>1 DEF Cleared, InScope
<1>4. QED BY <1>1, <1>2, <1>3 DEF moved

(* Nobody is asked about a read; what an operator has approved is cleared. *)
LEMMA ApprovedCleared ==
  ASSUME AsksAboutWrites, NEW k \in AgentKits, NEW r \in CallRecord,
         PausesFor(k, r.risk), InScope(r)
  PROVE  LET granted == [r EXCEPT !.stage = "ready", !.approved = TRUE]
         IN granted \in CallRecord /\ granted.stage = "ready"
            /\ granted.risk = r.risk /\ granted.governed = r.governed
            /\ Cleared(k, granted)
<1> DEFINE granted == [r EXCEPT !.stage = "ready", !.approved = TRUE]
<1>1. /\ granted.stage = "ready" /\ granted.risk = r.risk /\ granted.governed = r.governed
      /\ granted.bound = r.bound /\ granted.tool = r.tool /\ granted.scopes = r.scopes
      /\ granted.approved = TRUE
  BY DEF CallRecord
<1>2. granted \in CallRecord
  BY DEF CallRecord, Asked
<1> HIDE DEF granted
<1>3. IsWriteRisk(r.risk)
  BY DEF AsksAboutWrites, PausesFor, IsWriteRisk
<1>4. Cleared(k, granted)
  BY <1>1, <1>3 DEF Cleared, InScope
<1>5. QED BY <1>1, <1>2, <1>4 DEF granted

LEMMA ServerStart == ServerInit => ServerInv
<1> SUFFICES ASSUME ServerInit PROVE ServerInv
  OBVIOUS
<1>1. DOMAIN specs = {} /\ inbox = <<>> /\ pending = NoRequest /\ running = NoRequest
  BY DEF ServerInit, NoSpecs
<1>2. ServerTypeOK
  BY <1>1 DEF ServerInit, ServerTypeOK
<1>3. CallsClassified
  BY <1>1 DEF CallsClassified
<1>4. QED BY <1>1, <1>2, <1>3 DEF ServerInit, ServerInv, WritesAreScopes, RunsAsClassified

(* A call of the agent, as it begins.                                      *)
LEMMA CallBegins ==
  ASSUME ServerInv, NEW name \in ServerTool, NEW risk \in Told, NEW bound \in BOOLEAN,
         BeginCall(name, risk, bound), IsWriteRisk(risk) /\ bound => name \in scopes
  PROVE  ServerInv'
<1> DEFINE r == [stage |-> IF PausesFor(agentKit, risk) THEN "asked" ELSE "ready",
                 id |-> toolCalls + 1, tool |-> name, risk |-> risk, bound |-> bound,
                 governed |-> TRUE, approved |-> FALSE, scopes |-> scopes]
<1>1. pending' = r
      /\ UNCHANGED <<agentKit, agentPhase, specs, scopes, serverSide>> /\ toolCalls' = toolCalls + 1
  BY DEF BeginCall
<1>2. r \in CallRecord
  BY DEF ServerInv, ServerTypeOK, CallRecord, Asked
<1>3. /\ r.stage = IF PausesFor(agentKit, risk) THEN "asked" ELSE "ready"
      /\ r.tool = name /\ r.risk = risk /\ r.bound = bound /\ r.governed = TRUE
      /\ r.approved = FALSE /\ r.scopes = scopes
  OBVIOUS
<1> HIDE DEF r
<1>4. InScope(r)
  BY <1>3 DEF InScope
<1>5. Classified(agentKit, r)
  BY <1>3, <1>4, ToldAsRisk DEF Classified, Cleared
<1>6. ServerTypeOK'
  BY <1>1, <1>2 DEF ServerInv, ServerTypeOK, serverSide
<1>7. QED
  BY <1>1, <1>5, <1>6
  DEF ServerInv, WritesAreScopes, CallsClassified, RunsAsClassified, serverSide, IsWriteRisk

(* A request that joins the queue.                                         *)
LEMMA AppendKeeps ==
  ASSUME ServerTypeOK, CallsClassified, NEW r \in CallRecord, Served(agentKit, r),
         inbox' = Append(inbox, r)
  PROVE  inbox' \in Seq(CallRecord) /\ \A i \in DOMAIN inbox' : Served(agentKit, inbox'[i])
<1>1. inbox \in Seq(CallRecord)
  BY DEF ServerTypeOK
<1>2. inbox' \in Seq(CallRecord)
  BY <1>1
<1>3. ASSUME NEW i \in DOMAIN inbox'
      PROVE  Served(agentKit, inbox'[i])
  <2>1. i \in 1..Len(inbox) + 1
    BY <1>1
  <2>2. CASE i = Len(inbox) + 1
    BY <1>1, <2>2
  <2>3. CASE i # Len(inbox) + 1
    BY <1>1, <2>1, <2>3 DEF CallsClassified
  <2>4. QED BY <2>2, <2>3
<1>4. QED BY <1>2, <1>3

LEMMA Beyond ==
  ASSUME NEW m \in Nat, NEW n \in Nat, NEW j \in 1..m + n, ~(j <= m)
  PROVE  j - m \in 1..n
  OBVIOUS

(* A request that leaves it, taken or dropped.                             *)
LEMMA LeavingKeeps ==
  ASSUME ServerTypeOK, CallsClassified, NEW i \in DOMAIN inbox,
         inbox' = SubSeq(inbox, 1, i - 1) \o SubSeq(inbox, i + 1, Len(inbox))
  PROVE  inbox' \in Seq(CallRecord) /\ \A j \in DOMAIN inbox' : Served(agentKit, inbox'[j])
<1>1. inbox \in Seq(CallRecord) /\ i \in 1..Len(inbox) /\ Len(inbox) \in Nat
  BY DEF ServerTypeOK
<1> DEFINE a == SubSeq(inbox, 1, i - 1)
           b == SubSeq(inbox, i + 1, Len(inbox))
<1>2. /\ a \in Seq(CallRecord) /\ Len(a) = i - 1
      /\ \A j \in 1..Len(a) : a[j] = inbox[j]
  BY <1>1
<1>3. /\ b \in Seq(CallRecord) /\ Len(b) = Len(inbox) - i
      /\ \A j \in 1..Len(b) : b[j] = inbox[i + j]
  BY <1>1, SMTT(40)
<1> HIDE DEF a, b
<1>4. inbox' = a \o b
  BY DEF a, b
<1>5. /\ inbox' \in Seq(CallRecord) /\ Len(inbox') = Len(a) + Len(b)
      /\ \A j \in 1..Len(a) + Len(b) : inbox'[j] = IF j <= Len(a) THEN a[j] ELSE b[j - Len(a)]
  <2>1. /\ a \o b \in Seq(CallRecord) /\ Len(a \o b) = Len(a) + Len(b)
        /\ \A j \in 1..Len(a) + Len(b) :
             (a \o b)[j] = IF j <= Len(a) THEN a[j] ELSE b[j - Len(a)]
    BY <1>2, <1>3, ConcatProperties
  <2>2. QED BY <1>4, <2>1, Zenon
<1>8. /\ Len(a) \in Nat /\ Len(b) \in Nat /\ Len(a) = i - 1 /\ Len(b) = Len(inbox) - i
      /\ i \in Nat
  BY <1>1, <1>2, <1>3
<1>6. ASSUME NEW j \in DOMAIN inbox'
      PROVE  Served(agentKit, inbox'[j])
  <2>1. j \in 1..Len(a) + Len(b)
    BY <1>5
  <2>2. CASE j <= Len(a)
    <3>1. j \in 1..Len(a) /\ inbox'[j] = a[j]
      BY <1>2, <1>3, <1>5, <2>1, <2>2, SMTT(40)
    <3>2. inbox'[j] = inbox[j] /\ j \in DOMAIN inbox
      BY <1>1, <1>2, <3>1
    <3>3. QED BY <3>2 DEF CallsClassified
  <2>3. CASE ~(j <= Len(a))
    <3>6. j - Len(a) \in 1..Len(b)
      BY <1>8, <2>1, <2>3, Beyond
    <3>1. PICK m \in 1..Len(b) : m = j - Len(a)
      BY <3>6
    <3>2. inbox'[j] = b[m]
      BY <1>5, <2>1, <2>3, <3>1
    <3>3. inbox'[j] = inbox[i + m]
      BY <1>3, <3>2
    <3>4. i + m \in DOMAIN inbox
      BY <1>1, <1>8, <3>1
    <3>5. QED BY <3>3, <3>4 DEF CallsClassified
  <2>4. QED BY <2>2, <2>3
<1>7. QED BY <1>5, <1>6

(* The outcome of a call that is being served.                             *)
LEMMA CheckpointKeeps ==
  ASSUME ServerInv, NEW outcome, running # NoRequest, Checkpoint(outcome)
  PROVE  ServerInv'
<1>1. running \in CallRecord /\ Served(agentKit, running)
  BY DEF ServerInv, ServerTypeOK, CallsClassified
<1> DEFINE node == [running EXCEPT !.stage = outcome]
<1>2. running.governed => Cleared(agentKit, node)
  BY <1>1, StageOnly DEF Served
<1>3. trail' = IF running.governed THEN trail \cup {node} ELSE trail
  BY DEF Checkpoint
<1> HIDE DEF node
<1>4. \A n \in trail' : n.stage # "blocked" => Cleared(agentKit, n)
  BY <1>2, <1>3 DEF ServerInv, RunsAsClassified, Cleared, InScope
<1>5. /\ UNCHANGED <<agentKit, agentPhase, specs, scopes, riskMap, inbox, toolCalls>>
      /\ running' = NoRequest /\ (pending' = pending \/ pending' = NoRequest)
  BY DEF Checkpoint, AnswerCall
<1>6. ServerTypeOK' /\ WritesAreScopes'
  BY <1>5 DEF ServerInv, ServerTypeOK, WritesAreScopes, IsWriteRisk
<1>7. CallsClassified'
  BY <1>5 DEF ServerInv, CallsClassified
<1>8. RunsAsClassified'
  BY <1>4, <1>5 DEF RunsAsClassified, Cleared, InScope, IsWriteRisk
<1>9. QED BY <1>6, <1>7, <1>8 DEF ServerInv

LEMMA ServerStep ==
  ASSUME AsksAboutWrites, ServerInv, [ServerNext]_serverVars
  PROVE  ServerInv'
<1> USE DEF ServerInv
<1>1. ASSUME NEW heard \in BOOLEAN, DiscoverTools(heard)
      PROVE  ServerInv'
  <2>1. DOMAIN specs' \subseteq ServerTool /\ \A name \in DOMAIN specs' : specs'[name] \in Told
    BY <1>1, RiskOfTool DEF DiscoverTools, Catalog, NoSpecs
  <2>2. ServerTypeOK'
    BY <1>1, <2>1 DEF DiscoverTools, ServerTypeOK, serverSide
  <2>3. QED
    BY <1>1, <2>2
    DEF DiscoverTools, serverSide, WritesAreScopes, CallsClassified, RunsAsClassified
<1>2. CASE MountAgent
  <2>1. scopes' \subseteq ServerTool
    BY <1>2 DEF MountAgent, DeclaredWriteScopes, ServerTypeOK
  <2>2. WritesAreScopes'
    BY <1>2 DEF MountAgent, DeclaredWriteScopes, WritesAreScopes, IsWriteRisk
  <2>3. ServerTypeOK'
    BY <1>2, <2>1 DEF MountAgent, ServerTypeOK, serverSide
  <2>4. QED
    BY <1>2, <2>2, <2>3 DEF MountAgent, serverSide, CallsClassified, RunsAsClassified
<1>3. CASE StopAgent
  <2>1. ServerTypeOK'
    BY <1>3 DEF StopAgent, ServerTypeOK, serverSide, NoSpecs
  <2>2. QED
    BY <1>3, <2>1
    DEF StopAgent, serverSide, WritesAreScopes, CallsClassified, RunsAsClassified
<1>4. ASSUME NEW name \in DOMAIN specs, CallBoundTool(name)
      PROVE  ServerInv'
  <2>1. name \in ServerTool /\ specs[name] \in Told
    BY <1>4 DEF ServerTypeOK
  <2>2. IsWriteRisk(specs[name]) => name \in scopes
    BY <1>4 DEF CallBoundTool, BeginCall, WritesAreScopes
  <2>3. QED BY <1>4, <2>1, <2>2, CallBegins DEF CallBoundTool
<1>5. ASSUME NEW name \in DOMAIN Writes(agentKit), CallOwnWrite(name)
      PROVE  ServerInv'
  <2>1. name \in ServerTool /\ Writes(agentKit)[name] \in Told
    BY <1>5, OwnWrites DEF ServerTypeOK
  <2>2. QED BY <1>5, <2>1, CallBegins DEF CallOwnWrite
<1>6. ASSUME NEW approves \in BOOLEAN, OperatorAnswers(approves)
      PROVE  ServerInv'
  <2>1. /\ pending.stage = "asked"
        /\ UNCHANGED <<agentKit, agentPhase, specs, scopes, serverSide, toolCalls>>
    BY <1>6 DEF OperatorAnswers
  <2>2. pending # NoRequest
    BY <2>1 DEF NoRequest
  <2>3. /\ pending \in CallRecord /\ agentKit \in AgentKits /\ pending.governed
        /\ pending.risk # "unset" /\ PausesFor(agentKit, pending.risk) /\ InScope(pending)
    BY <2>1, <2>2 DEF ServerTypeOK, CallsClassified, Classified
  <2>4. pending' = NoRequest \/ (pending' \in CallRecord /\ Classified(agentKit, pending'))
    BY <1>6, <2>3, ApprovedCleared DEF OperatorAnswers, Classified
  <2>5. ServerTypeOK'
    BY <2>1, <2>4 DEF ServerTypeOK, serverSide
  <2>6. CallsClassified'
    BY <2>1, <2>4 DEF CallsClassified, serverSide
  <2>7. QED BY <2>1, <2>5, <2>6 DEF WritesAreScopes, RunsAsClassified, serverSide, IsWriteRisk
<1>7. CASE SendCall
  <2>1. /\ pending.stage = "ready"
        /\ UNCHANGED <<agentKit, agentPhase, specs, scopes, riskMap, running, trail, toolCalls>>
    BY <1>7 DEF SendCall
  <2>2. pending # NoRequest
    BY <2>1 DEF NoRequest
  <2>3. /\ pending \in CallRecord /\ pending.governed
        /\ pending.risk # "unset" /\ Cleared(agentKit, pending)
    BY <2>1, <2>2 DEF ServerTypeOK, CallsClassified, Classified
  <2>4. CASE serverUp
    <3> DEFINE r == [pending EXCEPT !.stage = "sent"]
    <3>1. /\ r \in CallRecord /\ r.stage = "sent" /\ r.governed /\ r.risk # "unset"
          /\ Cleared(agentKit, r)
      BY <2>3, StageOnly DEF Asked
    <3>2. inbox' = Append(inbox, r) /\ pending' = r
      BY <1>7, <2>4 DEF SendCall
    <3> HIDE DEF r
    <3>3. inbox' \in Seq(CallRecord) /\ \A i \in DOMAIN inbox' : Served(agentKit, inbox'[i])
      BY <3>1, <3>2, AppendKeeps DEF Served
    <3>4. ServerTypeOK'
      BY <2>1, <3>1, <3>2, <3>3 DEF ServerTypeOK
    <3>5. CallsClassified'
      BY <2>1, <3>1, <3>2, <3>3 DEF CallsClassified, Classified
    <3>6. QED BY <2>1, <3>4, <3>5 DEF WritesAreScopes, RunsAsClassified, IsWriteRisk
  <2>5. CASE ~serverUp
    <3>1. inbox' = inbox /\ pending' = NoRequest
      BY <1>7, <2>5 DEF SendCall
    <3>2. ServerTypeOK' /\ CallsClassified'
      BY <2>1, <3>1 DEF ServerTypeOK, CallsClassified
    <3>3. QED BY <2>1, <3>2 DEF WritesAreScopes, RunsAsClassified, IsWriteRisk
  <2>6. QED BY <2>4, <2>5
<1>8. ASSUME NEW dropped \in BOOLEAN, GiveUpOnServer(dropped)
      PROVE  ServerInv'
  <2>1. /\ pending' = NoRequest
        /\ UNCHANGED <<agentKit, agentPhase, specs, scopes, riskMap, running, trail, toolCalls>>
    BY <1>8 DEF GiveUpOnServer
  <2>2. inbox' \in Seq(CallRecord) /\ \A i \in DOMAIN inbox' : Served(agentKit, inbox'[i])
    BY <1>8, LeavingKeeps DEF GiveUpOnServer, ServerTypeOK, CallsClassified
  <2>3. ServerTypeOK' /\ CallsClassified'
    BY <2>1, <2>2 DEF ServerTypeOK, CallsClassified
  <2>4. QED BY <2>1, <2>3 DEF WritesAreScopes, RunsAsClassified, IsWriteRisk
<1>9. ASSUME NEW name \in ServerTool, DirectCall(name)
      PROVE  ServerInv'
  <2> DEFINE r == [stage |-> "sent", id |-> toolCalls + 1, tool |-> name,
                   risk |-> "unset", bound |-> FALSE, governed |-> FALSE,
                   approved |-> FALSE, scopes |-> {}]
  <2>1. r \in CallRecord /\ r.governed = FALSE
    BY DEF CallRecord, Asked, ServerTypeOK
  <2>2. /\ inbox' = Append(inbox, r) /\ toolCalls' = toolCalls + 1
        /\ UNCHANGED <<agentSide, riskMap, running, trail>>
    BY <1>9 DEF DirectCall
  <2> HIDE DEF r
  <2>3. inbox' \in Seq(CallRecord) /\ \A i \in DOMAIN inbox' : Served(agentKit, inbox'[i])
    BY <2>1, <2>2, AppendKeeps DEF Served
  <2>4. ServerTypeOK' /\ CallsClassified'
    BY <2>2, <2>3 DEF ServerTypeOK, CallsClassified, agentSide
  <2>5. QED BY <2>2, <2>4 DEF WritesAreScopes, RunsAsClassified, IsWriteRisk, agentSide
<1>10. CASE TakeRequest
  <2> DEFINE r == Head(inbox)
  <2>1. r \in CallRecord /\ Served(agentKit, r) /\ EffectiveRisk(r) \in Told \cup {"unset"}
    <3>1. 1 \in DOMAIN inbox /\ r = inbox[1]
      BY <1>10 DEF TakeRequest, ServerTypeOK
    <3>2. r \in CallRecord /\ Served(agentKit, r)
      BY <3>1 DEF ServerTypeOK, CallsClassified
    <3>3. QED BY <3>2, RiskOfTool DEF EffectiveRisk, CallRecord
  <2>2. /\ running' = [r EXCEPT !.stage = "gate", !.risk = EffectiveRisk(r)]
        /\ inbox' = Tail(inbox)
        /\ UNCHANGED <<agentSide, riskMap, trail, toolCalls>>
    BY <1>10 DEF TakeRequest
  <2>3. inbox' \in Seq(CallRecord) /\ \A i \in DOMAIN inbox' : Served(agentKit, inbox'[i])
    <3>1. inbox \in Seq(CallRecord) /\ inbox # <<>>
      BY <1>10 DEF TakeRequest, ServerTypeOK
    <3>2. inbox' \in Seq(CallRecord) /\ Len(inbox') = Len(inbox) - 1
      BY <2>2, <3>1
    <3>3. ASSUME NEW i \in DOMAIN inbox'
          PROVE  Served(agentKit, inbox'[i])
      <4>1. inbox'[i] = inbox[i + 1] /\ i + 1 \in DOMAIN inbox
        BY <2>2, <3>1, <3>2
      <4>2. QED BY <4>1 DEF CallsClassified
    <3>4. QED BY <3>2, <3>3
  <2>4. running' \in CallRecord /\ Served(agentKit, running')
    <3> HIDE DEF r
    <3>1. /\ running' \in CallRecord
          /\ running'.risk = EffectiveRisk(r) /\ running'.governed = r.governed
          /\ running'.bound = r.bound /\ running'.tool = r.tool /\ running'.scopes = r.scopes
          /\ running'.approved = r.approved
      BY <2>1, <2>2 DEF CallRecord, Asked
    <3>2. r.governed => running'.risk = r.risk
      BY <2>1, <3>1 DEF Served, EffectiveRisk
    <3>3. QED BY <2>1, <3>1, <3>2 DEF Served, Cleared, InScope
  <2>5. ServerTypeOK' /\ CallsClassified'
    BY <2>2, <2>3, <2>4 DEF ServerTypeOK, CallsClassified, agentSide
  <2>6. QED BY <2>2, <2>5 DEF WritesAreScopes, RunsAsClassified, IsWriteRisk, agentSide
<1>11. ASSUME NEW answer, RadarGate(answer)
       PROVE  ServerInv'
  <2>1. running # NoRequest
    BY <1>11 DEF RadarGate, NoRequest
  <2>2. CASE Passes(answer)
    <3>1. /\ running' = [running EXCEPT !.stage = "run"]
          /\ UNCHANGED <<agentSide, riskMap, inbox, trail, toolCalls>>
      BY <1>11, <2>2 DEF RadarGate
    <3>2. running' \in CallRecord /\ Served(agentKit, running')
      BY <2>1, <3>1, StageOnly DEF ServerTypeOK, CallsClassified, Served, Asked
    <3>3. ServerTypeOK' /\ CallsClassified'
      BY <3>1, <3>2 DEF ServerTypeOK, CallsClassified, agentSide
    <3>4. QED BY <3>1, <3>3 DEF WritesAreScopes, RunsAsClassified, IsWriteRisk, agentSide
  <2>3. CASE ~Passes(answer)
    BY <1>11, <2>1, <2>3, CheckpointKeeps DEF RadarGate
  <2>4. QED BY <2>2, <2>3
<1>12. ASSUME NEW outcome, RunTool(outcome)
       PROVE  ServerInv'
  BY <1>12, CheckpointKeeps DEF RunTool, NoRequest
<1>13. CASE StopServer
  <2>1. inbox' = <<>> /\ running' = NoRequest /\ UNCHANGED <<agentSide, riskMap, trail, toolCalls>>
    BY <1>13 DEF StopServer
  <2>2. ServerTypeOK' /\ CallsClassified'
    BY <2>1 DEF ServerTypeOK, CallsClassified, agentSide
  <2>3. QED BY <2>1, <2>2 DEF WritesAreScopes, RunsAsClassified, IsWriteRisk, agentSide
<1>14. ASSUME NEW map \in RiskMaps, DeployServer(map)
       PROVE  ServerInv'
  BY <1>14
  DEF DeployServer, ServerTypeOK, CallsClassified, WritesAreScopes, RunsAsClassified,
      IsWriteRisk, agentSide
<1>15. CASE UNCHANGED serverVars
  BY <1>15
  DEF serverVars, serverSide, agentSide, ServerTypeOK, CallsClassified, WritesAreScopes,
      RunsAsClassified, IsWriteRisk
<1>16. QED
  BY <1>1, <1>2, <1>3, <1>4, <1>5, <1>6, <1>7, <1>8, <1>9, <1>10, <1>11, <1>12, <1>13, <1>14,
     <1>15
  DEF ServerNext

(* For any kits, risk maps, deployments and calls: what ran as a write had *)
(* been asked about, by the risk the agent was told, and was in its scope, *)
(* and nobody was asked about a read (call_tool, execute_tool).            *)
THEOREM CallsRunAsClassified ==
  ASSUME AsksAboutWrites
  PROVE  ServerSpec => []RunsAsClassified
<1>1. ServerInv /\ [ServerNext]_serverVars => ServerInv'
  BY ServerStep
<1>2. ServerInv => RunsAsClassified
  BY DEF ServerInv
<1>3. QED BY ServerStart, <1>1, <1>2, PTL DEF ServerSpec

(***************************************************************************)
(* How an agent is started and found (module Launcher)                     *)
(***************************************************************************)
LaunchTypeOK ==
  /\ process \in [Pid -> {"none", "booting", "listening", "gone"}]
  /\ DOMAIN submit = Submitter /\ DOMAIN holder = Submitter /\ DOMAIN tracked = Submitter

(* The port is one process's, and processes begin in the order of their    *)
(* numbers.                                                                *)
OneListens == \A p, q \in Listening : p = q
InOrder == \A p \in Begun, q \in Pid : q < p => q \in Begun

LaunchInv == LaunchTypeOK /\ OneListens /\ InOrder

LEMMA LaunchStart == LauncherInit => LaunchInv
  BY DEF LauncherInit, LaunchInv, LaunchTypeOK, OneListens, InOrder, Listening, Begun

(* A step that leaves the processes alone.                                 *)
LEMMA ProcessesKept ==
  ASSUME LaunchInv, UNCHANGED process,
         DOMAIN submit' = DOMAIN submit, DOMAIN holder' = DOMAIN holder,
         DOMAIN tracked' = DOMAIN tracked
  PROVE  LaunchInv'
  BY DEF LaunchInv, LaunchTypeOK, OneListens, InOrder, Listening, Begun

(* A process that ends, alone or with others.                              *)
LEMMA ProcessesEnd ==
  ASSUME LaunchInv, UNCHANGED <<submit, holder, tracked>>,
         process' \in [Pid -> {"none", "booting", "listening", "gone"}],
         \A p \in Pid : process'[p] = process[p] \/ (p \in Begun /\ process'[p] = "gone")
  PROVE  LaunchInv'
<1>1. Listening' \subseteq Listening
  BY DEF Listening
<1>2. Begun' = Begun
  BY DEF Begun
<1>3. QED BY <1>1, <1>2 DEF LaunchInv, LaunchTypeOK, OneListens, InOrder

(* The process that begins is newer than any other.                        *)
LEMMA NewestBegins ==
  ASSUME LaunchInv, NEW p \in Pid \ Begun, \A q \in Pid : q < p => q \in Begun,
         process' = [process EXCEPT ![p] = "booting"]
  PROVE  /\ Begun' = Begun \cup {p} /\ Listening' = Listening /\ Pids' = Pids \cup {p}
         /\ \A q \in Begun : q < p
<1>1. process \in [Pid -> {"none", "booting", "listening", "gone"}] /\ process[p] = "none"
  BY DEF LaunchInv, LaunchTypeOK, Begun
<1>2. Begun' = Begun \cup {p} /\ Listening' = Listening /\ Pids' = Pids \cup {p}
  BY <1>1 DEF Begun, Listening, Pids
<1>3. \A q \in Begun : q < p
  <2>1. TAKE q \in Begun
  <2>2. q \in Pid /\ p \in Nat /\ q \in Nat /\ q # p
    BY PidAssumption DEF Begun, Pid
  <2>3. ~(p < q)
    BY <2>1, <2>2 DEF LaunchInv, InOrder
  <2>4. QED BY <2>2, <2>3
<1>4. QED BY <1>2, <1>3

LEMMA LaunchStep ==
  ASSUME LaunchInv, [LauncherNext]_launchVars
  PROVE  LaunchInv'
<1>1. CASE BeginProcess
  <2>1. PICK p \in Pid \ Begun :
          /\ \A q \in Pid : q < p => q \in Begun
          /\ process' = [process EXCEPT ![p] = "booting"]
    BY <1>1 DEF BeginProcess
  <2>2. Begun' = Begun \cup {p} /\ Listening' = Listening
    BY <2>1, NewestBegins
  <2>3. LaunchTypeOK'
    BY <1>1, <2>1 DEF BeginProcess, LaunchInv, LaunchTypeOK
  <2>4. InOrder'
    BY <2>1, <2>2 DEF LaunchInv, InOrder
  <2>5. QED BY <2>2, <2>3, <2>4 DEF LaunchInv, OneListens
<1>2. ASSUME NEW p \in Pid, BindPort(p)
      PROVE  LaunchInv'
  <2>1. CASE Listening = {}
    <3>1. process' = [process EXCEPT ![p] = "listening"] /\ process[p] = "booting"
      BY <1>2, <2>1 DEF BindPort
    <3>2. Listening' = {p} /\ Begun' = Begun
      BY <2>1, <3>1 DEF Listening, Begun, LaunchInv, LaunchTypeOK
    <3>3. LaunchTypeOK'
      BY <1>2, <3>1 DEF BindPort, LaunchInv, LaunchTypeOK
    <3>4. QED BY <3>2, <3>3 DEF LaunchInv, OneListens, InOrder
  <2>2. CASE Listening # {}
    <3>1. process' = [process EXCEPT ![p] = "gone"] /\ process[p] = "booting"
      BY <1>2, <2>2 DEF BindPort
    <3>2. QED BY <1>2, <3>1, ProcessesEnd DEF BindPort, LaunchInv, LaunchTypeOK, Begun
  <2>3. QED BY <2>1, <2>2
<1>3. ASSUME NEW p \in Pid, EndProcess(p)
      PROVE  LaunchInv'
  BY <1>3, ProcessesEnd DEF EndProcess, Pids, LaunchInv, LaunchTypeOK, Begun
<1>4. CASE PanelStops
  BY <1>4, ProcessesEnd DEF PanelStops, Pids, LaunchInv, LaunchTypeOK, Begun
<1>5. ASSUME NEW s \in Submitter,
             \/ LookForAgent(s) \/ StartAgent(s) \/ RefuseStart(s)
             \/ AgentComesUp(s) \/ AgentStaysAway(s) \/ NobodyThere(s)
             \/ \E heard \in BOOLEAN : FetchInfo(s, heard) \/ PostTask(s, heard)
      PROVE  LaunchInv'
  BY <1>5, ProcessesKept
  DEF LookForAgent, StartAgent, RefuseStart, AgentComesUp, AgentStaysAway, NobodyThere,
      FetchInfo, PostTask, Moves
<1>6. CASE AbortShell \/ PanelLooks \/ PanelStarts \/ UNCHANGED launchVars
  BY <1>6, ProcessesKept DEF AbortShell, PanelLooks, PanelStarts, launchVars
<1>7. QED BY <1>1, <1>2, <1>3, <1>4, <1>5, <1>6 DEF LauncherNext

(* A question that is done stays as it is.                                 *)
LEMMA DoneStays ==
  ASSUME LaunchInv, [LauncherNext]_launchVars, NEW s \in Submitter, submit[s] = "done"
  PROVE  submit'[s] = "done" /\ holder'[s] = holder[s]
<1>1. ASSUME NEW o \in Submitter,
             \/ LookForAgent(o) \/ StartAgent(o) \/ RefuseStart(o)
             \/ AgentComesUp(o) \/ AgentStaysAway(o) \/ NobodyThere(o)
             \/ \E heard \in BOOLEAN : FetchInfo(o, heard) \/ PostTask(o, heard)
      PROVE  submit'[s] = "done" /\ holder'[s] = holder[s]
  <2>1. submit[o] # "done" /\ DOMAIN submit = Submitter /\ DOMAIN holder = Submitter
    BY <1>1
    DEF LookForAgent, StartAgent, RefuseStart, AgentComesUp, AgentStaysAway, NobodyThere,
        FetchInfo, PostTask, Moves, LaunchInv, LaunchTypeOK
  <2>2. s # o
    BY <2>1
  <2>3. \E there : submit' = [submit EXCEPT ![o] = there]
    BY <1>1
    DEF LookForAgent, StartAgent, RefuseStart, AgentComesUp, AgentStaysAway, NobodyThere,
        FetchInfo, PostTask, Moves
  <2>4. holder' = holder \/ \E p : holder' = [holder EXCEPT ![o] = p]
    BY <1>1
    DEF LookForAgent, StartAgent, RefuseStart, AgentComesUp, AgentStaysAway, NobodyThere,
        FetchInfo, PostTask
  <2>5. QED BY <2>1, <2>2, <2>3, <2>4
<1>2. CASE UNCHANGED <<submit, holder>>
  BY <1>2
<1>3. QED
  BY <1>1, <1>2
  DEF LauncherNext, launchVars, BeginProcess, AbortShell, BindPort, EndProcess,
      PanelLooks, PanelStarts, PanelStops

(* A question that is done was taken by a process.                         *)
Taken == \A s \in Submitter : submit[s] = "done" => holder[s] \in Pid

LEMMA TakenStep ==
  ASSUME LaunchInv, Taken, [LauncherNext]_launchVars
  PROVE  Taken'
<1>1. SUFFICES ASSUME NEW s \in Submitter, submit'[s] = "done", submit[s] # "done"
               PROVE  holder'[s] \in Pid
  BY DoneStays DEF Taken
<1>2. DOMAIN submit = Submitter /\ DOMAIN holder = Submitter
  BY DEF LaunchInv, LaunchTypeOK
<1>3. ASSUME NEW o \in Submitter, NEW heard \in BOOLEAN, PostTask(o, heard)
      PROVE  holder'[s] \in Pid
  <2>1. PICK p \in Listening : holder' = [holder EXCEPT ![o] = p]
    BY <1>3 DEF PostTask
  <2>2. s = o
    BY <1>1, <1>2, <1>3 DEF PostTask, Moves
  <2>3. QED BY <1>2, <2>1, <2>2 DEF Listening
<1>4. ASSUME NEW o \in Submitter,
             \/ LookForAgent(o) \/ StartAgent(o) \/ RefuseStart(o)
             \/ AgentComesUp(o) \/ AgentStaysAway(o) \/ NobodyThere(o)
             \/ \E heard \in BOOLEAN : FetchInfo(o, heard)
      PROVE  FALSE
  <2>1. \E there : submit' = [submit EXCEPT ![o] = there] /\ there # "done"
    BY <1>4
    DEF LookForAgent, StartAgent, RefuseStart, AgentComesUp, AgentStaysAway, NobodyThere,
        FetchInfo, Moves
  <2>2. QED BY <1>1, <1>2, <2>1
<1>5. submit' # submit
  BY <1>1
<1>6. QED
  BY <1>3, <1>4, <1>5
  DEF LauncherNext, launchVars, BeginProcess, AbortShell, BindPort, EndProcess,
      PanelLooks, PanelStarts, PanelStops

(* The process that serves a found task is the oldest that lives, and no   *)
(* step but its own end changes that.                                      *)
LEMMA OldestStays ==
  ASSUME LaunchInv, [LauncherNext]_launchVars, NEW h \in Listening,
         \A q \in Pids : h <= q, process'[h] # "gone"
  PROVE  h \in Listening' /\ \A q \in Pids' : h <= q
<1>1. /\ process \in [Pid -> {"none", "booting", "listening", "gone"}]
      /\ h \in Pid /\ process[h] = "listening" /\ h \in Nat
  BY PidAssumption DEF Listening, LaunchInv, LaunchTypeOK, Pid
<1>2. ASSUME \A p \in Pid : process'[p] = process[p] \/ process'[p] = "gone"
      PROVE  h \in Listening' /\ \A q \in Pids' : h <= q
  <2>1. Pids' \subseteq Pids
    BY <1>2 DEF Pids
  <2>2. h \in Listening'
    BY <1>1, <1>2 DEF Listening
  <2>3. QED BY <2>1, <2>2
<1>3. CASE BeginProcess
  <2>1. PICK p \in Pid \ Begun :
          /\ \A q \in Pid : q < p => q \in Begun
          /\ process' = [process EXCEPT ![p] = "booting"]
    BY <1>3 DEF BeginProcess
  <2>2. Listening' = Listening /\ Pids' = Pids \cup {p} /\ \A q \in Begun : q < p
    BY <2>1, NewestBegins
  <2>3. h \in Begun /\ p \in Nat
    BY <1>1, PidAssumption DEF Begun, Pid
  <2>4. h <= p
    BY <1>1, <2>2, <2>3
  <2>5. QED BY <2>2, <2>4
<1>4. ASSUME NEW p \in Pid, BindPort(p)
      PROVE  \A q \in Pid : process'[q] = process[q] \/ process'[q] = "gone"
  BY <1>1, <1>4 DEF BindPort
<1>5. ASSUME NEW p \in Pid, EndProcess(p)
      PROVE  \A q \in Pid : process'[q] = process[q] \/ process'[q] = "gone"
  BY <1>1, <1>5 DEF EndProcess
<1>6. CASE PanelStops
  BY <1>1, <1>2, <1>6 DEF PanelStops
<1>7. CASE UNCHANGED process
  BY <1>2, <1>7
<1>8. QED
  BY <1>2, <1>3, <1>4, <1>5, <1>6, <1>7
  DEF LauncherNext, launchVars, AbortShell, LookForAgent, StartAgent, RefuseStart,
      AgentComesUp, AgentStaysAway, FetchInfo, PostTask, NobodyThere, PanelLooks, PanelStarts

LEMMA FoundStep ==
  ASSUME LaunchInv, Taken, [LauncherNext]_launchVars, NEW s \in Submitter, TaskFound(s),
         process'[holder[s]] # "gone"
  PROVE  TaskFound(s)'
<1>1. PICK p \in Listening : \A q \in Pids : p <= q
  BY DEF TaskFound, HasPort
<1>2. holder[s] \in Listening
  BY DEF TaskFound, Taken, Listening
<1>3. p = holder[s]
  BY <1>2 DEF LaunchInv, OneListens
<1>4. p \in Listening' /\ \A q \in Pids' : p <= q
  BY <1>1, <1>3, OldestStays
<1>5. submit'[s] = "done" /\ holder'[s] = p
  BY <1>3, DoneStays DEF TaskFound
<1>6. HasPort' /\ process'[p] = "listening"
  BY <1>4 DEF HasPort, Listening
<1>7. QED BY <1>5, <1>6 DEF TaskFound

(* For any number of questions and starts, by either program: a record     *)
(* that is shown goes on being shown while the process that took the task  *)
(* lives.                                                                  *)
THEOREM RecordsStay == LauncherSpec => FoundStaysFound
<1>1. LauncherInit => LaunchInv /\ Taken
  BY LaunchStart DEF LauncherInit, Taken
<1>2. LaunchInv /\ Taken /\ [LauncherNext]_launchVars => LaunchInv' /\ Taken'
  BY LaunchStep, TakenStep
<1>3. LaunchInv /\ Taken /\ [LauncherNext]_launchVars =>
        \A s \in Submitter :
          StatusShows(s) = "record" /\ process'[holder[s]] # "gone"
            => StatusShows(s)' = "record"
  <2>1. SUFFICES ASSUME LaunchInv, Taken, [LauncherNext]_launchVars, NEW s \in Submitter,
                        StatusShows(s) = "record", process'[holder[s]] # "gone"
                 PROVE  StatusShows(s)' = "record"
    OBVIOUS
  <2>2. TaskFound(s)
    BY <2>1 DEF StatusShows
  <2>3. TaskFound(s)'
    BY <2>1, <2>2, FoundStep
  <2>4. QED BY <2>3 DEF StatusShows
<1>4. QED BY <1>1, <1>2, <1>3, PTL DEF LauncherSpec, FoundStaysFound

(***************************************************************************)
(* The hooks of a gate (module GuardHooks)                                 *)
(***************************************************************************)
HooksOf(list) == {list[n] : n \in DOMAIN list}
GuardsOf(list) == {h \in HooksOf(list) : h.id # NoHook}
AnyHook == {h \in [id : Nat, deny : SUBSET GuardedTool] : h.id = NoHook => h.deny = {}}
Ahead(places, n) == {m \in places : m < n}

(* In a finite set of places every number of earlier ones occurs, once.    *)
LEMMA EveryPlace ==
  ASSUME NEW places, places \subseteq Nat, IsFiniteSet(places)
  PROVE  /\ Cardinality(places) \in Nat
         /\ \A n \in places : Cardinality(Ahead(places, n)) \in 0..Cardinality(places) - 1
         /\ \A m, n \in places : Cardinality(Ahead(places, m)) = Cardinality(Ahead(places, n)) => m = n
         /\ \A i \in 1..Cardinality(places) :
              \E n \in places : Cardinality(Ahead(places, n)) = i - 1
<1> DEFINE rank == [n \in places |-> Cardinality(Ahead(places, n))]
           ranks == 0..Cardinality(places) - 1
<1>1. Cardinality(places) \in Nat
  BY FS_CardinalityType
<1>2. \A n \in places : IsFiniteSet(Ahead(places, n)) /\ Cardinality(Ahead(places, n)) \in Nat
  <2> TAKE n \in places
  <2>1. Ahead(places, n) \subseteq places
    BY DEF Ahead
  <2>2. QED BY <2>1, FS_Subset, FS_CardinalityType
<1>3. \A n \in places : rank[n] \in ranks
  <2> TAKE n \in places
  <2>1. Ahead(places, n) \in SUBSET places /\ Ahead(places, n) # places
    BY DEF Ahead
  <2>2. Cardinality(Ahead(places, n)) <= Cardinality(places)
        /\ Cardinality(Ahead(places, n)) # Cardinality(places)
    BY <2>1, FS_Subset
  <2>3. QED BY <1>1, <1>2, <2>2
<1>4. ASSUME NEW m \in places, NEW n \in places, m < n
      PROVE  rank[m] # rank[n]
  <2>1. Ahead(places, m) \in SUBSET Ahead(places, n) /\ m \in Ahead(places, n) /\ m \notin Ahead(places, m)
    <3>1. m \in Nat /\ n \in Nat
      OBVIOUS
    <3>2. \A p \in places : p < m => p < n
      BY <1>4, <3>1
    <3>3. m < n /\ ~(m < m)
      BY <1>4, <3>1
    <3>4. QED BY <3>2, <3>3 DEF Ahead
  <2>2. Ahead(places, m) # Ahead(places, n)
    BY <2>1
  <2>3. QED BY <1>2, <2>1, <2>2, FS_Subset
<1>5. \A m, n \in places : rank[m] = rank[n] => m = n
  BY <1>4
<1>6. rank \in Injection(places, ranks)
  BY <1>3, <1>5 DEF Injection, IsInjective
<1>7. IsFiniteSet(ranks) /\ Cardinality(ranks) = Cardinality(places)
  <2>1. Cardinality(places) - 1 \in Int /\ 0 \in Int
    BY <1>1
  <2>2. IsFiniteSet(ranks)
        /\ Cardinality(ranks) = IF 0 > Cardinality(places) - 1 THEN 0 ELSE Cardinality(places) - 1 - 0 + 1
    BY <2>1, FS_Interval
  <2>3. QED BY <1>1, <2>2
<1>8. \A i \in 1..Cardinality(places) : \E n \in places : rank[n] = i - 1
  <2> HIDE DEF rank
  <2>1. rank \in Surjection(places, ranks)
    <3> HIDE DEF ranks
    <3> QED BY <1>6, <1>7, FS_Injection
  <2>2. \A i \in 1..Cardinality(places) : i - 1 \in ranks
    BY <1>1
  <2>3. QED BY <2>1, <2>2 DEF Surjection
<1>9. QED BY <1>1, <1>3, <1>5, <1>8

LEMMA AtPlacesHooks ==
  ASSUME NEW S, NEW list \in Seq(S), NEW places \in SUBSET DOMAIN list
  PROVE  /\ AtPlaces(list, places) \in Seq(S)
         /\ HooksOf(AtPlaces(list, places)) = {list[n] : n \in places}
<1> DEFINE at(i) == CHOOSE n \in places : Cardinality(Ahead(places, n)) = i - 1
           kept == AtPlaces(list, places)
<1>1. places \subseteq Nat /\ IsFiniteSet(places)
  <2>1. IsFiniteSet(1..Len(list)) /\ places \subseteq 1..Len(list)
    <3>1. 1 \in Int /\ Len(list) \in Int
      OBVIOUS
    <3>2. QED BY <3>1, FS_Interval
  <2>2. QED BY <2>1, FS_Subset
<1>2. /\ Cardinality(places) \in Nat
      /\ \A n \in places : Cardinality(Ahead(places, n)) \in 0..Cardinality(places) - 1
      /\ \A m, n \in places : Cardinality(Ahead(places, m)) = Cardinality(Ahead(places, n)) => m = n
      /\ \A i \in 1..Cardinality(places) :
           \E n \in places : Cardinality(Ahead(places, n)) = i - 1
  BY <1>1, EveryPlace
<1>3. kept = [i \in 1..Cardinality(places) |-> list[at(i)]]
  BY DEF AtPlaces, Ahead
<1>4. \A i \in 1..Cardinality(places) :
        at(i) \in places /\ Cardinality(Ahead(places, at(i))) = i - 1
  BY <1>2
<1>5. \A n \in places :
        LET i == Cardinality(Ahead(places, n)) + 1
        IN  i \in 1..Cardinality(places) /\ at(i) = n
  <2> TAKE n \in places
  <2> DEFINE i == Cardinality(Ahead(places, n)) + 1
  <2>1. i \in 1..Cardinality(places) /\ i - 1 = Cardinality(Ahead(places, n))
    BY <1>2
  <2>2. at(i) \in places /\ Cardinality(Ahead(places, at(i))) = Cardinality(Ahead(places, n))
    BY <1>4, <2>1
  <2>3. QED BY <1>2, <2>1, <2>2
<1> HIDE DEF at, kept
<1>6. \A n \in places : list[n] \in S
  OBVIOUS
<1>7. kept \in Seq(S)
  <2>1. kept \in [1..Cardinality(places) -> S]
    BY <1>3, <1>4, <1>6
  <2>2. QED BY <1>2, <2>1
<1>8. HooksOf(kept) = {list[n] : n \in places}
  <2>1. DOMAIN kept = 1..Cardinality(places)
    BY <1>3
  <2>2. \A i \in DOMAIN kept : \E n \in places : kept[i] = list[n]
    BY <1>3, <1>4, <2>1
  <2>3. \A n \in places : \E i \in DOMAIN kept : kept[i] = list[n]
    BY <1>3, <1>5, <2>1
  <2>4. QED BY <2>2, <2>3 DEF HooksOf
<1>9. QED BY <1>7, <1>8 DEF kept

LEMMA WithoutHooks ==
  ASSUME NEW list \in Seq(AnyHook), NEW id
  PROVE  /\ Without(list, id) \in Seq(AnyHook)
         /\ GuardsOf(Without(list, id)) = {h \in GuardsOf(list) : h.id # id}
<1> DEFINE places == {n \in DOMAIN list : list[n].id # id}
<1>1. Without(list, id) \in Seq(AnyHook) /\ HooksOf(Without(list, id)) = {list[n] : n \in places}
  BY AtPlacesHooks DEF Without
<1>2. QED BY <1>1 DEF GuardsOf, HooksOf

LEMMA JoinedHooks ==
  ASSUME NEW S, NEW s \in Seq(S), NEW t \in Seq(S)
  PROVE  s \o t \in Seq(S) /\ HooksOf(s \o t) = HooksOf(s) \cup HooksOf(t)
<1> DEFINE st == s \o t
<1>1. /\ st \in Seq(S) /\ Len(st) = Len(s) + Len(t)
      /\ DOMAIN s = 1..Len(s) /\ DOMAIN t = 1..Len(t) /\ DOMAIN st = 1..Len(s) + Len(t)
      /\ Len(s) \in Nat /\ Len(t) \in Nat
      /\ \A i \in 1..Len(s) : st[i] = s[i]
      /\ \A i \in 1..Len(t) : st[Len(s) + i] = t[i]
  OBVIOUS
<1> HIDE DEF st
<1>2. ASSUME NEW i \in DOMAIN st PROVE st[i] \in HooksOf(s) \cup HooksOf(t)
  <2>1. CASE i <= Len(s)
    BY <1>1, <2>1 DEF HooksOf
  <2>2. CASE ~(i <= Len(s))
    <3>1. i - Len(s) \in 1..Len(t) /\ Len(s) + (i - Len(s)) = i
      BY <1>1, <2>2
    <3>2. st[i] = t[i - Len(s)]
      BY <1>1, <3>1
    <3>3. QED BY <1>1, <3>1, <3>2 DEF HooksOf
  <2>3. QED BY <2>1, <2>2
<1>3. \A i \in DOMAIN s : i \in DOMAIN st /\ st[i] = s[i]
  BY <1>1
<1>4. \A i \in DOMAIN t : Len(s) + i \in DOMAIN st /\ st[Len(s) + i] = t[i]
  BY <1>1
<1>5. HooksOf(st) \subseteq HooksOf(s) \cup HooksOf(t)
  BY <1>2 DEF HooksOf
<1>6. HooksOf(s) \subseteq HooksOf(st)
  BY <1>3 DEF HooksOf
<1>7. HooksOf(t) \subseteq HooksOf(st)
  BY <1>4 DEF HooksOf
<1>8. HooksOf(st) = HooksOf(s) \cup HooksOf(t)
  BY <1>5, <1>6, <1>7
<1>9. QED BY <1>1, <1>8 DEF st

LEMMA SortedHooks ==
  ASSUME NEW list \in Seq(AnyHook)
  PROVE  ByPriority(list) \in Seq(AnyHook) /\ GuardsOf(ByPriority(list)) = GuardsOf(list)
<1> DEFINE guards == {n \in DOMAIN list : list[n].id # NoHook}
           first == AtPlaces(list, guards)
           last == AtPlaces(list, DOMAIN list \ guards)
<1>1. first \in Seq(AnyHook) /\ HooksOf(first) = {list[n] : n \in guards}
  BY AtPlacesHooks
<1>2. last \in Seq(AnyHook) /\ HooksOf(last) = {list[n] : n \in DOMAIN list \ guards}
  BY AtPlacesHooks
<1>3. ByPriority(list) = first \o last
  BY DEF ByPriority
<1> HIDE DEF first, last
<1>4. first \o last \in Seq(AnyHook) /\ HooksOf(first \o last) = HooksOf(first) \cup HooksOf(last)
  BY <1>1, <1>2, JoinedHooks
<1>5. HooksOf(ByPriority(list)) = HooksOf(list)
  BY <1>1, <1>2, <1>3, <1>4 DEF HooksOf
<1>6. QED BY <1>3, <1>4, <1>5 DEF GuardsOf

LEMMA AppendedHook ==
  ASSUME NEW list \in Seq(AnyHook), NEW h \in AnyHook, h.id # NoHook
  PROVE  Append(list, h) \in Seq(AnyHook) /\ GuardsOf(Append(list, h)) = GuardsOf(list) \cup {h}
<1>1. <<h>> \in Seq(AnyHook) /\ HooksOf(<<h>>) = {h} /\ Append(list, h) = list \o <<h>>
  BY DEF HooksOf
<1>2. Append(list, h) \in Seq(AnyHook) /\ HooksOf(Append(list, h)) = HooksOf(list) \cup {h}
  <2> DEFINE one == <<h>>
  <2>1. one \in Seq(AnyHook) /\ HooksOf(one) = {h} /\ Append(list, h) = list \o one
    BY <1>1
  <2> HIDE DEF one
  <2>2. list \o one \in Seq(AnyHook) /\ HooksOf(list \o one) = HooksOf(list) \cup HooksOf(one)
    BY <2>1, JoinedHooks
  <2>3. QED BY <2>1, <2>2
<1>3. QED BY <1>2 DEF GuardsOf

-----------------------------------------------------------------------------
Said(h, tool) == IF Vetoes(h, tool) THEN "deny" ELSE "allow"
Ruling == {"allow", "deny"}

HookTypeOK ==
  /\ lists \in Seq(Seq(AnyHook)) /\ bucket \in DOMAIN lists
  /\ hookOps \in Nat /\ named \in 0..hookOps
  /\ swap \in {NoSwap} \cup
       [stage : {"append", "sorting"}, guard : {Guard(named, tools) : tools \in SUBSET GuardedTool}]
  /\ swap # NoSwap => named # NoHook
  /\ DOMAIN eval = Evaluator /\ DOMAIN moments = Evaluator

(* The guard that has the name is the one in the list, but for the moment  *)
(* in which it is put there.                                               *)
OneGuard ==
  IF named = NoHook \/ swap.stage = "append" THEN GuardsOf(lists[bucket]) = {}
  ELSE \E tools \in SUBSET GuardedTool : GuardsOf(lists[bucket]) = {Guard(named, tools)}

Finding == [stage : {"test", "copy"}, list : DOMAIN lists, tool : GuardedTool, decision : Ruling]
Runs == [stage : {"run"}, tool : GuardedTool, decision : Ruling, rest : Seq(AnyHook), final : Ruling]
Settled == [stage : {"done"}, before : Ruling, answer : Ruling]

(* What a guard that has lost the name says, it has said when it lost it.  *)
Retired(h, e) == h.id # named /\ h.id <= hookOps /\ Said(h, eval[e].tool) \in moments[e]

(* A list that was replaced while an evaluation held it had a guard.       *)
FoundOK(e) ==
  eval[e].list # bucket =>
    \E h \in AnyHook : GuardsOf(lists[eval[e].list]) = {h} /\ Retired(h, e)

RunOK(e) ==
  /\ \A h \in GuardsOf(eval[e].rest) :
       Retired(h, e) \/ (h.id = named /\ swap = NoSwap /\ h \in GuardsOf(lists[bucket]))
  /\ eval[e].final = "deny" => "deny" \in moments[e]
  /\ eval[e].final = "allow" /\ GuardsOf(eval[e].rest) = {} => "allow" \in moments[e]

EvalOK(e) ==
  \/ eval[e] = NoEval
  \/ eval[e] \in Finding /\ InForce(eval[e].tool) \in moments[e] /\ FoundOK(e)
  \/ eval[e] \in Runs /\ InForce(eval[e].tool) \in moments[e] /\ RunOK(e)
  \/ /\ eval[e] \in Settled
     /\ IF eval[e].before = "deny" THEN eval[e].answer = "deny" ELSE eval[e].answer \in moments[e]

HookInv == HookTypeOK /\ OneGuard /\ \A e \in Evaluator : EvalOK(e)

LEMMA SwapFacts ==
  ASSUME HookTypeOK
  PROVE  /\ swap = NoSwap <=> swap.stage = "none"
         /\ swap.stage \in {"none", "append", "sorting"}
         /\ swap # NoSwap => \E tools \in SUBSET GuardedTool : swap.guard = Guard(named, tools)
BY DEF HookTypeOK, NoSwap

LEMMA GuardIsHook ==
  ASSUME NEW id \in Nat \ {0}, NEW tools \in SUBSET GuardedTool
  PROVE  Guard(id, tools) \in AnyHook /\ Guard(id, tools).id = id /\ Guard(id, tools).id # NoHook
BY DEF Guard, AnyHook, NoHook

(* Observers do not veto: the guard in the list is what is in force.       *)
LEMMA InForceIs ==
  ASSUME HookTypeOK, NEW tool \in GuardedTool
  PROVE  /\ InForce(tool) \in Ruling
         /\ GuardsOf(lists[bucket]) = {} => InForce(tool) = "allow"
         /\ \A h : swap = NoSwap /\ GuardsOf(lists[bucket]) = {h} => InForce(tool) = Said(h, tool)
<1> DEFINE list == lists[bucket]
<1>1. list \in Seq(AnyHook) /\ \A i \in DOMAIN list : list[i] \in AnyHook
  BY DEF HookTypeOK
<1>2. \A i \in DOMAIN list : list[i] \in GuardsOf(list) \/ ~Vetoes(list[i], tool)
  BY <1>1 DEF GuardsOf, HooksOf, AnyHook, Vetoes
<1>3. GuardsOf(list) = {} => InForce(tool) = "allow"
  BY <1>2 DEF InForce
<1>4. ASSUME NEW h, swap = NoSwap, GuardsOf(list) = {h}
      PROVE  InForce(tool) = Said(h, tool)
  <2>1. PICK i \in DOMAIN list : list[i] = h
    BY <1>4 DEF GuardsOf, HooksOf
  <2>2. ~LooksEmpty(bucket)
    BY <1>4, <2>1, SwapFacts DEF LooksEmpty
  <2>3. (\E n \in DOMAIN list : Vetoes(list[n], tool)) <=> Vetoes(h, tool)
    BY <1>2, <1>4, <2>1
  <2>4. QED BY <2>2, <2>3 DEF InForce, Said
<1>5. InForce(tool) \in Ruling
  BY DEF InForce, Ruling
<1>6. QED BY <1>3, <1>4, <1>5

LEMMA HookStart == HookInit => HookInv
<1> SUFFICES ASSUME HookInit PROVE HookInv
  OBVIOUS
<1>1. Observer \in AnyHook /\ <<>> \in Seq(AnyHook) /\ <<Observer>> \in Seq(AnyHook)
  BY DEF Observer, AnyHook, NoHook
<1>2. \E list \in Seq(AnyHook) : lists = <<list>> /\ GuardsOf(list) = {}
  <2>1. GuardsOf(<<>>) = {} /\ GuardsOf(<<Observer>>) = {}
    BY DEF GuardsOf, HooksOf, Observer
  <2>2. QED BY <1>1, <2>1 DEF HookInit
<1>3. lists \in Seq(Seq(AnyHook)) /\ bucket \in DOMAIN lists /\ GuardsOf(lists[bucket]) = {}
  BY <1>2 DEF HookInit
<1>4. HookTypeOK
  BY <1>3 DEF HookInit, HookTypeOK, NoHook
<1>5. QED BY <1>3, <1>4 DEF HookInit, HookInv, OneGuard, EvalOK

(* An operator's request that leaves the evaluations alone.                *)
LEMMA OthersKeep ==
  ASSUME HookInv, HookTypeOK', Watched, UNCHANGED eval, hookOps <= hookOps',
         NEW e \in Evaluator,
         \A i \in DOMAIN lists : i \in DOMAIN lists' /\ (i # bucket => lists'[i] = lists[i]),
         eval[e] \in Finding /\ eval[e].list # bucket' => FoundOK(e)',
         eval[e] \in Runs => \A h \in GuardsOf(eval[e].rest) :
             Retired(h, e)' \/ (h.id = named' /\ swap' = NoSwap /\ h \in GuardsOf(lists'[bucket']))
  PROVE  EvalOK(e)'
<1>1. moments' = [x \in Evaluator |->
        IF eval[x].stage \in {"idle", "done"} THEN moments[x]
        ELSE moments[x] \cup {InForce(eval[x].tool)'}]
  BY DEF Watched, HookInv, HookTypeOK
<1>2. moments[e] \subseteq moments'[e]
  BY <1>1
<1>3. EvalOK(e)
  BY DEF HookInv
<1>4. CASE eval[e] = NoEval
  BY <1>4 DEF EvalOK
<1>5. CASE eval[e] \in Finding /\ FoundOK(e)
  <2>1. InForce(eval[e].tool)' \in moments'[e]
    BY <1>1, <1>5 DEF Finding
  <2>2. eval'[e] \in Finding'
    BY <1>5 DEF Finding
  <2>3. FoundOK(e)'
    BY <1>5 DEF FoundOK
  <2>4. QED BY <2>1, <2>2, <2>3 DEF EvalOK
<1>6. CASE eval[e] \in Runs /\ RunOK(e)
  <2>1. InForce(eval[e].tool)' \in moments'[e]
    BY <1>1, <1>6 DEF Runs
  <2>2. eval'[e] \in Runs'
    BY <1>6 DEF Runs
  <2>3. RunOK(e)'
    BY <1>2, <1>6 DEF RunOK
  <2>4. QED BY <2>1, <2>2, <2>3 DEF EvalOK
<1>7. CASE eval[e] \in Settled /\ IF eval[e].before = "deny" THEN eval[e].answer = "deny"
                               ELSE eval[e].answer \in moments[e]
  BY <1>2, <1>7 DEF EvalOK, Settled
<1>8. QED BY <1>3, <1>4, <1>5, <1>6, <1>7 DEF EvalOK

LEMMA UnregisteredList ==
  ASSUME HookInv, swap = NoSwap, Unregistered
  PROVE  /\ lists' \in Seq(Seq(AnyHook)) /\ bucket' \in DOMAIN lists'
         /\ GuardsOf(lists'[bucket']) = {}
         /\ \A i \in DOMAIN lists : i \in DOMAIN lists' /\ lists'[i] = lists[i]
         /\ (bucket' = bucket /\ named = NoHook) \/ (bucket' \notin DOMAIN lists /\ named # NoHook)
<1> DEFINE list == lists[bucket]
<1>1. list \in Seq(AnyHook) /\ lists \in Seq(Seq(AnyHook)) /\ bucket \in DOMAIN lists
  BY DEF HookInv, HookTypeOK
<1>2. swap.stage # "append"
  BY SwapFacts DEF HookInv
<1>3. IF named = NoHook THEN GuardsOf(list) = {}
      ELSE \E tools \in SUBSET GuardedTool : GuardsOf(list) = {Guard(named, tools)}
  BY <1>2 DEF HookInv, OneGuard
<1>4. list = <<>> => named = NoHook
  <2>1. GuardsOf(<<>>) = {}
    BY DEF GuardsOf, HooksOf
  <2>2. QED BY <1>3, <2>1
<1>5. CASE named = NoHook
  BY <1>1, <1>3, <1>5 DEF Unregistered
<1>6. CASE named # NoHook
  <2> DEFINE less == Without(list, named)
  <2>1. less \in Seq(AnyHook) /\ GuardsOf(less) = {h \in GuardsOf(list) : h.id # named}
    BY <1>1, WithoutHooks
  <2>2. GuardsOf(less) = {}
    BY <1>3, <1>6, <2>1 DEF Guard
  <2>3. lists' = Append(lists, less) /\ bucket' = Len(lists) + 1
    BY <1>4, <1>6 DEF Unregistered
  <2> HIDE DEF less
  <2>4. /\ lists' \in Seq(Seq(AnyHook)) /\ DOMAIN lists' = 1..Len(lists) + 1
        /\ DOMAIN lists = 1..Len(lists) /\ Len(lists) \in Nat
        /\ lists'[Len(lists) + 1] = less /\ \A i \in 1..Len(lists) : lists'[i] = lists[i]
    BY <1>1, <2>1, <2>3
  <2>5. bucket' \in DOMAIN lists' /\ bucket' \notin DOMAIN lists
    BY <2>3, <2>4
  <2>6. QED BY <1>6, <2>2, <2>3, <2>4, <2>5
<1>7. QED BY <1>5, <1>6

(* The guard that loses its name said so far what was in force.            *)
LEMMA UnregisterKeeps ==
  ASSUME HookInv, Request, Unregistered, UNCHANGED <<disabled, eval>>, Watched,
         named' \in {NoHook, hookOps + 1}, HookTypeOK', NEW e \in Evaluator
  PROVE  EvalOK(e)'
<1>1. /\ GuardsOf(lists'[bucket']) = {}
      /\ \A i \in DOMAIN lists : i \in DOMAIN lists' /\ lists'[i] = lists[i]
      /\ (bucket' = bucket /\ named = NoHook) \/ (bucket' \notin DOMAIN lists /\ named # NoHook)
  BY UnregisteredList DEF Request
<1>2. /\ hookOps \in Nat /\ hookOps' = hookOps + 1 /\ swap = NoSwap
      /\ HookTypeOK /\ OneGuard /\ EvalOK(e) /\ bucket \in DOMAIN lists
  BY DEF HookInv, HookTypeOK, Request
<1>3. moments[e] \subseteq moments'[e]
  BY DEF Watched
<1>4. ASSUME NEW h \in AnyHook, h.id # NoHook, Retired(h, e)
      PROVE  Retired(h, e)'
  <2>1. h.id \in Nat /\ h.id <= hookOps'
    BY <1>2, <1>4 DEF AnyHook, Retired
  <2>2. h.id # named'
    BY <1>2, <1>4, <2>1 DEF Retired
  <2>3. Said(h, eval[e].tool)' = Said(h, eval[e].tool)
    BY DEF Said, Vetoes
  <2>4. QED BY <1>3, <1>4, <2>1, <2>2, <2>3 DEF Retired
<1>5. ASSUME NEW h \in AnyHook, GuardsOf(lists[bucket]) = {h}, eval[e].tool \in GuardedTool,
             InForce(eval[e].tool) \in moments[e]
      PROVE  Retired(h, e)'
  <2>1. Said(h, eval[e].tool) \in moments[e]
    BY <1>2, <1>5, InForceIs
  <2>2. h.id = named /\ h.id # NoHook
    <3>1. named # NoHook /\ \E tools \in SUBSET GuardedTool : GuardsOf(lists[bucket]) = {Guard(named, tools)}
      BY <1>2, <1>5 DEF OneGuard
    <3>2. QED BY <1>5, <3>1 DEF Guard
  <2>3. named \in 0..hookOps
    BY <1>2 DEF HookTypeOK
  <2>4. h.id # named' /\ h.id <= hookOps'
    BY <1>2, <2>2, <2>3
  <2>5. Said(h, eval[e].tool)' = Said(h, eval[e].tool)
    BY DEF Said, Vetoes
  <2>6. QED BY <1>3, <2>1, <2>4, <2>5 DEF Retired
<1>6. ASSUME eval[e] \in Finding, eval[e].list # bucket'
      PROVE  FoundOK(e)'
  <2>1. /\ eval[e].list \in DOMAIN lists /\ eval[e].tool \in GuardedTool
        /\ InForce(eval[e].tool) \in moments[e] /\ FoundOK(e)
    BY <1>2, <1>6 DEF EvalOK, Finding, Runs, Settled, NoEval
  <2>2. CASE eval[e].list # bucket
    <3>1. PICK h \in AnyHook : GuardsOf(lists[eval[e].list]) = {h} /\ Retired(h, e)
      BY <2>1, <2>2 DEF FoundOK
    <3>2. h.id # NoHook
      BY <3>1 DEF GuardsOf
    <3>3. Retired(h, e)' /\ GuardsOf(lists'[eval[e].list]) = {h}
      BY <1>1, <1>4, <2>1, <3>1, <3>2
    <3>4. QED BY <3>3 DEF FoundOK
  <2>3. CASE eval[e].list = bucket
    <3>1. named # NoHook
      BY <1>1, <1>6, <2>3
    <3>2. swap.stage # "append" /\ named \in Nat \ {0}
      BY <1>2, <3>1, SwapFacts DEF HookTypeOK, NoHook
    <3>3. PICK tools \in SUBSET GuardedTool : GuardsOf(lists[bucket]) = {Guard(named, tools)}
      BY <1>2, <3>1, <3>2 DEF OneGuard
    <3>4. PICK h \in AnyHook : GuardsOf(lists[bucket]) = {h}
      BY <3>2, <3>3, GuardIsHook
    <3>5. Retired(h, e)'
      BY <1>5, <2>1, <3>4
    <3>6. GuardsOf(lists'[eval[e].list]) = {h}
      BY <1>1, <1>2, <2>3, <3>4
    <3>7. QED BY <3>5, <3>6 DEF FoundOK
  <2>4. QED BY <2>2, <2>3
<1>7. ASSUME eval[e] \in Runs, NEW h \in GuardsOf(eval[e].rest)
      PROVE  Retired(h, e)'
  <2>1. /\ eval[e].rest \in Seq(AnyHook) /\ eval[e].tool \in GuardedTool
        /\ InForce(eval[e].tool) \in moments[e] /\ RunOK(e)
    BY <1>2, <1>7 DEF EvalOK, Finding, Runs, Settled, NoEval
  <2>2. h \in AnyHook /\ h.id # NoHook
    BY <1>7, <2>1 DEF GuardsOf, HooksOf
  <2>3. CASE Retired(h, e)
    BY <1>4, <2>2, <2>3
  <2>4. CASE h.id = named /\ h \in GuardsOf(lists[bucket])
    <3>1. GuardsOf(lists[bucket]) = {h}
      BY <1>2, <2>4 DEF OneGuard
    <3>2. QED BY <1>5, <2>1, <2>2, <3>1
  <2>5. QED BY <1>7, <2>1, <2>3, <2>4 DEF RunOK
<1>8. hookOps <= hookOps'
  BY <1>2
<1>9. QED BY <1>1, <1>6, <1>7, <1>8, OthersKeep

LEMMA ReplaceKeeps ==
  ASSUME HookInv, NEW tools \in SUBSET GuardedTool, ReplaceGuard(tools)
  PROVE  HookInv'
<1>1. /\ swap = NoSwap /\ hookOps' = hookOps + 1 /\ named' = hookOps + 1 /\ Unregistered
      /\ swap' = [stage |-> "append", guard |-> Guard(named', tools)]
      /\ UNCHANGED <<disabled, eval>> /\ Watched /\ hookOps \in Nat /\ Request
  BY DEF ReplaceGuard, Request, HookInv, HookTypeOK
<1>2. /\ lists' \in Seq(Seq(AnyHook)) /\ bucket' \in DOMAIN lists' /\ GuardsOf(lists'[bucket']) = {}
  BY <1>1, UnregisteredList
<1>3. swap' \in [stage : {"append", "sorting"}, guard : {Guard(named', t) : t \in SUBSET GuardedTool}]
  BY <1>1
<1>4. DOMAIN eval' = Evaluator /\ DOMAIN moments' = Evaluator
  BY <1>1 DEF Watched, HookInv, HookTypeOK
<1>5. named' \in 0..hookOps' /\ named' # NoHook /\ hookOps' \in Nat
  BY <1>1 DEF NoHook
<1>6. HookTypeOK'
  BY <1>2, <1>3, <1>4, <1>5 DEF HookTypeOK
<1>7. OneGuard'
  BY <1>1, <1>2 DEF OneGuard
<1>8. \A e \in Evaluator : EvalOK(e)'
  BY <1>1, <1>6, UnregisterKeeps
<1>9. QED BY <1>6, <1>7, <1>8 DEF HookInv

LEMMA RemoveKeeps ==
  ASSUME HookInv, RemoveGuard
  PROVE  HookInv'
<1>1. /\ swap = NoSwap /\ hookOps' = hookOps + 1 /\ named' = NoHook /\ Unregistered
      /\ UNCHANGED <<disabled, swap, eval>> /\ Watched /\ hookOps \in Nat /\ Request
  BY DEF RemoveGuard, Request, HookInv, HookTypeOK
<1>2. /\ lists' \in Seq(Seq(AnyHook)) /\ bucket' \in DOMAIN lists' /\ GuardsOf(lists'[bucket']) = {}
  BY <1>1, UnregisteredList
<1>3. DOMAIN eval' = Evaluator /\ DOMAIN moments' = Evaluator
  BY <1>1 DEF Watched, HookInv, HookTypeOK
<1>4. named' \in 0..hookOps' /\ hookOps' \in Nat /\ swap' = NoSwap
  BY <1>1 DEF NoHook
<1>5. HookTypeOK'
  BY <1>2, <1>3, <1>4 DEF HookTypeOK
<1>6. OneGuard'
  BY <1>1, <1>2 DEF OneGuard
<1>7. \A e \in Evaluator : EvalOK(e)'
  BY <1>1, <1>5, UnregisterKeeps
<1>8. QED BY <1>5, <1>6, <1>7 DEF HookInv

(* Between lists and evaluations nothing changes but what is in force.     *)
LEMMA ListKeeps ==
  ASSUME HookInv, HookTypeOK', Watched, UNCHANGED <<bucket, named, disabled, eval, hookOps>>,
         \A i \in DOMAIN lists : i \in DOMAIN lists' /\ (i # bucket => lists'[i] = lists[i]),
         swap # NoSwap, NEW e \in Evaluator
  PROVE  EvalOK(e)'
<1>1. EvalOK(e) /\ hookOps <= hookOps'
  BY DEF HookInv, HookTypeOK
<1>2. moments[e] \subseteq moments'[e]
  BY DEF Watched
<1>3. \A h : Retired(h, e) => Retired(h, e)'
  BY <1>2 DEF Retired, Said, Vetoes
<1>4. eval[e] \in Finding /\ eval[e].list # bucket' => FoundOK(e)'
  <2> SUFFICES ASSUME eval[e] \in Finding, eval[e].list # bucket PROVE FoundOK(e)'
    OBVIOUS
  <2>1. eval[e].list \in DOMAIN lists /\ FoundOK(e)
    BY <1>1 DEF EvalOK, Finding, Runs, Settled, NoEval
  <2>2. lists'[eval[e].list] = lists[eval[e].list]
    BY <2>1
  <2>3. PICK h \in AnyHook : GuardsOf(lists[eval[e].list]) = {h} /\ Retired(h, e)
    BY <2>1 DEF FoundOK
  <2>4. QED BY <1>3, <2>2, <2>3 DEF FoundOK
<1>5. ASSUME eval[e] \in Runs, NEW h \in GuardsOf(eval[e].rest) PROVE Retired(h, e)'
  <2>1. RunOK(e)
    BY <1>1, <1>5 DEF EvalOK, Finding, Runs, Settled, NoEval
  <2>2. QED BY <1>3, <1>5, <2>1 DEF RunOK
<1>6. QED BY <1>1, <1>4, <1>5, OthersKeep

LEMMA AppendGuardKeeps ==
  ASSUME HookInv, AppendGuard
  PROVE  HookInv'
<1>1. /\ swap.stage = "append" /\ lists' = [lists EXCEPT ![bucket] = Append(@, swap.guard)]
      /\ swap' = [swap EXCEPT !.stage = "sorting"]
      /\ UNCHANGED <<bucket, named, disabled, eval, hookOps>> /\ Watched
      /\ lists \in Seq(Seq(AnyHook)) /\ bucket \in DOMAIN lists
  BY DEF AppendGuard, HookInv, HookTypeOK
<1>2. swap # NoSwap /\ named # NoHook /\ named \in Nat \ {0}
  BY <1>1, SwapFacts DEF HookInv, HookTypeOK, NoHook
<1>3. PICK tools \in SUBSET GuardedTool : swap = [stage |-> "append", guard |-> Guard(named, tools)]
  BY <1>1, <1>2 DEF HookInv, HookTypeOK
<1> DEFINE list == lists[bucket]
           guard == Guard(named, tools)
<1>4. list \in Seq(AnyHook) /\ GuardsOf(list) = {}
  BY <1>1 DEF HookInv, OneGuard
<1>5. Append(list, guard) \in Seq(AnyHook) /\ GuardsOf(Append(list, guard)) = {guard}
  <2>1. guard \in AnyHook /\ guard.id # NoHook
    BY <1>2, GuardIsHook
  <2> HIDE DEF guard
  <2>2. QED BY <1>4, <2>1, AppendedHook
<1>6. lists' = [lists EXCEPT ![bucket] = Append(list, guard)]
  BY <1>1, <1>3
<1>7. swap' = [stage |-> "sorting", guard |-> guard]
  BY <1>1, <1>3
<1> HIDE DEF guard
<1>8. /\ lists' \in Seq(Seq(AnyHook)) /\ DOMAIN lists' = DOMAIN lists
      /\ lists'[bucket] = Append(list, guard)
      /\ \A i \in DOMAIN lists : i # bucket => lists'[i] = lists[i]
  <2> DEFINE longer == Append(list, guard)
  <2> HIDE DEF longer, list
  <2>1. longer \in Seq(AnyHook) /\ lists' = [lists EXCEPT ![bucket] = longer]
    BY <1>5, <1>6 DEF longer
  <2>2. lists' \in Seq(Seq(AnyHook))
    BY <1>1, <2>1, ExceptSeq
  <2>3. QED BY <1>1, <2>1, <2>2 DEF longer
<1>9. HookTypeOK'
  <2>1. swap' \in [stage : {"append", "sorting"}, guard : {Guard(named, t) : t \in SUBSET GuardedTool}]
    BY <1>7 DEF guard
  <2>2. DOMAIN moments' = Evaluator
    BY <1>1 DEF Watched
  <2>3. QED BY <1>1, <1>2, <1>8, <2>1, <2>2 DEF HookInv, HookTypeOK
<1>10. OneGuard'
  BY <1>1, <1>2, <1>5, <1>7, <1>8 DEF OneGuard, guard
<1>11. \A e \in Evaluator : EvalOK(e)'
  BY <1>1, <1>2, <1>8, <1>9, ListKeeps
<1>12. QED BY <1>9, <1>10, <1>11 DEF HookInv

LEMMA SortKeeps ==
  ASSUME HookInv, SortHooks
  PROVE  HookInv'
<1> DEFINE list == lists[bucket]
           sorted == ByPriority(list)
<1>1. /\ swap.stage = "sorting" /\ lists' = [lists EXCEPT ![bucket] = sorted] /\ swap' = NoSwap
      /\ UNCHANGED <<bucket, named, disabled, eval, hookOps>> /\ Watched
      /\ lists \in Seq(Seq(AnyHook)) /\ bucket \in DOMAIN lists
  BY DEF SortHooks, HookInv, HookTypeOK
<1>2. swap # NoSwap /\ named # NoHook
  BY <1>1, SwapFacts DEF HookInv, HookTypeOK
<1>3. sorted \in Seq(AnyHook) /\ GuardsOf(sorted) = GuardsOf(list)
  BY <1>1, SortedHooks
<1> HIDE DEF sorted
<1>4. /\ lists' \in Seq(Seq(AnyHook)) /\ DOMAIN lists' = DOMAIN lists
      /\ lists'[bucket] = sorted
      /\ \A i \in DOMAIN lists : i # bucket => lists'[i] = lists[i]
  <2>1. lists' \in Seq(Seq(AnyHook))
    BY <1>1, <1>3, ExceptSeq
  <2>2. QED BY <1>1, <2>1
<1>5. HookTypeOK'
  <2>1. DOMAIN moments' = Evaluator
    BY <1>1 DEF Watched
  <2>2. QED BY <1>1, <1>4, <2>1 DEF HookInv, HookTypeOK
<1>6. OneGuard'
  <2>1. swap'.stage = "none"
    BY <1>1 DEF NoSwap
  <2>2. PICK tools \in SUBSET GuardedTool : GuardsOf(list) = {Guard(named, tools)}
    BY <1>1, <1>2 DEF HookInv, OneGuard
  <2>3. QED BY <1>1, <1>2, <1>3, <1>4, <2>1, <2>2 DEF OneGuard
<1>7. \A e \in Evaluator : EvalOK(e)'
  BY <1>1, <1>2, <1>4, <1>5, ListKeeps
<1>8. QED BY <1>5, <1>6, <1>7 DEF HookInv

(* Only the guard that has the name is switched.                           *)
LEMMA SwitchKeeps ==
  ASSUME HookInv, NEW enabled \in BOOLEAN, SetEnabled(enabled)
  PROVE  HookInv'
<1>1. /\ swap = NoSwap /\ named # NoHook /\ hookOps' = hookOps + 1 /\ hookOps \in Nat
      /\ disabled' \in {disabled \ {named}, disabled \cup {named}}
      /\ UNCHANGED <<lists, bucket, named, swap, eval>> /\ Watched
  BY DEF SetEnabled, Request, HookInv, HookTypeOK
<1>2. HookTypeOK'
  <2>1. DOMAIN moments' = Evaluator
    BY <1>1 DEF Watched
  <2>2. named \in 0..hookOps'
    BY <1>1 DEF HookInv, HookTypeOK
  <2>3. QED BY <1>1, <2>1, <2>2 DEF HookInv, HookTypeOK
<1>3. OneGuard'
  BY <1>1 DEF HookInv, OneGuard
<1>4. ASSUME NEW e \in Evaluator PROVE EvalOK(e)'
  <2>1. EvalOK(e) /\ hookOps <= hookOps'
    BY <1>1 DEF HookInv
  <2>2. moments[e] \subseteq moments'[e]
    BY <1>1 DEF Watched
  <2>3. ASSUME NEW h \in AnyHook, Retired(h, e) PROVE Retired(h, e)'
    <3>1. h.id \in disabled' <=> h.id \in disabled
      BY <1>1, <2>3 DEF Retired
    <3>2. Said(h, eval[e].tool)' = Said(h, eval[e].tool)
      BY <1>1, <3>1 DEF Said, Vetoes
    <3>3. h.id <= hookOps'
      BY <1>1, <2>3 DEF Retired, AnyHook
    <3>4. QED BY <1>1, <2>2, <2>3, <3>2, <3>3 DEF Retired
  <2>4. eval[e] \in Finding /\ eval[e].list # bucket' => FoundOK(e)'
    <3> SUFFICES ASSUME eval[e] \in Finding, eval[e].list # bucket PROVE FoundOK(e)'
      BY <1>1
    <3>1. FoundOK(e)
      BY <2>1 DEF EvalOK, Finding, Runs, Settled, NoEval
    <3>2. PICK h \in AnyHook : GuardsOf(lists[eval[e].list]) = {h} /\ Retired(h, e)
      BY <3>1 DEF FoundOK
    <3>3. QED BY <1>1, <2>3, <3>2 DEF FoundOK
  <2>5. ASSUME eval[e] \in Runs, NEW h \in GuardsOf(eval[e].rest)
        PROVE  Retired(h, e)' \/ (h.id = named' /\ swap' = NoSwap /\ h \in GuardsOf(lists'[bucket']))
    <3>1. RunOK(e) /\ eval[e].rest \in Seq(AnyHook)
      BY <2>1, <2>5 DEF EvalOK, Finding, Runs, Settled, NoEval
    <3>2. h \in AnyHook
      BY <2>5, <3>1 DEF GuardsOf, HooksOf
    <3>3. QED BY <1>1, <2>3, <2>5, <3>1, <3>2 DEF RunOK
  <2>6. QED BY <1>1, <1>2, <2>1, <2>4, <2>5, OthersKeep
<1>5. QED BY <1>2, <1>3, <1>4 DEF HookInv

(* An evaluation's own step.                                               *)
LEMMA OwnStepKeeps ==
  ASSUME HookInv, NEW e \in Evaluator, UNCHANGED <<lists, bucket, named, disabled, swap, hookOps>>,
         DOMAIN eval' = Evaluator, DOMAIN moments' = Evaluator,
         \A x \in Evaluator : x # e => eval'[x] = eval[x] /\ moments'[x] = moments[x],
         EvalOK(e)'
  PROVE  HookInv'
<1>1. HookTypeOK' /\ OneGuard'
  BY DEF HookInv, HookTypeOK, OneGuard
<1>2. ASSUME NEW x \in Evaluator, x # e PROVE EvalOK(x)'
  <2>1. EvalOK(x) /\ eval'[x] = eval[x] /\ moments'[x] = moments[x]
    BY <1>2 DEF HookInv
  <2>2. \A tool : InForce(tool)' = InForce(tool)
    BY DEF InForce, LooksEmpty, Vetoes
  <2>3. \A h : Retired(h, x) => Retired(h, x)'
    BY <2>1 DEF Retired, Said, Vetoes
  <2>4. FoundOK(x) => FoundOK(x)'
    BY <2>1, <2>3 DEF FoundOK
  <2>5. RunOK(x) => RunOK(x)'
    BY <2>1, <2>3 DEF RunOK
  <2>6. eval[x] \in Finding => eval'[x] \in Finding'
    BY <2>1 DEF Finding
  <2>7. QED BY <2>1, <2>2, <2>4, <2>5, <2>6 DEF EvalOK
<1>3. QED BY <1>1, <1>2 DEF HookInv

LEMMA FindKeeps ==
  ASSUME HookInv, NEW e \in Evaluator, NEW tool \in GuardedTool, NEW d \in Ruling,
         FindHooks(e, tool, d)
  PROVE  HookInv'
<1> DEFINE new == [stage |-> "test", list |-> bucket, tool |-> tool, decision |-> d]
<1>1. /\ eval' = [eval EXCEPT ![e] = new] /\ moments' = [moments EXCEPT ![e] = {InForce(tool)}]
      /\ UNCHANGED <<lists, bucket, named, disabled, swap, hookOps>>
      /\ DOMAIN eval = Evaluator /\ DOMAIN moments = Evaluator /\ bucket \in DOMAIN lists
  BY DEF FindHooks, HookInv, HookTypeOK
<1>2. new \in Finding /\ new.tool = tool /\ new.list = bucket
  BY <1>1 DEF Finding
<1> HIDE DEF new
<1>3. /\ eval'[e] = new /\ moments'[e] = {InForce(tool)}
      /\ DOMAIN eval' = Evaluator /\ DOMAIN moments' = Evaluator
      /\ \A x \in Evaluator : x # e => eval'[x] = eval[x] /\ moments'[x] = moments[x]
  BY <1>1
<1>4. InForce(tool)' = InForce(tool)
  BY <1>1 DEF InForce, LooksEmpty, Vetoes
<1>5. EvalOK(e)'
  <2>1. eval'[e] \in Finding'
    BY <1>1, <1>2, <1>3 DEF Finding
  <2>2. FoundOK(e)'
    BY <1>1, <1>2, <1>3 DEF FoundOK
  <2>3. InForce(eval[e].tool)' \in moments'[e]
    BY <1>2, <1>3, <1>4
  <2>4. QED BY <2>1, <2>2, <2>3 DEF EvalOK
<1>6. QED BY <1>1, <1>3, <1>5, OwnStepKeeps

LEMMA TestKeeps ==
  ASSUME HookInv, NEW e \in Evaluator, TestEmpty(e)
  PROVE  HookInv'
<1> DEFINE old == eval[e]
<1>1. /\ old.stage = "test"
      /\ eval' = [eval EXCEPT ![e] =
           IF LooksEmpty(old.list) THEN Running(old, <<>>, "allow") ELSE [old EXCEPT !.stage = "copy"]]
      /\ UNCHANGED <<lists, bucket, named, disabled, swap, moments, hookOps>>
      /\ DOMAIN eval = Evaluator /\ DOMAIN moments = Evaluator /\ HookTypeOK /\ EvalOK(e)
  BY DEF TestEmpty, HookInv, HookTypeOK
<1>2. old \in Finding /\ InForce(old.tool) \in moments[e] /\ FoundOK(e) /\ old.tool \in GuardedTool
  BY <1>1 DEF EvalOK, Finding, Runs, Settled, NoEval
<1>3. \A tool : InForce(tool)' = InForce(tool)
  BY <1>1 DEF InForce, LooksEmpty, Vetoes
<1>4. CASE LooksEmpty(old.list)
  <2> DEFINE new == Running(old, <<>>, "allow")
  <2>1. eval'[e] = new
    BY <1>1, <1>4
  <2>2. old.list = bucket
    <3>1. SUFFICES ASSUME old.list # bucket PROVE FALSE
      OBVIOUS
    <3>2. lists[old.list] = <<>>
      BY <1>4, <3>1 DEF LooksEmpty
    <3>3. GuardsOf(lists[old.list]) # {}
      BY <1>2, <3>1 DEF FoundOK
    <3>4. QED BY <3>2, <3>3 DEF GuardsOf, HooksOf
  <2>3. InForce(old.tool) = "allow"
    BY <1>4, <2>2 DEF InForce
  <2>4. /\ new \in Runs /\ new.tool = old.tool /\ new.rest = <<>> /\ new.final = "allow"
    BY <1>2 DEF Running, Runs, Finding, Ruling
  <2>5. GuardsOf(<<>>) = {}
    BY DEF GuardsOf, HooksOf
  <2> HIDE DEF new
  <2>6. RunOK(e)'
    BY <1>1, <1>2, <2>1, <2>3, <2>4, <2>5 DEF RunOK
  <2>7. EvalOK(e)'
    BY <1>1, <1>2, <1>3, <2>1, <2>4, <2>6 DEF EvalOK, Runs
  <2>8. QED BY <1>1, <2>7, OwnStepKeeps
<1>5. CASE ~LooksEmpty(old.list)
  <2> DEFINE new == [old EXCEPT !.stage = "copy"]
  <2>1. eval'[e] = new
    BY <1>1, <1>5
  <2>2. new \in Finding /\ new.tool = old.tool /\ new.list = old.list
    BY <1>2 DEF Finding
  <2> HIDE DEF new
  <2>3. FoundOK(e)'
    BY <1>1, <1>2, <2>1, <2>2 DEF FoundOK, Retired, Said, Vetoes
  <2>4. EvalOK(e)'
    BY <1>1, <1>2, <1>3, <2>1, <2>2, <2>3 DEF EvalOK, Finding
  <2>5. QED BY <1>1, <2>4, OwnStepKeeps
<1>6. QED BY <1>4, <1>5

(* What is copied has no guard only when none is in force.                 *)
LEMMA CopyKeeps ==
  ASSUME HookInv, NEW e \in Evaluator, CopyHooks(e)
  PROVE  HookInv'
<1> DEFINE old == eval[e]
           list == lists[old.list]
           new == Running(old, list, "allow")
<1>1. /\ old.stage = "copy" /\ swap = NoSwap /\ eval' = [eval EXCEPT ![e] = new]
      /\ UNCHANGED <<lists, bucket, named, disabled, swap, moments, hookOps>>
      /\ DOMAIN eval = Evaluator /\ DOMAIN moments = Evaluator
      /\ HookTypeOK /\ EvalOK(e) /\ OneGuard
  BY DEF CopyHooks, HookInv, HookTypeOK
<1>2. /\ old \in Finding /\ InForce(old.tool) \in moments[e] /\ FoundOK(e)
      /\ old.tool \in GuardedTool /\ old.list \in DOMAIN lists
  BY <1>1 DEF EvalOK, Finding, Runs, Settled, NoEval
<1>3. list \in Seq(AnyHook)
  BY <1>1, <1>2 DEF HookTypeOK
<1>4. new \in Runs /\ new.tool = old.tool /\ new.rest = list /\ new.final = "allow"
  BY <1>2, <1>3 DEF Running, Runs, Finding, Ruling
<1> HIDE DEF new
<1>5. eval'[e] = new
  BY <1>1
<1>6. \A tool : InForce(tool)' = InForce(tool)
  BY <1>1 DEF InForce, LooksEmpty, Vetoes
<1>7. \A h : Retired(h, e) => Retired(h, e)'
  BY <1>1, <1>4, <1>5 DEF Retired, Said, Vetoes
<1>8. CASE old.list # bucket
  <2>1. PICK h \in AnyHook : GuardsOf(list) = {h} /\ Retired(h, e)
    BY <1>2, <1>8 DEF FoundOK
  <2>2. RunOK(e)'
    BY <1>1, <1>4, <1>5, <1>7, <2>1 DEF RunOK
  <2>3. EvalOK(e)'
    BY <1>1, <1>2, <1>4, <1>5, <1>6, <2>2 DEF EvalOK, Runs
  <2>4. QED BY <1>1, <2>3, OwnStepKeeps
<1>9. CASE old.list = bucket
  <2>1. GuardsOf(list) = {} => InForce(old.tool) = "allow"
    BY <1>1, <1>2, <1>9, InForceIs
  <2>2. \A h \in GuardsOf(list) : h.id = named
    BY <1>1, <1>9 DEF OneGuard, Guard
  <2>3. RunOK(e)'
    BY <1>1, <1>2, <1>4, <1>5, <1>9, <2>1, <2>2 DEF RunOK
  <2>4. EvalOK(e)'
    BY <1>1, <1>2, <1>4, <1>5, <1>6, <2>3 DEF EvalOK, Runs
  <2>5. QED BY <1>1, <2>4, OwnStepKeeps
<1>10. QED BY <1>8, <1>9

LEMMA RunKeeps ==
  ASSUME HookInv, NEW e \in Evaluator, RunHook(e)
  PROVE  HookInv'
<1> DEFINE old == eval[e]
           h == Head(old.rest)
           new == Running(old, Tail(old.rest), Outcome(old))
<1>1. /\ old.stage = "run" /\ old.rest # <<>> /\ eval' = [eval EXCEPT ![e] = new]
      /\ UNCHANGED <<lists, bucket, named, disabled, swap, moments, hookOps>>
      /\ DOMAIN eval = Evaluator /\ DOMAIN moments = Evaluator
      /\ HookTypeOK /\ EvalOK(e) /\ OneGuard
  BY DEF RunHook, HookInv, HookTypeOK
<1>2. /\ old \in Runs /\ InForce(old.tool) \in moments[e] /\ RunOK(e)
      /\ old.tool \in GuardedTool /\ old.rest \in Seq(AnyHook) /\ old.final \in Ruling
  BY <1>1 DEF EvalOK, Finding, Runs, Settled, NoEval
<1> DEFINE tail == Tail(old.rest)
<1>3. /\ h \in AnyHook /\ h \in HooksOf(old.rest) /\ tail \in Seq(AnyHook)
      /\ HooksOf(old.rest) = {h} \cup HooksOf(tail)
  <2>1. /\ h \in AnyHook /\ tail \in Seq(AnyHook) /\ old.rest = <<h>> \o tail /\ <<h>> \in Seq(AnyHook)
    BY <1>1, <1>2
  <2> DEFINE one == <<h>>
  <2>2. HooksOf(one) = {h}
    BY DEF HooksOf
  <2> HIDE DEF one, h, tail
  <2>3. HooksOf(one \o tail) = HooksOf(one) \cup HooksOf(tail)
    BY <2>1, JoinedHooks, ZenonT(40) DEF one
  <2>4. QED BY <2>1, <2>2, <2>3 DEF one
<1>4. Outcome(old) = IF Vetoes(h, old.tool) THEN "deny" ELSE old.final
  BY DEF Outcome
<1>5. /\ new \in Runs /\ new.tool = old.tool /\ new.rest = tail /\ new.final = Outcome(old)
  <2>1. Outcome(old) \in Ruling
    BY <1>2, <1>4 DEF Ruling
  <2>2. QED BY <1>2, <1>3, <2>1 DEF Running, Runs
<1> HIDE DEF new, h, tail
<1>6. eval'[e] = new
  BY <1>1
<1>7. \A tool : InForce(tool)' = InForce(tool)
  BY <1>1 DEF InForce, LooksEmpty, Vetoes
<1>8. \A g : Retired(g, e) => Retired(g, e)'
  BY <1>1, <1>5, <1>6 DEF Retired, Said, Vetoes
<1>9. GuardsOf(tail) \subseteq GuardsOf(old.rest) /\ (h.id # NoHook => h \in GuardsOf(old.rest))
  BY <1>3 DEF GuardsOf
<1>10. h.id # NoHook => Said(h, old.tool) \in moments[e]
  <2> SUFFICES ASSUME h.id # NoHook PROVE Said(h, old.tool) \in moments[e]
    OBVIOUS
  <2>1. Retired(h, e) \/ (h.id = named /\ swap = NoSwap /\ h \in GuardsOf(lists[bucket]))
    BY <1>2, <1>9 DEF RunOK
  <2>2. CASE Retired(h, e)
    BY <2>2 DEF Retired
  <2>3. CASE swap = NoSwap /\ h \in GuardsOf(lists[bucket])
    <3>1. GuardsOf(lists[bucket]) = {h}
      BY <1>1, <2>3 DEF OneGuard
    <3>2. QED BY <1>1, <1>2, <2>3, <3>1, InForceIs
  <2>4. QED BY <2>1, <2>2, <2>3
<1>11. h.id = NoHook => ~Vetoes(h, old.tool) /\ GuardsOf(tail) = GuardsOf(old.rest)
  BY <1>3 DEF AnyHook, Vetoes, GuardsOf
<1>12. Outcome(old) = "deny" => "deny" \in moments[e]
  BY <1>2, <1>4, <1>10, <1>11 DEF RunOK, Said
<1>13. Outcome(old) = "allow" /\ GuardsOf(tail) = {} => "allow" \in moments[e]
  BY <1>2, <1>4, <1>10, <1>11 DEF RunOK, Said
<1>14. RunOK(e)'
  <2>1. \A g \in GuardsOf(tail) :
          Retired(g, e)' \/ (g.id = named' /\ swap' = NoSwap /\ g \in GuardsOf(lists'[bucket']))
    BY <1>1, <1>2, <1>8, <1>9 DEF RunOK
  <2>2. QED BY <1>1, <1>5, <1>6, <1>12, <1>13, <2>1 DEF RunOK
<1>15. EvalOK(e)'
  BY <1>1, <1>2, <1>5, <1>6, <1>7, <1>14 DEF EvalOK, Runs
<1>16. QED BY <1>1, <1>15, OwnStepKeeps

LEMMA GateKeeps ==
  ASSUME HookInv, NEW e \in Evaluator, GateGuard(e)
  PROVE  HookInv'
<1> DEFINE old == eval[e]
           new == [stage |-> "done", before |-> old.decision,
                   answer |-> IF old.final = "deny" THEN "deny" ELSE old.decision]
<1>1. /\ old.stage = "run" /\ old.rest = <<>> /\ eval' = [eval EXCEPT ![e] = new]
      /\ UNCHANGED <<lists, bucket, named, disabled, swap, moments, hookOps>>
      /\ DOMAIN eval = Evaluator /\ DOMAIN moments = Evaluator /\ EvalOK(e)
  BY DEF GateGuard, HookInv, HookTypeOK
<1>2. old \in Runs /\ RunOK(e) /\ old.final \in Ruling /\ old.decision \in Ruling
  BY <1>1 DEF EvalOK, Finding, Runs, Settled, NoEval
<1>3. GuardsOf(old.rest) = {}
  BY <1>1 DEF GuardsOf, HooksOf
<1>4. old.final \in moments[e]
  BY <1>2, <1>3 DEF RunOK, Ruling
<1>5. new \in Settled /\ IF new.before = "deny" THEN new.answer = "deny" ELSE new.answer \in moments[e]
  BY <1>2, <1>4 DEF Settled, Ruling
<1> HIDE DEF new
<1>6. eval'[e] = new
  BY <1>1
<1>7. EvalOK(e)'
  BY <1>1, <1>5, <1>6 DEF EvalOK, Settled
<1>8. QED BY <1>1, <1>7, OwnStepKeeps

LEMMA HookStep ==
  ASSUME HookInv, [HookNext]_hookVars
  PROVE  HookInv'
<1>1. CASE \E tools \in SUBSET GuardedTool : ReplaceGuard(tools)
  BY <1>1, ReplaceKeeps
<1>2. CASE AppendGuard
  BY <1>2, AppendGuardKeeps
<1>3. CASE SortHooks
  BY <1>3, SortKeeps
<1>4. CASE RemoveGuard
  BY <1>4, RemoveKeeps
<1>5. CASE \E enabled \in BOOLEAN : SetEnabled(enabled)
  BY <1>5, SwitchKeeps
<1>6. CASE \E e \in Evaluator, tool \in GuardedTool, d \in {"allow", "deny"} : FindHooks(e, tool, d)
  BY <1>6, FindKeeps DEF Ruling
<1>7. CASE \E e \in Evaluator : TestEmpty(e)
  BY <1>7, TestKeeps
<1>8. CASE \E e \in Evaluator : CopyHooks(e)
  BY <1>8, CopyKeeps
<1>9. CASE \E e \in Evaluator : RunHook(e)
  BY <1>9, RunKeeps
<1>10. CASE \E e \in Evaluator : GateGuard(e)
  BY <1>10, GateKeeps
<1>11. CASE UNCHANGED hookVars
  <2>1. UNCHANGED <<lists, bucket, named, disabled, swap, eval, moments, hookOps>>
    BY <1>11 DEF hookVars
  <2>2. HookTypeOK' /\ OneGuard'
    BY <2>1 DEF HookInv, HookTypeOK, OneGuard
  <2>3. ASSUME NEW e \in Evaluator PROVE EvalOK(e)'
    BY <2>1 DEF HookInv, EvalOK, Finding, FoundOK, RunOK, Retired, Said, Vetoes, InForce, LooksEmpty
  <2>4. QED BY <2>2, <2>3 DEF HookInv
<1>12. QED
  BY <1>1, <1>2, <1>3, <1>4, <1>5, <1>6, <1>7, <1>8, <1>9, <1>10, <1>11 DEF HookNext

(* However many gates are evaluated while guards are replaced, removed and *)
(* switched: a gate that would let a call pass answers what the guard in   *)
(* force at some moment of its evaluation said, and a denial stays one     *)
(* (agent_hooks/manager.py, dispatch; radar/api.py, _gate_guard).          *)
THEOREM VerdictsAreOfAMoment == HookSpec => []VerdictOfAMoment
<1>1. HookInv => VerdictOfAMoment
  <2> SUFFICES ASSUME HookInv, NEW e \in Evaluator, eval[e].stage = "done"
               PROVE  IF eval[e].before = "deny" THEN eval[e].answer = "deny"
                      ELSE eval[e].answer \in moments[e]
    BY DEF VerdictOfAMoment
  <2>1. EvalOK(e)
    BY DEF HookInv
  <2>2. QED BY <2>1 DEF EvalOK, Finding, Runs, NoEval
<1>2. HookInv /\ [HookNext]_hookVars => HookInv'
  BY HookStep
<1>3. QED BY <1>1, <1>2, HookStart, PTL DEF HookSpec
=============================================================================
