----------------------------- MODULE LlmBudget ------------------------------
(***************************************************************************)
(* Token budgets (laminar/bridge.py, budget.py, ledger.py) and the gateway *)
(* every model call passes (radar/llm_gateway.py), for one agent: budgets, *)
(* windows and reservations of two agents share nothing but the lock.      *)
(*                                                                         *)
(* Gateway calls and execution events are coroutines of one event loop:    *)
(* each runs until it awaits. Tool calls are recorded, and the operator    *)
(* resets, on threads of the pool, which run between any two lock sections.*)
(***************************************************************************)
EXTENDS Naturals, FiniteSets

CONSTANTS
  Gateway,          (* model calls that may be in flight together           *)
  Reporter,         (* execution events, handled on the event loop          *)
  Recorder,         (* pool threads that record tool calls                  *)
  None,
  Budget,           (* budgets that may come to apply, in tokens            *)
  Estimates,        (* what a request may be estimated at; 0 when it cannot *)
  Usage,            (* tokens a call may turn out to have used              *)
  WarnPercent,      (* 100 * warn_ratio                                     *)
  ExhaustPercent,   (* 100 * (1 + OVERSHOOT_RATIO)                          *)
  Enforced,         (* levels that degrade the agent: ENFORCE_AT_WARN       *)
  Limit             (* bound on how often each event of Event happens       *)

Operator == "operator"
Meter == Gateway \cup Reporter \cup Recorder
Actor == Meter \cup {Operator}
Level == {"ok", "warn", "exhausted"}
Event == {"call", "report", "disturbance"}

ASSUME ActorAssumption ==
  /\ IsFiniteSet(Gateway)
  /\ Operator \notin Meter /\ None \notin Meter
  /\ Gateway \cap (Reporter \cup Recorder) = {} /\ Reporter \cap Recorder = {}
ASSUME TokenAssumption ==
  Budget \subseteq Nat \ {0} /\ Estimates \subseteq Nat /\ Usage \subseteq Nat
ASSUME RatioAssumption ==
  WarnPercent \in Nat /\ ExhaustPercent \in Nat \ {0} /\ WarnPercent <= ExhaustPercent
ASSUME EnforcedAssumption == Enforced \subseteq Level /\ "exhausted" \in Enforced
ASSUME LimitAssumption == Limit \in [Event -> Nat]

Judging == {"look", "judge", "swap", "breach"}
CallStage == {"idle", "wall", "body", "check", "upstream", "release", "pop"} \cup Judging

VARIABLES
  budget,           (* budget_for: what applies to the agent now            *)
  window,           (* tokens of its records inside the sliding window      *)
  inflight,         (* _inflight: tokens reserved                           *)
  last,             (* _last_state                                          *)
  loop,             (* the coroutine that runs, or None                     *)
  at,               (* where each actor is                                  *)
  est,              (* what a gateway call was estimated at                 *)
  seen,             (* the window or budget an actor has read               *)
  level,            (* the level an actor has found the agent at            *)
  breaches,         (* history: calls of on_breach                          *)
  unchecked,        (* history: tokens of the window no reservation covered *)
  cap,              (* history: 100 * what exhausts the largest budget yet  *)
  spent             (* how often each bounded event has happened            *)
budgetVars == <<budget, window, inflight, last, loop, at, est, seen, level,
          breaches, unchecked, cap, spent>>
locals == <<at, est, seen, level>>
history == <<breaches, unchecked, cap>>

Smaller(m, n) == IF m < n THEN m ELSE n
Larger(m, n) == IF m < n THEN n ELSE m

Spend(event) ==
  /\ spent[event] < Limit[event]
  /\ spent' = [spent EXCEPT ![event] = @ + 1]

(* budget.evaluate and budget.project: their ratios, in percent.           *)
Evaluate(used, tokens) ==
  IF 100 * used >= ExhaustPercent * tokens THEN "exhausted"
  ELSE IF 100 * used >= WarnPercent * tokens THEN "warn" ELSE "ok"

Order == [l \in Level |-> CASE l = "ok" -> 0 [] l = "warn" -> 1 [] OTHER -> 2]

OnLoop(o) == o \notin Recorder
Resume(o) == IF OnLoop(o) THEN loop = None /\ loop' = o ELSE UNCHANGED loop
Yield(o) == loop' = IF loop = o THEN None ELSE loop
MoveTo(o, stage) == at' = [at EXCEPT ![o] = stage]
Forget(o) ==
  /\ MoveTo(o, "idle")
  /\ est' = [est EXCEPT ![o] = 0]
  /\ seen' = [seen EXCEPT ![o] = 0]
  /\ level' = [level EXCEPT ![o] = "ok"]
  /\ Yield(o)

BudgetInit ==
  /\ budget \in Budget
  /\ window = 0
  /\ inflight = 0
  /\ last = "ok"
  /\ loop = None
  /\ at = [o \in Actor |-> "idle"]
  /\ est = [o \in Actor |-> 0]
  /\ seen = [o \in Actor |-> 0]
  /\ level = [o \in Actor |-> "ok"]
  /\ breaches = 0
  /\ unchecked = 0
  /\ cap = ExhaustPercent * budget
  /\ spent = [event \in Event |-> 0]

-----------------------------------------------------------------------------
(* A call through the gateway (llm_gateway.proxy)                          *)

(* The hard wall: is_exhausted reads the window, then the budget.          *)
Arrive(c) ==
  /\ at[c] = "idle"
  /\ Spend("call")
  /\ Resume(c)
  /\ seen' = [seen EXCEPT ![c] = window]
  /\ MoveTo(c, "wall")
  /\ UNCHANGED <<budget, window, inflight, last, est, level, history>>

Wall(c) ==
  /\ at[c] = "wall"
  /\ \/ /\ Evaluate(seen[c], budget) = "exhausted"
        /\ Forget(c)
     \/ /\ Evaluate(seen[c], budget) # "exhausted"
        /\ MoveTo(c, "body")
        /\ seen' = [seen EXCEPT ![c] = 0]
        /\ Yield(c)
        /\ UNCHANGED <<est, level>>
  /\ UNCHANGED <<budget, window, inflight, last, spent, history>>

(* The body has arrived. What cannot be estimated is not checked.          *)
EstimateRequest(c) ==
  /\ at[c] = "body"
  /\ \E e \in Estimates :
       /\ est' = [est EXCEPT ![c] = e]
       /\ \/ /\ e = 0
             /\ loop = None
             /\ MoveTo(c, "upstream")
             /\ UNCHANGED <<seen, loop>>
          \/ /\ e > 0
             /\ Resume(c)
             /\ MoveTo(c, "check")
             /\ seen' = [seen EXCEPT ![c] = budget]
  /\ UNCHANGED <<budget, window, inflight, last, level, spent, history>>

(* Mutant: what other calls have reserved is not counted.                  *)
PreCheckAlone(c) ==
  LET projected == Evaluate(window + est[c], seen[c])
  IN /\ at[c] = "check"
     /\ \/ /\ projected = "exhausted"
           /\ Forget(c)
           /\ UNCHANGED inflight
        \/ /\ projected # "exhausted"
           /\ inflight' = inflight + est[c]
           /\ MoveTo(c, "upstream")
           /\ seen' = [seen EXCEPT ![c] = 0]
           /\ Yield(c)
           /\ UNCHANGED <<est, level>>
     /\ UNCHANGED <<budget, window, last, spent, history>>

(* pre_check: only the loop touches reservations, so nothing happens to    *)
(* them between its lock sections.                                         *)
PreCheck(c) ==
  LET projected == Evaluate(window + inflight + est[c], seen[c])
  IN /\ at[c] = "check"
     /\ \/ /\ projected = "exhausted"
           /\ Forget(c)
           /\ UNCHANGED inflight
        \/ /\ projected # "exhausted"
           /\ inflight' = inflight + est[c]
           /\ MoveTo(c, "upstream")
           /\ seen' = [seen EXCEPT ![c] = 0]
           /\ Yield(c)
           /\ UNCHANGED <<est, level>>
     /\ UNCHANGED <<budget, window, last, spent, history>>

(* The upstream model cannot be reached: 502, buffered or streamed.        *)
UpstreamFails(c) ==
  /\ at[c] = "upstream"
  /\ loop = None
  /\ Forget(c)
  /\ UNCHANGED <<budget, window, inflight, last, spent, history>>

(* LEDGER.record: the tokens join the window.                              *)
Record(o, n) ==
  /\ window' = window + n
  /\ unchecked' = unchecked + (IF n > est[o] THEN n - est[o] ELSE 0)
  /\ MoveTo(o, "look")

(* The response, or the end of the stream; one without usage is not        *)
(* recorded.                                                               *)
Answered(c) ==
  /\ at[c] = "upstream"
  /\ Resume(c)
  /\ \/ /\ 0 \in Usage
        /\ MoveTo(c, "release")
        /\ UNCHANGED <<window, unchecked>>
     \/ \E n \in Usage \ {0} : Record(c, n)
  /\ UNCHANGED <<budget, inflight, last, est, seen, level, spent, breaches, cap>>

(* Mutant: the agent's reservations are dropped, not the call's.           *)
ReleaseInflightAll(c) ==
  /\ at[c] = "release"
  /\ inflight' = 0
  /\ Forget(c)
  /\ UNCHANGED <<budget, window, last, spent, history>>

ReleaseInflight(c) ==
  /\ at[c] = "release"
  /\ inflight' = IF inflight > est[c] THEN inflight - est[c] ELSE 0
  /\ Forget(c)
  /\ UNCHANGED <<budget, window, last, spent, history>>

-----------------------------------------------------------------------------
(* Metering: record_usage, on_execution_event                              *)

(* Usage nobody asked for beforehand: an execution event, a tool call. An  *)
(* event without usage is not recorded, a tool call is.                    *)
Report(o) ==
  /\ at[o] = "idle"
  /\ Spend("report")
  /\ Resume(o)
  /\ \E n \in Usage : (n > 0 \/ o \in Recorder) /\ Record(o, n)
  /\ UNCHANGED <<budget, inflight, last, est, seen, level, breaches, cap>>

WindowUsage(o) ==
  /\ at[o] = "look"
  /\ seen' = [seen EXCEPT ![o] = window]
  /\ MoveTo(o, "judge")
  /\ UNCHANGED <<budget, window, inflight, last, loop, est, level, spent, history>>

Judge(o) ==
  /\ at[o] = "judge"
  /\ level' = [level EXCEPT ![o] = Evaluate(seen[o], budget)]
  /\ MoveTo(o, "swap")
  /\ UNCHANGED <<budget, window, inflight, last, loop, est, seen, spent, history>>

Metered(o) ==
  IF o \in Gateway
  THEN MoveTo(o, "release") /\ UNCHANGED <<loop, est, seen, level>>
  ELSE Forget(o)

(* Mutant: the level is stored first and compared with itself.             *)
SwapFirst(o) ==
  /\ at[o] = "swap"
  /\ last' = level[o]
  /\ \/ /\ Order[level[o]] > Order[last'] /\ level[o] \in Enforced
        /\ MoveTo(o, "breach")
        /\ UNCHANGED <<loop, est, seen, level>>
     \/ /\ ~(Order[level[o]] > Order[last'] /\ level[o] \in Enforced)
        /\ Metered(o)
  /\ UNCHANGED <<budget, window, inflight, spent, history>>

(* _handle_transition: the level replaces the last one, and only a step up *)
(* goes further.                                                           *)
Swap(o) ==
  /\ at[o] = "swap"
  /\ last' = level[o]
  /\ \/ /\ Order[level[o]] > Order[last] /\ level[o] \in Enforced
        /\ MoveTo(o, "breach")
        /\ UNCHANGED <<loop, est, seen, level>>
     \/ /\ ~(Order[level[o]] > Order[last] /\ level[o] \in Enforced)
        /\ Metered(o)
  /\ UNCHANGED <<budget, window, inflight, spent, history>>

OnBreach(o) ==
  /\ at[o] = "breach"
  /\ breaches' = breaches + 1
  /\ Metered(o)
  /\ UNCHANGED <<budget, window, inflight, last, spent, unchecked, cap>>

-----------------------------------------------------------------------------
(* The window, the operator, the process                                   *)

(* Records leave the window. How many of its tokens were unchecked is not  *)
(* known then: at most as many as before, and as there are.                *)
Shrink(w) ==
  /\ window' = w
  /\ unchecked' = Smaller(unchecked, w)

Age ==
  /\ Spend("disturbance")
  /\ \E w \in 0 .. window : w # window /\ Shrink(w)
  /\ UNCHANGED <<budget, inflight, last, loop, locals, breaches, cap>>

BudgetBecomes(b) ==
  /\ budget' = b
  /\ cap' = Larger(cap, ExhaustPercent * b)

(* set_budget, set_policy, and what the registry declares.                 *)
SetBudget ==
  /\ Spend("disturbance")
  /\ \E b \in Budget \ {budget} : BudgetBecomes(b)
  /\ UNCHANGED <<window, inflight, last, loop, locals, breaches, unchecked>>

(* reset_agent: the window, then the level.                                *)
ResetWindow ==
  /\ at[Operator] = "idle"
  /\ Spend("disturbance")
  /\ Shrink(0)
  /\ MoveTo(Operator, "pop")
  /\ UNCHANGED <<budget, inflight, last, loop, est, seen, level, breaches, cap>>

ResetState ==
  /\ at[Operator] = "pop"
  /\ last' = "ok"
  /\ MoveTo(Operator, "idle")
  /\ UNCHANGED <<budget, window, inflight, loop, est, seen, level, spent, history>>

(* The radar starts again, on what the ledger's file has kept of the       *)
(* window (_load_from_disk) and on the configured budget.                  *)
RestartLedger ==
  /\ Spend("disturbance")
  /\ \E w \in 0 .. window : Shrink(w)
  /\ \E b \in Budget : BudgetBecomes(b)
  /\ inflight' = 0
  /\ last' = "ok"
  /\ loop' = None
  /\ at' = [o \in Actor |-> "idle"]
  /\ est' = [o \in Actor |-> 0]
  /\ seen' = [o \in Actor |-> 0]
  /\ level' = [o \in Actor |-> "ok"]
  /\ UNCHANGED breaches

GatewayStep(c) ==
  \/ Arrive(c) \/ Wall(c) \/ EstimateRequest(c) \/ PreCheck(c)
  \/ UpstreamFails(c) \/ Answered(c) \/ ReleaseInflight(c)
MeterStep(o) == WindowUsage(o) \/ Judge(o) \/ Swap(o) \/ OnBreach(o)

BudgetNext ==
  \/ \E c \in Gateway : GatewayStep(c)
  \/ \E o \in Reporter \cup Recorder : Report(o)
  \/ \E o \in Meter : MeterStep(o)
  \/ Age \/ SetBudget \/ ResetWindow \/ ResetState \/ RestartLedger

BudgetSpec == BudgetInit /\ [][BudgetNext]_budgetVars

(***************************************************************************)
(* Properties                                                              *)
(***************************************************************************)
(* Counters, levels and what handlers hold have their types.               *)
BudgetTypeOK ==
  /\ budget \in Budget
  /\ window \in Nat /\ inflight \in Nat
  /\ last \in Level
  /\ loop \in Meter \cup {None}
  /\ at \in [Actor -> CallStage]
  /\ est \in [Actor -> Nat]
  /\ seen \in [Actor -> Nat]
  /\ level \in [Actor -> Level]
  /\ breaches \in Nat /\ unchecked \in Nat /\ cap \in Nat
  /\ spent \in [Event -> Nat]

(* The tokens reserved by calls that are not over, one by one.             *)
Holding == {c \in Gateway : at[c] \in Judging \cup {"upstream", "release"}}
Held == UNION {{c} \X (1 .. est[c]) : c \in Holding}

(* What a call has reserved stays reserved until the call itself is        *)
(* metered, whatever else is released, reset or recorded (_inflight:       *)
(* tokens reserved by in-flight requests).                                 *)
ReservationsKept == Cardinality(Held) <= inflight

(* Calls through the gateway never exhaust the agent, however many are in  *)
(* flight: beyond what was recorded without a reservation (reports, calls  *)
(* that could not be estimated, use above the estimate) the window stays   *)
(* below what exhausts the largest budget that applied (pre_check).        *)
SpendBounded == 100 * window < cap + 100 * unchecked

(* Until the window shrinks, the budget changes or the radar restarts, an  *)
(* agent over its budget with nothing being metered has been reported to   *)
(* on_breach, in whatever order the threads recorded and evaluated.        *)
ExhaustionReported ==
  /\ spent["disturbance"] = 0
  /\ Evaluate(window, budget) = "exhausted"
  /\ \A o \in Meter : at[o] \notin Judging
  => breaches > 0

(* With no call in progress nothing is reserved (bridge.pre_check: "Caller *)
(* MUST call release_inflight() after record_usage() to avoid permanently  *)
(* inflating the inflight counter").                                       *)
ReservationsReturned ==
  (\A c \in Gateway : at[c] = "idle") => inflight = 0
=============================================================================
