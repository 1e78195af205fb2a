---------------------------- MODULE BudgetProofs ----------------------------
(***************************************************************************)
(* Type correctness of LlmBudget, that no call loses its reservation, that *)
(* calls through the gateway never exhaust the agent, and that exhaustion  *)
(* is reported.                                                            *)
(***************************************************************************)
EXTENDS LlmBudget, FiniteSetTheorems, TLAPS

(***************************************************************************)
(* Types                                                                   *)
(***************************************************************************)
LEMMA Actors ==
  /\ Gateway \subseteq Meter /\ Reporter \subseteq Meter /\ Recorder \subseteq Meter
  /\ Meter \subseteq Actor /\ Operator \in Actor
  /\ None \notin Meter /\ Operator \notin Meter
  BY ActorAssumption DEF Meter, Actor

LEMMA EvaluateType ==
  ASSUME NEW used, NEW tokens
  PROVE  Evaluate(used, tokens) \in Level
  BY DEF Evaluate, Level

LEMMA SpendType ==
  ASSUME BudgetTypeOK, NEW event \in Event, Spend(event)
  PROVE  spent' \in [Event -> Nat]
  BY DEF BudgetTypeOK, Spend

LEMMA ForgetType ==
  ASSUME BudgetTypeOK, NEW o \in Meter, Forget(o)
  PROVE  /\ at' \in [Actor -> CallStage] /\ est' \in [Actor -> Nat]
         /\ seen' \in [Actor -> Nat] /\ level' \in [Actor -> Level]
         /\ loop' \in Meter \cup {None}
  BY Actors DEF BudgetTypeOK, Forget, MoveTo, Yield, CallStage, Level

LEMMA ResumeType ==
  ASSUME BudgetTypeOK, NEW o \in Meter, Resume(o)
  PROVE  loop' \in Meter \cup {None}
  BY DEF BudgetTypeOK, Resume

LEMMA GotoType ==
  ASSUME BudgetTypeOK, NEW o \in Actor, NEW stage \in CallStage, MoveTo(o, stage)
  PROVE  at' \in [Actor -> CallStage]
  BY DEF BudgetTypeOK, MoveTo

LEMMA RecordType ==
  ASSUME BudgetTypeOK, NEW o \in Meter, NEW n \in Usage, Record(o, n)
  PROVE  window' \in Nat /\ unchecked' \in Nat /\ at' \in [Actor -> CallStage]
<1>1. n \in Nat /\ est[o] \in Nat /\ window \in Nat /\ unchecked \in Nat
  BY TokenAssumption, Actors DEF BudgetTypeOK
<1>2. "look" \in CallStage
  BY DEF CallStage, Judging
<1>3. QED BY <1>1, <1>2, GotoType, Actors DEF Record

LEMMA ShrinkType ==
  ASSUME BudgetTypeOK, NEW w \in 0 .. window, Shrink(w)
  PROVE  window' \in Nat /\ unchecked' \in Nat
  BY DEF BudgetTypeOK, Shrink, Smaller

LEMMA BudgetType ==
  ASSUME BudgetTypeOK, NEW b \in Budget, BudgetBecomes(b)
  PROVE  budget' \in Budget /\ cap' \in Nat
<1>1. b \in Nat /\ ExhaustPercent \in Nat /\ cap \in Nat
  BY TokenAssumption, RatioAssumption DEF BudgetTypeOK
<1>2. ExhaustPercent * b \in Nat
  BY <1>1
<1>3. QED BY <1>1, <1>2 DEF BudgetBecomes, Larger

LEMMA TypeInit == BudgetInit => BudgetTypeOK
<1> SUFFICES ASSUME BudgetInit PROVE BudgetTypeOK
  OBVIOUS
<1>1. cap \in Nat
  <2>1. budget \in Nat /\ ExhaustPercent \in Nat
    BY TokenAssumption, RatioAssumption DEF BudgetInit
  <2>2. ExhaustPercent * budget \in Nat
    BY <2>1
  <2>3. QED BY <2>2 DEF BudgetInit
<1>2. QED BY <1>1 DEF BudgetInit, BudgetTypeOK, CallStage, Level

LEMMA TypeGateway ==
  ASSUME BudgetTypeOK, NEW c \in Gateway, GatewayStep(c)
  PROVE  BudgetTypeOK'
<1>1. c \in Meter /\ c \in Actor
  BY Actors
<1>2. CASE Arrive(c)
  <2>1. "wall" \in CallStage /\ "call" \in Event
    BY DEF CallStage, Event
  <2>2. QED BY <1>1, <1>2, <2>1, SpendType, ResumeType, GotoType DEF Arrive, BudgetTypeOK, history
<1>3. CASE Wall(c)
  <2>1. CASE Forget(c)
    BY <1>1, <1>3, <2>1, ForgetType DEF Wall, BudgetTypeOK, history
  <2>2. CASE ~Forget(c)
    BY <1>1, <1>3, <2>2 DEF Wall, BudgetTypeOK, history, MoveTo, Yield, CallStage
  <2>3. QED BY <2>1, <2>2
<1>4. CASE EstimateRequest(c)
  BY <1>1, <1>4, TokenAssumption
  DEF EstimateRequest, BudgetTypeOK, history, MoveTo, Resume, CallStage
<1>5. CASE PreCheck(c)
  <2>1. CASE Forget(c) /\ UNCHANGED inflight
    BY <1>1, <1>5, <2>1, ForgetType DEF PreCheck, BudgetTypeOK, history
  <2>2. CASE ~(Forget(c) /\ UNCHANGED inflight)
    BY <1>1, <1>5, <2>2 DEF PreCheck, BudgetTypeOK, history, MoveTo, Yield, CallStage
  <2>3. QED BY <2>1, <2>2
<1>6. CASE UpstreamFails(c)
  BY <1>1, <1>6, ForgetType DEF UpstreamFails, BudgetTypeOK, history
<1>7. CASE Answered(c)
  <2>1. CASE \E n \in Usage \ {0} : Record(c, n)
    BY <1>1, <1>7, <2>1, RecordType, ResumeType DEF Answered, BudgetTypeOK
  <2>2. CASE MoveTo(c, "release") /\ UNCHANGED <<window, unchecked>>
    BY <1>1, <1>7, <2>2, ResumeType DEF Answered, BudgetTypeOK, MoveTo, CallStage
  <2>3. QED BY <1>7, <2>1, <2>2 DEF Answered
<1>8. CASE ReleaseInflight(c)
  BY <1>1, <1>8, ForgetType DEF ReleaseInflight, BudgetTypeOK, history
<1>9. QED BY <1>2, <1>3, <1>4, <1>5, <1>6, <1>7, <1>8 DEF GatewayStep

LEMMA MeteredType ==
  ASSUME BudgetTypeOK, NEW o \in Meter, Metered(o)
  PROVE  /\ at' \in [Actor -> CallStage] /\ est' \in [Actor -> Nat]
         /\ seen' \in [Actor -> Nat] /\ level' \in [Actor -> Level]
         /\ loop' \in Meter \cup {None}
<1>1. CASE o \in Gateway
  BY <1>1, Actors DEF Metered, BudgetTypeOK, MoveTo, CallStage
<1>2. CASE o \notin Gateway
  BY <1>2, ForgetType DEF Metered
<1>3. QED BY <1>1, <1>2

LEMMA TypeMeter ==
  ASSUME BudgetTypeOK, NEW o \in Meter, MeterStep(o)
  PROVE  BudgetTypeOK'
<1>1. o \in Actor
  BY Actors
<1>2. CASE WindowUsage(o)
  BY <1>1, <1>2 DEF WindowUsage, BudgetTypeOK, history, MoveTo, CallStage, Judging
<1>3. CASE Judge(o)
  BY <1>1, <1>3, EvaluateType DEF Judge, BudgetTypeOK, history, MoveTo, CallStage, Judging
<1>4. CASE Swap(o)
  <2>1. level[o] \in Level
    BY <1>1 DEF BudgetTypeOK
  <2>2. CASE Metered(o)
    BY <1>4, <2>1, <2>2, MeteredType DEF Swap, BudgetTypeOK, history
  <2>3. CASE MoveTo(o, "breach") /\ UNCHANGED <<loop, est, seen, level>>
    BY <1>1, <1>4, <2>1, <2>3 DEF Swap, BudgetTypeOK, history, MoveTo, CallStage, Judging
  <2>4. QED BY <1>4, <2>2, <2>3 DEF Swap
<1>5. CASE OnBreach(o)
  BY <1>5, MeteredType DEF OnBreach, BudgetTypeOK
<1>6. QED BY <1>2, <1>3, <1>4, <1>5 DEF MeterStep

LEMMA TypeStep ==
  ASSUME BudgetTypeOK, [BudgetNext]_budgetVars
  PROVE  BudgetTypeOK'
<1>1. ASSUME NEW o \in Reporter \cup Recorder, Report(o)
      PROVE  BudgetTypeOK'
  <2>1. o \in Meter /\ "report" \in Event
    BY Actors DEF Event
  <2>2. QED BY <1>1, <2>1, RecordType, ResumeType, SpendType DEF Report, BudgetTypeOK
<1>2. "disturbance" \in Event /\ window \in Nat
  BY DEF Event, BudgetTypeOK
<1>3. CASE Age
  BY <1>2, <1>3, ShrinkType, SpendType DEF Age, BudgetTypeOK, locals
<1>4. CASE SetBudget
  BY <1>2, <1>4, BudgetType, SpendType DEF SetBudget, BudgetTypeOK, locals
<1>5. CASE ResetWindow
  <2>1. "pop" \in CallStage
    BY DEF CallStage
  <2>2. QED BY <1>2, <1>5, <2>1, ShrinkType, SpendType, GotoType, Actors DEF ResetWindow, BudgetTypeOK
<1>6. CASE ResetState
  <2>1. "idle" \in CallStage /\ "ok" \in Level
    BY DEF CallStage, Level
  <2>2. QED BY <1>6, <2>1, GotoType, Actors DEF ResetState, BudgetTypeOK, history
<1>7. CASE RestartLedger
  <2>1. window' \in Nat /\ unchecked' \in Nat /\ budget' \in Budget /\ cap' \in Nat
    BY <1>7, ShrinkType, BudgetType DEF RestartLedger
  <2>2. "idle" \in CallStage /\ "ok" \in Level
    BY DEF CallStage, Level
  <2>3. QED BY <1>2, <1>7, <2>1, <2>2, SpendType DEF RestartLedger, BudgetTypeOK
<1>8. CASE UNCHANGED budgetVars
  BY <1>8 DEF budgetVars, BudgetTypeOK
<1>9. QED
  BY <1>1, <1>3, <1>4, <1>5, <1>6, <1>7, <1>8, TypeGateway, TypeMeter DEF BudgetNext

(* For any calls, threads, budgets and estimates, the state has its types. *)
THEOREM TypeCorrect == BudgetSpec => []BudgetTypeOK
<1>1. BudgetInit => BudgetTypeOK
  BY TypeInit
<1>2. BudgetTypeOK /\ [BudgetNext]_budgetVars => BudgetTypeOK'
  BY TypeStep
<1>3. QED BY <1>1, <1>2, PTL DEF BudgetSpec

(***************************************************************************)
(* Counting reserved tokens                                                *)
(***************************************************************************)
HoldingStage == Judging \cup {"upstream", "release"}
HoldingBy(a) == {c \in Gateway : a[c] \in HoldingStage}
Units(S, e) == UNION {{c} \X (1 .. e[c]) : c \in S}
HeldBy(a, e) == Units(HoldingBy(a), e)
Own(a, e, c) == IF a[c] \in HoldingStage THEN e[c] ELSE 0

LEMMA HeldAt == Held = HeldBy(at, est)
  BY DEF Held, Holding, HeldBy, HoldingBy, HoldingStage, Units

LEMMA UnitsOf ==
  ASSUME NEW c, NEW n \in Nat
  PROVE  IsFiniteSet({c} \X (1 .. n)) /\ Cardinality({c} \X (1 .. n)) = n
<1>1. IsFiniteSet({c}) /\ Cardinality({c}) = 1
  BY FS_Singleton
<1>2. IsFiniteSet(1 .. n) /\ Cardinality(1 .. n) = n
  BY FS_Interval
<1>3. /\ IsFiniteSet({c} \X (1 .. n))
      /\ Cardinality({c} \X (1 .. n)) = Cardinality({c}) * Cardinality(1 .. n)
  BY <1>1, <1>2, FS_Product
<1>4. 1 * n = n
  OBVIOUS
<1>5. QED BY <1>1, <1>2, <1>3, <1>4

LEMMA UnitsFinite ==
  ASSUME NEW S \in SUBSET Gateway, NEW e, \A c \in Gateway : e[c] \in Nat
  PROVE  IsFiniteSet(Units(S, e)) /\ Cardinality(Units(S, e)) \in Nat
<1> DEFINE f == [c \in S |-> {c} \X (1 .. e[c])]
<1> DEFINE T == {f[c] : c \in S}
<1>1. IsFiniteSet(S)
  BY ActorAssumption, FS_Subset
<1>2. f \in Surjection(S, T)
  BY DEF Surjection
<1>3. \A U \in T : IsFiniteSet(U)
  <2>1. ASSUME NEW c \in S
        PROVE  IsFiniteSet(f[c])
    <3>1. e[c] \in Nat
      OBVIOUS
    <3>2. f[c] = {c} \X (1 .. e[c])
      OBVIOUS
    <3>3. IsFiniteSet({c} \X (1 .. e[c]))
      BY <3>1, UnitsOf
    <3>4. QED BY <3>2, <3>3
  <2>2. \A U \in T : \E c \in S : U = f[c]
    OBVIOUS
  <2>3. QED BY <2>1, <2>2
<1>4. Units(S, e) = UNION T
  <2>1. \A x : x \in Units(S, e) <=> \E c \in S : x \in {c} \X (1 .. e[c])
    BY DEF Units
  <2>2. \A x : x \in UNION T <=> \E c \in S : x \in f[c]
    BY Zenon
  <2>3. \A c \in S : f[c] = {c} \X (1 .. e[c])
    OBVIOUS
  <2> HIDE DEF T, f
  <2>4. QED BY <2>1, <2>2, <2>3
<1> HIDE DEF T, f
<1>5. IsFiniteSet(T)
  BY <1>1, <1>2, FS_Surjection
<1>6. IsFiniteSet(UNION T)
  BY <1>3, <1>5, FS_UNION
<1>7. QED BY <1>4, <1>6, FS_CardinalityType

(* What one call holds and what the others hold.                           *)
LEMMA HeldSplit ==
  ASSUME NEW a, NEW e, \A d \in Gateway : e[d] \in Nat, NEW c \in Gateway
  PROVE  /\ Cardinality(Units(HoldingBy(a) \ {c}, e)) \in Nat
         /\ Cardinality(HeldBy(a, e)) \in Nat
         /\ Cardinality(HeldBy(a, e)) =
              Cardinality(Units(HoldingBy(a) \ {c}, e)) + Own(a, e, c)
<1> DEFINE rest == Units(HoldingBy(a) \ {c}, e)
<1>1. IsFiniteSet(rest) /\ Cardinality(rest) \in Nat
  <2>1. HoldingBy(a) \ {c} \in SUBSET Gateway
    BY DEF HoldingBy
  <2> HIDE DEF rest
  <2>2. \A S \in SUBSET Gateway : IsFiniteSet(Units(S, e)) /\ Cardinality(Units(S, e)) \in Nat
    BY UnitsFinite
  <2>3. QED BY <2>1, <2>2 DEF rest
<1>2. CASE a[c] \in HoldingStage
  <2> DEFINE own == {c} \X (1 .. e[c])
  <2>1. HeldBy(a, e) = rest \cup own
    BY <1>2 DEF HeldBy, HoldingBy, Units
  <2>2. rest \cap own = {}
    BY DEF Units
  <2>3. IsFiniteSet(own) /\ Cardinality(own) = e[c] /\ e[c] \in Nat
    BY UnitsOf
  <2>4. Own(a, e, c) = e[c]
    BY <1>2 DEF Own
  <2>5. Cardinality({}) = 0
    BY FS_EmptySet
  <2> HIDE DEF own, rest
  <2>6. Cardinality(rest \cup own) = Cardinality(rest) + Cardinality(own) - Cardinality({})
    BY <1>1, <2>2, <2>3, FS_Union
  <2>7. Cardinality(HeldBy(a, e)) = Cardinality(rest) + Own(a, e, c)
    BY <1>1, <2>1, <2>3, <2>4, <2>5, <2>6
  <2>8. QED BY <1>1, <2>3, <2>4, <2>7 DEF rest
<1>3. CASE a[c] \notin HoldingStage
  <2>1. HoldingBy(a) \ {c} = HoldingBy(a)
    BY <1>3 DEF HoldingBy
  <2>2. HeldBy(a, e) = rest
    BY <2>1 DEF HeldBy
  <2>3. Own(a, e, c) = 0
    BY <1>3 DEF Own
  <2> HIDE DEF rest
  <2>4. Cardinality(HeldBy(a, e)) = Cardinality(rest) + Own(a, e, c)
    BY <1>1, <2>2, <2>3
  <2>5. QED BY <1>1, <2>2, <2>4 DEF rest
<1>4. QED BY <1>2, <1>3

LEMMA UnitsSame ==
  ASSUME NEW S, NEW e, NEW g, \A c \in S : g[c] = e[c]
  PROVE  Units(S, g) = Units(S, e)
  BY DEF Units

(* A step of one call changes what is held by what that call holds.        *)
LEMMA HeldChange ==
  ASSUME NEW a, NEW e, NEW b, NEW g, NEW c \in Gateway,
         \A d \in Gateway : e[d] \in Nat /\ g[d] \in Nat,
         \A d \in Gateway \ {c} : b[d] = a[d] /\ g[d] = e[d]
  PROVE  /\ Cardinality(HeldBy(a, e)) \in Nat /\ Cardinality(HeldBy(b, g)) \in Nat
         /\ Cardinality(HeldBy(b, g)) + Own(a, e, c) = Cardinality(HeldBy(a, e)) + Own(b, g, c)
<1>1. HoldingBy(b) \ {c} = HoldingBy(a) \ {c}
  BY DEF HoldingBy
<1>2. \A d \in HoldingBy(a) \ {c} : g[d] = e[d]
  BY DEF HoldingBy
<1>3. Units(HoldingBy(b) \ {c}, g) = Units(HoldingBy(a) \ {c}, e)
  BY <1>1, <1>2, UnitsSame
<1>4. /\ Cardinality(Units(HoldingBy(a) \ {c}, e)) \in Nat
      /\ Cardinality(HeldBy(a, e)) \in Nat
      /\ Cardinality(HeldBy(a, e)) =
           Cardinality(Units(HoldingBy(a) \ {c}, e)) + Own(a, e, c)
  BY HeldSplit
<1>5. /\ Cardinality(HeldBy(b, g)) \in Nat
      /\ Cardinality(HeldBy(b, g)) =
           Cardinality(Units(HoldingBy(b) \ {c}, g)) + Own(b, g, c)
  BY HeldSplit
<1>6. Own(a, e, c) \in Nat /\ Own(b, g, c) \in Nat
  BY DEF Own
<1>7. QED BY <1>3, <1>4, <1>5, <1>6

LEMMA HeldSame ==
  ASSUME NEW a, NEW e, NEW b, NEW g,
         \A d \in Gateway : g[d] = e[d] /\ (b[d] \in HoldingStage <=> a[d] \in HoldingStage)
  PROVE  HeldBy(b, g) = HeldBy(a, e)
<1>1. HoldingBy(b) = HoldingBy(a)
  BY DEF HoldingBy
<1>2. \A d \in HoldingBy(a) : g[d] = e[d]
  BY DEF HoldingBy
<1>3. QED BY <1>1, <1>2, UnitsSame DEF HeldBy

(***************************************************************************)
(* Who runs, and what the estimates and the largest budget say             *)
(***************************************************************************)
OnLoopStage == {"wall", "check", "release"} \cup Judging

(* A coroutine between two awaits is the one the loop runs.                *)
LoopInv == \A o \in Meter : at[o] \in OnLoopStage /\ o \notin Recorder => loop = o
EstInv == \A o \in Meter : o \notin Gateway => est[o] = 0

LEMMA LoopStep ==
  ASSUME BudgetTypeOK, LoopInv, EstInv, [BudgetNext]_budgetVars
  PROVE  LoopInv' /\ EstInv'
<1> USE ActorAssumption DEF OnLoopStage, Judging
<1>1. ASSUME NEW c \in Gateway, GatewayStep(c)
      PROVE  LoopInv' /\ EstInv'
  <2>1. c \in Meter /\ c \in Actor /\ c \notin Recorder
    BY Actors
  <2>2. CASE Arrive(c)
    BY <2>1, <2>2, Actors DEF Arrive, BudgetTypeOK, LoopInv, EstInv, MoveTo, Resume, OnLoop, history
  <2>3. CASE Wall(c)
    BY <2>1, <2>3, Actors DEF Wall, BudgetTypeOK, LoopInv, EstInv, MoveTo, Forget, Yield, history
  <2>4. CASE EstimateRequest(c)
    BY <2>1, <2>4, Actors DEF EstimateRequest, BudgetTypeOK, LoopInv, EstInv, MoveTo, Resume, OnLoop, history
  <2>5. CASE PreCheck(c)
    BY <2>1, <2>5, Actors DEF PreCheck, BudgetTypeOK, LoopInv, EstInv, MoveTo, Forget, Yield, history
  <2>6. CASE UpstreamFails(c)
    BY <2>1, <2>6, Actors DEF UpstreamFails, BudgetTypeOK, LoopInv, EstInv, MoveTo, Forget, Yield, history
  <2>7. CASE Answered(c)
    BY <2>1, <2>7, Actors DEF Answered, BudgetTypeOK, LoopInv, EstInv, MoveTo, Resume, OnLoop, Record
  <2>8. CASE ReleaseInflight(c)
    BY <2>1, <2>8, Actors DEF ReleaseInflight, BudgetTypeOK, LoopInv, EstInv, MoveTo, Forget, Yield, history
  <2>9. QED BY <1>1, <2>2, <2>3, <2>4, <2>5, <2>6, <2>7, <2>8 DEF GatewayStep
<1>2. ASSUME NEW o \in Meter, MeterStep(o)
      PROVE  LoopInv' /\ EstInv'
  <2>1. o \in Actor
    BY Actors
  <2>2. CASE WindowUsage(o)
    BY <2>1, <2>2, Actors DEF WindowUsage, BudgetTypeOK, LoopInv, EstInv, MoveTo, history
  <2>3. CASE Judge(o)
    BY <2>1, <2>3, Actors DEF Judge, BudgetTypeOK, LoopInv, EstInv, MoveTo, history
  <2>4. CASE Swap(o)
    BY <2>1, <2>4, Actors DEF Swap, Metered, BudgetTypeOK, LoopInv, EstInv, MoveTo, Forget, Yield, history
  <2>5. CASE OnBreach(o)
    BY <2>1, <2>5, Actors DEF OnBreach, Metered, BudgetTypeOK, LoopInv, EstInv, MoveTo, Forget, Yield
  <2>6. QED BY <1>2, <2>2, <2>3, <2>4, <2>5 DEF MeterStep
<1>3. ASSUME NEW o \in Reporter \cup Recorder, Report(o)
      PROVE  LoopInv' /\ EstInv'
  <2>1. o \in Meter /\ o \in Actor
    BY Actors
  <2>2. QED BY <1>3, <2>1, Actors DEF Report, BudgetTypeOK, LoopInv, EstInv, MoveTo, Resume, OnLoop, Record
<1>4. CASE Age \/ SetBudget
  BY <1>4 DEF Age, SetBudget, locals, LoopInv, EstInv
<1>5. CASE ResetWindow \/ ResetState
  BY <1>5, Actors DEF ResetWindow, ResetState, MoveTo, BudgetTypeOK, LoopInv, EstInv
<1>6. CASE RestartLedger
  BY <1>6, Actors DEF RestartLedger, LoopInv, EstInv
<1>7. CASE UNCHANGED budgetVars
  BY <1>7 DEF budgetVars, LoopInv, EstInv
<1>8. QED
  BY <1>1, <1>2, <1>3, <1>4, <1>5, <1>6, <1>7 DEF BudgetNext

(* cap bounds whatever budget applies or was read by a call to be checked. *)
CapInv ==
  /\ ExhaustPercent * budget <= cap
  /\ \A c \in Gateway : at[c] = "check" => ExhaustPercent * seen[c] <= cap

LEMMA CapGrows ==
  ASSUME BudgetTypeOK, CapInv, NEW b \in Budget, BudgetBecomes(b)
  PROVE  /\ cap \in Nat /\ cap' \in Nat /\ cap <= cap'
         /\ ExhaustPercent * budget' <= cap'
<1>1. b \in Nat /\ ExhaustPercent \in Nat /\ cap \in Nat
  BY TokenAssumption, RatioAssumption DEF BudgetTypeOK
<1>2. ExhaustPercent * b \in Nat
  BY <1>1
<1>3. QED BY <1>1, <1>2 DEF BudgetBecomes, Larger

LEMMA CapStep ==
  ASSUME BudgetTypeOK, CapInv, [BudgetNext]_budgetVars
  PROVE  CapInv'
<1> DEFINE Product(n) == ExhaustPercent * n
<1>1. \A n \in Nat : Product(n) \in Nat
  BY RatioAssumption
<1>2. ASSUME UNCHANGED <<budget, cap>>,
             \A c \in Gateway : at'[c] = "check" =>
                \/ at[c] = "check" /\ seen'[c] = seen[c]
                \/ seen'[c] = budget
      PROVE  CapInv'
  BY <1>2 DEF CapInv
<1>3. ASSUME NEW c \in Gateway, GatewayStep(c)
      PROVE  CapInv'
  <2>1. c \in Meter /\ c \in Actor
    BY Actors
  <2>2. CASE Arrive(c)
    BY <1>2, <2>1, <2>2, Actors DEF Arrive, BudgetTypeOK, MoveTo, history
  <2>3. CASE Wall(c)
    BY <1>2, <2>1, <2>3, Actors DEF Wall, BudgetTypeOK, MoveTo, Forget, history
  <2>4. CASE EstimateRequest(c)
    BY <1>2, <2>1, <2>4, Actors DEF EstimateRequest, BudgetTypeOK, MoveTo, history
  <2>5. CASE PreCheck(c)
    BY <1>2, <2>1, <2>5, Actors DEF PreCheck, BudgetTypeOK, MoveTo, Forget, history
  <2>6. CASE UpstreamFails(c) \/ ReleaseInflight(c)
    BY <1>2, <2>1, <2>6, Actors DEF UpstreamFails, ReleaseInflight, BudgetTypeOK, MoveTo, Forget, history
  <2>7. CASE Answered(c)
    BY <1>2, <2>1, <2>7, Actors DEF Answered, BudgetTypeOK, MoveTo, Record
  <2>8. QED BY <1>3, <2>2, <2>3, <2>4, <2>5, <2>6, <2>7 DEF GatewayStep
<1>4. ASSUME NEW o \in Meter, MeterStep(o)
      PROVE  CapInv'
  <2>1. o \in Actor
    BY Actors
  <2>2. CASE WindowUsage(o) \/ Judge(o)
    BY <1>2, <2>1, <2>2, Actors DEF WindowUsage, Judge, BudgetTypeOK, MoveTo, history
  <2>3. CASE Swap(o)
    BY <1>2, <2>1, <2>3, Actors DEF Swap, Metered, BudgetTypeOK, MoveTo, Forget, history
  <2>4. CASE OnBreach(o)
    BY <1>2, <2>1, <2>4, Actors DEF OnBreach, Metered, BudgetTypeOK, MoveTo, Forget
  <2>5. QED BY <1>4, <2>2, <2>3, <2>4 DEF MeterStep
<1>5. ASSUME NEW o \in Reporter \cup Recorder, Report(o)
      PROVE  CapInv'
  <2>1. o \in Actor
    BY Actors
  <2>2. QED BY <1>2, <1>5, <2>1, Actors DEF Report, BudgetTypeOK, MoveTo, Record
<1>6. CASE Age \/ UNCHANGED budgetVars
  BY <1>2, <1>6 DEF Age, locals, budgetVars
<1>7. CASE SetBudget
  <2>1. /\ cap \in Nat /\ cap' \in Nat /\ cap <= cap'
        /\ ExhaustPercent * budget' <= cap'
    BY <1>7, CapGrows DEF SetBudget
  <2>2. \A c \in Gateway : at'[c] = "check" =>
          /\ Product(seen[c]) \in Nat /\ Product(seen[c]) <= cap
          /\ seen'[c] = seen[c]
    BY <1>1, <1>7, Actors DEF SetBudget, locals, CapInv, BudgetTypeOK
  <2>3. QED BY <2>1, <2>2 DEF CapInv
<1>8. CASE ResetWindow \/ ResetState
  BY <1>2, <1>8, Actors DEF ResetWindow, ResetState, BudgetTypeOK, MoveTo, history
<1>9. CASE RestartLedger
  <2>1. ExhaustPercent * budget' <= cap'
    BY <1>9, CapGrows DEF RestartLedger
  <2>2. QED BY <1>9, <2>1, Actors DEF RestartLedger, CapInv
<1>10. QED
  BY <1>3, <1>4, <1>5, <1>6, <1>7, <1>8, <1>9 DEF BudgetNext

(***************************************************************************)
(* Reservations                                                            *)
(***************************************************************************)
HeldNow == Cardinality(HeldBy(at, est))

(* Of a gateway call that is metered: what it gives back when it is over.  *)
Unreleased ==
  IF loop \in Gateway /\ at[loop] \in Judging \cup {"release"} THEN est[loop] ELSE 0

LEMMA EstNat ==
  ASSUME BudgetTypeOK
  PROVE  \A c \in Gateway : est[c] \in Nat
  BY Actors DEF BudgetTypeOK

LEMMA HeldNat ==
  ASSUME BudgetTypeOK
  PROVE  HeldNow \in Nat
<1>1. HoldingBy(at) \in SUBSET Gateway
  BY DEF HoldingBy
<1>2. \A S \in SUBSET Gateway : Cardinality(Units(S, est)) \in Nat
  BY EstNat, UnitsFinite
<1>3. QED BY <1>1, <1>2 DEF HeldNow, HeldBy

LEMMA OwnHeld ==
  ASSUME BudgetTypeOK, NEW c \in Gateway
  PROVE  Own(at, est, c) <= HeldNow
<1>1. \A d \in Gateway : est[d] \in Nat
  BY EstNat
<1>2. /\ Cardinality(Units(HoldingBy(at) \ {c}, est)) \in Nat
      /\ HeldNow = Cardinality(Units(HoldingBy(at) \ {c}, est)) + Own(at, est, c)
  BY <1>1, HeldSplit DEF HeldNow
<1>3. Own(at, est, c) \in Nat
  BY <1>1 DEF Own
<1>4. QED BY <1>2, <1>3

LEMMA UnreleasedHeld ==
  ASSUME BudgetTypeOK
  PROVE  Unreleased \in Nat /\ Unreleased <= HeldNow
<1>1. CASE loop \in Gateway /\ at[loop] \in Judging \cup {"release"}
  <2>1. Own(at, est, loop) = est[loop] /\ est[loop] \in Nat
    BY <1>1, EstNat DEF Own, HoldingStage
  <2>2. Own(at, est, loop) <= HeldNow
    BY <1>1, OwnHeld
  <2>3. QED BY <1>1, <2>1, <2>2 DEF Unreleased
<1>2. CASE ~(loop \in Gateway /\ at[loop] \in Judging \cup {"release"})
  BY <1>2, HeldNat DEF Unreleased
<1>3. QED BY <1>1, <1>2

LEMMA HeldNone ==
  ASSUME NEW a, \A c \in Gateway : a[c] = "idle", NEW e
  PROVE  Cardinality(HeldBy(a, e)) = 0
<1>1. HoldingBy(a) = {}
  BY DEF HoldingBy, HoldingStage, Judging
<1>2. HeldBy(a, e) = {}
  BY <1>1 DEF HeldBy, Units
<1>3. QED BY <1>2, FS_EmptySet

Kept == HeldNow <= inflight

(* What a gateway call's step does to what it holds.                       *)
LEMMA HeldByCall ==
  ASSUME BudgetTypeOK, NEW c \in Gateway,
         \A d \in Gateway : est'[d] \in Nat,
         \A d \in Gateway \ {c} : at'[d] = at[d] /\ est'[d] = est[d]
  PROVE  /\ HeldNow \in Nat /\ HeldNow' \in Nat
         /\ HeldNow' + Own(at, est, c) = HeldNow + Own(at', est', c)
  BY EstNat, HeldChange DEF HeldNow

LEMMA LeftOver ==
  ASSUME NEW h \in Nat, NEW k \in Nat, NEW a \in Nat, NEW b \in Nat,
         k + b = h + a, a <= b
  PROVE  k <= h
  OBVIOUS

LEMMA KeptGateway ==
  ASSUME BudgetTypeOK, BudgetTypeOK', Kept, NEW c \in Gateway, GatewayStep(c)
  PROVE  Kept'
<1> DEFINE before == Own(at, est, c)
           after == Own(at', est', c)
<1>1. c \in Actor /\ inflight \in Nat /\ inflight' \in Nat /\ est[c] \in Nat /\ est'[c] \in Nat
  BY Actors, EstNat DEF BudgetTypeOK
<1>2. \A d \in Gateway : est'[d] \in Nat
  BY Actors DEF BudgetTypeOK
<1>3. /\ \A d \in Gateway \ {c} : at'[d] = at[d] /\ est'[d] = est[d]
      /\ \/ after <= before /\ inflight' = inflight
         \/ after = before + est[c] /\ inflight' = inflight + est[c]
         \/ /\ after = 0 /\ before = est[c]
            /\ inflight' = IF inflight > est[c] THEN inflight - est[c] ELSE 0
  <2> USE Actors, <1>1 DEF BudgetTypeOK, MoveTo, Own, HoldingStage, Judging
  <2>1. CASE Arrive(c)
    BY <2>1 DEF Arrive
  <2>2. CASE Wall(c)
    BY <2>2 DEF Wall, Forget
  <2>3. CASE EstimateRequest(c)
    BY <2>3 DEF EstimateRequest
  <2>4. CASE PreCheck(c)
    BY <2>4 DEF PreCheck, Forget
  <2>5. CASE UpstreamFails(c)
    BY <2>5 DEF UpstreamFails, Forget
  <2>6. CASE Answered(c)
    BY <2>6 DEF Answered, Record
  <2>7. CASE ReleaseInflight(c)
    BY <2>7 DEF ReleaseInflight, Forget
  <2>8. QED BY <2>1, <2>2, <2>3, <2>4, <2>5, <2>6, <2>7 DEF GatewayStep
<1>4. /\ HeldNow \in Nat /\ HeldNow' \in Nat
      /\ HeldNow' + before = HeldNow + after
  BY <1>2, <1>3, HeldByCall
<1>5. before <= HeldNow
  BY OwnHeld
<1>6. before \in Nat /\ after \in Nat
  BY <1>1 DEF Own
<1> HIDE DEF before, after
<1>7. HeldNow <= inflight
  BY DEF Kept
<1>8. CASE after <= before /\ inflight' = inflight
  <2>1. HeldNow' <= HeldNow
    BY <1>4, <1>6, <1>8, LeftOver
  <2>2. QED BY <1>1, <1>4, <1>7, <1>8, <2>1 DEF Kept
<1>9. CASE after = before + est[c] /\ inflight' = inflight + est[c]
  <2>1. HeldNow' = HeldNow + est[c]
    BY <1>1, <1>4, <1>6, <1>9
  <2>2. QED BY <1>1, <1>4, <1>7, <1>9, <2>1 DEF Kept
<1>10. CASE /\ after = 0 /\ before = est[c]
            /\ inflight' = IF inflight > est[c] THEN inflight - est[c] ELSE 0
  <2>1. HeldNow' = HeldNow - est[c]
    BY <1>1, <1>4, <1>6, <1>10
  <2>2. inflight' = inflight - est[c]
    BY <1>1, <1>4, <1>5, <1>7, <1>10
  <2>3. QED BY <1>1, <1>4, <1>7, <2>1, <2>2 DEF Kept
<1>11. QED BY <1>3, <1>8, <1>9, <1>10

LEMMA HeldUnmoved ==
  ASSUME \A d \in Gateway :
           est'[d] = est[d] /\ (at'[d] \in HoldingStage <=> at[d] \in HoldingStage)
  PROVE  HeldNow' = HeldNow
<1>1. HeldBy(at', est') = HeldBy(at, est)
  BY HeldSame
<1>2. QED BY <1>1 DEF HeldNow

LEMMA KeptStep ==
  ASSUME BudgetTypeOK, BudgetTypeOK', Kept, [BudgetNext]_budgetVars
  PROVE  Kept'
<1> USE ActorAssumption DEF HoldingStage, Judging
<1>1. ASSUME UNCHANGED inflight,
             \A d \in Gateway :
               est'[d] = est[d] /\ (at'[d] \in HoldingStage <=> at[d] \in HoldingStage)
      PROVE  Kept'
  <2>1. HeldNow' = HeldNow
    BY <1>1, HeldUnmoved
  <2>2. QED BY <1>1, <2>1 DEF Kept
<1>2. ASSUME NEW o \in Meter, MeterStep(o)
      PROVE  Kept'
  <2>1. o \in Actor
    BY Actors
  <2>2. CASE WindowUsage(o) \/ Judge(o)
    BY <1>1, <2>1, <2>2, Actors DEF WindowUsage, Judge, BudgetTypeOK, MoveTo, history
  <2>3. CASE Swap(o)
    BY <1>1, <2>1, <2>3, Actors DEF Swap, Metered, BudgetTypeOK, MoveTo, Forget, history
  <2>4. CASE OnBreach(o)
    BY <1>1, <2>1, <2>4, Actors DEF OnBreach, Metered, BudgetTypeOK, MoveTo, Forget
  <2>5. QED BY <1>2, <2>2, <2>3, <2>4 DEF MeterStep
<1>3. ASSUME NEW o \in Reporter \cup Recorder, Report(o)
      PROVE  Kept'
  <2>1. o \in Actor
    BY Actors
  <2>2. QED BY <1>1, <1>3, <2>1, Actors DEF Report, BudgetTypeOK, MoveTo, Record
<1>4. CASE Age \/ SetBudget \/ UNCHANGED budgetVars
  BY <1>1, <1>4 DEF Age, SetBudget, locals, budgetVars
<1>5. CASE ResetWindow \/ ResetState
  BY <1>1, <1>5, Actors DEF ResetWindow, ResetState, BudgetTypeOK, MoveTo, history
<1>6. CASE RestartLedger
  <2>1. \A c \in Gateway : at'[c] = "idle"
    BY <1>6, Actors DEF RestartLedger
  <2>2. HeldNow' = 0
    BY <2>1, HeldNone DEF HeldNow
  <2>3. QED BY <1>6, <2>2 DEF RestartLedger, Kept
<1>7. QED
  BY <1>2, <1>3, <1>4, <1>5, <1>6, KeptGateway DEF BudgetNext

LEMMA KeptInit == BudgetInit => Kept
<1> SUFFICES ASSUME BudgetInit PROVE Kept
  OBVIOUS
<1>1. \A c \in Gateway : at[c] = "idle"
  BY Actors DEF BudgetInit
<1>2. HeldNow = 0
  BY <1>1, HeldNone DEF HeldNow
<1>3. QED BY <1>2 DEF BudgetInit, Kept

(* For any calls, threads and estimates: what a call has reserved stays    *)
(* reserved until the call itself has been metered.                        *)
THEOREM ReservationsStay == BudgetSpec => []ReservationsKept
<1>1. BudgetInit => BudgetTypeOK /\ Kept
  BY TypeInit, KeptInit
<1>2. BudgetTypeOK /\ Kept /\ [BudgetNext]_budgetVars => BudgetTypeOK' /\ Kept'
  BY TypeStep, KeptStep
<1>3. Kept => ReservationsKept
  BY HeldAt DEF Kept, HeldNow, ReservationsKept
<1>4. QED BY <1>1, <1>2, <1>3, PTL DEF BudgetSpec

(***************************************************************************)
(* The budget                                                              *)
(***************************************************************************)
(* What is reserved leaves room below the largest budget, and so does the  *)
(* window with it: of a call that is metered both count, until it is over. *)
Room ==
  /\ 100 * inflight < cap
  /\ 100 * (window + inflight) < cap + 100 * unchecked + 100 * Unreleased

SpendInv == BudgetTypeOK /\ LoopInv /\ EstInv /\ CapInv /\ Kept /\ Room

LEMMA Numbers ==
  ASSUME BudgetTypeOK
  PROVE  /\ window \in Nat /\ inflight \in Nat /\ unchecked \in Nat /\ cap \in Nat
         /\ Unreleased \in Nat
  BY UnreleasedHeld DEF BudgetTypeOK

LEMMA RoomInit == BudgetInit => LoopInv /\ EstInv /\ CapInv /\ Room
<1> SUFFICES ASSUME BudgetInit PROVE LoopInv /\ EstInv /\ CapInv /\ Room
  OBVIOUS
<1>1. LoopInv /\ EstInv
  BY Actors DEF BudgetInit, LoopInv, EstInv, OnLoopStage, Judging
<1>2. budget \in Nat \ {0} /\ ExhaustPercent \in Nat \ {0}
  BY TokenAssumption, RatioAssumption DEF BudgetInit
<1>3. ExhaustPercent * budget \in Nat /\ 0 < ExhaustPercent * budget
  BY <1>2
<1>4. CapInv
  BY <1>3, Actors DEF BudgetInit, CapInv
<1>5. Unreleased = 0
  BY ActorAssumption DEF BudgetInit, Unreleased, Meter
<1>6. Room
  BY <1>3, <1>5 DEF BudgetInit, Room
<1>7. QED BY <1>1, <1>4, <1>6

LEMMA ExhaustedBelow ==
  ASSUME NEW used, NEW tokens, Evaluate(used, tokens) # "exhausted"
  PROVE  ~(100 * used >= ExhaustPercent * tokens)
  BY DEF Evaluate

LEMMA RoomShrink ==
  ASSUME BudgetTypeOK, Room, NEW w \in 0 .. window, Shrink(w), cap' \in Nat, cap <= cap',
         \/ inflight' = inflight /\ Unreleased' = Unreleased
         \/ inflight' = 0 /\ Unreleased' = 0 /\ Unreleased <= inflight
  PROVE  Room'
<1>1. /\ window' = w /\ w \in Nat /\ w <= window
      /\ unchecked' = (IF unchecked < w THEN unchecked ELSE w)
  BY Numbers DEF Shrink, Smaller
<1>2. QED BY <1>1, Numbers DEF Room

LEMMA RoomGateway ==
  ASSUME SpendInv, BudgetTypeOK', NEW c \in Gateway, GatewayStep(c)
  PROVE  Room'
<1> USE DEF SpendInv
<1>1. c \in Meter /\ c \in Actor /\ c # None /\ c \notin Recorder /\ None \notin Gateway
  BY Actors, ActorAssumption
<1>2. /\ window \in Nat /\ inflight \in Nat /\ unchecked \in Nat /\ cap \in Nat
      /\ est[c] \in Nat /\ Unreleased \in Nat
  BY Numbers, EstNat
<1>3. loop = None => Unreleased = 0
  BY <1>1 DEF Unreleased
<1>4. ASSUME UNCHANGED <<window, inflight, unchecked, cap>>,
             Unreleased = 0, Unreleased' = 0
      PROVE  Room'
  BY <1>4 DEF Room
<1>5. CASE Arrive(c)
  <2>1. loop = None /\ loop' = c /\ at'[c] = "wall"
    BY <1>1, <1>5 DEF Arrive, Resume, OnLoop, MoveTo, BudgetTypeOK
  <2>2. Unreleased' = 0
    BY <2>1 DEF Unreleased, Judging
  <2>3. QED BY <1>3, <1>4, <1>5, <2>1, <2>2 DEF Arrive, history
<1>6. CASE Wall(c)
  <2>1. loop = c
    BY <1>1, <1>6 DEF Wall, LoopInv, OnLoopStage
  <2>2. Unreleased = 0
    BY <1>6, <2>1 DEF Wall, Unreleased, Judging
  <2>3. loop' = None
    BY <1>6, <2>1 DEF Wall, Forget, Yield
  <2>4. Unreleased' = 0
    BY <1>1, <2>3 DEF Unreleased
  <2>5. QED BY <1>4, <1>6, <2>2, <2>4 DEF Wall, history
<1>7. CASE EstimateRequest(c)
  <2>1. loop = None /\ (loop' = None \/ (loop' = c /\ at'[c] = "check"))
    BY <1>1, <1>7 DEF EstimateRequest, Resume, OnLoop, MoveTo, BudgetTypeOK
  <2>2. Unreleased' = 0
    BY <1>1, <2>1 DEF Unreleased, Judging
  <2>3. QED BY <1>3, <1>4, <1>7, <2>1, <2>2 DEF EstimateRequest, history
<1>8. CASE PreCheck(c)
  <2>1. loop = c /\ at[c] = "check"
    BY <1>1, <1>8 DEF PreCheck, LoopInv, OnLoopStage
  <2>2. Unreleased = 0
    BY <2>1 DEF Unreleased, Judging
  <2>3. loop' = None
    BY <1>8, <2>1 DEF PreCheck, Forget, Yield
  <2>4. Unreleased' = 0
    BY <1>1, <2>3 DEF Unreleased
  <2>5. CASE UNCHANGED inflight
    BY <1>4, <1>8, <2>2, <2>4, <2>5 DEF PreCheck, history
  <2>6. CASE inflight' # inflight
    <3>1. /\ Evaluate(window + inflight + est[c], seen[c]) # "exhausted"
          /\ inflight' = inflight + est[c]
          /\ UNCHANGED <<window, unchecked, cap>>
      BY <1>8, <2>6 DEF PreCheck, history
    <3>2. ~(100 * (window + inflight + est[c]) >= ExhaustPercent * seen[c])
      BY <3>1, ExhaustedBelow
    <3>3. ExhaustPercent * seen[c] <= cap
      BY <2>1 DEF CapInv
    <3>4. seen[c] \in Nat
      BY <1>1 DEF BudgetTypeOK
    <3>5. ExhaustPercent * seen[c] \in Nat
      BY <3>4, RatioAssumption
    <3>6. 100 * (window + inflight + est[c]) < cap
      BY <1>2, <3>2, <3>3, <3>5
    <3>7. QED BY <1>2, <2>4, <3>1, <3>6 DEF Room
  <2>7. QED BY <2>5, <2>6
<1>9. CASE UpstreamFails(c)
  <2>1. loop = None /\ loop' = None
    BY <1>9 DEF UpstreamFails, Forget, Yield
  <2>2. Unreleased' = 0
    BY <1>1, <2>1 DEF Unreleased
  <2>3. QED BY <1>3, <1>4, <1>9, <2>1, <2>2 DEF UpstreamFails, history
<1>10. CASE Answered(c)
  <2>1. loop = None /\ loop' = c
    BY <1>1, <1>10 DEF Answered, Resume, OnLoop
  <2>2. est'[c] = est[c] /\ at'[c] \in {"look", "release"}
    BY <1>1, <1>10 DEF Answered, Record, MoveTo, BudgetTypeOK
  <2>3. Unreleased' = est[c]
    BY <2>1, <2>2 DEF Unreleased, Judging
  <2>4. \E n \in Usage :
          /\ window' = window + n
          /\ unchecked' = unchecked + (IF n > est[c] THEN n - est[c] ELSE 0)
    <3>1. CASE 0 \in Usage /\ UNCHANGED <<window, unchecked>>
      BY <1>2, <3>1
    <3>2. CASE ~(0 \in Usage /\ UNCHANGED <<window, unchecked>>)
      BY <1>10, <3>2 DEF Answered, Record
    <3>3. QED BY <3>1, <3>2
  <2>5. PICK n \in Usage :
          /\ window' = window + n
          /\ unchecked' = unchecked + (IF n > est[c] THEN n - est[c] ELSE 0)
    BY <2>4
  <2>6. n \in Nat
    BY TokenAssumption
  <2>7. UNCHANGED <<inflight, cap>>
    BY <1>10 DEF Answered
  <2>8. QED BY <1>2, <1>3, <2>1, <2>3, <2>5, <2>6, <2>7 DEF Room
<1>11. CASE ReleaseInflight(c)
  <2>1. loop = c /\ at[c] = "release"
    BY <1>1, <1>11 DEF ReleaseInflight, LoopInv, OnLoopStage
  <2>2. Unreleased = est[c]
    BY <2>1 DEF Unreleased
  <2>3. est[c] <= inflight
    BY <1>2, <2>2, HeldNat, UnreleasedHeld DEF Kept
  <2>4. loop' = None
    BY <1>11, <2>1 DEF ReleaseInflight, Forget, Yield
  <2>5. Unreleased' = 0
    BY <1>1, <2>4 DEF Unreleased
  <2>6. /\ inflight' = (IF inflight > est[c] THEN inflight - est[c] ELSE 0)
        /\ UNCHANGED <<window, unchecked, cap>>
    BY <1>11 DEF ReleaseInflight, history
  <2>7. QED BY <1>2, <2>2, <2>3, <2>5, <2>6 DEF Room
<1>12. QED
  BY <1>5, <1>6, <1>7, <1>8, <1>9, <1>10, <1>11 DEF GatewayStep

LEMMA RoomStep ==
  ASSUME SpendInv, BudgetTypeOK', [BudgetNext]_budgetVars
  PROVE  Room'
<1> USE DEF SpendInv
<1>1. /\ window \in Nat /\ inflight \in Nat /\ unchecked \in Nat /\ cap \in Nat
      /\ Unreleased \in Nat /\ Unreleased <= inflight
  BY Numbers, UnreleasedHeld, HeldNat DEF Kept
<1>2. None \notin Gateway
  BY ActorAssumption DEF Meter
<1>3. ASSUME UNCHANGED <<window, inflight, unchecked>>, cap' \in Nat, cap <= cap',
             Unreleased' = Unreleased
      PROVE  Room'
  <2>1. /\ 100 * inflight < cap
        /\ 100 * (window + inflight) < cap + 100 * unchecked + 100 * Unreleased
    BY DEF Room
  <2>2. /\ 100 * inflight < cap'
        /\ 100 * (window + inflight) < cap' + 100 * unchecked + 100 * Unreleased
    <3>1. Unreleased \in Nat /\ cap \in Nat
      BY ONLY <1>1
    <3>2. 100 * Unreleased \in Nat
      BY ONLY <3>1
    <3>3. 100 * unchecked \in Nat /\ window + inflight \in Nat
      BY ONLY <1>1
    <3>4. cap' \in Nat /\ cap <= cap'
      BY ONLY <1>3
    <3>5. cap + 100 * unchecked + 100 * Unreleased <= cap' + 100 * unchecked + 100 * Unreleased
      BY ONLY <3>1, <3>2, <3>3, <3>4
    <3>6. 100 * inflight < cap'
      BY ONLY <1>1, <2>1, <3>4
    <3>7. QED BY ONLY <2>1, <3>1, <3>2, <3>3, <3>4, <3>5, <3>6
  <2>3. window' = window /\ inflight' = inflight /\ unchecked' = unchecked
    BY <1>3
  <2>4. QED BY ONLY <1>3, <2>2, <2>3 DEF Room
<1>4. ASSUME NEW o \in Meter, MeterStep(o)
      PROVE  Room'
  <2>1. o \in Actor
    BY Actors
  <2>2. UNCHANGED <<window, inflight, unchecked, cap>>
    BY <1>4 DEF MeterStep, WindowUsage, Judge, Swap, OnBreach, history
  <2>3. CASE o \in Gateway
    <3>1. loop = o /\ at[o] \in Judging /\ o \notin Recorder
      BY <1>4, <2>3, ActorAssumption
      DEF MeterStep, WindowUsage, Judge, Swap, OnBreach, LoopInv, OnLoopStage, Judging
    <3>2. loop' = loop /\ est' = est /\ at'[o] \in Judging \cup {"release"}
      BY <1>4, <2>1, <2>3
      DEF MeterStep, WindowUsage, Judge, Swap, OnBreach, Metered, MoveTo, BudgetTypeOK, Judging
    <3>3. Unreleased' = Unreleased
      BY <2>3, <3>1, <3>2 DEF Unreleased
    <3>4. QED BY <1>1, <1>3, <2>2, <3>3
  <2>4. CASE o \notin Gateway
    <3>1. /\ loop' = loop \/ (loop = o /\ loop' = None)
          /\ \A c \in Gateway : at'[c] = at[c] /\ est'[c] = est[c]
      BY <1>4, <2>1, <2>4, Actors
      DEF MeterStep, WindowUsage, Judge, Swap, OnBreach, Metered, Forget, Yield, MoveTo, BudgetTypeOK
    <3>2. Unreleased' = Unreleased
      BY <1>2, <2>4, <3>1 DEF Unreleased
    <3>3. QED BY <1>1, <1>3, <2>2, <3>2
  <2>5. QED BY <2>3, <2>4
<1>5. ASSUME NEW o \in Reporter \cup Recorder, Report(o)
      PROVE  Room'
  <2>1. o \in Meter /\ o \in Actor /\ o \notin Gateway
    BY Actors, ActorAssumption
  <2>2. est[o] = 0
    BY <2>1 DEF EstInv
  <2>3. PICK n \in Usage :
          /\ window' = window + n
          /\ unchecked' = unchecked + (IF n > est[o] THEN n - est[o] ELSE 0)
    BY <1>5 DEF Report, Record
  <2>4. n \in Nat
    BY TokenAssumption
  <2>5. UNCHANGED <<inflight, cap>>
    BY <1>5 DEF Report
  <2>6. /\ loop' = loop \/ (loop = None /\ loop' = o)
        /\ \A c \in Gateway : at'[c] = at[c] /\ est'[c] = est[c]
    BY <1>5, <2>1, Actors DEF Report, Record, Resume, MoveTo, BudgetTypeOK
  <2>7. Unreleased' = Unreleased
    BY <1>2, <2>1, <2>6 DEF Unreleased
  <2>8. QED BY <1>1, <2>2, <2>3, <2>4, <2>5, <2>7 DEF Room
<1>6. CASE Age
  <2>1. PICK w \in 0 .. window : Shrink(w)
    BY <1>6 DEF Age
  <2>2. UNCHANGED <<inflight, cap, loop, at, est>>
    BY <1>6 DEF Age, locals
  <2>3. Unreleased' = Unreleased
    BY <2>2 DEF Unreleased
  <2>4. QED BY <1>1, <2>1, <2>2, <2>3, RoomShrink
<1>7. CASE SetBudget
  <2>1. cap' \in Nat /\ cap <= cap'
    BY <1>7, CapGrows DEF SetBudget
  <2>2. UNCHANGED <<window, inflight, unchecked, loop, at, est>>
    BY <1>7 DEF SetBudget, locals
  <2>3. Unreleased' = Unreleased
    BY <2>2 DEF Unreleased
  <2>4. QED BY <1>3, <2>1, <2>2, <2>3
<1>8. CASE ResetWindow
  <2>1. 0 \in 0 .. window /\ Shrink(0) /\ UNCHANGED <<inflight, cap, loop, est>>
    BY <1>1, <1>8 DEF ResetWindow
  <2>2. \A c \in Gateway : at'[c] = at[c]
    BY <1>8, Actors DEF ResetWindow, MoveTo, BudgetTypeOK
  <2>3. Unreleased' = Unreleased
    BY <2>1, <2>2 DEF Unreleased
  <2>4. QED BY <1>1, <2>1, <2>3, RoomShrink
<1>9. CASE ResetState
  <2>1. UNCHANGED <<window, inflight, unchecked, cap, loop, est>>
    BY <1>9 DEF ResetState, history
  <2>2. \A c \in Gateway : at'[c] = at[c]
    BY <1>9, Actors DEF ResetState, MoveTo, BudgetTypeOK
  <2>3. Unreleased' = Unreleased
    BY <2>1, <2>2 DEF Unreleased
  <2>4. QED BY <1>1, <1>3, <2>1, <2>3
<1>10. CASE RestartLedger
  <2>1. PICK w \in 0 .. window : Shrink(w)
    BY <1>10 DEF RestartLedger
  <2>2. cap' \in Nat /\ cap <= cap'
    BY <1>10, CapGrows DEF RestartLedger
  <2>3. inflight' = 0 /\ loop' = None
    BY <1>10 DEF RestartLedger
  <2>4. Unreleased' = 0
    BY <1>2, <2>3 DEF Unreleased
  <2>5. QED BY <1>1, <2>1, <2>2, <2>3, <2>4, RoomShrink
<1>11. CASE UNCHANGED budgetVars
  <2>1. Unreleased' = Unreleased
    BY <1>11 DEF budgetVars, Unreleased
  <2>2. QED BY <1>1, <1>3, <1>11, <2>1 DEF budgetVars
<1>12. QED
  BY <1>4, <1>5, <1>6, <1>7, <1>8, <1>9, <1>10, <1>11, RoomGateway DEF BudgetNext

(* For any number of calls in flight and any estimates: what passed the    *)
(* check never exhausts the agent.                                         *)
THEOREM GatewayWithinBudget == BudgetSpec => []SpendBounded
<1>1. BudgetInit => SpendInv
  BY TypeInit, KeptInit, RoomInit DEF SpendInv
<1>2. SpendInv /\ [BudgetNext]_budgetVars => SpendInv'
  <2> SUFFICES ASSUME SpendInv, [BudgetNext]_budgetVars PROVE SpendInv'
    OBVIOUS
  <2>1. BudgetTypeOK'
    BY TypeStep DEF SpendInv
  <2>2. Room'
    BY <2>1, RoomStep
  <2>3. LoopInv' /\ EstInv' /\ CapInv' /\ Kept'
    BY <2>1, LoopStep, CapStep, KeptStep DEF SpendInv
  <2>4. QED BY <2>1, <2>2, <2>3 DEF SpendInv
<1>3. SpendInv => SpendBounded
  <2> SUFFICES ASSUME SpendInv PROVE SpendBounded
    OBVIOUS
  <2>1. Unreleased <= inflight
    BY UnreleasedHeld, HeldNat, Numbers DEF SpendInv, Kept
  <2>2. QED BY <2>1, Numbers DEF SpendInv, Room, SpendBounded
<1>4. QED BY <1>1, <1>2, <1>3, PTL DEF BudgetSpec

(***************************************************************************)
(* Exhaustion is reported                                                  *)
(***************************************************************************)
(* An actor that has the agent's exhaustion still before it.               *)
Pending(o) ==
  \/ at[o] \in {"look", "breach"}
  \/ at[o] = "judge" /\ Evaluate(seen[o], budget) = "exhausted"
  \/ at[o] = "swap" /\ level[o] = "exhausted"

Quiet == spent["disturbance"] = 0

Coming ==
  /\ at[Operator] # "pop"
  /\ (Evaluate(window, budget) = "exhausted" /\ breaches = 0) => \E o \in Meter : Pending(o)
  /\ (last = "exhausted" /\ breaches = 0) => \E o \in Meter : at[o] = "breach"

Reported == Quiet => Coming

LEMMA QuietBefore ==
  ASSUME BudgetTypeOK, [BudgetNext]_budgetVars, Quiet'
  PROVE  /\ Quiet
         /\ ~Age /\ ~SetBudget /\ ~ResetWindow /\ ~RestartLedger
<1>1. spent["disturbance"] \in Nat /\ "disturbance" \in Event
  BY DEF BudgetTypeOK, Event
<1>2. ~Spend("disturbance")
  BY <1>1 DEF Spend, Quiet, BudgetTypeOK
<1>3. ~Age /\ ~SetBudget /\ ~ResetWindow /\ ~RestartLedger
  BY <1>2 DEF Age, SetBudget, ResetWindow, RestartLedger
<1>4. UNCHANGED spent \/ Spend("call") \/ Spend("report")
  BY <1>3
  DEF BudgetNext, GatewayStep, MeterStep, Arrive, Wall, EstimateRequest, PreCheck, UpstreamFails,
      Answered, ReleaseInflight, Report, WindowUsage, Judge, Swap, OnBreach, ResetState, budgetVars
<1>5. spent'["disturbance"] = spent["disturbance"]
  BY <1>1, <1>4 DEF Spend, BudgetTypeOK
<1>6. QED BY <1>3, <1>5 DEF Quiet

(* A step of an actor that has nothing before it, and leaves the window.   *)
LEMMA ComingUnmoved ==
  ASSUME Coming, UNCHANGED <<budget, window, last, breaches>>,
         NEW c, at[c] \notin Judging,
         \A o \in Actor \ {c} : at'[o] = at[o] /\ seen'[o] = seen[o] /\ level'[o] = level[o],
         Operator # c
  PROVE  Coming'
<1>1. \A o \in Meter : Pending(o) => Pending(o)'
  BY Actors DEF Pending, Judging
<1>2. \A o \in Meter : at[o] = "breach" => at'[o] = "breach"
  BY Actors DEF Judging
<1>3. QED BY <1>1, <1>2, Actors DEF Coming

(* Whoever has recorded looks at the window next.                          *)
LEMMA ComingRecorded ==
  ASSUME BudgetTypeOK, Coming, NEW c \in Meter, at[c] \notin Judging, NEW n, Record(c, n),
         UNCHANGED <<last, breaches>>
  PROVE  Coming'
<1>1. at' = [at EXCEPT ![c] = "look"]
  BY DEF Record, MoveTo
<1>2. at'[c] = "look" /\ \A o \in Actor \ {c} : at'[o] = at[o]
  BY <1>1, Actors DEF BudgetTypeOK
<1>3. Pending(c)'
  BY <1>2 DEF Pending
<1>4. \A o \in Meter : at[o] = "breach" => at'[o] = "breach"
  BY <1>2, Actors DEF Judging
<1>5. QED BY <1>2, <1>3, <1>4, Actors DEF Coming

LEMMA ComingGateway ==
  ASSUME BudgetTypeOK, Coming, NEW c \in Gateway, GatewayStep(c)
  PROVE  Coming'
<1>1. c \in Meter /\ c \in Actor /\ c # Operator
  BY Actors
<1>2. at[c] \notin Judging
  BY DEF GatewayStep, Arrive, Wall, EstimateRequest, PreCheck, UpstreamFails, Answered,
         ReleaseInflight, Judging
<1>3. ASSUME UNCHANGED <<budget, window, last, breaches>>,
             \A o \in Actor \ {c} :
               at'[o] = at[o] /\ seen'[o] = seen[o] /\ level'[o] = level[o]
      PROVE  Coming'
  BY <1>1, <1>2, <1>3, ComingUnmoved
<1>4. CASE \E n \in Usage \ {0} : Record(c, n) /\ Answered(c)
  BY <1>1, <1>2, <1>4, ComingRecorded DEF Answered
<1>5. CASE ~ \E n \in Usage \ {0} : Record(c, n) /\ Answered(c)
  <2>1. UNCHANGED <<budget, window, last, breaches>>
    BY <1>5
    DEF GatewayStep, Arrive, Wall, EstimateRequest, PreCheck, UpstreamFails, Answered,
        ReleaseInflight, history
  <2>2. \A o \in Actor \ {c} :
          at'[o] = at[o] /\ seen'[o] = seen[o] /\ level'[o] = level[o]
    BY <1>1, <1>5
    DEF GatewayStep, Arrive, Wall, EstimateRequest, PreCheck, UpstreamFails, Answered,
        ReleaseInflight, MoveTo, Forget, BudgetTypeOK
  <2>3. QED BY <1>3, <2>1, <2>2
<1>6. QED BY <1>4, <1>5

LEMMA ComingMeter ==
  ASSUME BudgetTypeOK, Coming, NEW o \in Meter, MeterStep(o)
  PROVE  Coming'
<1>1. o \in Actor /\ o # Operator
  BY Actors
<1>2. \A p \in Actor \ {o} : at'[p] = at[p] /\ seen'[p] = seen[p] /\ level'[p] = level[p]
  BY <1>1
  DEF MeterStep, WindowUsage, Judge, Swap, OnBreach, Metered, MoveTo, Forget, BudgetTypeOK
<1>3. UNCHANGED <<budget, window>>
  BY DEF MeterStep, WindowUsage, Judge, Swap, OnBreach
<1>4. \A p \in Meter \ {o} : (Pending(p) => Pending(p)') /\ (at[p] = "breach" => at'[p] = "breach")
  BY <1>2, <1>3, Actors DEF Pending
<1>5. at'[Operator] # "pop"
  BY <1>1, <1>2, Actors DEF Coming
<1>6. CASE WindowUsage(o)
  <2>1. at[o] = "look" /\ at'[o] = "judge" /\ seen'[o] = window
    BY <1>1, <1>6 DEF WindowUsage, MoveTo, BudgetTypeOK
  <2>2. Evaluate(window, budget) = "exhausted" => Pending(o)'
    BY <1>3, <2>1 DEF Pending
  <2>3. UNCHANGED <<last, breaches>>
    BY <1>6 DEF WindowUsage, history
  <2>4. QED BY <1>3, <1>4, <1>5, <2>1, <2>2, <2>3 DEF Coming
<1>7. CASE Judge(o)
  <2>1. at[o] = "judge" /\ at'[o] = "swap" /\ level'[o] = Evaluate(seen[o], budget)
    BY <1>1, <1>7 DEF Judge, MoveTo, BudgetTypeOK
  <2>2. Pending(o) => Pending(o)'
    BY <2>1 DEF Pending
  <2>3. UNCHANGED <<last, breaches>>
    BY <1>7 DEF Judge, history
  <2>4. QED BY <1>3, <1>4, <1>5, <2>1, <2>2, <2>3 DEF Coming
<1>8. CASE Swap(o)
  <2>1. at[o] = "swap" /\ last' = level[o] /\ UNCHANGED breaches
    BY <1>8 DEF Swap, history
  <2>2. level[o] = "exhausted" /\ last # "exhausted" => at'[o] = "breach"
    <3> SUFFICES ASSUME level[o] = "exhausted", last # "exhausted"
                 PROVE  at'[o] = "breach"
      OBVIOUS
    <3>1. Order["exhausted"] = 2 /\ Order[last] \in {0, 1}
      BY DEF Order, Level, BudgetTypeOK
    <3>2. Order[level[o]] > Order[last] /\ level[o] \in Enforced
      BY <3>1, EnforcedAssumption
    <3>3. QED BY <1>1, <1>8, <3>2 DEF Swap, MoveTo, BudgetTypeOK
  <2>3. CASE level[o] = "exhausted" /\ last # "exhausted"
    <3>1. Pending(o)'
      BY <2>2, <2>3 DEF Pending
    <3>2. QED BY <1>5, <2>2, <2>3, <3>1 DEF Coming
  <2>4. CASE level[o] = "exhausted" /\ last = "exhausted"
    <3>1. breaches = 0 => \E p \in Meter \ {o} : at[p] = "breach"
      BY <2>1, <2>4 DEF Coming
    <3>2. breaches = 0 => \E p \in Meter : at'[p] = "breach"
      BY <1>4, <3>1
    <3>3. \A p \in Meter : at'[p] = "breach" => Pending(p)'
      BY DEF Pending
    <3>4. QED BY <1>5, <2>1, <3>2, <3>3 DEF Coming
  <2>5. CASE level[o] # "exhausted"
    <3>1. ~Pending(o)
      BY <2>1, <2>5 DEF Pending
    <3>2. QED BY <1>3, <1>4, <1>5, <2>1, <2>5, <3>1 DEF Coming
  <2>6. QED BY <2>3, <2>4, <2>5
<1>9. CASE OnBreach(o)
  <2>1. breaches \in Nat /\ breaches' = breaches + 1
    BY <1>9 DEF OnBreach, BudgetTypeOK
  <2>2. QED BY <1>5, <2>1 DEF Coming
<1>10. QED BY <1>6, <1>7, <1>8, <1>9 DEF MeterStep

LEMMA ReportedStep ==
  ASSUME BudgetTypeOK, Reported, [BudgetNext]_budgetVars
  PROVE  Reported'
<1> SUFFICES ASSUME Quiet' PROVE Coming'
  BY DEF Reported
<1>1. Quiet /\ ~Age /\ ~SetBudget /\ ~ResetWindow /\ ~RestartLedger
  BY QuietBefore
<1>2. Coming
  BY <1>1 DEF Reported
<1>3. ~ResetState
  BY <1>2 DEF ResetState, Coming
<1>4. ASSUME NEW o \in Reporter \cup Recorder, Report(o)
      PROVE  Coming'
  <2>1. o \in Meter
    BY Actors
  <2>2. PICK n \in Usage : Record(o, n)
    BY <1>4 DEF Report
  <2>3. at[o] \notin Judging /\ UNCHANGED <<last, breaches>>
    BY <1>4 DEF Report, Judging
  <2>4. QED BY <1>2, <2>1, <2>2, <2>3, ComingRecorded
<1>5. CASE UNCHANGED budgetVars
  BY <1>2, <1>5 DEF budgetVars, Coming, Pending
<1>6. QED
  BY <1>1, <1>2, <1>3, <1>4, <1>5, ComingGateway, ComingMeter DEF BudgetNext

LEMMA ReportedInit == BudgetInit => Reported
<1> SUFFICES ASSUME BudgetInit PROVE Coming
  BY DEF Reported
<1>1. budget \in Nat \ {0} /\ ExhaustPercent \in Nat \ {0}
  BY TokenAssumption, RatioAssumption DEF BudgetInit
<1>2. ~(0 >= ExhaustPercent * budget)
  BY <1>1
<1>3. Evaluate(0, budget) # "exhausted"
  BY <1>2 DEF Evaluate
<1>4. QED BY <1>3, Actors DEF BudgetInit, Coming

(* For any interleaving of calls, events and tool calls: an agent over its *)
(* budget is reported before the metering of it ends.                      *)
THEOREM ExhaustionIsReported == BudgetSpec => []ExhaustionReported
<1>1. BudgetInit => BudgetTypeOK /\ Reported
  BY TypeInit, ReportedInit
<1>2. BudgetTypeOK /\ Reported /\ [BudgetNext]_budgetVars => BudgetTypeOK' /\ Reported'
  BY TypeStep, ReportedStep
<1>3. BudgetTypeOK /\ Reported => ExhaustionReported
  <2>1. \A o \in Meter : Pending(o) => at[o] \in Judging
    BY DEF Pending, Judging
  <2>2. BudgetTypeOK => breaches \in Nat
    BY DEF BudgetTypeOK
  <2>3. QED BY <2>1, <2>2 DEF Reported, Quiet, Coming, ExhaustionReported
<1>4. QED BY <1>1, <1>2, <1>3, PTL DEF BudgetSpec
=============================================================================
