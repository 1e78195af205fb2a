----------------------------- MODULE MC_Autonomy -----------------------------
(* Instances for TLC of what takes an agent's autonomy away: its ladder and *)
(* the hard stop.  They share no variable: a run moves one of them, its     *)
(* focus.  The ladder is run with two threads and a database that answers,  *)
(* and with one thread that may be half-way, a ladder of an agent's own     *)
(* with a rung the schema does not know, and the faults of the database.    *)
EXTENDS DegradationLadder, HardStop

Graceful == <<"active", "throttled", "recommendation_only", "suspended">>
Short == <<"active", "recommendation_only", "suspended">>
Custom == <<"active", "read_only", "suspended">>

Block == {"recommendation_only", "suspended"}
NoConstant == {}
Canonical == {"active", "trace_boost", "throttled", "safe_profile",
              "recommendation_only", "suspended"}

Declares(l, b, o) == [ladder |-> l, budget |-> b, own |-> o]
KnownLadders == {Declares(Graceful, 2, FALSE), Declares(Short, 1, TRUE)}
CustomLadder == {Declares(Short, 1, FALSE), Declares(Custom, 1, TRUE)}
EveryDeclaration == KnownLadders \cup CustomLadder

At(p, u) == [process |-> p, endpoint |-> u]
Tenants == [a |-> {At("p", "none"), At("none", "u")}, b |-> {At("p", "u")}]
Few == [register |-> 2, meter |-> 3, remove |-> 1, start |-> 1]

-----------------------------------------------------------------------------
VARIABLE focus
Focus == {"threads", "rows", "stop"}

Declared(d) ==
  entry' # Unregistered => \E e \in d : entry'.ladder = e.ladder /\ entry'.own = e.own
First == CHOOSE th \in Pool : th = "t1"

(* What the focus leaves of the ladder's steps.                            *)
Admitted ==
  \/ focus = "threads" /\ Declared(KnownLadders) /\ UNCHANGED database
  \/ /\ focus = "rows" /\ Declared(CustomLadder)
     /\ ~overlapped' /\ \A th \in Pool \ {First} : inflight'[th] = NoTask

AutonomyInit ==
  /\ focus \in Focus
  /\ LadderInit /\ (focus = "rows" \/ reachable)
  /\ Init

AutonomyNext ==
  /\ UNCHANGED focus
  /\ \/ focus # "stop" /\ LadderNext /\ Admitted /\ UNCHANGED vars
     \/ focus = "stop" /\ Next /\ UNCHANGED ladderVars

(* LadderFairness and Fairness; only the part that moves owes them.        *)
AutonomyFairness ==
  /\ \A th \in Pool :
       WF_ladderVars(focus # "stop" /\ (SignalWrite(th) \/ BreachWrite(th) \/ OverrideWrite(th)) /\ Admitted)
  /\ WF_ladderVars(focus # "stop" /\ (\E th \in Pool : SignalRead(th, FALSE)) /\ Admitted)
  /\ WF_ladderVars(focus # "stop" /\ Scan)
  /\ Fairness

AutonomySpec == AutonomyInit /\ [][AutonomyNext]_<<focus, ladderVars, vars>> /\ AutonomyFairness
=============================================================================
