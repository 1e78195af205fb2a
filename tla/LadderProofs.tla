---------------------------- MODULE LadderProofs ----------------------------
(***************************************************************************)
(* Type correctness of DegradationLadder, and that automation raises an    *)
(* agent only when it acts on a snapshot somebody else has overtaken: as   *)
(* long as handlers do not overlap it never does.                          *)
(***************************************************************************)
EXTENDS DegradationLadder, WellFoundedInduction, TLAPS

(***************************************************************************)
(* Ladders of any length                                                   *)
(***************************************************************************)
IsLadder(ladder) ==
  /\ \E S : ladder \in Seq(S)
  /\ ladder # <<>>
  /\ \A i, j \in DOMAIN ladder : ladder[i] = ladder[j] => i = j

(* A set of naturals with a least element has it as its Least.             *)
LEMMA LeastIs ==
  ASSUME NEW S, S \subseteq Nat, NEW k \in S, \A j \in S : k <= j
  PROVE  Least(S) = k
<1>1. Least(S) \in S /\ \A j \in S : Least(S) <= j
  BY DEF Least
<1>2. Least(S) \in Nat /\ k \in Nat
  BY <1>1
<1>3. QED BY <1>1, <1>2

LEMMA LeastExists ==
  ASSUME NEW S, S \subseteq Nat, S # {}
  PROVE  Least(S) \in S /\ \A j \in S : Least(S) <= j
<1>1. \E k \in S : \A j \in S : ~ (<<j, k>> \in OpToRel(<, Nat))
  BY NatLessThanWellFounded, WFMin
<1>2. PICK k \in S : \A j \in S : ~ (j < k)
  BY <1>1 DEF OpToRel
<1>3. \A j \in S : k <= j
  BY <1>2
<1>4. QED BY <1>3 DEF Least

(* Every position is one of the ladder's.                                  *)
LEMMA LadderDomain ==
  ASSUME NEW ladder, IsLadder(ladder)
  PROVE  /\ Len(ladder) \in Nat \ {0}
         /\ DOMAIN ladder = 1..Len(ladder)
<1>1. PICK S : ladder \in Seq(S)
  BY DEF IsLadder
<1>2. QED BY <1>1 DEF IsLadder

(* A rung of the ladder stands at its own position.                        *)
LEMMA PositionOfRung ==
  ASSUME NEW ladder, IsLadder(ladder), NEW i \in DOMAIN ladder
  PROVE  Position(ladder, ladder[i]) = i
<1>1. PositionsOf(ladder, ladder[i]) = {i}
  BY DEF PositionsOf, IsLadder
<1>2. {i} \subseteq Nat
  BY LadderDomain
<1>3. Least({i}) = i
  BY <1>2, LeastIs
<1>4. QED BY <1>1, <1>3 DEF Position

(* A profile that is not on the ladder stands at its top.                  *)
LEMMA PositionInDomain ==
  ASSUME NEW ladder, IsLadder(ladder), NEW profile
  PROVE  Position(ladder, profile) \in 1..Len(ladder)
<1>1. CASE PositionsOf(ladder, profile) = {}
  BY <1>1, LadderDomain DEF Position
<1>2. CASE PositionsOf(ladder, profile) # {}
  <2>1. PICK i \in DOMAIN ladder : ladder[i] = profile
    BY <1>2 DEF PositionsOf
  <2>2. QED BY <2>1, PositionOfRung, LadderDomain
<1>3. QED BY <1>1, <1>2

LEMMA NextProfilePosition ==
  ASSUME NEW ladder, IsLadder(ladder), NEW profile
  PROVE  \E i \in DOMAIN ladder :
           /\ NextProfile(ladder, profile) = ladder[i]
           /\ i = IF Position(ladder, profile) < Len(ladder)
                    THEN Position(ladder, profile) + 1 ELSE Len(ladder)
  BY LadderDomain, PositionInDomain DEF NextProfile, LastRung

(* A step down ends lower on the ladder, or at its end (next_profile).     *)
THEOREM StepDownLowers ==
  ASSUME NEW ladder, IsLadder(ladder), NEW profile
  PROVE  Position(ladder, NextProfile(ladder, profile)) =
           IF Position(ladder, profile) < Len(ladder)
             THEN Position(ladder, profile) + 1 ELSE Len(ladder)
  BY NextProfilePosition, PositionOfRung

LEMMA WriteBlockPositionIsNat ==
  ASSUME NEW ladder, IsLadder(ladder)
  PROVE  WriteBlockPosition(ladder) \in Nat
<1> DEFINE blocked == {i \in DOMAIN ladder : ladder[i] \in WriteBlock}
<1>1. blocked \subseteq Nat
  BY LadderDomain
<1>2. CASE blocked = {}
  BY <1>2 DEF WriteBlockPosition
<1>3. CASE blocked # {}
  <2>1. Least(blocked) \in blocked
    BY <1>1, <1>3, LeastExists
  <2>2. QED BY <1>1, <1>3, <2>1 DEF WriteBlockPosition
<1>4. QED BY <1>2, <1>3

(* An agent that may not write may not write one rung further down         *)
(* (evaluate_action), whatever its rungs are called.                       *)
THEOREM BlockedStaysBlocked ==
  ASSUME NEW ladder, IsLadder(ladder), NEW profile, WritesBlocked(ladder, profile)
  PROVE  WritesBlocked(ladder, NextProfile(ladder, profile))
<1>1. /\ Position(ladder, profile) \in 1..Len(ladder)
      /\ Len(ladder) \in Nat
      /\ WriteBlockPosition(ladder) \in Nat
  BY PositionInDomain, LadderDomain, WriteBlockPositionIsNat
<1>2. CASE HardStop(ladder, profile)
  BY <1>1, <1>2, StepDownLowers DEF HardStop, WritesBlocked
<1>3. CASE Position(ladder, profile) >= WriteBlockPosition(ladder)
  <2>1. Position(ladder, NextProfile(ladder, profile)) \in Nat
    BY <1>1, StepDownLowers
  <2>2. Position(ladder, NextProfile(ladder, profile)) >= Position(ladder, profile)
    BY <1>1, StepDownLowers
  <2>3. QED BY <1>1, <1>3, <2>1, <2>2 DEF WritesBlocked
<1>4. QED BY <1>2, <1>3 DEF WritesBlocked

(***************************************************************************)
(* The ladders of the agents                                               *)
(***************************************************************************)
LEMMA DeclaredLadder ==
  ASSUME NEW ladder \in Ladder
  PROVE  IsLadder(ladder) /\ (\A i \in DOMAIN ladder : ladder[i] \in Rung)
<1>1. PICK d \in Declarations : ladder = d.ladder
  BY DEF Ladder
<1>2. IsLadder(ladder)
  BY <1>1, DeclarationAssumption DEF IsLadder
<1>3. \A i \in DOMAIN ladder : ladder[i] \in Rung
  BY DEF Rung
<1>4. QED BY <1>2, <1>3

LEMMA DeclaredBudget == Budget \subseteq Nat \ {0}
  BY DeclarationAssumption DEF Budget

LEMMA NextProfileType ==
  ASSUME NEW ladder \in Ladder, NEW profile
  PROVE  NextProfile(ladder, profile) \in Rung
  BY DeclaredLadder, NextProfilePosition

LEMMA FreshType ==
  ASSUME NEW d \in Declarations
  PROVE  Fresh(d) \in Entry
<1>1. d.ladder \in Ladder /\ d.budget \in Budget /\ d.own \in BOOLEAN /\ Full \in Rung
  BY DeclarationAssumption DEF Ladder, Budget, Rung
<1>2. QED BY <1>1 DEF Fresh, Entry

(* The part of the type invariant that is about what is stored.            *)
StoredType ==
  /\ entry \in Row
  /\ saved \in Row
  /\ reachable \in BOOLEAN /\ mirrored \in BOOLEAN /\ refused \in BOOLEAN

LEMMA MirrorType ==
  ASSUME saved \in Row, NEW new \in Row, NEW othersRefused, Mirror(new, othersRefused)
  PROVE  saved' \in Row
  BY DEF Mirror

LEMMA StoreType ==
  ASSUME StoredType, NEW new \in Row, Store(new)
  PROVE  StoredType'
<1>1. entry' \in Row /\ saved' \in Row
  BY MirrorType DEF Store, StoredType
<1>2. reachable' \in BOOLEAN /\ mirrored' \in BOOLEAN /\ refused' \in BOOLEAN
  BY DEF Store, database, StoredType
<1>3. QED BY <1>1, <1>2 DEF StoredType

LEMMA KeepType ==
  ASSUME StoredType, KeepStore
  PROVE  StoredType'
  BY DEF KeepStore, database, StoredType

(* What a thread has in hand has the parts its operation needs.            *)
LEMMA TaskParts ==
  ASSUME LadderTypeOK, NEW th \in Pool
  PROVE  /\ inflight[th].op = "signal" => inflight[th].seen \in Entry /\ inflight[th].ok \in BOOLEAN
         /\ inflight[th].op = "breach" => inflight[th].seen \in Entry
         /\ inflight[th].op = "override" => inflight[th].profile \in Rung
  BY DEF LadderTypeOK, LadderTask, NoTask

LEMMA BeginType ==
  ASSUME LadderTypeOK, NEW th \in Pool, NEW task \in LadderTask, Begin(th, task)
  PROVE  inflight' \in [Pool -> LadderTask] /\ overlapped' \in BOOLEAN
<1>1. inflight' \in [Pool -> LadderTask]
  BY DEF LadderTypeOK, Begin
<1>2. overlapped' \in BOOLEAN
  BY DEF Begin
<1>3. QED BY <1>1, <1>2

LEMMA FinishType ==
  ASSUME LadderTypeOK, NEW th \in Pool, Finish(th)
  PROVE  inflight' \in [Pool -> LadderTask] /\ overlapped' \in BOOLEAN
<1>1. NoTask \in LadderTask
  BY DEF LadderTask
<1>2. QED BY <1>1, BeginType DEF Finish

LEMMA TypeInit == LadderInit => LadderTypeOK
<1>1. LadderInit => overlapped \in BOOLEAN /\ reachable \in BOOLEAN
              /\ mirrored \in BOOLEAN /\ refused \in BOOLEAN
  BY DEF LadderInit
<1>2. LadderInit => /\ entry \in Row /\ saved \in Row
              /\ inflight \in [Pool -> LadderTask]
  BY DEF LadderInit, Row, LadderTask
<1>3. QED BY <1>1, <1>2 DEF LadderTypeOK

(* The writes of an automatic step.                                        *)
LEMMA AutomaticWrite ==
  ASSUME LadderTypeOK, NEW th \in Pool, Automatic(th)
  PROVE  /\ Finish(th)
         /\ inflight[th].seen \in Entry
         /\ \/ KeepStore
            \/ entry # Unregistered /\ Store([entry EXCEPT !.failures = 0])
            \/ /\ entry # Unregistered
               /\ Store([entry EXCEPT !.profile = NextProfile(inflight[th].seen.ladder,
                                                              inflight[th].seen.profile),
                                      !.failures = 0])
            \/ entry # Unregistered /\ Store([entry EXCEPT !.failures = inflight[th].seen.failures + 1])
<1>1. CASE SignalWrite(th)
  BY <1>1, TaskParts DEF SignalWrite, KeepStore
<1>2. CASE BreachWrite(th)
  BY <1>2, TaskParts DEF BreachWrite, KeepStore
<1>3. QED BY <1>1, <1>2 DEF Automatic

LEMMA TypeAutomatic ==
  ASSUME LadderTypeOK, NEW th \in Pool, Automatic(th)
  PROVE  LadderTypeOK'
<1> DEFINE seen == inflight[th].seen
<1>1. seen \in Entry /\ StoredType /\ entry \in Row
  BY AutomaticWrite DEF LadderTypeOK, StoredType
<1>2. NextProfile(seen.ladder, seen.profile) \in Rung
  BY <1>1, NextProfileType DEF Entry
<1>3. StoredType'
  <2>1. CASE KeepStore
    BY <1>1, <2>1, KeepType
  <2>2. CASE entry # Unregistered /\ Store([entry EXCEPT !.failures = 0])
    <3>1. [entry EXCEPT !.failures = 0] \in Row
      BY <1>1, <2>2 DEF Row, Entry
    <3>2. QED BY <1>1, <2>2, <3>1, StoreType
  <2>3. CASE /\ entry # Unregistered
             /\ Store([entry EXCEPT !.profile = NextProfile(seen.ladder, seen.profile),
                                    !.failures = 0])
    <3>1. [entry EXCEPT !.profile = NextProfile(seen.ladder, seen.profile), !.failures = 0] \in Row
      BY <1>1, <1>2, <2>3 DEF Row, Entry
    <3>2. QED BY <1>1, <2>3, <3>1, StoreType
  <2>4. CASE entry # Unregistered /\ Store([entry EXCEPT !.failures = seen.failures + 1])
    <3>1. [entry EXCEPT !.failures = seen.failures + 1] \in Row
      BY <1>1, <2>4 DEF Row, Entry
    <3>2. QED BY <1>1, <2>4, <3>1, StoreType
  <2>5. QED BY <2>1, <2>2, <2>3, <2>4, AutomaticWrite
<1>4. inflight' \in [Pool -> LadderTask] /\ overlapped' \in BOOLEAN
  BY AutomaticWrite, FinishType
<1>5. QED BY <1>3, <1>4 DEF LadderTypeOK, StoredType

LEMMA TypeStep ==
  ASSUME LadderTypeOK, [LadderNext]_ladderVars
  PROVE  LadderTypeOK'
<1> StoredType
  BY DEF LadderTypeOK, StoredType
<1>1. ASSUME NEW th \in Pool, RegisterAnew(th)
      PROVE  LadderTypeOK'
  <2>1. PICK d \in Declarations : Store(Fresh(d))
    BY <1>1 DEF RegisterAnew
  <2>2. StoredType'
    BY <2>1, FreshType, StoreType DEF Row
  <2>3. QED BY <1>1, <2>2, FinishType DEF RegisterAnew, LadderTypeOK, StoredType
<1>2. ASSUME NEW th \in Pool, RemoveEntry(th)
      PROVE  LadderTypeOK'
  <2>1. StoredType'
    BY <1>2, StoreType DEF RemoveEntry, Row
  <2>2. QED BY <1>2, <2>1, FinishType DEF RemoveEntry, LadderTypeOK, StoredType
<1>3. ASSUME NEW th \in Pool, NEW ok \in BOOLEAN, SignalRead(th, ok)
      PROVE  LadderTypeOK'
  <2>1. [op |-> "signal", ok |-> ok, seen |-> entry] \in LadderTask
    BY <1>3 DEF SignalRead, KeepStore, LadderTypeOK, Row, LadderTask
  <2>2. StoredType'
    BY <1>3, KeepType DEF SignalRead
  <2>3. QED BY <1>3, <2>1, <2>2, BeginType DEF SignalRead, LadderTypeOK, StoredType
<1>4. ASSUME NEW th \in Pool, BreachRead(th)
      PROVE  LadderTypeOK'
  <2>1. [op |-> "breach", seen |-> entry] \in LadderTask
    BY <1>4 DEF BreachRead, KeepStore, LadderTypeOK, Row, LadderTask
  <2>2. StoredType'
    BY <1>4, KeepType DEF BreachRead
  <2>3. QED BY <1>4, <2>1, <2>2, BeginType DEF BreachRead, LadderTypeOK, StoredType
<1>5. ASSUME NEW th \in Pool, OverrideRead(th)
      PROVE  LadderTypeOK'
  <2>1. PICK i \in DOMAIN entry.ladder : Begin(th, [op |-> "override", profile |-> entry.ladder[i]])
    BY <1>5 DEF OverrideRead
  <2>2. entry.ladder \in Ladder
    BY <1>5 DEF OverrideRead, LadderTypeOK, Row, Entry
  <2>3. [op |-> "override", profile |-> entry.ladder[i]] \in LadderTask
    BY <2>2, DeclaredLadder DEF LadderTask
  <2>4. StoredType'
    BY <1>5, KeepType DEF OverrideRead
  <2>5. QED BY <1>5, <2>1, <2>3, <2>4, BeginType DEF LadderTypeOK, StoredType
<1>6. ASSUME NEW th \in Pool, OverrideWrite(th)
      PROVE  LadderTypeOK'
  <2>1. StoredType'
    <3>1. CASE entry = Unregistered
      BY <1>6, <3>1, KeepType DEF OverrideWrite
    <3>2. CASE entry # Unregistered
      <4>1. [entry EXCEPT !.profile = inflight[th].profile, !.failures = 0] \in Row
        BY <1>6, <3>2, TaskParts DEF OverrideWrite, LadderTypeOK, Row, Entry
      <4>2. QED BY <1>6, <3>2, <4>1, StoreType DEF OverrideWrite
    <3>3. QED BY <3>1, <3>2
  <2>2. inflight' \in [Pool -> LadderTask] /\ overlapped' \in BOOLEAN
    BY <1>6, FinishType DEF OverrideWrite
  <2>3. QED BY <2>1, <2>2 DEF LadderTypeOK, StoredType
<1>7. ASSUME NEW th \in Pool, SetRisk(th)
      PROVE  LadderTypeOK'
  <2>1. PICK b \in Budget : Store([entry EXCEPT !.budget = b])
    BY <1>7 DEF SetRisk
  <2>2. [entry EXCEPT !.budget = b] \in Row
    BY <1>7 DEF SetRisk, LadderTypeOK, Row, Entry
  <2>3. StoredType'
    BY <2>1, <2>2, StoreType
  <2>4. QED BY <1>7, <2>3, FinishType DEF SetRisk, LadderTypeOK, StoredType
<1>8. ASSUME Restart
      PROVE  LadderTypeOK'
  <2>1. entry' \in Row /\ saved' \in Row
    BY <1>8 DEF Restart, StoredType, Row
  <2>2. reachable' \in BOOLEAN /\ mirrored' \in BOOLEAN /\ refused' \in BOOLEAN
    BY <1>8 DEF Restart, StoredType
  <2>3. inflight' \in [Pool -> LadderTask] /\ overlapped' \in BOOLEAN
    BY <1>8 DEF Restart, LadderTypeOK, LadderTask
  <2>4. QED BY <2>1, <2>2, <2>3 DEF LadderTypeOK
<1>9. ASSUME Scan \/ Neighbour
      PROVE  LadderTypeOK'
  <2>1. entry' \in Row /\ saved' \in Row
    BY <1>9, MirrorType DEF Scan, Neighbour, StoredType
  <2>2. reachable' \in BOOLEAN /\ mirrored' \in BOOLEAN /\ refused' \in BOOLEAN
    BY <1>9 DEF Scan, Neighbour, StoredType, database
  <2>3. inflight' \in [Pool -> LadderTask] /\ overlapped' \in BOOLEAN
    BY <1>9 DEF Scan, Neighbour, LadderTypeOK
  <2>4. QED BY <2>1, <2>2, <2>3 DEF LadderTypeOK
<1>10. ASSUME Outage
       PROVE  LadderTypeOK'
  BY <1>10 DEF Outage, LadderTypeOK
<1>11. CASE UNCHANGED ladderVars
  BY <1>11 DEF ladderVars, database, LadderTypeOK
<1>12. QED
  BY <1>1, <1>2, <1>3, <1>4, <1>5, <1>6, <1>7, <1>8, <1>9, <1>10, <1>11, TypeAutomatic DEF LadderNext

(* For all threads, ladders and budgets, the state has its types.          *)
THEOREM LadderTypeCorrect == LadderSpec => []LadderTypeOK
<1>1. LadderInit => LadderTypeOK
  BY TypeInit
<1>2. LadderTypeOK /\ [LadderNext]_ladderVars => LadderTypeOK'
  BY TypeStep
<1>3. QED BY <1>1, <1>2, PTL DEF LadderSpec
(***************************************************************************)
(* Who raises an agent                                                     *)
(***************************************************************************)
(* A step computed from a snapshot that shows the agent's rung and ladder  *)
(* does not raise it.                                                      *)
LEMMA CurrentNotRaised ==
  ASSUME LadderTypeOK, NEW th \in Pool, Automatic(th),
         inflight[th].seen.profile = entry.profile,
         inflight[th].seen.ladder = entry.ladder
  PROVE  ~Raised
<1> DEFINE seen == inflight[th].seen
<1>1. entry = Unregistered => ~Raised
  BY DEF Raised
<1>2. SUFFICES ASSUME entry # Unregistered PROVE ~Raised
  BY <1>1
<1>3. entry \in Entry /\ entry.ladder \in Ladder
  BY <1>2 DEF LadderTypeOK, Row, Entry
<1>4. IsLadder(entry.ladder)
  BY <1>3, DeclaredLadder
<1>5. Position(entry.ladder, entry.profile) \in 1..Len(entry.ladder) /\ Len(entry.ladder) \in Nat
  BY <1>4, PositionInDomain, LadderDomain
<1>6. CASE /\ entry'.ladder = entry.ladder
           /\ entry'.profile = entry.profile
  BY <1>5, <1>6 DEF Raised
<1>7. CASE /\ entry'.ladder = entry.ladder
           /\ entry'.profile = NextProfile(entry.ladder, entry.profile)
  <2>1. Position(entry.ladder, NextProfile(entry.ladder, entry.profile)) =
          IF Position(entry.ladder, entry.profile) < Len(entry.ladder)
            THEN Position(entry.ladder, entry.profile) + 1 ELSE Len(entry.ladder)
    BY <1>4, StepDownLowers
  <2>2. QED BY <1>5, <1>7, <2>1 DEF Raised
<1>8. CASE KeepStore
  BY <1>6, <1>8 DEF KeepStore
<1>9. CASE Store([entry EXCEPT !.failures = 0])
  BY <1>3, <1>6, <1>9 DEF Store, Entry
<1>10. CASE Store([entry EXCEPT !.profile = NextProfile(seen.ladder, seen.profile),
                                !.failures = 0])
  BY <1>3, <1>7, <1>10 DEF Store, Entry
<1>11. CASE Store([entry EXCEPT !.failures = seen.failures + 1])
  BY <1>3, <1>6, <1>11 DEF Store, Entry
<1>12. QED BY <1>8, <1>9, <1>10, <1>11, AutomaticWrite

(* With any number of threads, a signal or a breach gives autonomy back    *)
(* only if the agent was moved between its read and its write.             *)
THEOREM RaceRaises == LadderSpec => RaisedOnlyByRace
<1>1. LadderTypeOK => \A th \in Pool :
                  Automatic(th) /\ Raised =>
                    \/ inflight[th].seen.profile # entry.profile
                    \/ inflight[th].seen.ladder # entry.ladder
  BY CurrentNotRaised
<1>2. QED BY <1>1, LadderTypeCorrect, PTL DEF RaisedOnlyByRace

(***************************************************************************)
(* As long as handlers do not overlap                                      *)
(***************************************************************************)
(* A handler that moves without an overlap is the only one under way.      *)
LEMMA Alone ==
  ASSUME LadderTypeOK, NEW th \in Pool, NEW task, Begin(th, task), ~overlapped'
  PROVE  /\ ~overlapped
         /\ inflight'[th] = task
         /\ \A other \in Pool \ {th} : inflight[other] = NoTask /\ inflight'[other] = NoTask
<1>1. ~overlapped /\ \A other \in Pool \ {th} : inflight[other] = NoTask
  BY DEF Begin, Free
<1>2. inflight \in [Pool -> LadderTask] /\ inflight' = [inflight EXCEPT ![th] = task]
  BY DEF LadderTypeOK, Begin
<1>3. QED BY <1>1, <1>2

LEMMA AllIdle ==
  ASSUME LadderTypeOK, NEW th \in Pool, Finish(th), ~overlapped'
  PROVE  ~overlapped /\ \A other \in Pool : inflight'[other] = NoTask
  BY Alone DEF Finish

SnapshotCurrent ==
  ~overlapped =>
    \A th \in Pool : inflight[th].op \in {"signal", "breach"} => inflight[th].seen = entry

LEMMA SnapshotStep ==
  ASSUME LadderTypeOK, SnapshotCurrent, [LadderNext]_ladderVars
  PROVE  SnapshotCurrent'
<1>1. SUFFICES ASSUME ~overlapped' PROVE SnapshotCurrent'
  BY DEF SnapshotCurrent
<1>2. ASSUME NEW th \in Pool, Finish(th)
      PROVE  SnapshotCurrent'
  BY <1>1, <1>2, AllIdle DEF SnapshotCurrent, NoTask
<1>3. ASSUME NEW th \in Pool, NEW task, Begin(th, task), task.seen = entry, entry' = entry
      PROVE  SnapshotCurrent'
  <2>1. inflight'[th].seen = entry'
    BY <1>1, <1>3, Alone
  <2>2. \A other \in Pool \ {th} : inflight'[other] = NoTask
    BY <1>1, <1>3, Alone
  <2>3. QED BY <2>1, <2>2 DEF SnapshotCurrent, NoTask
<1>4. ASSUME NEW th \in Pool, NEW ok \in BOOLEAN, SignalRead(th, ok)
      PROVE  SnapshotCurrent'
  <2>1. [op |-> "signal", ok |-> ok, seen |-> entry].seen = entry
    OBVIOUS
  <2>2. QED BY <1>3, <1>4, <2>1 DEF SignalRead, KeepStore
<1>5. ASSUME NEW th \in Pool, BreachRead(th)
      PROVE  SnapshotCurrent'
  <2>1. [op |-> "breach", seen |-> entry].seen = entry
    OBVIOUS
  <2>2. QED BY <1>3, <1>5, <2>1 DEF BreachRead, KeepStore
<1>6. ASSUME NEW th \in Pool, OverrideRead(th)
      PROVE  SnapshotCurrent'
  <2>1. PICK i \in DOMAIN entry.ladder : Begin(th, [op |-> "override", profile |-> entry.ladder[i]])
    BY <1>6 DEF OverrideRead
  <2>2. inflight'[th].op = "override" /\ \A other \in Pool \ {th} : inflight'[other] = NoTask
    BY <1>1, <2>1, Alone
  <2>3. QED BY <2>2 DEF SnapshotCurrent, NoTask
<1>7. ASSUME NEW th \in Pool, Automatic(th)
      PROVE  SnapshotCurrent'
  BY <1>2, <1>7, AutomaticWrite
<1>8. CASE Restart
  BY <1>8 DEF Restart, SnapshotCurrent, NoTask
<1>9. CASE UNCHANGED <<entry, inflight, overlapped>>
  BY <1>9 DEF SnapshotCurrent
<1>10. QED
  BY <1>2, <1>4, <1>5, <1>6, <1>7, <1>8, <1>9
  DEF LadderNext, RegisterAnew, RemoveEntry, OverrideWrite, SetRisk, Scan, Neighbour, Outage, ladderVars

(* As long as handlers do not overlap, neither an outcome signal nor a     *)
(* token breach gives an agent autonomy back, on whatever ladder it        *)
(* declared (apply_signal, _on_token_breach).                              *)
OnlyLowered ==
  [][~overlapped' => \A th \in Pool : Automatic(th) => ~Raised]_ladderVars

(* With any number of threads: until two handlers overlap, no signal and   *)
(* no breach gives autonomy back.                                          *)
THEOREM SerialOnlyLowered == LadderSpec => OnlyLowered
<1>1. LadderInit => SnapshotCurrent
  BY DEF LadderInit, SnapshotCurrent, NoTask
<1>2. LadderTypeOK /\ SnapshotCurrent /\ [LadderNext]_ladderVars => SnapshotCurrent'
  BY SnapshotStep
<1>3. LadderTypeOK /\ SnapshotCurrent => (~overlapped' => \A th \in Pool : Automatic(th) => ~Raised)
  <2>1. SUFFICES ASSUME LadderTypeOK, SnapshotCurrent, ~overlapped', NEW th \in Pool, Automatic(th)
                 PROVE  ~Raised
    OBVIOUS
  <2>2. inflight[th].op \in {"signal", "breach"}
    BY <2>1 DEF Automatic, SignalWrite, BreachWrite
  <2>3. ~overlapped
    BY <2>1, AutomaticWrite, AllIdle
  <2>4. inflight[th].seen = entry
    BY <2>1, <2>2, <2>3 DEF SnapshotCurrent
  <2>5. QED BY <2>1, <2>4, CurrentNotRaised
<1>4. QED BY <1>1, <1>2, <1>3, LadderTypeCorrect, PTL DEF LadderSpec, OnlyLowered

(* The rung an entry or a row stands on is its ladder's, and so is the one *)
(* an operator's request has checked.                                      *)
OnLadder(row) ==
  row # Unregistered => row.profile = Full \/ PositionsOf(row.ladder, row.profile) # {}

OverrideChecked ==
  \A th \in Pool : inflight[th].op = "override" =>
    entry # Unregistered /\ PositionsOf(entry.ladder, inflight[th].profile) # {}

Placed == OnLadder(entry) /\ OnLadder(saved) /\ OverrideChecked

RungInv ==
  /\ LadderTypeOK
  /\ SnapshotCurrent
  /\ ~overlapped => Placed

LEMMA MirrorOnLadder ==
  ASSUME OnLadder(saved), NEW new, OnLadder(new), NEW othersRefused, Mirror(new, othersRefused)
  PROVE  OnLadder(saved')
  BY DEF Mirror

LEMMA StoreOnLadder ==
  ASSUME OnLadder(saved), NEW new, OnLadder(new), Store(new)
  PROVE  OnLadder(entry') /\ OnLadder(saved')
  BY MirrorOnLadder DEF Store

(* A handler that ends leaves no request under way.                        *)
LEMMA StorePlaced ==
  ASSUME LadderTypeOK, ~overlapped', NEW th \in Pool, Finish(th), OnLadder(saved),
         NEW new, OnLadder(new), Store(new)
  PROVE  Placed'
<1>1. OnLadder(entry)' /\ OnLadder(saved)'
  BY StoreOnLadder DEF OnLadder
<1>2. OverrideChecked'
  BY AllIdle DEF OverrideChecked, NoTask
<1>3. QED BY <1>1, <1>2 DEF Placed

LEMMA KeepPlaced ==
  ASSUME LadderTypeOK, ~overlapped', NEW th \in Pool, Finish(th), KeepStore, Placed
  PROVE  Placed'
<1>1. OnLadder(entry)' /\ OnLadder(saved)'
  BY DEF KeepStore, OnLadder, Placed
<1>2. OverrideChecked'
  BY AllIdle DEF OverrideChecked, NoTask
<1>3. QED BY <1>1, <1>2 DEF Placed

LEMMA RungAutomatic ==
  ASSUME LadderTypeOK, Placed, ~overlapped', NEW th \in Pool, Automatic(th),
         inflight[th].seen = entry
  PROVE  Placed'
<1>1. entry = Unregistered \/ entry \in Entry
  BY DEF LadderTypeOK, Row
<1>2. OnLadder(entry) /\ OnLadder(saved) /\ Finish(th)
  BY AutomaticWrite DEF Placed
<1>3. CASE KeepStore
  BY <1>2, <1>3, KeepPlaced
<1>4. CASE entry # Unregistered /\ Store([entry EXCEPT !.failures = 0])
  <2>1. OnLadder([entry EXCEPT !.failures = 0])
    BY <1>1, <1>2, <1>4 DEF OnLadder, Entry
  <2>2. QED BY <1>2, <1>4, <2>1, StorePlaced
<1>5. CASE /\ entry # Unregistered
           /\ Store([entry EXCEPT !.profile = NextProfile(entry.ladder, entry.profile),
                                  !.failures = 0])
  <2>1. entry \in Entry /\ entry.ladder \in Ladder
    BY <1>1, <1>5 DEF Entry
  <2>2. PICK i \in DOMAIN entry.ladder : NextProfile(entry.ladder, entry.profile) = entry.ladder[i]
    BY <2>1, DeclaredLadder, NextProfilePosition
  <2>3. PositionsOf(entry.ladder, NextProfile(entry.ladder, entry.profile)) # {}
    BY <2>2 DEF PositionsOf
  <2>4. OnLadder([entry EXCEPT !.profile = NextProfile(entry.ladder, entry.profile),
                               !.failures = 0])
    BY <2>1, <2>3 DEF OnLadder, Entry
  <2>5. QED BY <1>2, <1>5, <2>4, StorePlaced
<1>6. CASE entry # Unregistered /\ Store([entry EXCEPT !.failures = entry.failures + 1])
  <2>1. OnLadder([entry EXCEPT !.failures = entry.failures + 1])
    BY <1>1, <1>2, <1>6 DEF OnLadder, Entry
  <2>2. QED BY <1>2, <1>6, <2>1, StorePlaced
<1>7. QED BY <1>3, <1>4, <1>5, <1>6, AutomaticWrite

LEMMA RungStep ==
  ASSUME RungInv, [LadderNext]_ladderVars
  PROVE  RungInv'
<1>1. LadderTypeOK /\ SnapshotCurrent /\ LadderTypeOK' /\ SnapshotCurrent'
  BY TypeStep, SnapshotStep DEF RungInv
<1>2. SUFFICES ASSUME ~overlapped' PROVE Placed'
  BY <1>1 DEF RungInv
<1>3. ASSUME NEW th \in Pool, NEW task, Begin(th, task)
      PROVE  Placed
  BY <1>1, <1>2, <1>3, Alone DEF RungInv
<1>4. ASSUME NEW th \in Pool, Finish(th)
      PROVE  OnLadder(entry) /\ OnLadder(saved) /\ OverrideChecked
  BY <1>3, <1>4 DEF Finish, Placed
<1>5. ASSUME NEW th \in Pool, RegisterAnew(th)
      PROVE  Placed'
  <2>1. PICK d \in Declarations : Store(Fresh(d))
    BY <1>5 DEF RegisterAnew
  <2>2. OnLadder(Fresh(d)) /\ Finish(th)
    BY <1>5 DEF Fresh, OnLadder, RegisterAnew
  <2>3. QED BY <1>1, <1>2, <1>4, <2>1, <2>2, StorePlaced
<1>6. ASSUME NEW th \in Pool, RemoveEntry(th)
      PROVE  Placed'
  <2>1. Store(Unregistered) /\ OnLadder(Unregistered) /\ Finish(th)
    BY <1>6 DEF RemoveEntry, OnLadder
  <2>2. QED BY <1>1, <1>2, <1>4, <2>1, StorePlaced
<1>7. ASSUME NEW th \in Pool, SetRisk(th)
      PROVE  Placed'
  <2>1. PICK b \in Budget : Store([entry EXCEPT !.budget = b])
    BY <1>7 DEF SetRisk
  <2>2. entry \in Entry /\ entry # Unregistered /\ Finish(th)
    BY <1>1, <1>7 DEF SetRisk, LadderTypeOK, Row
  <2>3. OnLadder([entry EXCEPT !.budget = b])
    <3>1. /\ [entry EXCEPT !.budget = b].profile = entry.profile
          /\ [entry EXCEPT !.budget = b].ladder = entry.ladder
      BY <2>2 DEF Entry
    <3>2. OnLadder(entry)
      BY <1>4, <2>2
    <3>3. QED BY <2>2, <3>1, <3>2 DEF OnLadder
  <2>4. QED BY <1>1, <1>2, <1>4, <2>1, <2>2, <2>3, StorePlaced
<1>8. ASSUME NEW th \in Pool, NEW task, Begin(th, task),
             entry' = entry, saved' = saved,
             task.op = "override" =>
               entry # Unregistered /\ PositionsOf(entry.ladder, task.profile) # {}
      PROVE  Placed'
  <2>1. OnLadder(entry)' /\ OnLadder(saved)'
    BY <1>3, <1>8 DEF Placed, OnLadder
  <2>2. inflight'[th] = task /\ \A other \in Pool \ {th} : inflight'[other] = NoTask
    BY <1>1, <1>2, <1>8, Alone
  <2>3. OverrideChecked'
    BY <1>8, <2>2 DEF OverrideChecked, NoTask
  <2>4. QED BY <2>1, <2>3 DEF Placed
<1>9. ASSUME NEW th \in Pool, NEW ok \in BOOLEAN, SignalRead(th, ok)
      PROVE  Placed'
  <2>1. [op |-> "signal", ok |-> ok, seen |-> entry].op # "override"
    OBVIOUS
  <2>2. QED BY <1>8, <1>9, <2>1 DEF SignalRead, KeepStore
<1>10. ASSUME NEW th \in Pool, BreachRead(th)
       PROVE  Placed'
  <2>1. [op |-> "breach", seen |-> entry].op # "override"
    OBVIOUS
  <2>2. QED BY <1>8, <1>10, <2>1 DEF BreachRead, KeepStore
<1>11. ASSUME NEW th \in Pool, OverrideRead(th)
       PROVE  Placed'
  <2>1. PICK i \in DOMAIN entry.ladder : Begin(th, [op |-> "override", profile |-> entry.ladder[i]])
    BY <1>11 DEF OverrideRead
  <2>2. [op |-> "override", profile |-> entry.ladder[i]].profile = entry.ladder[i]
    OBVIOUS
  <2>3. PositionsOf(entry.ladder, entry.ladder[i]) # {}
    BY DEF PositionsOf
  <2>4. entry' = entry /\ saved' = saved /\ entry # Unregistered
    BY <1>11 DEF OverrideRead, KeepStore
  <2>5. QED BY <1>8, <2>1, <2>2, <2>3, <2>4
<1>12. ASSUME NEW th \in Pool, OverrideWrite(th)
       PROVE  Placed'
  <2>1. Finish(th) /\ inflight[th].op = "override"
    BY <1>12 DEF OverrideWrite
  <2>2. entry # Unregistered /\ PositionsOf(entry.ladder, inflight[th].profile) # {}
    BY <1>4, <2>1 DEF OverrideChecked
  <2>3. entry \in Entry
    BY <1>1, <2>2 DEF LadderTypeOK, Row
  <2>4. OnLadder([entry EXCEPT !.profile = inflight[th].profile, !.failures = 0])
    BY <2>2, <2>3 DEF OnLadder, Entry
  <2>5. Store([entry EXCEPT !.profile = inflight[th].profile, !.failures = 0])
    BY <1>12, <2>2 DEF OverrideWrite
  <2>6. QED BY <1>1, <1>2, <1>4, <2>1, <2>4, <2>5, StorePlaced
<1>13. ASSUME NEW th \in Pool, Automatic(th)
       PROVE  Placed'
  <2>1. inflight[th].op \in {"signal", "breach"}
    BY <1>13 DEF Automatic, SignalWrite, BreachWrite
  <2>2. Finish(th) /\ ~overlapped
    BY <1>1, <1>2, <1>13, AutomaticWrite, AllIdle
  <2>3. inflight[th].seen = entry
    BY <1>1, <2>1, <2>2 DEF SnapshotCurrent
  <2>4. Placed
    BY <1>3, <2>2 DEF Finish
  <2>5. QED BY <1>1, <1>2, <1>13, <2>3, <2>4, RungAutomatic
<1>14. CASE Restart
  <2>1. Placed
    BY <1>2, <1>14 DEF Restart, RungInv
  <2>2. OnLadder(entry)' /\ OnLadder(saved)'
    BY <1>14, <2>1 DEF Restart, Placed, OnLadder
  <2>3. OverrideChecked'
    BY <1>14 DEF Restart, OverrideChecked, NoTask
  <2>4. QED BY <2>2, <2>3 DEF Placed
<1>15. ASSUME entry' = entry, OnLadder(saved'), UNCHANGED <<inflight, overlapped>>
       PROVE  Placed'
  <2>1. Placed
    BY <1>2, <1>15 DEF RungInv
  <2>2. OnLadder(entry)' /\ OnLadder(saved)'
    BY <1>15, <2>1 DEF Placed, OnLadder
  <2>3. OverrideChecked'
    BY <1>15, <2>1 DEF Placed, OverrideChecked
  <2>4. QED BY <2>2, <2>3 DEF Placed
<1>16. ASSUME Scan \/ Neighbour
       PROVE  Placed'
  <2>1. Placed
    BY <1>2, <1>16 DEF Scan, Neighbour, RungInv
  <2>2. OnLadder(saved')
    BY <1>16, <2>1, MirrorOnLadder DEF Scan, Neighbour, Placed
  <2>3. QED BY <1>15, <1>16, <2>2 DEF Scan, Neighbour
<1>17. CASE Outage \/ UNCHANGED ladderVars
  <2>1. Placed
    BY <1>2, <1>17 DEF Outage, ladderVars, RungInv
  <2>2. OnLadder(saved')
    BY <1>17, <2>1 DEF Outage, ladderVars, Placed, OnLadder
  <2>3. QED BY <1>15, <1>17, <2>2 DEF Outage, ladderVars
<1>18. QED
  BY <1>5, <1>6, <1>7, <1>9, <1>10, <1>11, <1>12, <1>13, <1>14, <1>16, <1>17 DEF LadderNext

(* With any number of threads: until two handlers overlap, the profile is  *)
(* a rung of the agent's own ladder, or the one it started with.           *)
THEOREM SerialRung == LadderSpec => []RungOnOwnLadder
<1>1. LadderInit => RungInv
  BY TypeInit DEF LadderInit, RungInv, SnapshotCurrent, Placed, OnLadder, OverrideChecked, NoTask
<1>2. RungInv /\ [LadderNext]_ladderVars => RungInv'
  BY RungStep
<1>3. RungInv => RungOnOwnLadder
  BY DEF RungInv, Placed, OnLadder, RungOnOwnLadder
<1>4. QED BY <1>1, <1>2, <1>3, PTL DEF LadderSpec
=============================================================================
