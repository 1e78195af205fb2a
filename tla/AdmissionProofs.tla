--------------------------- MODULE AdmissionProofs ---------------------------
(* Proofs about Admission, for any set of agents, scopes and threads.      *)
EXTENDS Admission, TLAPS

(* Registry.patch keeps the registry well formed.                          *)
LEMMA PatchedType ==
  ASSUME registry \in [Agent -> Snapshot], NEW a \in Agent, NEW new,
         Present(a) => new \in Entry
  PROVE  Patched(a, new) \in [Agent -> Snapshot]
BY DEF Patched, Snapshot

LEMMA PresentEntry ==
  ASSUME registry \in [Agent -> Snapshot], NEW a \in Agent, Present(a)
  PROVE  registry[a] \in Entry
BY DEF Present, Snapshot

(* What the op of a task says of its other fields.                         *)
LEMMA TaskFields ==
  ASSUME NEW task \in Task
  PROVE  /\ task.op \in {"register", "announce"} =>
              /\ task.agent \in Agent
              /\ task.seen \in Snapshot
              /\ task.request \in Request
         /\ task.op \in {"check", "stale", "approve", "observe"} =>
              /\ task.agent \in Agent
              /\ task.seen \in Entry
         /\ task.op = "observe" => task.hook \in Hook
         /\ task.op \in {"settle", "request"} => task.agent \in Agent
<1>1. CASE task \in {Idle}
  BY <1>1 DEF Idle
<1>2. CASE task \in [op : {"check", "stale", "approve"}, agent : Agent, seen : Entry]
  BY <1>2
<1>3. CASE task \in [op : {"observe"}, agent : Agent, seen : Entry, hook : Hook]
  BY <1>3
<1>4. CASE task \in [op : {"register", "announce"}, agent : Agent, seen : Snapshot,
                     request : Request]
  BY <1>4
<1>5. CASE task \in [op : {"settle", "request"}, agent : Agent]
  BY <1>5
<1> QED BY <1>1, <1>2, <1>3, <1>4, <1>5 DEF Task

LEMMA DecideStatusType == \A e : DecideStatus(e) \in {"quarantined", "active"}
BY DEF DecideStatus

LEMMA FreshEntryType ==
  ASSUME NEW request \in Request, NEW o \in {"none", "pending"}
  PROVE  FreshEntry(request, o) \in Entry
<1>1. request.scopes \in SUBSET Scope /\ request.declared \in SUBSET Hook
  BY HookAssumption DEF Request
<1> QED BY <1>1 DEF FreshEntry, Entry

LEMMA ReRegisteredType ==
  ASSUME NEW seen \in Entry, NEW request \in Request
  PROVE  ReRegistered(seen, request) \in Entry
BY FreshEntryType DEF ReRegistered, Entry

LEMMA SpendType ==
  ASSUME NEW event \in Event, spent \in [Event -> Nat], Spend(event)
  PROVE  spent' \in [Event -> Nat]
BY DEF Spend

LEMMA BeginType ==
  ASSUME inflight \in [Thread -> Task], NEW t \in Thread, NEW task \in Task,
         Begin(t, task) \/ Become(t, task)
  PROVE  inflight' \in [Thread -> Task]
BY DEF Begin, Become

LEMMA TypeInit == Init => TypeOK
BY DEF Init, TypeOK, Snapshot, Task, History, Event, Step

(* An entry with some of its fields set to values of their types.          *)
LEMMA EntryUpdate ==
  ASSUME NEW e \in Entry, NEW S \in SUBSET Scope, NEW A \in SUBSET Scope,
         NEW st \in {"quarantined", "active"},
         NEW ap \in {"none", "pending", "approved"},
         NEW P \in SUBSET Hook, NEW F \in SUBSET RequireObserved,
         NEW o \in {"none", "pending", "running", "done"}
  PROVE  /\ [e EXCEPT !.scopes = S] \in Entry
         /\ [e EXCEPT !.status = st] \in Entry
         /\ [e EXCEPT !.onboarding = o] \in Entry
         /\ [e EXCEPT !.fresh = F] \in Entry
         /\ [e EXCEPT !.proven = P, !.onboarding = o] \in Entry
         /\ [e EXCEPT !.proven = P, !.status = st] \in Entry
         /\ [e EXCEPT !.proven = P, !.fresh = F, !.status = st] \in Entry
         /\ [e EXCEPT !.approval = ap, !.status = st, !.approved = A] \in Entry
         /\ [e EXCEPT !.approval = ap, !.status = st] \in Entry
         /\ [e EXCEPT !.approval = ap, !.approved = A] \in Entry
BY DEF Entry

LEMMA ReloadedType ==
  ASSUME registry \in [Agent -> Snapshot], NEW a \in Agent
  PROVE  Reloaded(a) \in Snapshot
<1>1. CASE ~Present(a)
  BY <1>1 DEF Reloaded, Snapshot
<1>2. CASE Present(a)
  <2> DEFINE row == [registry[a] EXCEPT !.approval = "none", !.approved = {}]
  <2>1. row \in Entry
    BY <1>2, PresentEntry, EntryUpdate
  <2>2. [row EXCEPT !.approval = "pending", !.status = "quarantined"] \in Entry
    BY <2>1, EntryUpdate
  <2> QED BY <1>2, <2>1, <2>2 DEF Reloaded, Snapshot
<1> QED BY <1>1, <1>2

(* Every step of a handler keeps the types.                                *)
LEMMA TypeThread ==
  ASSUME TypeOK, NEW t \in Thread, ThreadStep(t)
  PROVE  TypeOK'
<1> USE DEF TypeOK
<1>1. ASSUME NEW a \in Agent, NEW request \in Request, RegisterRead(t, a, request)
      PROVE  TypeOK'
  <2>1. [op |-> "register", agent |-> a, seen |-> registry[a], request |-> request]
          \in Task
    BY DEF Task
  <2> QED BY <1>1, <2>1, BeginType, SpendType DEF RegisterRead, Event
<1>2. CASE RegisterWrite(t)
  <2> DEFINE a == inflight[t].agent
             seen == inflight[t].seen
             request == inflight[t].request
  <2>1. a \in Agent /\ seen \in Snapshot /\ request \in Request
    BY <1>2, TaskFields DEF RegisterWrite
  <2>2. registry' \in [Agent -> Snapshot]
    <3>1. CASE seen = NoEntry
      BY <1>2, <2>1, <3>1, FreshEntryType DEF RegisterWrite, Snapshot
    <3>2. CASE seen # NoEntry
      <4>1. seen \in Entry
        BY <2>1, <3>2 DEF Snapshot
      <4> QED BY <1>2, <2>1, <3>2, <4>1, ReRegisteredType DEF RegisterWrite, Snapshot
    <3> QED BY <3>1, <3>2
  <2>3. history' \in [Agent -> History]
    BY <1>2, <2>1 DEF RegisterWrite, History, Request
  <2>4. [op |-> "request", agent |-> a] \in Task /\ Idle \in Task
    BY <2>1 DEF Task
  <2>5. inflight' \in [Thread -> Task]
    BY <1>2, <2>4, BeginType DEF RegisterWrite
  <2> QED BY <1>2, <2>2, <2>3, <2>5 DEF RegisterWrite
<1>3. CASE RecordRequest(t)
  <2>1. inflight[t].agent \in Agent
    BY <1>3, TaskFields DEF RecordRequest
  <2> QED BY <1>3, <2>1, BeginType DEF RecordRequest, Task
<1>4. ASSUME NEW a \in Agent, Deregister(t, a)
      PROVE  TypeOK'
  BY <1>4, SpendType DEF Deregister, Event, Snapshot
<1>5. ASSUME NEW a \in Agent, NEW hook \in Hook, ObserveRead(t, a, hook)
      PROVE  TypeOK'
  <2>1. [op |-> "observe", agent |-> a, seen |-> registry[a], hook |-> hook] \in Task
    BY <1>5, PresentEntry DEF ObserveRead, Task
  <2> QED BY <1>5, <2>1, BeginType DEF ObserveRead
<1>6. CASE ObserveWrite(t)
  <2> DEFINE task == inflight[t]
             a == task.agent
             probe == [task.seen EXCEPT !.proven = @ \cup {task.hook}]
             status == IF task.seen.status = "quarantined"
                         THEN DecideStatus(probe) ELSE registry[a].status
             new == [registry[a] EXCEPT
                       !.proven = @ \cup {task.hook},
                       !.fresh = @ \cup ({task.hook} \cap RequireObserved),
                       !.status = status]
  <2>1. a \in Agent /\ task.hook \in Hook
    BY <1>6, TaskFields DEF ObserveWrite
  <2>2. ASSUME Present(a) PROVE new \in Entry
    <3>1. registry[a] \in Entry
      BY <2>1, <2>2, PresentEntry
    <3>2. status \in {"quarantined", "active"}
      BY <3>1, DecideStatusType DEF Entry
    <3>3. registry[a].proven \cup {task.hook} \in SUBSET Hook
      BY <3>1, <2>1 DEF Entry
    <3>4. registry[a].fresh \cup ({task.hook} \cap RequireObserved)
            \in SUBSET RequireObserved
      BY <3>1 DEF Entry
    <3> QED BY <3>1, <3>2, <3>3, <3>4 DEF Entry
  <2>3. registry' = Patched(a, new)
    BY <1>6 DEF ObserveWrite, Patched
  <2>4. registry' \in [Agent -> Snapshot]
    BY <2>1, <2>2, <2>3, PatchedType
  <2> QED BY <1>6, <2>4, BeginType DEF ObserveWrite, Task
<1>7. ASSUME NEW a \in Agent, ApproveRead(t, a)
      PROVE  TypeOK'
  <2>1. [op |-> "approve", agent |-> a, seen |-> registry[a]] \in Task
    BY <1>7, PresentEntry DEF ApproveRead, Task
  <2> QED BY <1>7, <2>1, BeginType DEF ApproveRead
<1>8. CASE ApproveWrite(t)
  <2> DEFINE task == inflight[t]
             a == task.agent
             status == DecideStatus([task.seen EXCEPT !.approval = "approved"])
             approved == task.seen.scopes \cup task.seen.approved
             new == [registry[a] EXCEPT !.approval = "approved", !.status = status,
                                        !.approved = approved]
  <2>1. a \in Agent /\ task.seen \in Entry
    BY <1>8, TaskFields DEF ApproveWrite
  <2>2. approved \in SUBSET Scope /\ status \in {"quarantined", "active"}
    BY <2>1, DecideStatusType DEF Entry
  <2>3. ASSUME Present(a) PROVE new \in Entry
    <3>1. registry[a] \in Entry
      BY <2>1, <2>3, PresentEntry
    <3> QED BY <3>1, <2>2 DEF Entry
  <2>4. registry' = Patched(a, new)
    BY <1>8 DEF ApproveWrite, Patched
  <2>5. registry' \in [Agent -> Snapshot]
    BY <2>1, <2>3, <2>4, PatchedType
  <2>6. history' \in [Agent -> History]
    BY <1>8, <2>1 DEF ApproveWrite, History
  <2>7. [op |-> "settle", agent |-> a] \in Task
    BY <2>1 DEF Task
  <2> QED BY <1>8, <2>5, <2>6, <2>7, BeginType DEF ApproveWrite
<1>9. CASE SettleTokens(t)
  BY <1>9, BeginType DEF SettleTokens, Task
<1> QED BY <1>1, <1>2, <1>3, <1>4, <1>5, <1>6, <1>7, <1>8, <1>9 DEF ThreadStep

LEMMA MoveOnType ==
  ASSUME pipeline \subseteq Agent \X Step, NEW a \in Agent, NEW from, NEW to \in Step,
         MoveOn(a, from, to)
  PROVE  pipeline' \subseteq Agent \X Step
BY DEF MoveOn

LEMMA StartRunType ==
  ASSUME pipeline \subseteq Agent \X Step, starting \subseteq Agent, NEW a \in Agent,
         StartRun(a)
  PROVE  pipeline' \subseteq Agent \X Step /\ starting' \subseteq Agent
BY DEF StartRun, Step

LEMMA TypeLoop ==
  ASSUME TypeOK, LoopStep
  PROVE  TypeOK'
<1> USE LoopAssumption DEF TypeOK
<1>1. ASSUME NEW a \in Agent, NEW request \in Request, AnnounceRead(a, request)
      PROVE  TypeOK'
  <2>1. [op |-> "announce", agent |-> a, seen |-> registry[a], request |-> request]
          \in Task
    BY DEF Task
  <2> QED BY <1>1, <2>1, BeginType, SpendType DEF AnnounceRead, Event
<1>2. CASE AnnounceWrite
  <2> DEFINE a == inflight[Loop].agent
             seen == inflight[Loop].seen
             request == inflight[Loop].request
             new == [registry[a] EXCEPT !.proven = {}, !.onboarding = "none"]
  <2>1. a \in Agent /\ seen \in Snapshot /\ request \in Request
    BY <1>2, TaskFields DEF AnnounceWrite
  <2>2. registry' \in [Agent -> Snapshot] /\ history' \in [Agent -> History]
    <3>1. CASE seen = NoEntry
      BY <1>2, <2>1, <3>1, FreshEntryType, SMTT(40) DEF AnnounceWrite, Snapshot, History, Request
    <3>2. CASE seen # NoEntry
      <4>1. Present(a) => new \in Entry
        BY <2>1, PresentEntry, EntryUpdate
      <4>2. registry' = Patched(a, new) /\ history' = history
        BY <1>2, <3>2 DEF AnnounceWrite, Patched
      <4> QED BY <2>1, <4>1, <4>2, PatchedType
    <3> QED BY <3>1, <3>2
  <2>3. pipeline' \subseteq Agent \X Step /\ starting' \subseteq Agent
    BY <1>2, <2>1, StartRunType DEF AnnounceWrite
  <2> QED BY <1>2, <2>2, <2>3, BeginType DEF AnnounceWrite, Task
<1>3. ASSUME NEW a \in Agent, RegisterCard(a)
      PROVE  TypeOK'
  <2> DEFINE card == [FreshEntry([scopes |-> {}, declared |-> {}], "pending")
                        EXCEPT !.proven = {}]
  <2>1. card \in Entry
    BY DEF FreshEntry, Entry
  <2>2. registry' \in [Agent -> Snapshot]
    BY <1>3, <2>1 DEF RegisterCard, Snapshot
  <2>3. history' \in [Agent -> History]
    BY <1>3 DEF RegisterCard, History
  <2>4. pipeline' \subseteq Agent \X Step /\ starting' \subseteq Agent
    BY <1>3, StartRunType DEF RegisterCard
  <2> QED BY <1>3, <2>2, <2>3, <2>4, SpendType DEF RegisterCard, Event
<1>4. ASSUME NEW a \in Agent, ReconcileRead(a)
      PROVE  TypeOK'
  <2>1. [op |-> "stale", agent |-> a, seen |-> registry[a]] \in Task
    BY <1>4, PresentEntry DEF ReconcileRead, Task
  <2> QED BY <1>4, <2>1, BeginType DEF ReconcileRead
<1>5. ASSUME NEW a \in Agent, ManagerStart(a)
      PROVE  TypeOK'
  <2>1. Present(a) => [registry[a] EXCEPT !.onboarding = "pending"] \in Entry
    BY PresentEntry, EntryUpdate
  <2>2. registry' \in [Agent -> Snapshot]
    BY <1>5, <2>1, PatchedType DEF ManagerStart
  <2>3. pipeline' \subseteq Agent \X Step /\ starting' \subseteq Agent
    BY <1>5, StartRunType DEF ManagerStart
  <2> QED BY <1>5, <2>2, <2>3 DEF ManagerStart
<1>6. ASSUME NEW a \in Agent, MarkRunning(a)
      PROVE  TypeOK'
  <2>1. Present(a) => [registry[a] EXCEPT !.onboarding = "running"] \in Entry
    BY PresentEntry, EntryUpdate
  <2> QED BY <1>6, <2>1, PatchedType DEF MarkRunning
<1>7. ASSUME NEW a \in Agent, MapIdentity(a)
      PROVE  TypeOK'
  <2>1. Present(a) => [registry[a] EXCEPT !.scopes = Magazine[a]] \in Entry
    BY PresentEntry, EntryUpdate, MagazineAssumption
  <2> QED BY <1>7, <2>1, PatchedType, MoveOnType DEF MapIdentity, Step
<1>8. ASSUME NEW a \in Agent, CheckRead(a)
      PROVE  TypeOK'
  <2>1. [op |-> "check", agent |-> a, seen |-> registry[a]] \in Task
    BY <1>8, PresentEntry DEF CheckRead, Task
  <2> QED BY <1>8, <2>1, BeginType DEF CheckRead
<1>9. ASSUME NEW a \in Agent, Link(a)
      PROVE  TypeOK'
  <2>1. Present(a) => [registry[a] EXCEPT !.onboarding = "done"] \in Entry
    BY PresentEntry, EntryUpdate
  <2> QED BY <1>9, <2>1, PatchedType DEF Link
<1>10. CASE ReconcileWrite
  <2> DEFINE a == inflight[Loop].agent
             proven == registry[a].proven \ StaleHooks(inflight[Loop].seen)
             status == DecideStatus([inflight[Loop].seen EXCEPT
                                       !.proven = @ \ StaleHooks(inflight[Loop].seen)])
             new == [registry[a] EXCEPT !.proven = proven, !.status = status]
  <2>1. a \in Agent
    BY <1>10, TaskFields DEF ReconcileWrite
  <2>2. ASSUME Present(a) PROVE new \in Entry
    <3>1. registry[a] \in Entry
      BY <2>1, <2>2, PresentEntry
    <3> QED BY <3>1, DecideStatusType DEF Entry
  <2>3. registry' = Patched(a, new)
    BY <1>10 DEF ReconcileWrite, Patched
  <2> QED BY <1>10, <2>1, <2>2, <2>3, PatchedType, BeginType DEF ReconcileWrite, Task
<1>11. CASE CheckWrite
  <2> DEFINE a == inflight[Loop].agent
             new == [registry[a] EXCEPT !.status = DecideStatus(inflight[Loop].seen)]
  <2>1. a \in Agent
    BY <1>11, TaskFields DEF CheckWrite
  <2>2. Present(a) => new \in Entry
    BY <2>1, PresentEntry, EntryUpdate, DecideStatusType
  <2>3. registry' = Patched(a, new)
    BY <1>11 DEF CheckWrite, Patched
  <2>4. registry' \in [Agent -> Snapshot]
    BY <2>1, <2>2, <2>3, PatchedType
  <2>5. inflight' \in [Thread -> Task]
    BY <1>11, BeginType DEF CheckWrite, Task
  <2>6. pipeline' \subseteq Agent \X Step
    BY <1>11, <2>1, MoveOnType DEF CheckWrite, Step
  <2> QED BY <1>11, <2>4, <2>5, <2>6 DEF CheckWrite
<1>12. ASSUME NEW a \in Agent, CheckMissing(a)
       PROVE  TypeOK'
  BY <1>12, MoveOnType DEF CheckMissing, Step
<1>13. CASE ManagerList
  BY <1>13 DEF ManagerList
<1> QED BY <1>1, <1>2, <1>3, <1>4, <1>5, <1>6, <1>7, <1>8, <1>9, <1>10, <1>11, <1>12,
           <1>13
        DEF LoopStep

LEMMA TypeEnvironment ==
  ASSUME TypeOK, Environment
  PROVE  TypeOK'
<1> USE DEF TypeOK
<1>1. ASSUME NEW a \in Agent, NEW hook \in Hook, Lapse(a, hook)
      PROVE  TypeOK'
  <2>1. [registry[a] EXCEPT !.fresh = @ \ {hook}] \in Entry
    BY <1>1, PresentEntry DEF Lapse, Entry
  <2> QED BY <1>1, <2>1, SpendType DEF Lapse, Event, Snapshot
<1>2. ASSUME NEW a \in Agent, ExpireTokens(a)
      PROVE  TypeOK'
  BY <1>2, SpendType DEF ExpireTokens, Event
<1>3. CASE Restart
  <2>1. registry' \in [Agent -> Snapshot]
    BY <1>3, ReloadedType DEF Restart
  <2>2. inflight' \in [Thread -> Task]
    BY <1>3 DEF Restart, Task
  <2> QED BY <1>3, <2>1, <2>2, SpendType DEF Restart, Event
<1> QED BY <1>1, <1>2, <1>3 DEF Environment

(* Whatever the interleaving of handlers, workflows and restarts, the      *)
(* registry holds only entries the code can build.                         *)
THEOREM TypeCorrect == Spec => []TypeOK
<1>1. TypeOK /\ [Next]_vars => TypeOK'
  <2> SUFFICES ASSUME TypeOK, [Next]_vars PROVE TypeOK'
    OBVIOUS
  <2>1. CASE UNCHANGED vars
    BY <2>1 DEF TypeOK, vars
  <2> QED BY <2>1, TypeThread, TypeLoop, TypeEnvironment DEF Next
<1> QED BY <1>1, TypeInit, PTL DEF Spec

-----------------------------------------------------------------------------
(* Decisions.                                                              *)
LEMMA DecideGated ==
  \A e : e.approval = "pending" => DecideStatus(e) = "quarantined"
BY DEF DecideStatus

(* A patch that leaves the approval alone and keeps the status or sets it  *)
(* to something that is not "active" opens no gate.                        *)
LEMMA PatchGate ==
  ASSUME registry \in [Agent -> Snapshot], NEW a \in Agent, NEW b \in Agent, NEW new,
         registry' = Patched(b, new),
         Present(b) => /\ new \in Entry
                       /\ new.approval = registry[b].approval
                       /\ (new.status # "active" \/ new.status = registry[b].status),
         (Pending(a) /\ Active(a))'
  PROVE  Pending(a) /\ Active(a)
<1>1. CASE a = b /\ Present(b)
  <2>1. registry'[a] = new
    BY <1>1 DEF Patched
  <2>2. registry[a].approval = "pending" /\ registry[a].status = "active"
    BY <1>1, <2>1 DEF Pending, Active
  <2> QED BY <1>1, <2>2 DEF Pending, Active
<1>2. CASE ~ (a = b /\ Present(b))
  <2>1. registry'[a] = registry[a]
    BY <1>2 DEF Patched
  <2> QED BY <2>1 DEF Pending, Active, Present
<1> QED BY <1>1, <1>2

LEMMA UnchangedGate ==
  ASSUME NEW a \in Agent, registry'[a] = registry[a], (Pending(a) /\ Active(a))'
  PROVE  Pending(a) /\ Active(a)
BY DEF Pending, Active, Present

(* A write of a status decided from a snapshot.                            *)
LEMMA DecisionGate ==
  ASSUME registry \in [Agent -> Snapshot], NEW a \in Agent, NEW b \in Agent, NEW new,
         NEW task, task.op \in {"observe", "stale", "check"}, task.agent = b,
         registry' = Patched(b, new),
         Present(b) => /\ new \in Entry
                       /\ new.approval = registry[b].approval
                       /\ \/ new.status = registry[b].status
                          \/ task.seen.approval = "pending" => new.status = "quarantined",
         (Pending(a) /\ Active(a))'
  PROVE  \/ Pending(a) /\ Active(a)
         \/ Pending(a) /\ DecidesUngated(task, a)
<1>1. CASE task.seen.approval = "pending"
  <2>1. Present(b) => new.status # "active" \/ new.status = registry[b].status
    BY <1>1
  <2> QED BY <2>1, PatchGate
<1>2. CASE task.seen.approval # "pending"
  <2>1. CASE a = b /\ Present(b)
    <3>1. registry'[a] = new
      BY <2>1 DEF Patched
    <3>2. Pending(a)
      BY <2>1, <3>1 DEF Pending
    <3> QED BY <1>2, <2>1, <3>2 DEF DecidesUngated
  <2>2. CASE ~ (a = b /\ Present(b))
    <3>1. registry'[a] = registry[a]
      BY <2>2 DEF Patched
    <3> QED BY <3>1, UnchangedGate
  <2> QED BY <2>1, <2>2
<1> QED BY <1>1, <1>2

LostRace(a) == \E t \in Thread : Pending(a) /\ DecidesUngated(inflight[t], a)

LEMMA GateThread ==
  ASSUME TypeOK, NEW t \in Thread, ThreadStep(t), NEW a \in Agent,
         (Pending(a) /\ Active(a))'
  PROVE  (Pending(a) /\ Active(a)) \/ LostRace(a)
<1> USE DEF TypeOK
<1>1. CASE UNCHANGED registry
  BY <1>1, UnchangedGate
<1>2. CASE RegisterWrite(t)
  <2> DEFINE b == inflight[t].agent
  <2>1. b \in Agent /\ inflight[t].seen \in Snapshot
    BY <1>2, TaskFields DEF RegisterWrite
  <2>2. \E entry : registry' = [registry EXCEPT ![b] = entry]
                   /\ entry.status = "quarantined"
    <3>1. FreshEntry(inflight[t].request, "none").status = "quarantined"
      BY DEF FreshEntry
    <3>2. ReRegistered(inflight[t].seen, inflight[t].request).status = "quarantined"
      BY DEF ReRegistered, FreshEntry
    <3> QED BY <1>2, <3>1, <3>2 DEF RegisterWrite
  <2>3. a # b
    BY <2>1, <2>2 DEF Active
  <2> QED BY <2>2, <2>3, UnchangedGate
<1>3. ASSUME NEW b \in Agent, Deregister(t, b)
      PROVE  Pending(a) /\ Active(a)
  <2>1. a # b
    BY <1>3 DEF Deregister, Pending, Present
  <2> QED BY <1>3, <2>1, UnchangedGate DEF Deregister
<1>4. CASE ObserveWrite(t)
  <2> DEFINE task == inflight[t]
             b == task.agent
             probe == [task.seen EXCEPT !.proven = @ \cup {task.hook}]
             status == IF task.seen.status = "quarantined"
                         THEN DecideStatus(probe) ELSE registry[b].status
             new == [registry[b] EXCEPT
                       !.proven = @ \cup {task.hook},
                       !.fresh = @ \cup ({task.hook} \cap RequireObserved),
                       !.status = status]
  <2>1. b \in Agent /\ task.seen \in Entry /\ task.hook \in Hook
    BY <1>4, TaskFields DEF ObserveWrite
  <2>2. task.op = "observe" /\ registry' = Patched(b, new)
    BY <1>4 DEF ObserveWrite, Patched
  <2>3. ASSUME Present(b)
        PROVE  /\ new \in Entry
               /\ new.approval = registry[b].approval
               /\ \/ new.status = registry[b].status
                  \/ task.seen.approval = "pending" => new.status = "quarantined"
    <3>1. registry[b] \in Entry
      BY <2>1, <2>3, PresentEntry
    <3>2. status \in {registry[b].status, DecideStatus(probe)}
      OBVIOUS
    <3>3. status \in {"quarantined", "active"}
      BY <3>1, <3>2, DecideStatusType DEF Entry
    <3>4. new.status = status
      BY <3>1 DEF Entry
    <3>5. probe.approval = task.seen.approval
      BY <2>1 DEF Entry
    <3> QED BY <2>1, <3>1, <3>2, <3>3, <3>4, <3>5, DecideGated DEF Entry
  <2>4. \/ Pending(a) /\ Active(a)
        \/ Pending(a) /\ DecidesUngated(inflight[t], a)
    BY <2>1, <2>2, <2>3, DecisionGate
       DEF DecidesUngated, Patched, Present, Pending, Active
  <2> QED BY <2>4 DEF LostRace
<1>5. CASE ApproveWrite(t)
  <2> DEFINE b == inflight[t].agent
  <2>1. b \in Agent
    BY <1>5, TaskFields DEF ApproveWrite
  <2>2. CASE a = b /\ Present(b)
    <3>1. registry[b] \in Entry
      BY <2>1, <2>2, PresentEntry
    <3>2. registry'[a].approval = "approved"
      BY <1>5, <2>2, <3>1 DEF ApproveWrite, Patched, Entry
    <3> QED BY <3>2 DEF Pending
  <2>3. CASE ~ (a = b /\ Present(b))
    <3>1. registry'[a] = registry[a]
      BY <1>5, <2>3 DEF ApproveWrite, Patched
    <3> QED BY <3>1, UnchangedGate
  <2> QED BY <2>2, <2>3
<1> QED BY <1>1, <1>2, <1>3, <1>4, <1>5
        DEF ThreadStep, RegisterRead, RecordRequest, ObserveRead, ApproveRead, SettleTokens

LEMMA GateLoop ==
  ASSUME TypeOK, LoopStep, NEW a \in Agent, (Pending(a) /\ Active(a))'
  PROVE  (Pending(a) /\ Active(a)) \/ LostRace(a)
<1> USE LoopAssumption DEF TypeOK
<1>1. CASE UNCHANGED registry
  BY <1>1, UnchangedGate
<1>2. CASE AnnounceWrite
  <2> DEFINE b == inflight[Loop].agent
             new == [registry[b] EXCEPT !.proven = {}, !.onboarding = "none"]
  <2>1. b \in Agent
    BY <1>2, TaskFields DEF AnnounceWrite
  <2>2. CASE inflight[Loop].seen = NoEntry
    <3>1. registry' = [registry EXCEPT ![b] = FreshEntry(inflight[Loop].request, "pending")]
      BY <1>2, <2>2 DEF AnnounceWrite
    <3>2. a # b
      BY <2>1, <3>1 DEF FreshEntry, Active
    <3> QED BY <3>1, <3>2, UnchangedGate
  <2>3. CASE inflight[Loop].seen # NoEntry
    <3>1. registry' = Patched(b, new)
      BY <1>2, <2>3 DEF AnnounceWrite, Patched
    <3>2. Present(b) => /\ new \in Entry
                        /\ new.approval = registry[b].approval
                        /\ new.status = registry[b].status
      BY <2>1, PresentEntry, ZenonT(40) DEF Entry
    <3> QED BY <2>1, <3>1, <3>2, PatchGate
  <2> QED BY <2>2, <2>3
<1>3. ASSUME NEW b \in Agent, RegisterCard(b)
      PROVE  Pending(a) /\ Active(a)
  <2>1. a # b
    BY <1>3 DEF RegisterCard, FreshEntry, Active
  <2> QED BY <1>3, <2>1, UnchangedGate DEF RegisterCard
<1>4. ASSUME NEW b \in Agent, NEW new,
             registry' = Patched(b, new),
             new \in {[registry[b] EXCEPT !.onboarding = "pending"],
                      [registry[b] EXCEPT !.onboarding = "running"],
                      [registry[b] EXCEPT !.onboarding = "done"],
                      [registry[b] EXCEPT !.scopes = Magazine[b]]}
      PROVE  Pending(a) /\ Active(a)
  <2>1. Present(b) => /\ new \in Entry
                      /\ new.approval = registry[b].approval
                      /\ new.status = registry[b].status
    BY <1>4, PresentEntry, MagazineAssumption DEF Entry
  <2> QED BY <1>4, <2>1, PatchGate
<1>5. CASE ReconcileWrite
  <2> DEFINE task == inflight[Loop]
             b == task.agent
             probe == [task.seen EXCEPT !.proven = @ \ StaleHooks(task.seen)]
             new == [registry[b] EXCEPT !.proven = @ \ StaleHooks(task.seen),
                                        !.status = DecideStatus(probe)]
  <2>1. b \in Agent /\ task.seen \in Entry
    BY <1>5, TaskFields DEF ReconcileWrite
  <2>2. task.op = "stale" /\ registry' = Patched(b, new)
    BY <1>5 DEF ReconcileWrite, Patched
  <2>3. ASSUME Present(b)
        PROVE  /\ new \in Entry
               /\ new.approval = registry[b].approval
               /\ task.seen.approval = "pending" => new.status = "quarantined"
    <3>1. registry[b] \in Entry
      BY <2>1, <2>3, PresentEntry
    <3>2. DecideStatus(probe) \in {"quarantined", "active"}
      BY DecideStatusType
    <3>3. probe.approval = task.seen.approval
      BY <2>1 DEF Entry
    <3> QED BY <3>1, <3>2, <3>3, DecideGated DEF Entry
  <2>4. \/ Pending(a) /\ Active(a)
        \/ Pending(a) /\ DecidesUngated(inflight[Loop], a)
    BY <2>1, <2>2, <2>3, DecisionGate
       DEF DecidesUngated, Patched, Present, Pending, Active
  <2> QED BY <2>4 DEF LostRace
<1>6. CASE CheckWrite
  <2> DEFINE task == inflight[Loop]
             b == task.agent
             new == [registry[b] EXCEPT !.status = DecideStatus(task.seen)]
  <2>1. b \in Agent
    BY <1>6, TaskFields DEF CheckWrite
  <2>2. task.op = "check" /\ registry' = Patched(b, new)
    BY <1>6 DEF CheckWrite, Patched
  <2>3. Present(b) => /\ new \in Entry
                      /\ new.approval = registry[b].approval
                      /\ task.seen.approval = "pending" => new.status = "quarantined"
    BY <2>1, PresentEntry, DecideStatusType, DecideGated DEF Entry
  <2>4. \/ Pending(a) /\ Active(a)
        \/ Pending(a) /\ DecidesUngated(inflight[Loop], a)
    BY <2>1, <2>2, <2>3, DecisionGate
       DEF DecidesUngated, Patched, Present, Pending, Active
  <2> QED BY <2>4 DEF LostRace
<1>7. ASSUME NEW b \in Agent, ManagerStart(b)
      PROVE  Pending(a) /\ Active(a)
  <2>1. registry' = Patched(b, [registry[b] EXCEPT !.onboarding = "pending"])
    BY <1>7 DEF ManagerStart, Patched
  <2> QED BY <1>4, <2>1
<1>8. ASSUME NEW b \in Agent, MarkRunning(b) \/ MapIdentity(b) \/ Link(b)
      PROVE  Pending(a) /\ Active(a)
  BY <1>4, <1>8 DEF MarkRunning, MapIdentity, Link
<1> QED BY <1>1, <1>2, <1>3, <1>5, <1>6, <1>7, <1>8
        DEF LoopStep, AnnounceRead, ReconcileRead, CheckRead, CheckMissing, ManagerList

LEMMA GateEnvironment ==
  ASSUME TypeOK, Environment, NEW a \in Agent, (Pending(a) /\ Active(a))'
  PROVE  Pending(a) /\ Active(a)
<1> USE DEF TypeOK
<1>1. ASSUME NEW b \in Agent, NEW hook \in Hook, Lapse(b, hook)
      PROVE  Pending(a) /\ Active(a)
  <2> DEFINE new == [registry[b] EXCEPT !.fresh = @ \ {hook}]
  <2>1. registry[b] \in Entry
    BY <1>1, PresentEntry DEF Lapse
  <2>2. /\ new \in Entry
        /\ new.approval = registry[b].approval
        /\ new.status = registry[b].status
    BY <2>1 DEF Entry
  <2>3. registry' = Patched(b, new)
    BY <1>1 DEF Lapse, Patched
  <2> QED BY <2>2, <2>3, PatchGate
<1>2. ASSUME NEW b \in Agent, ExpireTokens(b)
      PROVE  Pending(a) /\ Active(a)
  BY <1>2, UnchangedGate DEF ExpireTokens
<1>3. CASE Restart
  <2>1. registry'[a] = Reloaded(a)
    BY <1>3 DEF Restart
  <2>2. Present(a)
    BY <2>1 DEF Reloaded, Pending, Present
  <2>3. registry[a] \in Entry
    BY <2>2, PresentEntry
  <2> QED BY <2>1, <2>2, <2>3 DEF Reloaded, Pending, Active, Entry
<1> QED BY <1>1, <1>2, <1>3 DEF Environment

LEMMA GateStep ==
  ASSUME TypeOK, [Next]_vars, NEW a \in Agent, (Pending(a) /\ Active(a))'
  PROVE  (Pending(a) /\ Active(a)) \/ LostRace(a)
<1>1. CASE UNCHANGED vars
  BY <1>1, UnchangedGate DEF vars
<1> QED BY <1>1, GateThread, GateLoop, GateEnvironment DEF Next

(* With any number of threads, an agent is active behind a closed gate     *)
(* only after a handler decided from a snapshot older than the closing.    *)
THEOREM GateLostOnlyToRace == Spec => GateOnlyLostToRace
<1>1. TypeOK /\ [Next]_vars =>
        [\A a \in Agent :
           (Pending(a) /\ Active(a))' =>
              \/ Pending(a) /\ Active(a)
              \/ \E t \in Thread : Pending(a) /\ DecidesUngated(inflight[t], a)]_vars
  BY GateStep DEF LostRace
<1> QED BY <1>1, TypeCorrect, PTL DEF Spec, GateOnlyLostToRace

-----------------------------------------------------------------------------
(* One thread: nothing comes between a handler's read and its write, so    *)
(* the snapshot still says what the registry says.                         *)
Agrees(a, seen) ==
  IF seen = NoEntry THEN ~Present(a)
  ELSE /\ Present(a)
       /\ registry[a].approval = seen.approval
       /\ registry[a].scopes = seen.scopes
       /\ registry[a].approved = seen.approved

Reader == {"register", "announce", "observe", "stale", "check", "approve"}

SnapshotCurrent ==
  inflight[Loop].op \in Reader => Agrees(inflight[Loop].agent, inflight[Loop].seen)

SerialInv == TypeOK /\ SnapshotCurrent /\ GatedWhilePending

LEMMA AgreesNow ==
  ASSUME NEW a \in Agent
  PROVE  Agrees(a, registry[a])
BY DEF Agrees, Present

LEMMA SnapshotStep ==
  ASSUME TypeOK, SnapshotCurrent, Thread = {Loop}, [Next]_vars
  PROVE  SnapshotCurrent'
<1> USE DEF TypeOK
<1>1. CASE UNCHANGED vars
  BY <1>1 DEF vars, SnapshotCurrent, Agrees, Present
<1>2. ASSUME NEW task \in Task, Begin(Loop, task), UNCHANGED registry,
             task.op \in Reader => /\ task.agent \in Agent
                                   /\ task.seen = registry[task.agent]
      PROVE  SnapshotCurrent'
  <2>1. inflight'[Loop] = task
    BY <1>2 DEF Begin
  <2>2. task.op \in Reader => Agrees(task.agent, task.seen)
    BY <1>2, AgreesNow
  <2> QED BY <1>2, <2>1, <2>2 DEF SnapshotCurrent, Agrees, Present
<1>3. ASSUME inflight'[Loop].op \notin Reader
      PROVE  SnapshotCurrent'
  BY <1>3 DEF SnapshotCurrent
<1>4. ASSUME inflight[Loop] = Idle, inflight' = inflight
      PROVE  SnapshotCurrent'
  BY <1>3, <1>4 DEF Idle, Reader
<1>5. ASSUME ThreadStep(Loop)
      PROVE  SnapshotCurrent'
  <2>1. ASSUME NEW a \in Agent, NEW request \in Request, RegisterRead(Loop, a, request)
        PROVE  SnapshotCurrent'
    <3>1. [op |-> "register", agent |-> a, seen |-> registry[a], request |-> request]
            \in Task
      BY DEF Task
    <3> QED BY <2>1, <3>1, <1>2 DEF RegisterRead
  <2>2. ASSUME RegisterWrite(Loop) \/ RecordRequest(Loop) \/ ObserveWrite(Loop)
               \/ ApproveWrite(Loop) \/ SettleTokens(Loop)
        PROVE  SnapshotCurrent'
    <3>1. inflight'[Loop].op \in {"idle", "request", "settle"}
      BY <2>2, LoopAssumption
         DEF RegisterWrite, RecordRequest, ObserveWrite, ApproveWrite, SettleTokens,
             Become, Idle
    <3> QED BY <3>1, <1>3 DEF Reader
  <2>3. ASSUME NEW a \in Agent, Deregister(Loop, a)
        PROVE  SnapshotCurrent'
    BY <2>3, <1>4 DEF Deregister
  <2>4. ASSUME NEW a \in Agent, NEW hook \in Hook, ObserveRead(Loop, a, hook)
        PROVE  SnapshotCurrent'
    <3>1. [op |-> "observe", agent |-> a, seen |-> registry[a], hook |-> hook] \in Task
      BY <2>4, PresentEntry DEF ObserveRead, Task
    <3> QED BY <2>4, <3>1, <1>2 DEF ObserveRead
  <2>5. ASSUME NEW a \in Agent, ApproveRead(Loop, a)
        PROVE  SnapshotCurrent'
    <3>1. [op |-> "approve", agent |-> a, seen |-> registry[a]] \in Task
      BY <2>5, PresentEntry DEF ApproveRead, Task
    <3> QED BY <2>5, <3>1, <1>2 DEF ApproveRead
  <2> QED BY <1>5, <2>1, <2>2, <2>3, <2>4, <2>5 DEF ThreadStep
<1>6. ASSUME LoopStep
      PROVE  SnapshotCurrent'
  <2>1. ASSUME NEW a \in Agent, NEW request \in Request, AnnounceRead(a, request)
        PROVE  SnapshotCurrent'
    <3>1. [op |-> "announce", agent |-> a, seen |-> registry[a], request |-> request]
            \in Task
      BY DEF Task
    <3> QED BY <2>1, <3>1, <1>2 DEF AnnounceRead
  <2>2. ASSUME AnnounceWrite \/ ReconcileWrite \/ CheckWrite
        PROVE  SnapshotCurrent'
    <3>1. inflight'[Loop].op = "idle"
      BY <2>2, LoopAssumption DEF AnnounceWrite, ReconcileWrite, CheckWrite, Become, Idle
    <3> QED BY <3>1, <1>3 DEF Reader
  <2>3. ASSUME NEW a \in Agent,
               RegisterCard(a) \/ ManagerStart(a) \/ MarkRunning(a) \/ MapIdentity(a)
               \/ Link(a) \/ CheckMissing(a)
        PROVE  SnapshotCurrent'
    BY <2>3, <1>4 DEF RegisterCard, ManagerStart, MarkRunning, MapIdentity, Link,
                      CheckMissing, LoopFree
  <2>4. ASSUME NEW a \in Agent, ReconcileRead(a)
        PROVE  SnapshotCurrent'
    <3>1. [op |-> "stale", agent |-> a, seen |-> registry[a]] \in Task
      BY <2>4, PresentEntry DEF ReconcileRead, Task
    <3> QED BY <2>4, <3>1, <1>2 DEF ReconcileRead
  <2>5. ASSUME NEW a \in Agent, CheckRead(a)
        PROVE  SnapshotCurrent'
    <3>1. [op |-> "check", agent |-> a, seen |-> registry[a]] \in Task
      BY <2>5, PresentEntry DEF CheckRead, Task
    <3> QED BY <2>5, <3>1, <1>2 DEF CheckRead
  <2>6. CASE ManagerList
    BY <2>6, <1>4 DEF ManagerList, LoopFree
  <2> QED BY <1>6, <2>1, <2>2, <2>3, <2>4, <2>5, <2>6 DEF LoopStep
<1>7. ASSUME NEW a \in Agent, NEW hook \in Hook, Lapse(a, hook)
      PROVE  SnapshotCurrent'
  <2>1. registry[a] \in Entry /\ inflight' = inflight
    BY <1>7, PresentEntry DEF Lapse
  <2>2. [registry[a] EXCEPT !.fresh = @ \ {hook}] \in Entry
    BY <2>1 DEF Entry
  <2> DEFINE task == inflight[Loop]
  <2>3. SUFFICES ASSUME task.op \in Reader
                 PROVE  Agrees(task.agent, task.seen)'
    BY <2>1 DEF SnapshotCurrent
  <2>4. Agrees(task.agent, task.seen) /\ task.agent \in Agent
    BY <2>3, TaskFields, LoopAssumption DEF SnapshotCurrent, Reader
  <2>5. Present(a)'
    BY <1>7, <2>1 DEF Lapse, Present, Entry, NoEntry
  <2> QED BY <1>7, <2>1, <2>4, <2>5 DEF Agrees, Lapse, Present, Entry
<1>8. ASSUME NEW a \in Agent, ExpireTokens(a)
      PROVE  SnapshotCurrent'
  BY <1>8 DEF ExpireTokens, SnapshotCurrent, Agrees, Present
<1>9. ASSUME Restart
      PROVE  SnapshotCurrent'
  BY <1>9, <1>3, LoopAssumption DEF Restart, Idle, Reader
<1> QED BY <1>1, <1>5, <1>6, <1>7, <1>8, <1>9 DEF Next, Environment

LEMMA SerialStep ==
  ASSUME SerialInv, Thread = {Loop}, [Next]_vars
  PROVE  SerialInv'
<1>1. TypeOK'
  <2>1. CASE UNCHANGED vars
    BY <2>1 DEF vars, TypeOK, SerialInv
  <2> QED BY <2>1, TypeThread, TypeLoop, TypeEnvironment DEF Next, SerialInv
<1>2. SnapshotCurrent'
  BY SnapshotStep DEF SerialInv
<1>3. ASSUME NEW a \in Agent, (Pending(a) /\ Active(a))'
      PROVE  FALSE
  <2>1. LostRace(a)
    BY <1>3, GateStep DEF SerialInv, GatedWhilePending
  <2>2. Pending(a) /\ DecidesUngated(inflight[Loop], a)
    BY <2>1 DEF LostRace
  <2>3. Agrees(a, inflight[Loop].seen)
    BY <2>2 DEF SerialInv, SnapshotCurrent, DecidesUngated, Reader
  <2>4. inflight[Loop].seen \in Entry
    BY <2>2, TaskFields, LoopAssumption DEF SerialInv, TypeOK, DecidesUngated
  <2> QED BY <2>2, <2>3, <2>4 DEF Agrees, Pending, DecidesUngated
<1>4. GatedWhilePending'
  BY <1>3 DEF GatedWhilePending
<1> QED BY <1>1, <1>2, <1>4 DEF SerialInv

(* When handlers do not interleave, an agent that waits for the operator   *)
(* is never active, through onboarding, observations, token expiry and     *)
(* restarts.  Two handlers at once break it: GateOnlyLostToRace.           *)
THEOREM SerialGate ==
  ASSUME Thread = {Loop}
  PROVE  Spec => []GatedWhilePending
<1>1. Init => SerialInv
  <2> SUFFICES ASSUME Init PROVE SerialInv
    OBVIOUS
  <2>1. TypeOK
    BY TypeInit
  <2>2. SnapshotCurrent
    BY LoopAssumption DEF Init, SnapshotCurrent, Idle, Reader
  <2>3. GatedWhilePending
    BY DEF Init, GatedWhilePending, Pending, Present
  <2> QED BY <2>1, <2>2, <2>3 DEF SerialInv
<1>2. SerialInv /\ [Next]_vars => SerialInv'
  BY SerialStep
<1>3. SerialInv => GatedWhilePending
  BY DEF SerialInv
<1> QED BY <1>1, <1>2, <1>3, PTL DEF Spec

-----------------------------------------------------------------------------
(* The scopes of one entry are granted, or wait for the operator.          *)
Granted(h, a) == h.first \cup h.sanctioned \cup Magazine[a]

EntryScoped(e, h, a) ==
  /\ e.approved \subseteq Granted(h, a)
  /\ e.scopes \subseteq Granted(h, a) \cup (IF e.approval = "pending" THEN h.asked ELSE {})

ScopesInv == \A a \in Agent : Present(a) => EntryScoped(registry[a], history[a], a)

(* A step that changes one entry, and the history of no other agent.       *)
LEMMA ScopesPatch ==
  ASSUME TypeOK, ScopesInv, NEW b \in Agent, NEW new,
         registry' = Patched(b, new) \/ registry' = [registry EXCEPT ![b] = new],
         \A a \in Agent : a # b => history'[a] = history[a],
         Present(b)' => EntryScoped(new, history'[b], b)
  PROVE  ScopesInv'
<1> SUFFICES ASSUME NEW a \in Agent, Present(a)'
             PROVE  EntryScoped(registry'[a], history'[a], a)
  BY DEF ScopesInv, EntryScoped, Granted
<1>1. CASE a # b
  <2>1. registry'[a] = registry[a]
    BY <1>1 DEF Patched, TypeOK
  <2> QED BY <1>1, <2>1 DEF ScopesInv, Present
<1>2. CASE a = b
  <2>1. registry'[a] = new
    <3>1. CASE registry' = [registry EXCEPT ![b] = new]
      BY <1>2, <3>1 DEF TypeOK
    <3>2. CASE registry' = Patched(b, new)
      BY <1>2, <3>2 DEF TypeOK, Patched, Present
    <3> QED BY <3>1, <3>2
  <2> QED BY <1>2, <2>1
<1> QED BY <1>1, <1>2

LEMMA ScopesFresh ==
  ASSUME NEW request \in Request, NEW o \in {"none", "pending"}, NEW b \in Agent
  PROVE  EntryScoped(FreshEntry(request, o),
                     [first |-> request.scopes, asked |-> {}, sanctioned |-> {}], b)
BY DEF EntryScoped, Granted, FreshEntry

LEMMA ScopesUnchanged ==
  ASSUME ScopesInv, UNCHANGED <<registry, history>>
  PROVE  ScopesInv'
BY DEF ScopesInv, EntryScoped, Granted, Present

(* A patch that keeps scopes, approval and approved scopes.                *)
LEMMA ScopesKept ==
  ASSUME TypeOK, ScopesInv, NEW b \in Agent, NEW new,
         registry' = Patched(b, new), history' = history,
         Present(b) => /\ new.scopes \in {registry[b].scopes, Magazine[b]}
                       /\ new.approval = registry[b].approval
                       /\ new.approved = registry[b].approved
  PROVE  ScopesInv'
<1>1. Present(b)' => Present(b)
  BY DEF Patched, Present
<1>2. Present(b)' => EntryScoped(new, history'[b], b)
  BY <1>1 DEF ScopesInv, EntryScoped, Granted
<1> QED BY <1>2, ScopesPatch

LEMMA ScopesRegister ==
  ASSUME TypeOK, SnapshotCurrent, ScopesInv, RegisterWrite(Loop)
  PROVE  ScopesInv'
<1> DEFINE b == inflight[Loop].agent
           seen == inflight[Loop].seen
           request == inflight[Loop].request
<1>1. b \in Agent /\ seen \in Snapshot /\ request \in Request
  BY TaskFields, LoopAssumption DEF RegisterWrite, TypeOK
<1>2. Agrees(b, seen)
  BY DEF RegisterWrite, SnapshotCurrent, Reader
<1>3. CASE seen = NoEntry
  <2>1. registry' = [registry EXCEPT ![b] = FreshEntry(request, "none")]
    BY <1>3 DEF RegisterWrite
  <2>2. history' = [history EXCEPT ![b] =
                      [first |-> request.scopes, asked |-> {}, sanctioned |-> {}]]
    BY <1>3 DEF RegisterWrite
  <2>3. EntryScoped(FreshEntry(request, "none"), history'[b], b)
    BY <1>1, <2>2, ScopesFresh DEF TypeOK
  <2>4. \A a \in Agent : a # b => history'[a] = history[a]
    BY <2>2 DEF TypeOK
  <2> QED BY <1>1, <2>1, <2>3, <2>4, ScopesPatch
<1>4. CASE seen # NoEntry
  <2> DEFINE entry == ReRegistered(seen, request)
             h == IF entry.approval = "pending"
                    THEN [history[b] EXCEPT !.asked = request.scopes] ELSE history[b]
  <2>1. registry' = [registry EXCEPT ![b] = entry]
    BY <1>4 DEF RegisterWrite
  <2>2. history' = [history EXCEPT ![b] = h]
    BY <1>4 DEF RegisterWrite
  <2>3. /\ h \in History
        /\ h.first = history[b].first /\ h.sanctioned = history[b].sanctioned
        /\ entry.approval = "pending" => h.asked = request.scopes
    BY <1>1 DEF TypeOK, History, Request
  <2>4. EntryScoped(seen, history[b], b)
    BY <1>1, <1>2, <1>4 DEF ScopesInv, Agrees, EntryScoped
  <2>5. /\ entry.scopes = request.scopes
        /\ entry.approved = seen.approved
        /\ entry.approval = IF AddedScopes(seen, request) # {}
                              THEN "pending" ELSE seen.approval
    BY DEF ReRegistered, FreshEntry
  <2>6. entry.approval # "pending" =>
          /\ seen.approval # "pending"
          /\ request.scopes \subseteq seen.scopes \cup seen.approved
    BY <2>5 DEF AddedScopes
  <2>7. EntryScoped(entry, h, b)
    <3> HIDE DEF entry, h
    <3> QED BY <2>3, <2>4, <2>5, <2>6 DEF EntryScoped, Granted
  <2>8. history'[b] = h /\ \A a \in Agent : a # b => history'[a] = history[a]
    BY <1>1, <2>2 DEF TypeOK
  <2> HIDE DEF entry, h
  <2> QED BY <1>1, <2>1, <2>7, <2>8, ScopesPatch
<1> QED BY <1>3, <1>4

LEMMA ScopesApprove ==
  ASSUME TypeOK, SnapshotCurrent, ScopesInv, ApproveWrite(Loop)
  PROVE  ScopesInv'
<1>0. PICK b \in Agent : b = inflight[Loop].agent
  BY TaskFields, LoopAssumption DEF ApproveWrite, TypeOK
<1> DEFINE seen == inflight[Loop].seen
           status == DecideStatus([seen EXCEPT !.approval = "approved"])
           new == [registry[b] EXCEPT !.approval = "approved", !.status = status,
                                      !.approved = seen.scopes \cup seen.approved]
           h == [history[b] EXCEPT !.sanctioned = @ \cup history[b].asked]
<1>1. b \in Agent /\ seen \in Entry
  BY TaskFields, LoopAssumption DEF ApproveWrite, TypeOK
<1>2. Agrees(b, seen)
  BY <1>0 DEF ApproveWrite, SnapshotCurrent, Reader
<1>3. registry' = Patched(b, new) /\ history' = [history EXCEPT ![b] = h]
  BY <1>0 DEF ApproveWrite, Patched
<1>4. history'[b] = h /\ \A a \in Agent : a # b => history'[a] = history[a]
  BY <1>1, <1>3 DEF TypeOK
<1>5. ASSUME Present(b)' PROVE EntryScoped(new, h, b)
  <2>1. Present(b)
    <3> HIDE DEF new
    <3> QED BY <1>3, <1>5 DEF Patched, Present
  <2>2. registry[b] \in Entry /\ history[b] \in History
    BY <1>1, <2>1, PresentEntry DEF TypeOK
  <2>3. EntryScoped(registry[b], history[b], b)
    BY <1>1, <2>1 DEF ScopesInv
  <2>4. /\ registry[b].scopes = seen.scopes
        /\ registry[b].approved = seen.approved
    BY <1>2, <2>1 DEF Agrees
  <2>5. /\ new.scopes = seen.scopes
        /\ new.approved = seen.scopes \cup seen.approved
        /\ h.first = history[b].first
        /\ h.sanctioned = history[b].sanctioned \cup history[b].asked
    BY <2>2, <2>4 DEF Entry, History
  <2> HIDE DEF new, h
  <2> QED BY <2>3, <2>4, <2>5 DEF EntryScoped, Granted
<1> HIDE DEF new, h
<1> QED BY <1>3, <1>4, <1>5, ScopesPatch

LEMMA ScopesStep ==
  ASSUME TypeOK, SnapshotCurrent, ScopesInv, Thread = {Loop}, [Next]_vars, ~Restart
  PROVE  ScopesInv'
<1> USE LoopAssumption, PresentEntry DEF TypeOK
<1>1. CASE UNCHANGED <<registry, history>>
  BY <1>1, ScopesUnchanged
<1>2. CASE ThreadStep(Loop)
  <2>1. ASSUME NEW b \in Agent, Deregister(Loop, b)
        PROVE  ScopesInv'
    <3>1. registry' = [registry EXCEPT ![b] = NoEntry] /\ history' = history
      BY <2>1 DEF Deregister
    <3>2. ~Present(b)'
      BY <3>1 DEF Present
    <3> QED BY <3>1, <3>2, ScopesPatch
  <2>2. CASE ObserveWrite(Loop)
    <3>1. PICK b \in Agent : b = inflight[Loop].agent
      BY <2>2, TaskFields DEF ObserveWrite
    <3>2. PICK P, F, st : registry' = Patched(b, [registry[b] EXCEPT !.proven = P,
                                                         !.fresh = F, !.status = st])
      BY <2>2, <3>1 DEF ObserveWrite, Patched
    <3> DEFINE new == [registry[b] EXCEPT !.proven = P, !.fresh = F, !.status = st]
    <3>3. Present(b) => /\ new.scopes = registry[b].scopes
                        /\ new.approval = registry[b].approval
                        /\ new.approved = registry[b].approved
      BY DEF Entry
    <3>4. history' = history
      BY <2>2 DEF ObserveWrite
    <3> HIDE DEF new
    <3> QED BY <3>2, <3>3, <3>4, ScopesKept DEF new
  <2> QED BY <1>1, <1>2, <2>1, <2>2, ScopesRegister, ScopesApprove
          DEF ThreadStep, RegisterRead, RecordRequest, ObserveRead, ApproveRead, SettleTokens
<1>3. CASE LoopStep
  <2>1. CASE AnnounceWrite
    <3>1. PICK b \in Agent : b = inflight[Loop].agent
      BY <2>1, TaskFields DEF AnnounceWrite
    <3>2. inflight[Loop].request \in Request
      BY <2>1, TaskFields DEF AnnounceWrite
    <3>3. CASE inflight[Loop].seen = NoEntry
      <4>1. PICK request \in Request :
              /\ registry' = [registry EXCEPT ![b] = FreshEntry(request, "pending")]
              /\ history' = [history EXCEPT ![b] =
                   [first |-> request.scopes, asked |-> {}, sanctioned |-> {}]]
        BY <2>1, <3>1, <3>2, <3>3 DEF AnnounceWrite
      <4>2. EntryScoped(FreshEntry(request, "pending"), history'[b], b)
        BY <4>1, ScopesFresh
      <4>3. \A a \in Agent : a # b => history'[a] = history[a]
        BY <4>1
      <4> QED BY <4>1, <4>2, <4>3, ScopesPatch
    <3>4. CASE inflight[Loop].seen # NoEntry
      <4> DEFINE new == [registry[b] EXCEPT !.proven = {}, !.onboarding = "none"]
      <4>1. registry' = Patched(b, new) /\ history' = history
        BY <2>1, <3>1, <3>4 DEF AnnounceWrite, Patched
      <4>2. Present(b) => /\ new.scopes = registry[b].scopes
                          /\ new.approval = registry[b].approval
                          /\ new.approved = registry[b].approved
        BY DEF Entry
      <4> QED BY <4>1, <4>2, ScopesKept
    <3> QED BY <3>3, <3>4
  <2>2. ASSUME NEW b \in Agent, RegisterCard(b)
        PROVE  ScopesInv'
    <3> DEFINE request == [scopes |-> {}, declared |-> {}]
               new == [FreshEntry(request, "pending") EXCEPT !.proven = {}]
    <3>1. registry' = [registry EXCEPT ![b] = new]
      BY <2>2 DEF RegisterCard
    <3>2. new.scopes = {} /\ new.approved = {}
      BY DEF FreshEntry
    <3>3. EntryScoped(new, history'[b], b)
      BY <3>2 DEF EntryScoped
    <3>4. \A a \in Agent : a # b => history'[a] = history[a]
      BY <2>2 DEF RegisterCard
    <3> HIDE DEF new
    <3> QED BY <3>1, <3>3, <3>4, ScopesPatch
  <2>3. ASSUME NEW b \in Agent, NEW o, history' = history,
               \/ registry' = Patched(b, [registry[b] EXCEPT !.onboarding = o])
               \/ registry' = Patched(b, [registry[b] EXCEPT !.scopes = Magazine[b]])
        PROVE  ScopesInv'
    <3>1. PICK new : /\ registry' = Patched(b, new)
                     /\ \/ new = [registry[b] EXCEPT !.onboarding = o]
                        \/ new = [registry[b] EXCEPT !.scopes = Magazine[b]]
      BY <2>3
    <3>2. Present(b) => /\ new.scopes \in {registry[b].scopes, Magazine[b]}
                        /\ new.approval = registry[b].approval
                        /\ new.approved = registry[b].approved
      BY <3>1 DEF Entry
    <3> QED BY <2>3, <3>1, <3>2, ScopesKept
  <2>4. ASSUME NEW b \in Agent, ManagerStart(b)
        PROVE  ScopesInv'
    <3>1. registry' = Patched(b, [registry[b] EXCEPT !.onboarding = "pending"])
      BY <2>4 DEF ManagerStart, Patched
    <3>2. history' = history
      BY <2>4 DEF ManagerStart
    <3> QED BY <2>3, <3>1, <3>2
  <2>5. ASSUME NEW b \in Agent, MarkRunning(b) \/ MapIdentity(b) \/ Link(b)
        PROVE  ScopesInv'
    BY <2>3, <2>5 DEF MarkRunning, MapIdentity, Link
  <2>6. CASE ReconcileWrite \/ CheckWrite
    <3>1. PICK b \in Agent : b = inflight[Loop].agent
      BY <2>6, TaskFields DEF ReconcileWrite, CheckWrite
    <3>2. PICK P, st :
            \/ registry' = Patched(b, [registry[b] EXCEPT !.proven = P, !.status = st])
            \/ registry' = Patched(b, [registry[b] EXCEPT !.status = st])
      BY <2>6, <3>1 DEF ReconcileWrite, CheckWrite, Patched
    <3>3. PICK new : /\ registry' = Patched(b, new)
                     /\ \/ new = [registry[b] EXCEPT !.proven = P, !.status = st]
                        \/ new = [registry[b] EXCEPT !.status = st]
      BY <3>2
    <3>4. Present(b) => /\ new.scopes = registry[b].scopes
                        /\ new.approval = registry[b].approval
                        /\ new.approved = registry[b].approved
      BY <3>3 DEF Entry
    <3>5. history' = history
      BY <2>6 DEF ReconcileWrite, CheckWrite
    <3> QED BY <3>3, <3>4, <3>5, ScopesKept
  <2> QED BY <1>1, <1>3, <2>1, <2>2, <2>4, <2>5, <2>6
          DEF LoopStep, AnnounceRead, ReconcileRead, CheckRead, CheckMissing, ManagerList
<1>4. CASE Environment
  <2>1. ASSUME NEW b \in Agent, NEW hook \in Hook, Lapse(b, hook)
        PROVE  ScopesInv'
    <3> DEFINE new == [registry[b] EXCEPT !.fresh = @ \ {hook}]
    <3>1. registry' = Patched(b, new) /\ history' = history
      BY <2>1 DEF Lapse, Patched
    <3>2. Present(b) => /\ new.scopes = registry[b].scopes
                        /\ new.approval = registry[b].approval
                        /\ new.approved = registry[b].approved
      BY DEF Entry
    <3> QED BY <3>1, <3>2, ScopesKept
  <2> QED BY <1>1, <1>4, <2>1 DEF Environment, ExpireTokens
<1> QED BY <1>1, <1>2, <1>3, <1>4 DEF Next, vars

LEMMA SpendGrows ==
  ASSUME TypeOK, NEW event \in Event, Spend(event)
  PROVE  spent'["restart"] >= spent["restart"]
BY DEF TypeOK, Spend, Event

(* Before the first restart no step was one.                               *)
LEMMA NoRestartYet ==
  ASSUME TypeOK, [Next]_vars, spent'["restart"] = 0
  PROVE  spent["restart"] = 0 /\ ~Restart
<1>1. spent["restart"] \in Nat /\ spent'["restart"] >= 0
  BY DEF TypeOK, Event
<1>2. ~Restart
  <2>1. SUFFICES ASSUME Spend("restart")
                 PROVE  FALSE
    BY DEF Restart
  <2>2. spent'["restart"] = spent["restart"] + 1
    BY <2>1 DEF TypeOK, Spend, Event
  <2>3. QED BY <1>1, <2>2
<1>3. UNCHANGED spent \/ \E event \in Event : Spend(event)
  <2>1. CASE \E t \in Thread : ThreadStep(t)
    BY <2>1 DEF ThreadStep, RegisterRead, RegisterWrite, RecordRequest, Deregister,
                ObserveRead, ObserveWrite, ApproveRead, ApproveWrite, SettleTokens, Event
  <2>2. CASE LoopStep
    BY <2>2 DEF LoopStep, AnnounceRead, AnnounceWrite, RegisterCard, ReconcileRead,
                ReconcileWrite, ManagerStart, ManagerList, MarkRunning, MapIdentity,
                CheckRead, CheckMissing, CheckWrite, Link, Event
  <2>3. CASE Environment
    BY <2>3 DEF Environment, Lapse, ExpireTokens, Restart, Event
  <2>4. QED BY <2>1, <2>2, <2>3 DEF Next, vars
<1>4. spent'["restart"] >= spent["restart"]
  BY <1>1, <1>3, SpendGrows
<1>5. QED BY <1>1, <1>2, <1>4

(* When handlers do not interleave, and until the radar restarts, an       *)
(* active agent holds no write scope that was not first declared, allowed  *)
(* by the operator or assigned by the magazine.                            *)
THEOREM SerialScopes ==
  ASSUME Thread = {Loop}
  PROVE  Spec => []ActiveScopesGranted
<1> DEFINE Inv == SerialInv /\ (spent["restart"] = 0 => ScopesInv)
<1>1. Init => Inv
  <2> SUFFICES ASSUME Init PROVE Inv
    OBVIOUS
  <2>1. SnapshotCurrent
    BY LoopAssumption DEF Init, SnapshotCurrent, Idle, Reader
  <2>2. GatedWhilePending /\ ScopesInv
    BY DEF Init, GatedWhilePending, ScopesInv, Pending, Present
  <2> QED BY <2>1, <2>2, TypeInit DEF SerialInv
<1>2. Inv /\ [Next]_vars => Inv'
  <2>1. SUFFICES ASSUME Inv, [Next]_vars
                 PROVE  Inv'
    OBVIOUS
  <2>2. SerialInv'
    BY <2>1, SerialStep
  <2>3. ASSUME spent'["restart"] = 0
        PROVE  ScopesInv'
    <3>1. TypeOK /\ SnapshotCurrent
      BY <2>1 DEF SerialInv
    <3>2. spent["restart"] = 0 /\ ~Restart
      BY <2>1, <2>3, <3>1, NoRestartYet
    <3>3. QED BY <2>1, <3>1, <3>2, ScopesStep
  <2>4. QED BY <2>2, <2>3
<1>3. Inv => ActiveScopesGranted
  BY DEF SerialInv, ScopesInv, EntryScoped, Granted, GatedWhilePending,
         ActiveScopesGranted, Pending, Active
<1> QED BY <1>1, <1>2, <1>3, PTL DEF Spec
=============================================================================
